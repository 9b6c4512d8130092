\* Two requests over a constraint system that is absent or corrupt on disk;
\* a helper whose requests have ended may stop.
CONSTANTS
  r1 = r1
  r2 = r2
  Requests = {r1, r2}
  Disks = {"absent", "corrupt"}
  Warm = Warm
  None = None
  BandEnds <- MCBandEnds
  MaxUint = 2
  SoftIndexes = 2
  Branches = 2
  Inputs <- MCInputs
  ProgressEvery = 3
SPECIFICATION FairSpec
INVARIANTS SearchIsExact CorruptSystemIsNotMasked CancelledWorkIsBounded
PROPERTIES StreamInOrder RequestsEnd IdleKeyIsReleased
CHECK_DEADLOCK FALSE
