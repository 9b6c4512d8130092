\* Three calls of a page over three releases, one FFT worker, two attempts per
\* shard.  A page whose calls have returned stops.
CONSTANTS
  c1 = c1
  c2 = c2
  c3 = c3
  f1 = f1
  None = None
  Nothing = None
  Calls = {c1, c2, c3}
  Releases <- MCReleases
  Header = 1
  ElemSizes = {1, 2}
  MaxAttempts = 2
  FFTWorkers = {f1}
  Vectors = {1, 2}
  Phases = 1
  Scenarios <- MCScenarios
  Owned <- MCOwned
  FirstHSection = 1
  LastHSection = 2
SPECIFICATION FairSpec
INVARIANTS CoherentBundle ProofIsExact ProofInputsRight NoWorkerLeaks
PROPERTIES CallsReturn
CHECK_DEADLOCK FALSE
