\* One participant in phase 1 and two in phase 2, of whom a rehearsal needs
\* one; the coordinator's clock may be three units slow.  A ceremony ends.
CONSTANTS
  w1 = w1
  w2 = w2
  d1 = d1
  d2 = d2
  None = None
  Wrong = Wrong
  Scheduled <- MCScheduled
  Minimum <- MCMinimum
  Modes = {"production", "rehearsal"}
  Rounds = {2, 3}
  Period = 3
  MinLead = 2
  Offsets <- MCOffsets
  Stamps = {1, 2, 9}
  MaxTime = 9
  Witnesses = {w1, w2}
  Quorum = 2
  Dirs = {d1, d2}
SYMMETRY Symmetry
SPECIFICATION Spec
CHECK_DEADLOCK FALSE
INVARIANTS Phase2OnDerivedCommons KeysOfClosedChains Finalizable
  ReleasedClosuresWerePublic EveryoneContributed
