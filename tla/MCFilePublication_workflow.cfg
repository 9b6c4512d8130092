\* The entry point the ceremony workflow uses, one publisher that is killed
\* and calls again, on a file system whose link errors can be believed.
CONSTANTS
  p1 = p1
  c1 = c1
  None = None
  Publishers = {p1}
  Contents = {c1}
  Entries = {"WriteOrExact"}
  LostAnswers = FALSE
  MaxTries = 2
SPECIFICATION Spec
INVARIANTS ReportedIsDurable
