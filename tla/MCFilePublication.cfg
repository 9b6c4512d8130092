\* Two concurrent publishers, two candidate contents, two calls each, through
\* all three entry points.
CONSTANTS
  p1 = p1
  p2 = p2
  c1 = c1
  c2 = c2
  None = None
  Publishers = {p1, p2}
  Contents = {c1, c2}
  Entries = {"NoReplace", "NoReplaceOrExact", "WriteOrExact"}
  LostAnswers = TRUE
  MaxTries = 2
SPECIFICATION Spec
INVARIANTS SyncedIsDurable CommitStateHonest
PROPERTIES ImplementsWriteOnce
