\* Two auditors, two candidate directories and two audit paths, whose contents
\* may be discarded and made again while a release is being signed.
CONSTANTS
  a1 = a1
  a2 = a2
  d1 = d1
  d2 = d2
  f1 = f1
  f2 = f2
  s1 = s1
  r1 = r1
  Nothing = Nothing
  Replayed = Replayed
  WrongKeys = WrongKeys
  Auditors = {a1, a2}
  CandidateDirs = {d1, d2}
  Paths = {f1, f2}
  Signers = {s1}
  ReleaseDirs = {r1}
  FinalizedAt = {1, 2}
  AuditedAt = {2, 3}
  AssembledAt = {1, 4}
  ReleasedAt = {4}
SYMMETRY Symmetry
SPECIFICATION ReleaseSpec
INVARIANTS ReleaseVerifies ReleasedKeysWereReplayed ReleaseIndependentlyAudited
