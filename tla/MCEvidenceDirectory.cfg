\* One coordinator alone with four faults, or two that overlap with one fault.
CONSTANTS
  k1 = k1
  k2 = k2
  r1 = r1
  r2 = r2
  t1 = t1
  t2 = t2
  None = None
  NoDir = NoDir
  Coordinators = {k1, k2}
  Payloads = {r1, r2}
  Stamps = {t1, t2}
  Scenarios <- AloneOrOverlap
SPECIFICATION FairSpec
INVARIANTS RecordIsAuthenticated
PROPERTIES SoleRecordIsPermanent RetryCompletes
