\* A scheduler without work stops.
SPECIFICATION FairSpec
CONSTANTS
    a = a
    z = z
    None = None
    Handles <- TwoSections
    Engines <- TwoEngines
    Workers = 2
INVARIANTS SchedulerInv ExactSum FailureSettlesAll NoUseAfterCollect
PROPERTIES OutcomeFinal CollectReturns
CHECK_DEADLOCK FALSE
