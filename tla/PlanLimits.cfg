SPECIFICATION FairSpec
CONSTANTS
    Plan = {Free, Pro}
    Free = Free
    MaxOf <- SmallPlans
    Session = {s1, s2}
    TTL = 2
    Patience = 1
    MaxUsed = 3
    MaxChanges = 2
    None = None
INVARIANTS LimitsTypeOK LimitsAreRecent StaleOnlyIfExcused
PROPERTIES CreatedWithinLimit LimitsSettle
CHECK_DEADLOCK FALSE
