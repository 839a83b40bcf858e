SPECIFICATION FairSpec
CONSTANTS
    Tenant = {t1}
    Payment = {p1, p2}
    Promo = {c1}
    Session = {s1, s2}
    TenantOf <- AllOfOneTenant
    MaxRedemptions <- NoLimits
    Months = {1}
    Days = {1}
    TrialLength = 0
    MaxNow = 1
    MaxEnd = 1
    MaxRefunds = 1
    None = None
INVARIANTS BillingTypeOK SettledOncePerRefund RedeemedOncePerTenant CoverageInLockstep
PROPERTIES BillingRequestsEnd
CHECK_DEADLOCK FALSE
