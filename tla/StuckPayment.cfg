SPECIFICATION RedeliveredSpec
CONSTANTS
    Tenant = {t1}
    Payment = {p1, p2}
    Promo = {c1}
    Session = {s1}
    TenantOf <- AllOfOneTenant
    MaxRedemptions <- NoLimits
    Months = {1}
    Days = {}
    TrialLength = 0
    MaxNow = 0
    MaxEnd = 1
    MaxRefunds = 0
    None = None
PROPERTIES CapturedPaymentsSettle
CHECK_DEADLOCK FALSE
