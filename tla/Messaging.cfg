SPECIFICATION FairSpec
CONSTANTS
    Threshold = 2
    Cooldown = 1
    Call = {c1, c2}
    Sock = {k1, k2, k3}
    MaxReconnects = 5
    MaxFaults = 2
    MaxFailures = 1
    Boot = Boot
    None = None
INVARIANTS WhatsAppTypeOK ClosedBelowThreshold ConnectedIsOpen
PROPERTIES ReconnectsReplace ReconnectingEnds BreakerRecovers
