SPECIFICATION DrainedAgainSpec
CONSTANTS
    Tab = {t1}
    OrderKey = {o1}
    CustomerKey = {k1, k2}
    WalkInPhone = {ph}
    Attempts = 1
    Chunk = 1
    NetworkLoses = TRUE
    Handler = {h1}
    Key = {o1, k1, k2}
    Customer = {c1, c2, c3}
    Phone = {ph}
    Prefix = {d1}
    MaxOrders = 9
    MaxSeq = 9
    FailsAt = {}
    Others = {}
    None = None
PROPERTIES ParkedOrdersRetried
CHECK_DEADLOCK FALSE
