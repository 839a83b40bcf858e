SPECIFICATION OutboxFairSpec
CONSTANTS
    Tab = {t1}
    OrderKey = {o1}
    CustomerKey = {k1, k2}
    WalkInPhone = {ph}
    Attempts = 2
    Chunk = 2
    NetworkLoses = TRUE
    Handler = {h1}
    Key = {o1, k1, k2}
    Customer = {c1, c2}
    Phone = {ph}
    Prefix = {d1}
    MaxOrders = 9
    MaxSeq = 9
    FailsAt = {"lookup", "phone"}
    Others = {}
    None = None
INVARIANTS OutboxTypeOK
PROPERTIES DrainsEnd RequestsAnswered
CHECK_DEADLOCK FALSE
