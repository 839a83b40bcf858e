SPECIFICATION OutboxSpec
CONSTANTS
    Tab = {t1, t2}
    OrderKey = {o1}
    CustomerKey = {k1, k2}
    WalkInPhone = {None}
    Attempts = 1
    Chunk = 1
    NetworkLoses = FALSE
    Handler = {h1}
    Key = {o1, k1, k2}
    Customer = {c1, c2}
    Phone = {ph}
    Prefix = {d1}
    MaxOrders = 9
    MaxSeq = 9
    FailsAt = {"insert"}
    Others = {"delete order"}
    None = None
SYMMETRY Symmetry
INVARIANTS SyncedOrdersWereMade OrdersMadeForTheirCustomer
CHECK_DEADLOCK FALSE
