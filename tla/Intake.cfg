SPECIFICATION Spec
CONSTANTS
    Handler = {h1, h2}
    Key = {k1, k2}
    Customer = {c1}
    Phone = {ph}
    Prefix = {d1, d2}
    MaxOrders = 2
    MaxSeq = 2
    FailsAt = {"lookup", "lock", "number", "insert", "phone", "newcustomer"}
    Others = {"edit order", "delete order", "edit customer", "delete customer"}
    None = None
SYMMETRY Symmetry
INVARIANTS IntakeTypeOK OneOrderPerKey AllocatedNumbersFree OvershootBounded
PROPERTIES AnswersAreOrders
CHECK_DEADLOCK FALSE
