SPECIFICATION FairSpec
CONSTANTS
    Item = {i1}
    Movement = {m1, m2}
    Session = {s1, s2}
    Quantity <- SmallQuantities
    Limit = 2
    None = None
INVARIANTS StockTypeOK MovementsHaveItems MovementsExplainQuantity
PROPERTIES OutsAreCovered StockRequestsEnd
CHECK_DEADLOCK FALSE
