SPECIFICATION FairSpec
CONSTANTS
    Order = {o1, o2}
    Payment = {p1, p2}
    Customer = {c1}
    Branch = {b1, b2}
    Session = {s1, s2}
    HomeBranch <- EachAtOwnBranch
    WalletBranch <- AllFromOneBranch
    Amount = {1}
    Total = {1}
    TopUpType = {"TOP_UP", "DEDUCTION"}
    MaxLedger = 2
    None = None
PROPERTIES RequestsFinish
CHECK_DEADLOCK FALSE
