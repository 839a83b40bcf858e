SPECIFICATION Spec
CONSTANTS
    Order = {o1}
    Payment = {p1}
    Customer = {c1, c2}
    Branch = {b1}
    Session = {s1}
    HomeBranch <- AllAtOneBranch
    WalletBranch <- AllFromOneBranch
    Amount = {1}
    Total = {1}
    TopUpType = {"TOP_UP"}
    MaxLedger = 1
    None = None
PROPERTIES RefundsTheWalletCharged
CHECK_DEADLOCK FALSE
