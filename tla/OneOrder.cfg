SPECIFICATION Spec
CONSTANTS
    Order = {o1}
    Payment = {p1, p2}
    Customer = {c1, c2}
    Branch = {b1}
    Session = {s1, s2}
    HomeBranch <- AllAtOneBranch
    WalletBranch <- AllFromOneBranch
    Amount = {1, 2}
    Total = {1, 2}
    TopUpType = {"TOP_UP"}
    MaxLedger = 2
    None = None
SYMMETRY Symmetry
INVARIANTS TypeOK PaidMatchesPayments LedgerExplainsBalance DepositsConserved
PROPERTIES PaymentsNeverOverpay StatusRecomputed ImplementsEscrow
CHECK_DEADLOCK FALSE
