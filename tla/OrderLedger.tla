----------------------------- MODULE OrderLedger -----------------------------
(***************************************************************************)
(* The money side of the orders module: orders, their payments, and the    *)
(* prepaid deposit wallets of the customers, as the API's transactions     *)
(* change them.  A request is a database transaction in a session: it      *)
(* starts by locking rows (SELECT ... FOR UPDATE), reads, possibly waits   *)
(* for a second lock, and commits all of its writes at once.  Postgres     *)
(* runs at READ COMMITTED, so what serialises two requests is only the     *)
(* locks the code asks for: what a request read before its last wait is    *)
(* kept in req and used afterwards, as the Go locals are.                  *)
(*                                                                         *)
(* A row lock is not a variable: who holds it follows from the phase and   *)
(* the operands of each session.                                           *)
(***************************************************************************)
EXTENDS Integers, Sequences, FiniteSets, Functions

CONSTANTS
    Order,         \* ids an "Order" row may get
    Payment,       \* ids a "Payment" row may get (uuids: never reused)
    Customer,
    Branch,
    Session,       \* database sessions, one request at a time each
    HomeBranch,    \* [Order -> Branch]: the branch an order is taken at
    WalletBranch,  \* [Customer -> Branch]: the customer's own branch
    Amount,        \* amounts a cashier may type; the routes refuse <= 0
    Total,         \* totals the pricing of an order may come to
    TopUpType,     \* DepositTransaction types a top-up request may name
    MaxLedger,     \* bound: no top-up once a wallet has this many rows
    None           \* no customer, no order, no payment

ASSUME LedgerAssumption ==
    /\ HomeBranch \in [Order -> Branch]
    /\ WalletBranch \in [Customer -> Branch]
    /\ IsFiniteSet(Customer)
    /\ Amount \subseteq Nat \ {0}
    /\ Total \subseteq Nat
    /\ TopUpType \subseteq {"TOP_UP", "DEDUCTION", "REFUND", "ADJUSTMENT"}
    /\ MaxLedger \in Nat
    /\ None \notin Order \cup Payment \cup Customer

VARIABLES
    order,     \* the "Order" table
    payments,  \* the "Payment" table, a set of rows
    issued,    \* payment ids generated so far
    balance,   \* "Customer".balance
    ledger,    \* "DepositTransaction" rows of each customer, oldest first
    toppedUp,  \* not a column: the sum of all committed top-ups
    pc,        \* the phase each session's transaction is in
    req        \* what that transaction was asked for and has read

vars == <<order, payments, issued, balance, ledger, toppedUp, pc, req>>

-----------------------------------------------------------------------------
(* Rows *)

Method == {"CASH", "DEPOSIT"}   \* CASH stands for CASH, TRANSFER and QRIS

PaymentStatus == {"PENDING", "PARTIAL", "PAID"}

OrderRow ==
    [stage: {"unborn", "live", "deleted"}, customerId: Customer \cup {None},
     totalAmount: Nat, paidAmount: Nat, paymentStatus: PaymentStatus]

\* payer is not a column: it remembers whose wallet a DEPOSIT payment charged.
PaymentRow ==
    [id: Payment, orderId: Order, amount: Nat, method: Method, payer: Customer]

LedgerRow ==
    [type: {"TOP_UP", "DEDUCTION", "REFUND", "ADJUSTMENT"},
     amount: Nat, balanceAfter: Nat]

Phase == {"idle", "charge", "settle", "void", "delete", "topup"}

\* The Go locals of a request; wallet is the new balance it is going to write.
Request ==
    [order: Order \cup {None}, customer: Customer \cup {None},
     payment: Payment \cup {None}, method: Method, amount: Nat,
     total: Nat, paid: Nat, wallet: Nat,
     type: {"TOP_UP", "DEDUCTION", "REFUND", "ADJUSTMENT"}]

NoRequest ==
    [order |-> None, customer |-> None, payment |-> None, method |-> "CASH",
     amount |-> 0, total |-> 0, paid |-> 0, wallet |-> 0, type |-> "TOP_UP"]

\* What SELECT totalAmount, paidAmount, customerId ... FOR UPDATE returns.
Read(o) ==
    [NoRequest EXCEPT !.order = o, !.customer = order[o].customerId,
                      !.total = order[o].totalAmount, !.paid = order[o].paidAmount]

PaymentsOf(o) == {p \in payments : p.orderId = o}

DepositsOf(o) == {p \in PaymentsOf(o) : p.method = "DEPOSIT"}

SumAmounts(rows) == SumFunction([r \in rows |-> r.amount])

-----------------------------------------------------------------------------
(* Row locks *)

\* FOR UPDATE on "Order" JOIN "Branch" locks the order row and its branch row.
HoldsOrder(s, o) ==
    pc[s] \in {"charge", "settle", "void", "delete"} /\ req[s].order = o

HoldsBranch(s, b) ==
    pc[s] \in {"charge", "settle", "void", "delete"} /\ HomeBranch[req[s].order] = b

\* A deposit payment locks the wallet FOR UPDATE, a top-up by its UPDATE.
ChargesWallet(s, c) ==
    pc[s] = "settle" /\ req[s].method = "DEPOSIT" /\ req[s].customer = c

HoldsWallet(s, c) ==
    ChargesWallet(s, c) \/ (pc[s] = "topup" /\ req[s].customer = c)

\* Mutant: an edit does not wait for the order's row lock.
OrderRowIgnored(o) == TRUE

OrderFree(o) == \A s \in Session : ~HoldsOrder(s, o)

BranchFree(b) == \A s \in Session : ~HoldsBranch(s, b)
\* Mutant: the handlers read the order without FOR UPDATE.
OrderReadUnlocked(o) == TRUE

\* FOR UPDATE locks both rows of the join before the statement returns.
OrderLockable(o) == OrderFree(o) /\ BranchFree(HomeBranch[o])

\* Mutant: the wallet is read without FOR UPDATE.
WalletReadUnlocked(c) == TRUE

WalletFree(c) == \A s \in Session : ~HoldsWallet(s, c)

\* A foreign-key check takes KEY SHARE, which only FOR UPDATE blocks.
WalletReferable(c) == \A s \in Session : ~ChargesWallet(s, c)

\* t holds the lock s needs next.
WaitsOn(s, t) ==
    /\ s # t
    /\ \/ pc[s] = "charge" /\ HoldsWallet(t, req[s].customer)
       \/ pc[s] = "void" /\ req[s].method = "DEPOSIT" /\ HoldsWallet(t, req[s].customer)
       \/ pc[s] = "delete" /\ req[s].amount > 0 /\ HoldsWallet(t, req[s].customer)
       \/ pc[s] = "topup" /\ HoldsBranch(t, WalletBranch[req[s].customer])

Deadlocked(s) ==
    \E S \in SUBSET Session :
        /\ s \in S
        /\ \A x \in S : (\E y \in S : WaitsOn(x, y)) /\ (\E y \in S : WaitsOn(y, x))

Enter(s, phase, r) ==
    /\ pc[s] = "idle"
    /\ pc' = [pc EXCEPT ![s] = phase]
    /\ req' = [req EXCEPT ![s] = r]

Leave(s) ==
    /\ pc' = [pc EXCEPT ![s] = "idle"]
    /\ req' = [req EXCEPT ![s] = NoRequest]

\* The wallet's new balance and the DepositTransaction row that explains it.
Post(c, type, amount, after) ==
    /\ balance' = [balance EXCEPT ![c] = after]
    /\ ledger' = [ledger EXCEPT ![c] =
                    Append(@, [type |-> type, amount |-> amount, balanceAfter |-> after])]

-----------------------------------------------------------------------------
Init ==
    /\ order = [o \in Order |-> [stage |-> "unborn", customerId |-> None,
                                 totalAmount |-> 0, paidAmount |-> 0,
                                 paymentStatus |-> "PENDING"]]
    /\ payments = {}
    /\ issued = {}
    /\ balance = [c \in Customer |-> 0]
    /\ ledger = [c \in Customer |-> <<>>]
    /\ toppedUp = 0
    /\ pc = [s \in Session |-> "idle"]
    /\ req = [s \in Session |-> NoRequest]

\* Create: the INSERT waits only for the rows its foreign keys reference.
CreateOrder(o, c, t) ==
    /\ order[o].stage = "unborn"
    /\ BranchFree(HomeBranch[o])
    /\ WalletReferable(c)
    /\ order' = [order EXCEPT ![o] = [stage |-> "live", customerId |-> c,
                                      totalAmount |-> t, paidAmount |-> 0,
                                      paymentStatus |-> "PENDING"]]
    /\ UNCHANGED <<payments, issued, balance, ledger, toppedUp, pc, req>>

\* Update takes no lock until its UPDATE, and writes no payment column.
UpdateOrder(o, c, t) ==
    /\ order[o].stage = "live"
    /\ OrderFree(o)
    /\ c # order[o].customerId => WalletReferable(c)
    /\ order' = [order EXCEPT ![o].customerId = c, ![o].totalAmount = t]
    /\ UNCHANGED <<payments, issued, balance, ledger, toppedUp, pc, req>>

(* RecordPayment: lock and guard, charge the wallet (DEPOSIT only), commit. *)

WithinRemaining(o, a) == order[o].paidAmount + a <= order[o].totalAmount

BeginPayment(s, o, p, a, m) ==
    /\ order[o].stage = "live"
    /\ OrderLockable(o)
    /\ WithinRemaining(o, a)
    /\ p \notin issued
    /\ issued' = issued \cup {p}
    /\ Enter(s, IF m = "DEPOSIT" THEN "charge" ELSE "settle",
             [Read(o) EXCEPT !.payment = p, !.amount = a, !.method = m])
    /\ UNCHANGED <<order, payments, balance, ledger, toppedUp>>

\* Mutant: the overdraft guard is forgotten.
CoversAnything(c, a) == TRUE

Covers(c, a) == balance[c] >= a

ChargeWallet(s) ==
    LET r == req[s] IN
    /\ pc[s] = "charge"
    /\ WalletFree(r.customer)
    /\ Covers(r.customer, r.amount)
    /\ pc' = [pc EXCEPT ![s] = "settle"]
    /\ req' = [req EXCEPT ![s].wallet = balance[r.customer] - r.amount]
    /\ UNCHANGED <<order, payments, issued, balance, ledger, toppedUp>>

\* Mutant: the refused payment returns without defer tx.Rollback().
RefusedWithoutRollback(s) == pc[s] = "charge" /\ UNCHANGED vars

InsufficientDeposit(s) ==
    /\ pc[s] = "charge"
    /\ WalletFree(req[s].customer)
    /\ ~Covers(req[s].customer, req[s].amount)
    /\ Leave(s)
    /\ UNCHANGED <<order, payments, issued, balance, ledger, toppedUp>>

StatusAfterPayment(paid, total) == IF paid >= total THEN "PAID" ELSE "PARTIAL"

CommitPayment(s) ==
    LET r == req[s]
        newPaid == r.paid + r.amount IN
    /\ pc[s] = "settle"
    /\ payments' = payments \cup
          {[id |-> r.payment, orderId |-> r.order, amount |-> r.amount,
            method |-> r.method, payer |-> r.customer]}
    /\ IF r.method = "DEPOSIT"
       THEN Post(r.customer, "DEDUCTION", r.amount, r.wallet)
       ELSE UNCHANGED <<balance, ledger>>
    /\ order' = [order EXCEPT
          ![r.order].paidAmount = newPaid,
          ![r.order].paymentStatus = StatusAfterPayment(newPaid, r.total)]
    /\ Leave(s)
    /\ UNCHANGED <<issued, toppedUp>>

(* VoidPayment: lock, read the payment, then refund and commit. *)

BeginVoid(s, o, p) ==
    /\ order[o].stage = "live"
    /\ OrderLockable(o)
    /\ p \in PaymentsOf(o)
    /\ Enter(s, "void", [Read(o) EXCEPT !.payment = p.id, !.amount = p.amount,
                                        !.method = p.method])
    /\ UNCHANGED <<order, payments, issued, balance, ledger, toppedUp>>

\* Mutant: a void never leaves an order PAID.
StatusAfterVoidIsOpen(paid, total) == IF paid > 0 THEN "PARTIAL" ELSE "PENDING"

StatusAfterVoid(paid, total) ==
    IF paid >= total THEN "PAID" ELSE IF paid > 0 THEN "PARTIAL" ELSE "PENDING"

CommitVoid(s) ==
    LET r == req[s]
        newPaid == IF r.paid < r.amount THEN 0 ELSE r.paid - r.amount IN
    /\ pc[s] = "void"
    /\ payments' = {p \in payments : p.id # r.payment}
    /\ IF r.method = "DEPOSIT"
       THEN /\ WalletFree(r.customer)
            /\ Post(r.customer, "REFUND", r.amount, balance[r.customer] + r.amount)
       ELSE UNCHANGED <<balance, ledger>>
    /\ order' = [order EXCEPT
          ![r.order].paidAmount = newPaid,
          ![r.order].paymentStatus = StatusAfterVoid(newPaid, r.total)]
    /\ Leave(s)
    /\ UNCHANGED <<issued, toppedUp>>

(* Delete: lock, sum the DEPOSIT payments, then refund and remove the rows. *)

\* Mutant: Delete reads the deposits without locking the order (the double
\* refund the comment above its FOR UPDATE describes).
BeginDeleteUnlocked(s, o) ==
    /\ order[o].stage = "live"
    /\ Enter(s, "delete", [Read(o) EXCEPT !.amount = SumAmounts(DepositsOf(o))])
    /\ UNCHANGED <<order, payments, issued, balance, ledger, toppedUp>>

BeginDelete(s, o) ==
    /\ order[o].stage = "live"
    /\ OrderLockable(o)
    /\ Enter(s, "delete", [Read(o) EXCEPT !.amount = SumAmounts(DepositsOf(o))])
    /\ UNCHANGED <<order, payments, issued, balance, ledger, toppedUp>>

CommitDelete(s) ==
    LET r == req[s] IN
    /\ pc[s] = "delete"
    /\ IF r.amount > 0
       THEN /\ WalletFree(r.customer)
            /\ Post(r.customer, "REFUND", r.amount, balance[r.customer] + r.amount)
       ELSE UNCHANGED <<balance, ledger>>
    /\ payments' = payments \ PaymentsOf(r.order)
    /\ order' = [order EXCEPT ![r.order].stage = "deleted"]
    /\ Leave(s)
    /\ UNCHANGED <<issued, toppedUp>>

(* TopUpDeposit: the UPDATE locks the wallet, the audit row waits for the branch. *)

BeginTopUp(s, c, a, type) ==
    /\ WalletFree(c)
    /\ Len(ledger[c]) < MaxLedger
    /\ Enter(s, "topup", [NoRequest EXCEPT !.customer = c, !.amount = a, !.type = type,
                                           !.wallet = balance[c] + a])
    /\ UNCHANGED <<order, payments, issued, balance, ledger, toppedUp>>

CommitTopUp(s) ==
    LET r == req[s] IN
    /\ pc[s] = "topup"
    /\ BranchFree(WalletBranch[r.customer])
    /\ Post(r.customer, r.type, r.amount, r.wallet)
    /\ toppedUp' = toppedUp + r.amount
    /\ Leave(s)
    /\ UNCHANGED <<order, payments, issued>>

\* A cancelled request, a lost connection or a crash rolls the transaction back.
Rollback(s) ==
    /\ pc[s] # "idle"
    /\ Leave(s)
    /\ UNCHANGED <<order, payments, issued, balance, ledger, toppedUp>>

\* Postgres aborts a member of every cycle of waiting transactions.
DeadlockVictim(s) == Deadlocked(s) /\ Rollback(s)

-----------------------------------------------------------------------------
SessionStep(s) ==
    \/ ChargeWallet(s) \/ InsufficientDeposit(s)
    \/ CommitPayment(s) \/ CommitVoid(s) \/ CommitDelete(s) \/ CommitTopUp(s)

Next ==
    \/ \E o \in Order, c \in Customer, t \in Total :
          CreateOrder(o, c, t) \/ UpdateOrder(o, c, t)
    \/ \E s \in Session, o \in Order :
          \/ \E p \in Payment, a \in Amount, m \in Method : BeginPayment(s, o, p, a, m)
          \/ \E p \in payments : BeginVoid(s, o, p)
          \/ BeginDelete(s, o)
    \/ \E s \in Session, c \in Customer, a \in Amount, type \in TopUpType :
          BeginTopUp(s, c, a, type)
    \/ \E s \in Session : SessionStep(s) \/ Rollback(s) \/ DeadlockVictim(s)

Spec == Init /\ [][Next]_vars

\* Every statement of a running request is eventually executed, row-lock queues
\* are first come first served, and the deadlock detector runs after a timeout.
FairSpec ==
    /\ Spec
    /\ \A s \in Session : SF_vars(SessionStep(s)) /\ WF_vars(DeadlockVictim(s))

-----------------------------------------------------------------------------
(* Properties *)

\* Every table and every local keeps its type; in particular no wallet and no
\* paidAmount is ever negative, which RecordPayment's overdraft guard and the
\* clamp of VoidPayment are there for.
TypeOK ==
    /\ order \in [Order -> OrderRow]
    /\ payments \subseteq PaymentRow
    /\ issued \subseteq Payment
    /\ balance \in [Customer -> Nat]
    /\ ledger \in [Customer -> Seq(LedgerRow)]
    /\ toppedUp \in Nat
    /\ pc \in [Session -> Phase]
    /\ req \in [Session -> Request]

\* An order's paidAmount column always equals the sum of its Payment rows,
\* although RecordPayment and VoidPayment write it from a value read earlier.
PaidMatchesPayments ==
    \A o \in Order : order[o].stage = "live" =>
        order[o].paidAmount = SumAmounts(PaymentsOf(o))

\* The DepositTransaction rows explain the balance: each row's balanceAfter
\* follows from the row before it, and the last one is the wallet's balance.
Explains(before, row) ==
    \/ row.balanceAfter = before + row.amount
    \/ row.type = "DEDUCTION" /\ row.balanceAfter = before - row.amount

BalanceAfter(rows, i) == IF i = 0 THEN 0 ELSE rows[i].balanceAfter

LedgerExplainsBalance ==
    \A c \in Customer :
        /\ \A i \in 1 .. Len(ledger[c]) :
              Explains(BalanceAfter(ledger[c], i - 1), ledger[c][i])
        /\ balance[c] = BalanceAfter(ledger[c], Len(ledger[c]))

\* Money put in the wallets is either still there or in a DEPOSIT payment of an
\* order: a payment is never refunded twice (Delete racing VoidPayment) and
\* deleting an order never loses the deposit that paid for it.
DepositsConserved ==
    SumFunction(balance) + SumAmounts({p \in payments : p.method = "DEPOSIT"})
        = toppedUp

\* A Payment row belongs to an order that still exists.
PaymentsHaveOrders == \A p \in payments : order[p.orderId].stage = "live"

\* "Never accept more than the remaining balance": the step that records a
\* payment leaves the order paid up to its total at that moment, even when the
\* order was edited or another payment recorded in the meantime.
PaymentsNeverOverpay ==
    [][\A o \in Order :
          (order[o].stage = "live" /\ order'[o].paidAmount > order[o].paidAmount)
              => order'[o].paidAmount <= order'[o].totalAmount]_vars

\* Whenever a payment is recorded or voided, paymentStatus is brought in line
\* with the amount paid and the total the order has at that moment.
StatusRecomputed ==
    [][\A o \in Order :
          (order[o].stage = "live" /\ order'[o].paidAmount # order[o].paidAmount)
              => /\ order'[o].paymentStatus = "PAID"
                       <=> order'[o].paidAmount >= order'[o].totalAmount
                 /\ order'[o].paymentStatus = "PENDING" => order'[o].paidAmount = 0]_vars

\* Every request ends: committed, refused, or chosen as a deadlock victim.
RequestsFinish == \A s \in Session : pc[s] # "idle" ~> pc[s] = "idle"

(* Why the properties hold: an inductive invariant, in parts. *)

\* Sessions holding the row locks of an order; paying ones have a Payment row
\* of their own that is not visible yet.
OnOrder == {s \in Session : pc[s] \in {"charge", "settle", "void", "delete"}}

Paying == {s \in Session : pc[s] \in {"charge", "settle"}}

\* The operands of a request exist; a live order has a customer.
Operands ==
    /\ IsFiniteSet(payments)
    /\ \A o \in Order : order[o].stage = "live" => order[o].customerId \in Customer
    /\ \A s \in OnOrder : req[s].order \in Order /\ req[s].customer \in Customer
    /\ \A s \in Paying : req[s].payment \in Payment
    /\ \A s \in Session : pc[s] = "topup" =>
          req[s].customer \in Customer /\ req[s].amount \in Amount

\* No two sessions hold the same order row, or the same wallet.
LocksExclusive ==
    /\ \A s, t \in OnOrder : s # t => req[s].order # req[t].order
    /\ \A s, t \in Session, c \in Customer :
          HoldsWallet(s, c) /\ HoldsWallet(t, c) => s = t

\* Payment ids are unique, also among the rows not yet committed.
PaymentIds ==
    /\ \A p \in payments : p.id \in issued
    /\ \A p, q \in payments : p.id = q.id => p = q
    /\ \A s \in Paying : /\ req[s].payment \in issued
                         /\ \A p \in payments : p.id # req[s].payment
    /\ \A s, t \in Paying : s # t => req[s].payment # req[t].payment

\* What a session read of the order it has locked is still so.
OrderReadsFresh ==
    \A s \in OnOrder :
        LET r == req[s] IN
        /\ order[r.order].stage = "live"
        /\ r.customer = order[r.order].customerId
        /\ r.total = order[r.order].totalAmount
        /\ r.paid = order[r.order].paidAmount
        /\ pc[s] \in {"charge", "settle"} => r.paid + r.amount <= r.total
        /\ pc[s] = "charge" => r.method = "DEPOSIT"

\* What it read of the order's payments is still so.
PaymentReadsFresh ==
    /\ \A s \in Session : pc[s] = "void" =>
          \E p \in payments : /\ p.id = req[s].payment
                              /\ p.orderId = req[s].order
                              /\ p.amount = req[s].amount
                              /\ p.method = req[s].method
    /\ \A s \in Session : pc[s] = "delete" =>
          req[s].amount = SumAmounts(DepositsOf(req[s].order))

\* The new balance it computed still follows from the wallet's balance.
WalletReadsFresh ==
    /\ \A s \in Session : (pc[s] = "settle" /\ req[s].method = "DEPOSIT") =>
          balance[req[s].customer] = req[s].wallet + req[s].amount
    /\ \A s \in Session : pc[s] = "topup" =>
          req[s].wallet = balance[req[s].customer] + req[s].amount

Inv ==
    /\ TypeOK /\ Operands
    /\ LocksExclusive /\ PaymentIds
    /\ PaymentsHaveOrders
    /\ OrderReadsFresh /\ PaymentReadsFresh /\ WalletReadsFresh
    /\ PaidMatchesPayments /\ LedgerExplainsBalance /\ DepositsConserved

(* What the code does not keep: violated by a run of its own. *)

\* "Refund the customer wallet if the voided payment was a DEPOSIT": a refund
\* goes to the wallet the payment was taken from.
RefundsTheWalletCharged ==
    [][\A p \in payments \ payments' :
          p.method = "DEPOSIT" => balance'[p.payer] > balance[p.payer]]_vars
=============================================================================
