-------------------------- MODULE OrderLedgerProofs --------------------------
(***************************************************************************)
(* Proofs about OrderLedger, for any number of orders, customers, branches *)
(* and sessions.  The invariant is proved in layers, each using the ones   *)
(* before it: types and operands, exclusion by the row locks, what a       *)
(* request read is still so when it writes, and then the ledger and the    *)
(* totals.  The last part shows that the ledger implements Escrow.         *)
(***************************************************************************)
EXTENDS OrderEscrow, SumTheorems, SequenceTheorems

\* The innermost layer: types, and requests whose operands exist.
Typed == TypeOK /\ Operands

-----------------------------------------------------------------------------
(* Sums of the amounts of Payment rows. *)

\* SUM(amount) over finitely many Payment rows is a natural number.
LEMMA SumAmountsNat ==
  ASSUME NEW rows \in SUBSET PaymentRow, IsFiniteSet(rows)
  PROVE  SumAmounts(rows) \in Nat
<1> DEFINE f == [r \in rows |-> r.amount]
<1>1. \A r \in rows : f[r] \in Nat
  BY DEF PaymentRow
<1>2. DOMAIN f = rows
  OBVIOUS
<1> HIDE DEF f
<1>3. SumFunctionOnSet(f, rows) \in Nat
  BY <1>1, SumNat
<1> QED
  BY <1>2, <1>3 DEF SumAmounts, SumFunction, f

\* Inserting a row adds its amount to the sum.
LEMMA SumAmountsAdd ==
  ASSUME NEW rows \in SUBSET PaymentRow, IsFiniteSet(rows),
         NEW p \in PaymentRow, p \notin rows
  PROVE  SumAmounts(rows \cup {p}) = SumAmounts(rows) + p.amount
<1> DEFINE f == [r \in rows |-> r.amount]
           g == [r \in rows \cup {p} |-> r.amount]
<1>1. /\ \A r \in rows : f[r] \in Nat /\ g[r] \in Nat /\ f[r] = g[r]
      /\ g[p] = p.amount /\ g[p] \in Nat
      /\ DOMAIN f = rows /\ DOMAIN g = rows \cup {p}
  BY DEF PaymentRow
<1> HIDE DEF f, g
<1>2. SumFunctionOnSet(g, rows \cup {p}) = g[p] + SumFunctionOnSet(g, rows)
  BY <1>1, SumAdd
<1>3. SumFunctionOnSet(f, rows) = SumFunctionOnSet(g, rows)
  BY <1>1, SumCongruence
<1>4. SumFunctionOnSet(f, rows) \in Nat
  BY <1>1, SumNat
<1>5. SumAmounts(rows) = SumFunctionOnSet(f, rows)
  BY <1>1 DEF SumAmounts, SumFunction, f
<1>6. SumAmounts(rows \cup {p}) = SumFunctionOnSet(g, rows \cup {p})
  BY <1>1 DEF SumAmounts, SumFunction, g
<1> QED
  BY <1>1, <1>2, <1>3, <1>4, <1>5, <1>6

\* Deleting a row takes its amount out of the sum.
LEMMA SumAmountsRemove ==
  ASSUME NEW rows \in SUBSET PaymentRow, IsFiniteSet(rows), NEW p \in rows
  PROVE  SumAmounts(rows) = SumAmounts(rows \ {p}) + p.amount
<1>1. rows \ {p} \in SUBSET PaymentRow /\ IsFiniteSet(rows \ {p})
  BY FS_RemoveElement
<1>2. (rows \ {p}) \cup {p} = rows /\ p \in PaymentRow
  OBVIOUS
<1> QED
  BY <1>1, <1>2, SumAmountsAdd

\* Deleting a set of rows takes their sum out of the sum.
LEMMA SumAmountsSplit ==
  ASSUME NEW rows \in SUBSET PaymentRow, IsFiniteSet(rows), NEW part \in SUBSET rows
  PROVE  SumAmounts(rows) = SumAmounts(rows \ part) + SumAmounts(part)
<1> DEFINE f == [r \in rows |-> r.amount]
           g == [r \in part |-> r.amount]
           h == [r \in rows \ part |-> r.amount]
<1>1. /\ \A r \in rows : f[r] \in Nat
      /\ \A r \in part : f[r] = g[r]
      /\ \A r \in rows \ part : f[r] = h[r]
      /\ DOMAIN f = rows /\ DOMAIN g = part /\ DOMAIN h = rows \ part
  BY DEF PaymentRow
<1>2. /\ SumAmounts(rows) = SumFunctionOnSet(f, rows)
      /\ SumAmounts(part) = SumFunctionOnSet(g, part)
      /\ SumAmounts(rows \ part) = SumFunctionOnSet(h, rows \ part)
  BY <1>1 DEF SumAmounts, SumFunction
<1> HIDE DEF f, g, h
<1>3. IsFiniteSet(part) /\ IsFiniteSet(rows \ part)
  BY FS_Subset
<1>4. SumFunctionOnSet(f, rows) = SumFunctionOnSet(f, part) + SumFunctionOnSet(f, rows \ part)
  BY <1>1, SumSplit
<1>5. SumFunctionOnSet(f, part) \in Nat /\ SumFunctionOnSet(f, rows \ part) \in Nat
  BY <1>1, <1>3, SumNat
<1>6. SumFunctionOnSet(f, part) = SumFunctionOnSet(g, part)
  BY <1>1, <1>3, SumCongruence
<1>7. SumFunctionOnSet(f, rows \ part) = SumFunctionOnSet(h, rows \ part)
  BY <1>1, <1>3, SumCongruence
<1> QED
  BY <1>2, <1>4, <1>5, <1>6, <1>7

\* The sum of no rows is 0.
LEMMA SumAmountsEmpty == SumAmounts({}) = 0
<1> DEFINE f == [r \in {} |-> r.amount]
<1>1. DOMAIN f = {}
  OBVIOUS
<1>2. SumAmounts({}) = SumFunctionOnSet(f, {})
  BY <1>1 DEF SumAmounts, SumFunction
<1> QED
  BY <1>2, SumEmpty

-----------------------------------------------------------------------------
(* Types and operands. *)

\* The initial rows, wallets and sessions have their types.
LEMMA TypedInit == Init => Typed
<1> SUFFICES ASSUME Init PROVE Typed
  OBVIOUS
<1> USE LedgerAssumption DEF Init
<1>1. NoRequest \in Request
  BY DEF NoRequest, Request, Method
<1>2. TypeOK
  BY <1>1 DEF TypeOK, OrderRow, PaymentStatus, Phase
<1>3. Operands
  BY FS_EmptySet DEF Operands, OnOrder, Paying
<1> QED
  BY <1>2, <1>3 DEF Typed

\* The rows and locals the handlers build have their types.
LEMMA ReadTyped ==
  ASSUME Typed, NEW o \in Order, order[o].stage = "live"
  PROVE  /\ Read(o) \in Request
         /\ Read(o).order = o /\ Read(o).customer = order[o].customerId
         /\ Read(o).customer \in Customer
         /\ Read(o).total = order[o].totalAmount /\ Read(o).paid = order[o].paidAmount
  BY LedgerAssumption
     DEF Typed, TypeOK, Operands, Read, NoRequest, Request, OrderRow, Method

\* Ending a request leaves the sessions well typed.
LEMMA LeaveTyped ==
  ASSUME Typed, NEW s \in Session, Leave(s)
  PROVE  pc' \in [Session -> Phase] /\ req' \in [Session -> Request]
<1>1. NoRequest \in Request
  BY LedgerAssumption DEF NoRequest, Request, Method
<1> QED
  BY <1>1 DEF Leave, Typed, TypeOK, Phase

\* Posting to a wallet leaves the wallets and their ledgers well typed.
LEMMA PostTyped ==
  ASSUME Typed, NEW c \in Customer, NEW a \in Nat, NEW after \in Nat,
         NEW type \in {"TOP_UP", "DEDUCTION", "REFUND", "ADJUSTMENT"},
         Post(c, type, a, after)
  PROVE  balance' \in [Customer -> Nat] /\ ledger' \in [Customer -> Seq(LedgerRow)]
<1> DEFINE row == [type |-> type, amount |-> a, balanceAfter |-> after]
<1>1. row \in LedgerRow
  BY DEF LedgerRow
<1> HIDE DEF row
<1>2. Append(ledger[c], row) \in Seq(LedgerRow)
  BY <1>1, AppendProperties DEF Typed, TypeOK
<1>3. /\ balance' = [balance EXCEPT ![c] = after]
      /\ ledger' = [ledger EXCEPT ![c] = Append(ledger[c], row)]
  BY DEF Post, row
<1> QED
  BY <1>2, <1>3 DEF Typed, TypeOK

\* Every handler keeps the tables and locals typed and its operands existing.
LEMMA TypedStep == Typed /\ [Next]_vars => Typed'
<1> SUFFICES ASSUME Typed, [Next]_vars PROVE Typed'
  OBVIOUS
<1> USE LedgerAssumption
<1> USE DEF Typed
<1>1. ASSUME NEW o \in Order, NEW c \in Customer, NEW t \in Total, CreateOrder(o, c, t)
      PROVE  Typed'
  <2> DEFINE new == [stage |-> "live", customerId |-> c, totalAmount |-> t,
                     paidAmount |-> 0, paymentStatus |-> "PENDING"]
  <2>3. new \in OrderRow /\ new.customerId = c
    BY DEF OrderRow, PaymentStatus
  <2> HIDE DEF new
  <2>4. /\ order' = [order EXCEPT ![o] = new]
        /\ UNCHANGED <<payments, issued, balance, ledger, toppedUp, pc, req>>
    BY <1>1 DEF CreateOrder, new
  <2>1. TypeOK'
    BY <2>3, <2>4 DEF TypeOK
  <2>2. Operands'
    BY <2>3, <2>4 DEF TypeOK, Operands, OnOrder, Paying
  <2> QED
    BY <2>1, <2>2
<1>2. ASSUME NEW o \in Order, NEW c \in Customer, NEW t \in Total, UpdateOrder(o, c, t)
      PROVE  Typed'
  <2> DEFINE new == [order[o] EXCEPT !.customerId = c, !.totalAmount = t]
  <2>3. new \in OrderRow /\ new.customerId = c /\ new.stage = order[o].stage
    BY DEF TypeOK, OrderRow, PaymentStatus
  <2> HIDE DEF new
  <2>4. /\ order' = [order EXCEPT ![o] = new]
        /\ UNCHANGED <<payments, issued, balance, ledger, toppedUp, pc, req>>
    BY <1>2 DEF UpdateOrder, new, TypeOK
  <2>1. TypeOK'
    BY <2>3, <2>4 DEF TypeOK
  <2>2. Operands'
    BY <2>3, <2>4 DEF TypeOK, Operands, OnOrder, Paying
  <2> QED
    BY <2>1, <2>2
<1>3. ASSUME NEW s \in Session, NEW o \in Order, NEW p \in Payment, NEW a \in Amount,
             NEW m \in Method, BeginPayment(s, o, p, a, m)
      PROVE  Typed'
  <2> DEFINE r == [Read(o) EXCEPT !.payment = p, !.amount = a, !.method = m]
  <2>1. r \in Request /\ r.order = o /\ r.customer \in Customer /\ r.payment = p
    <3>1. order[o].stage = "live"
      BY <1>3 DEF BeginPayment
    <3>2. Read(o) \in Request /\ Read(o).order = o /\ Read(o).customer \in Customer
      BY <3>1, ReadTyped
    <3>3. a \in Nat
      BY LedgerAssumption
    <3> QED
      BY <3>2, <3>3 DEF Request
  <2>2. order[o].stage = "live"
    BY <1>3 DEF BeginPayment
  <2> HIDE DEF r
  <2>3. /\ pc' = [pc EXCEPT ![s] = IF m = "DEPOSIT" THEN "charge" ELSE "settle"]
        /\ req' = [req EXCEPT ![s] = r]
        /\ issued' = issued \cup {p}
        /\ UNCHANGED <<order, payments, balance, ledger, toppedUp>>
    BY <1>3 DEF BeginPayment, Enter, r
  <2>4. TypeOK'
    BY <2>1, <2>3 DEF TypeOK, Phase
  <2>5. Operands'
    BY <2>1, <2>3 DEF TypeOK, Operands, OnOrder, Paying
  <2> QED
    BY <2>4, <2>5
<1>4. ASSUME NEW s \in Session, ChargeWallet(s) PROVE Typed'
  <2>1. req[s].customer \in Customer
    BY <1>4 DEF ChargeWallet, Operands, OnOrder
  <2>2. balance[req[s].customer] - req[s].amount \in Nat
    BY <1>4, <2>1 DEF ChargeWallet, Covers, TypeOK, Request
  <2> DEFINE r == [req[s] EXCEPT !.wallet = balance[req[s].customer] - req[s].amount]
  <2>3. /\ r \in Request /\ r.order = req[s].order /\ r.customer = req[s].customer
        /\ r.payment = req[s].payment
    <3>1. ASSUME NEW q \in Request, NEW w \in Nat
          PROVE  LET x == [q EXCEPT !.wallet = w] IN
                 /\ x \in Request /\ x.order = q.order /\ x.customer = q.customer
                 /\ x.payment = q.payment
      BY DEF Request
    <3>2. req[s] \in Request
      BY DEF TypeOK
    <3> QED
      BY <2>2, <3>1, <3>2
  <2> HIDE DEF r
  <2>4. /\ pc' = [pc EXCEPT ![s] = "settle"] /\ req' = [req EXCEPT ![s] = r]
        /\ pc[s] = "charge"
        /\ UNCHANGED <<order, payments, issued, balance, ledger, toppedUp>>
    BY <1>4 DEF ChargeWallet, r, TypeOK
  <2>5. TypeOK'
    BY <2>3, <2>4 DEF TypeOK, Phase
  <2>6. Operands'
    BY <2>3, <2>4 DEF TypeOK, Operands, OnOrder, Paying
  <2> QED
    BY <2>5, <2>6
<1>5. ASSUME NEW s \in Session, Leave(s),
             UNCHANGED <<order, payments, issued, balance, ledger, toppedUp>>
      PROVE  Typed'
  <2>1. NoRequest \in Request
    BY DEF NoRequest, Request, Method
  <2>2. TypeOK'
    BY <1>5, <2>1 DEF Leave, TypeOK, Phase
  <2>3. Operands'
    BY <1>5 DEF Leave, TypeOK, Operands, OnOrder, Paying
  <2> QED
    BY <2>2, <2>3
<1>6. ASSUME NEW s \in Session, CommitPayment(s) PROVE Typed'
  <2> DEFINE r == req[s]
             row == [id |-> r.payment, orderId |-> r.order, amount |-> r.amount,
                     method |-> r.method, payer |-> r.customer]
             new == [order[r.order] EXCEPT
                        !.paidAmount = r.paid + r.amount,
                        !.paymentStatus = StatusAfterPayment(r.paid + r.amount, r.total)]
  <2>1. pc[s] = "settle" /\ r \in Request /\ r.order \in Order
        /\ r.customer \in Customer /\ r.payment \in Payment
    BY <1>6 DEF CommitPayment, TypeOK, Operands, OnOrder, Paying
  <2>2. row \in PaymentRow
    BY <2>1 DEF PaymentRow, Request
  <2>3. /\ new \in OrderRow /\ new.stage = order[r.order].stage
        /\ new.customerId = order[r.order].customerId
    <3>1. r.paid + r.amount \in Nat
      BY <2>1 DEF Request
    <3>2. StatusAfterPayment(r.paid + r.amount, r.total) \in PaymentStatus
      BY DEF StatusAfterPayment, PaymentStatus
    <3>3. order[r.order] \in OrderRow
      BY <2>1 DEF TypeOK
    <3> HIDE DEF r
    <3> QED
      BY <3>1, <3>2, <3>3 DEF OrderRow
  <2>4. /\ payments' = payments \cup {row}
        /\ order' = [order EXCEPT ![r.order] = new]
    <3>1. /\ payments' = payments \cup {row}
          /\ order' = [order EXCEPT
                ![r.order].paidAmount = r.paid + r.amount,
                ![r.order].paymentStatus = StatusAfterPayment(r.paid + r.amount, r.total)]
      BY <1>6, Zenon DEF CommitPayment
    <3>2. order \in [Order -> OrderRow] /\ r.order \in Order
      BY <2>1 DEF TypeOK
    <3>3. order' = [order EXCEPT ![r.order] = new]
      BY <3>1, <3>2
    <3> QED
      BY <3>1, <3>3
  <2>5. balance' \in [Customer -> Nat] /\ ledger' \in [Customer -> Seq(LedgerRow)]
    <3>1. CASE r.method = "DEPOSIT"
      <4>1. Post(r.customer, "DEDUCTION", r.amount, r.wallet)
        BY <1>6, <3>1 DEF CommitPayment
      <4> QED
        BY <2>1, <4>1, PostTyped DEF Request
    <3>2. CASE r.method # "DEPOSIT"
      BY <1>6, <3>2 DEF CommitPayment, TypeOK
    <3> QED
      BY <3>1, <3>2
  <2>6. Leave(s) /\ UNCHANGED <<issued, toppedUp>>
    BY <1>6 DEF CommitPayment
  <2> HIDE DEF r, row, new
  <2>7. pc' \in [Session -> Phase] /\ req' \in [Session -> Request]
    BY <2>6, LeaveTyped
  <2>8. TypeOK'
    BY <2>1, <2>2, <2>3, <2>4, <2>5, <2>6, <2>7 DEF TypeOK
  <2>9. IsFiniteSet(payments')
    BY <2>4, FS_AddElement DEF Operands
  <2>10. Operands'
    BY <2>1, <2>3, <2>4, <2>6, <2>9 DEF TypeOK, Operands, Leave, OnOrder, Paying
  <2> QED
    BY <2>8, <2>10
<1>7. ASSUME NEW s \in Session, NEW o \in Order, NEW p \in payments, BeginVoid(s, o, p)
      PROVE  Typed'
  <2> DEFINE r == [Read(o) EXCEPT !.payment = p.id, !.amount = p.amount, !.method = p.method]
  <2>1. r \in Request /\ r.order = o /\ r.customer \in Customer
    <3>1. order[o].stage = "live"
      BY <1>7 DEF BeginVoid
    <3>2. Read(o) \in Request /\ Read(o).order = o /\ Read(o).customer \in Customer
      BY <3>1, ReadTyped
    <3>3. p.id \in Payment /\ p.amount \in Nat /\ p.method \in Method
      BY DEF TypeOK, PaymentRow
    <3> QED
      BY <3>2, <3>3 DEF Request
  <2> HIDE DEF r
  <2>2. Enter(s, "void", r) /\ UNCHANGED <<order, payments, issued, balance, ledger, toppedUp>>
    BY <1>7 DEF BeginVoid, r
  <2>3. TypeOK'
    BY <2>1, <2>2 DEF Enter, TypeOK, Phase
  <2>4. Operands'
    BY <2>1, <2>2 DEF Enter, TypeOK, Operands, OnOrder, Paying
  <2> QED
    BY <2>3, <2>4
<1>8. ASSUME NEW s \in Session, CommitVoid(s) PROVE Typed'
  <2> DEFINE r == req[s]
             newPaid == IF r.paid < r.amount THEN 0 ELSE r.paid - r.amount
             new == [order[r.order] EXCEPT
                        !.paidAmount = newPaid,
                        !.paymentStatus = StatusAfterVoid(newPaid, r.total)]
  <2>1. pc[s] = "void" /\ r \in Request /\ r.order \in Order /\ r.customer \in Customer
    BY <1>8 DEF CommitVoid, TypeOK, Operands, OnOrder
  <2>2. r.amount \in Nat /\ r.paid \in Nat
    BY <2>1 DEF Request
  <2>3. /\ new \in OrderRow /\ new.stage = order[r.order].stage
        /\ new.customerId = order[r.order].customerId
    <3>1. newPaid \in Nat
      BY <2>2
    <3>2. StatusAfterVoid(newPaid, r.total) \in PaymentStatus
      BY DEF StatusAfterVoid, PaymentStatus
    <3>3. order[r.order] \in OrderRow
      BY <2>1 DEF TypeOK
    <3> HIDE DEF r, newPaid
    <3> QED
      BY <3>1, <3>2, <3>3 DEF OrderRow
  <2>4. /\ payments' = {p \in payments : p.id # r.payment}
        /\ order' = [order EXCEPT ![r.order] = new]
        /\ Leave(s) /\ UNCHANGED <<issued, toppedUp>>
    BY <1>8 DEF CommitVoid, TypeOK
  <2>5. balance' \in [Customer -> Nat] /\ ledger' \in [Customer -> Seq(LedgerRow)]
    <3>1. CASE r.method = "DEPOSIT"
      <4>1. Post(r.customer, "REFUND", r.amount, balance[r.customer] + r.amount)
        BY <1>8, <3>1 DEF CommitVoid
      <4>2. balance[r.customer] + r.amount \in Nat
        BY <2>1, <2>2 DEF TypeOK
      <4> QED
        BY <2>1, <2>2, <4>1, <4>2, PostTyped
    <3>2. CASE r.method # "DEPOSIT"
      BY <1>8, <3>2 DEF CommitVoid, TypeOK
    <3> QED
      BY <3>1, <3>2
  <2> HIDE DEF r, new
  <2>6. pc' \in [Session -> Phase] /\ req' \in [Session -> Request]
    BY <2>4, LeaveTyped
  <2>7. TypeOK'
    BY <2>1, <2>3, <2>4, <2>5, <2>6 DEF TypeOK
  <2>8. IsFiniteSet(payments')
    BY <2>4, FS_Subset DEF Operands
  <2>9. Operands'
    BY <2>1, <2>3, <2>4, <2>8 DEF TypeOK, Operands, Leave, OnOrder, Paying
  <2> QED
    BY <2>7, <2>9
<1>9. ASSUME NEW s \in Session, NEW o \in Order, BeginDelete(s, o) PROVE Typed'
  <2> DEFINE r == [Read(o) EXCEPT !.amount = SumAmounts(DepositsOf(o))]
  <2>1. r \in Request /\ r.order = o /\ r.customer \in Customer
    <3>1. order[o].stage = "live"
      BY <1>9 DEF BeginDelete
    <3>2. Read(o) \in Request /\ Read(o).order = o /\ Read(o).customer \in Customer
      BY <3>1, ReadTyped
    <3>3. DepositsOf(o) \in SUBSET payments
      BY DEF DepositsOf, PaymentsOf
    <3>4. SumAmounts(DepositsOf(o)) \in Nat
      BY <3>3, FS_Subset, SumAmountsNat DEF TypeOK, Operands
    <3> QED
      BY <3>2, <3>4 DEF Request
  <2> HIDE DEF r
  <2>2. Enter(s, "delete", r) /\ UNCHANGED <<order, payments, issued, balance, ledger, toppedUp>>
    BY <1>9 DEF BeginDelete, r
  <2>3. TypeOK'
    BY <2>1, <2>2 DEF Enter, TypeOK, Phase
  <2>4. Operands'
    BY <2>1, <2>2 DEF Enter, TypeOK, Operands, OnOrder, Paying
  <2> QED
    BY <2>3, <2>4
<1>10. ASSUME NEW s \in Session, CommitDelete(s) PROVE Typed'
  <2> DEFINE r == req[s]
             new == [order[r.order] EXCEPT !.stage = "deleted"]
  <2>1. pc[s] = "delete" /\ r \in Request /\ r.order \in Order /\ r.customer \in Customer
    BY <1>10 DEF CommitDelete, TypeOK, Operands, OnOrder
  <2>2. r.amount \in Nat
    BY <2>1 DEF Request
  <2>3. new \in OrderRow /\ new.stage = "deleted"
    <3>1. order[r.order] \in OrderRow
      BY <2>1 DEF TypeOK
    <3> HIDE DEF r
    <3> QED
      BY <3>1 DEF OrderRow
  <2>4. /\ payments' = payments \ PaymentsOf(r.order)
        /\ order' = [order EXCEPT ![r.order] = new]
        /\ Leave(s) /\ UNCHANGED <<issued, toppedUp>>
    BY <1>10 DEF CommitDelete, TypeOK
  <2>5. balance' \in [Customer -> Nat] /\ ledger' \in [Customer -> Seq(LedgerRow)]
    <3>1. CASE r.amount > 0
      <4>1. Post(r.customer, "REFUND", r.amount, balance[r.customer] + r.amount)
        BY <1>10, <3>1 DEF CommitDelete
      <4>2. balance[r.customer] + r.amount \in Nat
        BY <2>1, <2>2 DEF TypeOK
      <4> QED
        BY <2>1, <2>2, <4>1, <4>2, PostTyped
    <3>2. CASE ~(r.amount > 0)
      BY <1>10, <3>2 DEF CommitDelete, TypeOK
    <3> QED
      BY <3>1, <3>2
  <2> HIDE DEF r, new
  <2>6. pc' \in [Session -> Phase] /\ req' \in [Session -> Request]
    BY <2>4, LeaveTyped
  <2>7. TypeOK'
    BY <2>1, <2>3, <2>4, <2>5, <2>6 DEF TypeOK
  <2>8. IsFiniteSet(payments')
    BY <2>4, FS_Subset DEF Operands
  <2>9. Operands'
    BY <2>1, <2>3, <2>4, <2>8 DEF TypeOK, Operands, Leave, OnOrder, Paying
  <2> QED
    BY <2>7, <2>9
<1>11. ASSUME NEW s \in Session, NEW c \in Customer, NEW a \in Amount, NEW type \in TopUpType,
              BeginTopUp(s, c, a, type)
       PROVE  Typed'
  <2> DEFINE r == [NoRequest EXCEPT !.customer = c, !.amount = a, !.type = type,
                                    !.wallet = balance[c] + a]
  <2>1. r \in Request /\ r.customer = c /\ r.amount = a
    <3>1. a \in Nat /\ type \in {"TOP_UP", "DEDUCTION", "REFUND", "ADJUSTMENT"}
      BY LedgerAssumption
    <3>2. balance[c] + a \in Nat
      BY <3>1 DEF TypeOK
    <3> QED
      BY <3>1, <3>2 DEF NoRequest, Request, Method
  <2> HIDE DEF r
  <2>2. Enter(s, "topup", r) /\ UNCHANGED <<order, payments, issued, balance, ledger, toppedUp>>
    BY <1>11 DEF BeginTopUp, r
  <2>3. TypeOK'
    BY <2>1, <2>2 DEF Enter, TypeOK, Phase
  <2>4. Operands'
    BY <2>1, <2>2 DEF Enter, TypeOK, Operands, OnOrder, Paying
  <2> QED
    BY <2>3, <2>4
<1>12. ASSUME NEW s \in Session, CommitTopUp(s) PROVE Typed'
  <2> DEFINE r == req[s]
  <2>1. pc[s] = "topup" /\ r \in Request /\ r.customer \in Customer
    BY <1>12 DEF CommitTopUp, TypeOK, Operands
  <2>2. /\ r.amount \in Nat /\ r.wallet \in Nat
        /\ r.type \in {"TOP_UP", "DEDUCTION", "REFUND", "ADJUSTMENT"}
    BY <2>1 DEF Request
  <2>3. /\ Post(r.customer, r.type, r.amount, r.wallet)
        /\ toppedUp' = toppedUp + r.amount
        /\ Leave(s) /\ UNCHANGED <<order, payments, issued>>
    BY <1>12 DEF CommitTopUp
  <2> HIDE DEF r
  <2>4. balance' \in [Customer -> Nat] /\ ledger' \in [Customer -> Seq(LedgerRow)]
    BY <2>1, <2>2, <2>3, PostTyped
  <2>5. pc' \in [Session -> Phase] /\ req' \in [Session -> Request]
    BY <2>3, LeaveTyped
  <2>6. TypeOK'
    BY <2>2, <2>3, <2>4, <2>5 DEF TypeOK
  <2>7. Operands'
    BY <2>1, <2>3 DEF TypeOK, Operands, Leave, OnOrder, Paying
  <2> QED
    BY <2>6, <2>7
<1>13. ASSUME UNCHANGED vars PROVE Typed'
  BY <1>13 DEF vars, TypeOK, Operands, OnOrder, Paying
<1>14. CASE Next
  <2>1. ASSUME NEW s \in Session, SessionStep(s) \/ Rollback(s) \/ DeadlockVictim(s)
        PROVE  Typed'
    BY <2>1, <1>4, <1>5, <1>6, <1>8, <1>10, <1>12
       DEF SessionStep, InsufficientDeposit, Rollback, DeadlockVictim
  <2>2. ASSUME NEW s \in Session, NEW o \in Order,
               \/ \E p \in Payment, a \in Amount, m \in Method : BeginPayment(s, o, p, a, m)
               \/ \E p \in payments : BeginVoid(s, o, p)
               \/ BeginDelete(s, o)
        PROVE  Typed'
    BY <2>2, <1>3, <1>7, <1>9
  <2> QED
    BY <1>14, <2>1, <2>2, <1>1, <1>2, <1>11 DEF Next
<1> QED
  BY <1>13, <1>14

\* Every table and every local keeps its type, whatever the interleaving.
THEOREM TypeCorrect == Spec => []TypeOK
<1>1. Init => Typed
  BY TypedInit
<1>2. Typed /\ [Next]_vars => Typed'
  BY TypedStep
<1>3. Typed => TypeOK
  BY DEF Typed
<1> QED
  BY <1>1, <1>2, <1>3, PTL DEF Spec

-----------------------------------------------------------------------------
(* Isolation: the row locks exclude each other, so that what a request has  *)
(* read is still so when it writes.                                         *)

\* The second layer: no lock has two holders, and what a request read still holds.
Isolated ==
    /\ LocksExclusive /\ PaymentIds /\ PaymentsHaveOrders
    /\ OrderReadsFresh /\ PaymentReadsFresh /\ WalletReadsFresh

\* Initially no request runs, so no lock is held and nothing was read.
LEMMA IsolatedInit == Init => Isolated
  BY DEF Init, Isolated, LocksExclusive, PaymentIds, PaymentsHaveOrders, OrderReadsFresh,
         PaymentReadsFresh, WalletReadsFresh, HoldsWallet, ChargesWallet, OnOrder, Paying

\* An INSERT touches no row a request has read.
LEMMA IsolatedCreate ==
  ASSUME Typed, Isolated, NEW o \in Order, NEW c \in Customer, NEW t \in Total,
         CreateOrder(o, c, t)
  PROVE  Isolated'
<1>1. /\ order[o].stage = "unborn" /\ order'[o].stage = "live"
      /\ \A x \in Order : x # o => order'[x] = order[x]
      /\ UNCHANGED <<payments, issued, balance, pc, req>>
  BY DEF CreateOrder, Typed, TypeOK
<1>2. LocksExclusive' /\ PaymentIds' /\ PaymentReadsFresh' /\ WalletReadsFresh'
  BY <1>1 DEF Isolated, LocksExclusive, PaymentIds, PaymentReadsFresh, WalletReadsFresh,
     HoldsWallet, ChargesWallet, OnOrder, Paying, DepositsOf, PaymentsOf
<1>3. PaymentsHaveOrders'
  BY <1>1 DEF Isolated, PaymentsHaveOrders, Typed, TypeOK, PaymentRow
<1>4. OrderReadsFresh'
  <2>1. \A s \in OnOrder : req[s].order \in Order /\ req[s].order # o
    BY <1>1 DEF Isolated, OrderReadsFresh, Typed, Operands
  <2>2. OnOrder' = OnOrder /\ \A s \in OnOrder : order'[req[s].order] = order[req[s].order]
    BY <1>1, <2>1 DEF OnOrder
  <2> QED
    BY <1>1, <2>2 DEF Isolated, OrderReadsFresh
<1> QED
  BY <1>2, <1>3, <1>4 DEF Isolated

\* An edit waits for the row lock, so it changes no row a request has read.
LEMMA IsolatedUpdate ==
  ASSUME Typed, Isolated, NEW o \in Order, NEW c \in Customer, NEW t \in Total,
         UpdateOrder(o, c, t)
  PROVE  Isolated'
<1>1. /\ order'[o].stage = order[o].stage
      /\ \A x \in Order : x # o => order'[x] = order[x]
      /\ \A s \in OnOrder : req[s].order # o
      /\ UNCHANGED <<payments, issued, balance, pc, req>>
  BY DEF UpdateOrder, OrderFree, HoldsOrder, OnOrder, Typed, TypeOK, OrderRow
<1>2. LocksExclusive' /\ PaymentIds' /\ PaymentReadsFresh' /\ WalletReadsFresh'
  BY <1>1 DEF Isolated, LocksExclusive, PaymentIds, PaymentReadsFresh, WalletReadsFresh,
     HoldsWallet, ChargesWallet, OnOrder, Paying, DepositsOf, PaymentsOf
<1>3. PaymentsHaveOrders'
  BY <1>1 DEF Isolated, PaymentsHaveOrders, Typed, TypeOK, PaymentRow
<1>4. OrderReadsFresh'
  BY <1>1 DEF Isolated, OrderReadsFresh, Typed, TypeOK, Operands, OnOrder
<1> QED
  BY <1>2, <1>3, <1>4 DEF Isolated

\* RecordPayment locks an order no other request holds, under a fresh id.
LEMMA IsolatedBeginPayment ==
  ASSUME Typed, Isolated, NEW s \in Session, NEW o \in Order, NEW p \in Payment,
         NEW a \in Amount, NEW m \in Method, BeginPayment(s, o, p, a, m)
  PROVE  Isolated'
<1> DEFINE r == [Read(o) EXCEPT !.payment = p, !.amount = a, !.method = m]
           phase == IF m = "DEPOSIT" THEN "charge" ELSE "settle"
<1>1. /\ r.order = o /\ r.customer = order[o].customerId /\ r.total = order[o].totalAmount
      /\ r.paid = order[o].paidAmount /\ r.payment = p /\ r.amount = a /\ r.method = m
  <2>1. order[o].stage = "live"
    BY DEF BeginPayment
  <2> QED
    BY <2>1, ReadTyped DEF Request
<1>2. /\ order[o].stage = "live" /\ r.paid + r.amount <= r.total
      /\ p \notin issued
      /\ \A t \in OnOrder : req[t].order # o
  BY <1>1 DEF BeginPayment, WithinRemaining, OrderLockable, OrderFree, HoldsOrder, OnOrder
<1> HIDE DEF r
<1>3. /\ pc[s] = "idle" /\ pc' = [pc EXCEPT ![s] = phase] /\ req' = [req EXCEPT ![s] = r]
      /\ issued' = issued \cup {p}
      /\ UNCHANGED <<order, payments, balance, ledger, toppedUp>>
  BY DEF BeginPayment, Enter, r
<1>4. phase = "charge" \/ (phase = "settle" /\ r.method # "DEPOSIT")
  BY <1>1
<1> HIDE DEF phase
<1>5. /\ pc'[s] = phase /\ req'[s] = r
      /\ \A t \in Session : t # s => pc'[t] = pc[t] /\ req'[t] = req[t]
  BY <1>3 DEF Typed, TypeOK
<1>6. LocksExclusive'
  BY <1>1, <1>2, <1>3, <1>4, <1>5
     DEF Isolated, LocksExclusive, HoldsWallet, ChargesWallet, OnOrder
<1>7. PaymentIds'
  BY <1>1, <1>2, <1>3, <1>4, <1>5 DEF Isolated, PaymentIds, Paying
<1>8. PaymentsHaveOrders'
  BY <1>3 DEF Isolated, PaymentsHaveOrders
<1>9. OrderReadsFresh'
  <2>1. \A t \in OnOrder' : t # s => t \in OnOrder /\ req'[t] = req[t] /\ pc'[t] = pc[t]
    BY <1>5 DEF OnOrder
  <2>2. \A t \in OnOrder' : t # s =>
          LET q == req'[t] IN
          /\ order'[q.order].stage = "live"
          /\ q.customer = order'[q.order].customerId
          /\ q.total = order'[q.order].totalAmount
          /\ q.paid = order'[q.order].paidAmount
          /\ pc'[t] \in {"charge", "settle"} => q.paid + q.amount <= q.total
          /\ pc'[t] = "charge" => q.method = "DEPOSIT"
    BY <1>3, <2>1 DEF Isolated, OrderReadsFresh
  <2>3. /\ order'[r.order].stage = "live"
        /\ r.customer = order'[r.order].customerId
        /\ r.total = order'[r.order].totalAmount
        /\ r.paid = order'[r.order].paidAmount
        /\ r.paid + r.amount <= r.total
        /\ phase = "charge" => r.method = "DEPOSIT"
    BY <1>1, <1>2, <1>3 DEF phase
  <2> QED
    BY <1>5, <2>2, <2>3 DEF OrderReadsFresh
<1>10. PaymentReadsFresh'
  BY <1>3, <1>4, <1>5 DEF Isolated, PaymentReadsFresh, DepositsOf, PaymentsOf
<1>11. WalletReadsFresh'
  BY <1>3, <1>4, <1>5 DEF Isolated, WalletReadsFresh
<1> QED
  BY <1>6, <1>7, <1>8, <1>9, <1>10, <1>11 DEF Isolated

\* RecordPayment takes a wallet no other request holds and reads its balance.
LEMMA IsolatedCharge ==
  ASSUME Typed, Isolated, NEW s \in Session, ChargeWallet(s)
  PROVE  Isolated'
<1> DEFINE r == [req[s] EXCEPT !.wallet = balance[req[s].customer] - req[s].amount]
<1>1. /\ r.order = req[s].order /\ r.customer = req[s].customer /\ r.total = req[s].total
      /\ r.paid = req[s].paid /\ r.payment = req[s].payment /\ r.amount = req[s].amount
      /\ r.method = req[s].method
      /\ r.wallet = balance[req[s].customer] - req[s].amount
  <2>1. req[s] \in Request
    BY DEF Typed, TypeOK
  <2> QED
    BY <2>1 DEF Request
<1>2. /\ pc[s] = "charge" /\ WalletFree(req[s].customer)
      /\ req[s].customer \in Customer /\ req[s].amount \in Nat
      /\ balance[req[s].customer] \in Nat
  BY DEF ChargeWallet, Typed, TypeOK, Operands, OnOrder, Request
<1> HIDE DEF r
<1>3. /\ pc' = [pc EXCEPT ![s] = "settle"] /\ req' = [req EXCEPT ![s] = r]
      /\ UNCHANGED <<order, payments, issued, balance, ledger, toppedUp>>
  BY DEF ChargeWallet, r, Typed, TypeOK
<1>4. /\ pc'[s] = "settle" /\ req'[s] = r
      /\ \A t \in Session : t # s => pc'[t] = pc[t] /\ req'[t] = req[t]
  BY <1>3 DEF Typed, TypeOK
<1>5. LocksExclusive'
  <2>1. \A t \in Session : ~HoldsWallet(t, req[s].customer)
    BY <1>2 DEF WalletFree
  <2> QED
    BY <1>1, <1>2, <1>4, <2>1
       DEF Isolated, LocksExclusive, HoldsWallet, ChargesWallet, OnOrder
<1>6. PaymentIds'
  BY <1>1, <1>2, <1>3, <1>4 DEF Isolated, PaymentIds, Paying
<1>7. PaymentsHaveOrders'
  BY <1>3 DEF Isolated, PaymentsHaveOrders
<1>8. OrderReadsFresh'
  BY <1>1, <1>2, <1>3, <1>4 DEF Isolated, OrderReadsFresh, OnOrder
<1>9. PaymentReadsFresh'
  BY <1>3, <1>4 DEF Isolated, PaymentReadsFresh, DepositsOf, PaymentsOf
<1>10. WalletReadsFresh'
  BY <1>1, <1>2, <1>3, <1>4 DEF Isolated, WalletReadsFresh
<1> QED
  BY <1>5, <1>6, <1>7, <1>8, <1>9, <1>10 DEF Isolated

\* A request that ends without writing releases its locks.
LEMMA IsolatedLeave ==
  ASSUME Typed, Isolated, NEW s \in Session, Leave(s),
         UNCHANGED <<order, payments, issued, balance, ledger, toppedUp>>
  PROVE  Isolated'
<1>1. /\ pc'[s] = "idle"
      /\ \A t \in Session : t # s => pc'[t] = pc[t] /\ req'[t] = req[t]
  BY DEF Leave, Typed, TypeOK
<1>2. LocksExclusive'
  BY <1>1 DEF Isolated, LocksExclusive, HoldsWallet, ChargesWallet, OnOrder
<1>3. PaymentIds' /\ PaymentsHaveOrders'
  BY <1>1 DEF Isolated, PaymentIds, PaymentsHaveOrders, Paying
<1>4. OrderReadsFresh'
  BY <1>1 DEF Isolated, OrderReadsFresh, OnOrder
<1>5. PaymentReadsFresh' /\ WalletReadsFresh'
  BY <1>1 DEF Isolated, PaymentReadsFresh, WalletReadsFresh, DepositsOf, PaymentsOf
<1> QED
  BY <1>2, <1>3, <1>4, <1>5 DEF Isolated

\* Void and delete: lock the order, read it, and remember something more.
LEMMA IsolatedLock ==
  ASSUME Typed, Isolated, NEW s \in Session, NEW o \in Order,
         NEW phase \in {"void", "delete"}, NEW r \in Request,
         order[o].stage = "live", OrderFree(o), Enter(s, phase, r),
         r.order = o, r.customer = order[o].customerId,
         r.total = order[o].totalAmount, r.paid = order[o].paidAmount,
         UNCHANGED <<order, payments, issued, balance, ledger, toppedUp>>
  PROVE  /\ LocksExclusive' /\ PaymentIds' /\ PaymentsHaveOrders'
         /\ OrderReadsFresh' /\ WalletReadsFresh'
         /\ pc'[s] = phase /\ req'[s] = r
         /\ \A t \in Session : t # s => pc'[t] = pc[t] /\ req'[t] = req[t]
<1>1. /\ pc'[s] = phase /\ req'[s] = r
      /\ \A t \in Session : t # s => pc'[t] = pc[t] /\ req'[t] = req[t]
      /\ \A t \in OnOrder : req[t].order # o
  BY DEF Enter, OrderFree, HoldsOrder, OnOrder, Typed, TypeOK
<1>2. LocksExclusive'
  BY <1>1 DEF Isolated, LocksExclusive, HoldsWallet, ChargesWallet, OnOrder
<1>3. PaymentIds' /\ PaymentsHaveOrders'
  BY <1>1 DEF Isolated, PaymentIds, PaymentsHaveOrders, Paying
<1>4. OrderReadsFresh'
  BY <1>1 DEF Isolated, OrderReadsFresh, OnOrder
<1>5. WalletReadsFresh'
  BY <1>1 DEF Isolated, WalletReadsFresh
<1> QED
  BY <1>1, <1>2, <1>3, <1>4, <1>5

\* VoidPayment locks the order and reads one of its payments.
LEMMA IsolatedBeginVoid ==
  ASSUME Typed, Isolated, NEW s \in Session, NEW o \in Order, NEW p \in payments,
         BeginVoid(s, o, p)
  PROVE  Isolated'
<1> DEFINE r == [Read(o) EXCEPT !.payment = p.id, !.amount = p.amount, !.method = p.method]
<1>1. order[o].stage = "live" /\ OrderFree(o) /\ p.orderId = o
  BY DEF BeginVoid, OrderLockable, PaymentsOf
<1>2. /\ r \in Request /\ r.order = o /\ r.customer = order[o].customerId
      /\ r.total = order[o].totalAmount /\ r.paid = order[o].paidAmount
      /\ r.payment = p.id /\ r.amount = p.amount /\ r.method = p.method
  <2>1. p.id \in Payment /\ p.amount \in Nat /\ p.method \in Method
    BY DEF Typed, TypeOK, PaymentRow
  <2>3. Read(o) \in Request /\ Read(o).order = o /\ Read(o).customer = order[o].customerId
        /\ Read(o).total = order[o].totalAmount /\ Read(o).paid = order[o].paidAmount
    BY <1>1, ReadTyped
  <2> QED
    BY <2>1, <2>3 DEF Request
<1> HIDE DEF r
<1>3. Enter(s, "void", r) /\ UNCHANGED <<order, payments, issued, balance, ledger, toppedUp>>
  BY DEF BeginVoid, r
<1>4. /\ LocksExclusive' /\ PaymentIds' /\ PaymentsHaveOrders'
      /\ OrderReadsFresh' /\ WalletReadsFresh'
      /\ pc'[s] = "void" /\ req'[s] = r
      /\ \A t \in Session : t # s => pc'[t] = pc[t] /\ req'[t] = req[t]
  BY <1>1, <1>2, <1>3, IsolatedLock
<1>5. PaymentReadsFresh'
  BY <1>1, <1>2, <1>3, <1>4 DEF Isolated, PaymentReadsFresh, DepositsOf, PaymentsOf
<1> QED
  BY <1>4, <1>5 DEF Isolated

\* Delete locks the order and sums its deposits.
LEMMA IsolatedBeginDelete ==
  ASSUME Typed, Isolated, NEW s \in Session, NEW o \in Order, BeginDelete(s, o)
  PROVE  Isolated'
<1> DEFINE r == [Read(o) EXCEPT !.amount = SumAmounts(DepositsOf(o))]
<1>1. order[o].stage = "live" /\ OrderFree(o)
  BY DEF BeginDelete, OrderLockable
<1>2. /\ r \in Request /\ r.order = o /\ r.customer = order[o].customerId
      /\ r.total = order[o].totalAmount /\ r.paid = order[o].paidAmount
      /\ r.amount = SumAmounts(DepositsOf(o))
  <2>1. DepositsOf(o) \in SUBSET payments
    BY DEF DepositsOf, PaymentsOf
  <2>2. SumAmounts(DepositsOf(o)) \in Nat
    BY <2>1, FS_Subset, SumAmountsNat DEF Typed, TypeOK, Operands
  <2>3. Read(o) \in Request /\ Read(o).order = o /\ Read(o).customer = order[o].customerId
        /\ Read(o).total = order[o].totalAmount /\ Read(o).paid = order[o].paidAmount
    BY <1>1, ReadTyped
  <2> QED
    BY <2>2, <2>3 DEF Request
<1> HIDE DEF r
<1>3. Enter(s, "delete", r) /\ UNCHANGED <<order, payments, issued, balance, ledger, toppedUp>>
  BY DEF BeginDelete, r
<1>4. /\ LocksExclusive' /\ PaymentIds' /\ PaymentsHaveOrders'
      /\ OrderReadsFresh' /\ WalletReadsFresh'
      /\ pc'[s] = "delete" /\ req'[s] = r
      /\ \A t \in Session : t # s => pc'[t] = pc[t] /\ req'[t] = req[t]
  BY <1>1, <1>2, <1>3, IsolatedLock
<1>5. PaymentReadsFresh'
  <2>1. \A x : DepositsOf(x)' = DepositsOf(x)
    BY <1>3 DEF DepositsOf, PaymentsOf
  <2>2. \A t \in Session : pc'[t] = "void" => t # s /\ pc[t] = "void" /\ req'[t] = req[t]
    BY <1>4
  <2>3. \A t \in Session : pc'[t] = "delete" =>
           req'[t].amount = SumAmounts(DepositsOf(req'[t].order))
    BY <1>2, <1>4 DEF Isolated, PaymentReadsFresh
  <2> QED
    BY <1>3, <2>1, <2>2, <2>3 DEF Isolated, PaymentReadsFresh
<1> QED
  BY <1>4, <1>5 DEF Isolated

\* A top-up takes a wallet no other request holds.
LEMMA IsolatedBeginTopUp ==
  ASSUME Typed, Isolated, NEW s \in Session, NEW c \in Customer, NEW a \in Amount,
         NEW type \in TopUpType, BeginTopUp(s, c, a, type)
  PROVE  Isolated'
<1> DEFINE r == [NoRequest EXCEPT !.customer = c, !.amount = a, !.type = type,
                                  !.wallet = balance[c] + a]
<1>1. r.customer = c /\ r.amount = a /\ r.wallet = balance[c] + a
  BY DEF NoRequest
<1> HIDE DEF r
<1>2. /\ Enter(s, "topup", r) /\ WalletFree(c)
      /\ UNCHANGED <<order, payments, issued, balance, ledger, toppedUp>>
  BY DEF BeginTopUp, r
<1>3. /\ pc'[s] = "topup" /\ req'[s] = r
      /\ \A t \in Session : t # s => pc'[t] = pc[t] /\ req'[t] = req[t]
  BY <1>2 DEF Enter, Typed, TypeOK
<1>4. LocksExclusive'
  <2>1. \A t \in Session : ~HoldsWallet(t, c)
    BY <1>2 DEF WalletFree
  <2> QED
    BY <1>1, <1>3, <2>1
     DEF Isolated, LocksExclusive, HoldsWallet, ChargesWallet, OnOrder
<1>5. PaymentIds' /\ PaymentsHaveOrders'
  BY <1>2, <1>3 DEF Isolated, PaymentIds, PaymentsHaveOrders, Paying
<1>6. OrderReadsFresh'
  BY <1>2, <1>3 DEF Isolated, OrderReadsFresh, OnOrder
<1>7. PaymentReadsFresh'
  BY <1>2, <1>3 DEF Isolated, PaymentReadsFresh, DepositsOf, PaymentsOf
<1>8. WalletReadsFresh'
  BY <1>1, <1>2, <1>3 DEF Isolated, WalletReadsFresh
<1> QED
  BY <1>4, <1>5, <1>6, <1>7, <1>8 DEF Isolated

\* A commit that writes only the order its session has locked, that order's
\* payments, and wallets that are its own or nobody's, disturbs no other reader.
LEMMA IsolatedCommit ==
  ASSUME Typed, Isolated, NEW s \in OnOrder, Leave(s),
         \A x \in Order : x # req[s].order => order'[x] = order[x],
         \A p \in payments : p.orderId # req[s].order => p \in payments',
         \A p \in payments' : p \in payments \/ p.orderId = req[s].order,
         \A c \in Customer : balance'[c] = balance[c] \/ HoldsWallet(s, c) \/ WalletFree(c)
  PROVE  LocksExclusive' /\ OrderReadsFresh' /\ PaymentReadsFresh' /\ WalletReadsFresh'
<1>1. /\ s \in Session /\ pc'[s] = "idle"
      /\ \A t \in Session : t # s => pc'[t] = pc[t] /\ req'[t] = req[t]
  BY DEF Leave, OnOrder, Typed, TypeOK
<1>2. \A t \in OnOrder : t # s => req[t].order \in Order /\ req[t].order # req[s].order
  BY DEF Isolated, LocksExclusive, Typed, Operands
<1>3. LocksExclusive'
  BY <1>1 DEF Isolated, LocksExclusive, HoldsWallet, ChargesWallet, OnOrder
<1>4. \A t \in OnOrder' : t \in OnOrder /\ t # s /\ pc'[t] = pc[t] /\ req'[t] = req[t]
                          /\ order'[req'[t].order] = order[req[t].order]
  BY <1>1, <1>2 DEF OnOrder
<1>5. OrderReadsFresh'
  BY <1>4 DEF Isolated, OrderReadsFresh
<1>6. PaymentReadsFresh'
  <2>1. ASSUME NEW t \in Session, pc'[t] = "void"
        PROVE  \E p \in payments' : /\ p.id = req'[t].payment
                                    /\ p.orderId = req'[t].order
                                    /\ p.amount = req'[t].amount
                                    /\ p.method = req'[t].method
    <3>1. t # s /\ pc[t] = "void" /\ req'[t] = req[t] /\ t \in OnOrder
      BY <1>1, <2>1 DEF OnOrder
    <3>2. PICK p \in payments : /\ p.id = req[t].payment /\ p.orderId = req[t].order
                                /\ p.amount = req[t].amount /\ p.method = req[t].method
      BY <3>1 DEF Isolated, PaymentReadsFresh
    <3> QED
      BY <1>2, <3>1, <3>2
  <2>2. ASSUME NEW t \in Session, pc'[t] = "delete"
        PROVE  (req[t].amount = SumAmounts(DepositsOf(req[t].order)))'
    <3>1. t # s /\ pc[t] = "delete" /\ req'[t] = req[t] /\ t \in OnOrder
      BY <1>1, <2>2 DEF OnOrder
    <3>2. \A p : p.orderId = req[t].order => (p \in payments <=> p \in payments')
      BY <1>2, <3>1
    <3>3. DepositsOf(req[t].order)' = DepositsOf(req[t].order)
      BY <3>1, <3>2 DEF DepositsOf, PaymentsOf
    <3>4. req[t].amount = SumAmounts(DepositsOf(req[t].order))
      BY <3>1 DEF Isolated, PaymentReadsFresh
    <3>5. SumAmounts(DepositsOf(req[t].order))' = SumAmounts(DepositsOf(req[t].order)')
      BY DEF SumAmounts
    <3> QED
      BY <3>1, <3>3, <3>4, <3>5
  <2> QED
    BY <2>1, <2>2 DEF PaymentReadsFresh
<1>7. WalletReadsFresh'
  <2>1. ASSUME NEW t \in Session, pc'[t] # "idle",
               NEW c \in Customer, HoldsWallet(t, c)
        PROVE  balance'[c] = balance[c]
    <3>1. t # s
      BY <1>1, <2>1
    <3> QED
      BY <1>1, <2>1, <3>1 DEF Isolated, LocksExclusive, WalletFree
  <2>2. ASSUME NEW t \in Session, pc'[t] = "settle", req'[t].method = "DEPOSIT"
        PROVE  balance'[req'[t].customer] = req'[t].wallet + req'[t].amount
    <3>1. t # s /\ pc[t] = "settle" /\ req'[t] = req[t] /\ req[t].customer \in Customer
      BY <1>1, <2>2 DEF Typed, Operands, OnOrder
    <3>2. HoldsWallet(t, req[t].customer)
      BY <2>2, <3>1 DEF HoldsWallet, ChargesWallet
    <3> QED
      BY <2>1, <2>2, <3>1, <3>2 DEF Isolated, WalletReadsFresh
  <2>3. ASSUME NEW t \in Session, pc'[t] = "topup"
        PROVE  req'[t].wallet = balance'[req'[t].customer] + req'[t].amount
    <3>1. t # s /\ pc[t] = "topup" /\ req'[t] = req[t] /\ req[t].customer \in Customer
      BY <1>1, <2>3 DEF Typed, Operands
    <3>2. HoldsWallet(t, req[t].customer)
      BY <3>1 DEF HoldsWallet
    <3> QED
      BY <2>1, <2>3, <3>1, <3>2 DEF Isolated, WalletReadsFresh
  <2> QED
    BY <2>2, <2>3 DEF WalletReadsFresh
<1> QED
  BY <1>3, <1>5, <1>6, <1>7

\* Committing a payment changes only rows the request has locked.
LEMMA IsolatedCommitPayment ==
  ASSUME Typed, Isolated, NEW s \in Session, CommitPayment(s)
  PROVE  Isolated'
<1> DEFINE r == req[s]
           row == [id |-> r.payment, orderId |-> r.order, amount |-> r.amount,
                   method |-> r.method, payer |-> r.customer]
<1>1. /\ pc[s] = "settle" /\ s \in OnOrder /\ s \in Paying
      /\ r.order \in Order /\ r.customer \in Customer
  BY DEF CommitPayment, OnOrder, Paying, Typed, Operands
<1>2. /\ Leave(s) /\ payments' = payments \cup {row} /\ issued' = issued
      /\ \A x \in Order : x # r.order => order'[x] = order[x]
      /\ order'[r.order].stage = order[r.order].stage
  BY <1>1 DEF CommitPayment, Typed, TypeOK, OrderRow
<1>3. \A c \in Customer : balance'[c] = balance[c] \/ HoldsWallet(s, c) \/ WalletFree(c)
  <2>1. CASE r.method = "DEPOSIT"
    BY <1>1, <2>1 DEF CommitPayment, Post, HoldsWallet, ChargesWallet, Typed, TypeOK
  <2>2. CASE r.method # "DEPOSIT"
    BY <2>2 DEF CommitPayment
  <2> QED
    BY <2>1, <2>2
<1>4. row.orderId = r.order /\ row.id = r.payment
  OBVIOUS
<1> HIDE DEF row, r
<1>5. LocksExclusive' /\ OrderReadsFresh' /\ PaymentReadsFresh' /\ WalletReadsFresh'
  BY <1>1, <1>2, <1>3, <1>4, IsolatedCommit DEF r
<1>6. PaymentIds'
  <2>1. \A t \in Paying' : t \in Paying /\ t # s /\ req'[t] = req[t]
    BY <1>2 DEF Leave, Paying, Typed, TypeOK
  <2>2. r.payment \in issued /\ \A p \in payments : p.id # r.payment
    BY <1>1 DEF Isolated, PaymentIds, r
  <2>3. \A t \in Paying : t # s => req[t].payment # r.payment
    BY <1>1 DEF Isolated, PaymentIds, r
  <2> QED
    BY <1>2, <1>4, <2>1, <2>2, <2>3 DEF Isolated, PaymentIds
<1>7. PaymentsHaveOrders'
  <2>1. order[r.order].stage = "live"
    BY <1>1 DEF Isolated, OrderReadsFresh, r
  <2> QED
    BY <1>1, <1>2, <1>4, <2>1 DEF Isolated, PaymentsHaveOrders, Typed, TypeOK, PaymentRow
<1> QED
  BY <1>5, <1>6, <1>7 DEF Isolated

\* So does committing a void, which removes one payment.
LEMMA IsolatedCommitVoid ==
  ASSUME Typed, Isolated, NEW s \in Session, CommitVoid(s)
  PROVE  Isolated'
<1> DEFINE r == req[s]
<1>1. /\ pc[s] = "void" /\ s \in OnOrder
      /\ r.order \in Order /\ r.customer \in Customer
  BY DEF CommitVoid, OnOrder, Typed, Operands
<1>2. /\ Leave(s) /\ payments' = {p \in payments : p.id # r.payment} /\ issued' = issued
      /\ \A x \in Order : x # r.order => order'[x] = order[x]
      /\ order'[r.order].stage = order[r.order].stage
  BY <1>1 DEF CommitVoid, Typed, TypeOK, OrderRow
<1>3. \A c \in Customer : balance'[c] = balance[c] \/ HoldsWallet(s, c) \/ WalletFree(c)
  <2>1. CASE r.method = "DEPOSIT"
    BY <1>1, <2>1 DEF CommitVoid, Post, Typed, TypeOK
  <2>2. CASE r.method # "DEPOSIT"
    BY <2>2 DEF CommitVoid
  <2> QED
    BY <2>1, <2>2
<1>4. \A p \in payments : p.orderId # r.order => p.id # r.payment
  BY <1>1 DEF Isolated, PaymentIds, PaymentReadsFresh
<1> HIDE DEF r
<1>5. LocksExclusive' /\ OrderReadsFresh' /\ PaymentReadsFresh' /\ WalletReadsFresh'
  BY <1>1, <1>2, <1>3, <1>4, IsolatedCommit DEF r
<1>6. PaymentIds'
  <2>1. \A t \in Paying' : t \in Paying /\ req'[t] = req[t]
    BY <1>1, <1>2 DEF Leave, Paying, Typed, TypeOK
  <2> QED
    BY <1>2, <2>1 DEF Isolated, PaymentIds
<1>7. PaymentsHaveOrders'
  BY <1>1, <1>2 DEF Isolated, PaymentsHaveOrders, Typed, TypeOK, PaymentRow
<1> QED
  BY <1>5, <1>6, <1>7 DEF Isolated

\* So does committing a delete, which removes the order's payments.
LEMMA IsolatedCommitDelete ==
  ASSUME Typed, Isolated, NEW s \in Session, CommitDelete(s)
  PROVE  Isolated'
<1> DEFINE r == req[s]
<1>1. /\ pc[s] = "delete" /\ s \in OnOrder
      /\ r.order \in Order /\ r.customer \in Customer
  BY DEF CommitDelete, OnOrder, Typed, Operands
<1>2. /\ Leave(s) /\ payments' = payments \ PaymentsOf(r.order) /\ issued' = issued
      /\ \A x \in Order : x # r.order => order'[x] = order[x]
  BY <1>1 DEF CommitDelete, Typed, TypeOK
<1>3. \A c \in Customer : balance'[c] = balance[c] \/ HoldsWallet(s, c) \/ WalletFree(c)
  <2>1. CASE r.amount > 0
    BY <1>1, <2>1 DEF CommitDelete, Post, Typed, TypeOK
  <2>2. CASE ~(r.amount > 0)
    BY <2>2 DEF CommitDelete
  <2> QED
    BY <2>1, <2>2
<1> HIDE DEF r
<1>5. LocksExclusive' /\ OrderReadsFresh' /\ PaymentReadsFresh' /\ WalletReadsFresh'
  BY <1>1, <1>2, <1>3, IsolatedCommit DEF r, PaymentsOf
<1>6. PaymentIds'
  <2>1. \A t \in Paying' : t \in Paying /\ req'[t] = req[t]
    BY <1>1, <1>2 DEF Leave, Paying, Typed, TypeOK
  <2> QED
    BY <1>2, <2>1 DEF Isolated, PaymentIds
<1>7. PaymentsHaveOrders'
  BY <1>1, <1>2 DEF Isolated, PaymentsHaveOrders, PaymentsOf, Typed, TypeOK, PaymentRow
<1> QED
  BY <1>5, <1>6, <1>7 DEF Isolated

\* So does committing a top-up, which writes one wallet.
LEMMA IsolatedCommitTopUp ==
  ASSUME Typed, Isolated, NEW s \in Session, CommitTopUp(s)
  PROVE  Isolated'
<1> DEFINE c == req[s].customer
<1>1. /\ pc[s] = "topup" /\ c \in Customer /\ HoldsWallet(s, c)
      /\ Leave(s) /\ UNCHANGED <<order, payments, issued>>
      /\ \A x \in Customer : x # c => balance'[x] = balance[x]
  BY DEF CommitTopUp, Post, HoldsWallet, Typed, TypeOK, Operands
<1> HIDE DEF c
<1>2. /\ pc'[s] = "idle"
      /\ \A t \in Session : t # s => pc'[t] = pc[t] /\ req'[t] = req[t]
  BY <1>1 DEF Leave, Typed, TypeOK
<1>3. LocksExclusive'
  BY <1>2 DEF Isolated, LocksExclusive, HoldsWallet, ChargesWallet, OnOrder
<1>4. PaymentIds' /\ PaymentsHaveOrders'
  BY <1>1, <1>2 DEF Isolated, PaymentIds, PaymentsHaveOrders, Paying
<1>5. OrderReadsFresh'
  BY <1>1, <1>2 DEF Isolated, OrderReadsFresh, OnOrder
<1>6. PaymentReadsFresh'
  BY <1>1, <1>2 DEF Isolated, PaymentReadsFresh, DepositsOf, PaymentsOf
<1>7. WalletReadsFresh'
  <2>1. \A t \in Session : t # s => ~HoldsWallet(t, c)
    BY <1>1 DEF Isolated, LocksExclusive
  <2>2. \A t \in Session : pc'[t] # "idle" =>
           t # s /\ pc'[t] = pc[t] /\ req'[t] = req[t]
    BY <1>2
  <2>3. \A t \in Session : (pc'[t] = "settle" /\ req'[t].method = "DEPOSIT") =>
           req[t].customer # c /\ req[t].customer \in Customer
    BY <2>1, <2>2 DEF HoldsWallet, ChargesWallet, Typed, Operands, OnOrder
  <2>4. \A t \in Session : pc'[t] = "topup" =>
           req[t].customer # c /\ req[t].customer \in Customer
    BY <2>1, <2>2 DEF HoldsWallet, Typed, Operands
  <2> QED
    BY <1>1, <2>2, <2>3, <2>4 DEF Isolated, WalletReadsFresh
<1> QED
  BY <1>3, <1>4, <1>5, <1>6, <1>7 DEF Isolated

\* Every step keeps the requests isolated from one another.
LEMMA IsolatedStep == Typed /\ Isolated /\ [Next]_vars => Isolated'
<1> SUFFICES ASSUME Typed, Isolated, [Next]_vars PROVE Isolated'
  OBVIOUS
<1>1. CASE UNCHANGED vars
  BY <1>1 DEF vars, Isolated, LocksExclusive, PaymentIds, PaymentsHaveOrders,
     OrderReadsFresh, PaymentReadsFresh, WalletReadsFresh, HoldsWallet, ChargesWallet,
     OnOrder, Paying, DepositsOf, PaymentsOf
<1>2. CASE Next
  <2>1. ASSUME NEW s \in Session, SessionStep(s) \/ Rollback(s) \/ DeadlockVictim(s)
        PROVE  Isolated'
    BY <2>1, IsolatedCharge, IsolatedLeave, IsolatedCommitPayment, IsolatedCommitVoid,
       IsolatedCommitDelete, IsolatedCommitTopUp
       DEF SessionStep, InsufficientDeposit, Rollback, DeadlockVictim
  <2>2. ASSUME NEW s \in Session, NEW o \in Order,
               \/ \E p \in Payment, a \in Amount, m \in Method : BeginPayment(s, o, p, a, m)
               \/ \E p \in payments : BeginVoid(s, o, p)
               \/ BeginDelete(s, o)
        PROVE  Isolated'
    BY <2>2, IsolatedBeginPayment, IsolatedBeginVoid, IsolatedBeginDelete
  <2>3. ASSUME NEW o \in Order, NEW c \in Customer, NEW t \in Total,
               CreateOrder(o, c, t) \/ UpdateOrder(o, c, t)
        PROVE  Isolated'
    BY <2>3, IsolatedCreate, IsolatedUpdate
  <2>4. ASSUME NEW s \in Session, NEW c \in Customer, NEW a \in Amount,
               NEW type \in TopUpType, BeginTopUp(s, c, a, type)
        PROVE  Isolated'
    BY <2>4, IsolatedBeginTopUp
  <2> QED
    BY <1>2, <2>1, <2>2, <2>3, <2>4 DEF Next
<1> QED
  BY <1>1, <1>2

-----------------------------------------------------------------------------
(* The ledger of every wallet explains its balance. *)

\* Appending a row that follows from the balance keeps the ledger explained.
LEMMA PostExplained ==
  ASSUME Typed, LedgerExplainsBalance, NEW c \in Customer, NEW type, NEW a, NEW after,
         Explains(balance[c], [type |-> type, amount |-> a, balanceAfter |-> after]),
         Post(c, type, a, after)
  PROVE  LedgerExplainsBalance'
<1> DEFINE row == [type |-> type, amount |-> a, balanceAfter |-> after]
           rows == Append(ledger[c], row)
<1>1. /\ balance' = [balance EXCEPT ![c] = after]
      /\ ledger' = [ledger EXCEPT ![c] = rows]
      /\ row.balanceAfter = after
  BY DEF Post
<1>2. \A x \in Customer : x # c => balance'[x] = balance[x] /\ ledger'[x] = ledger[x]
  BY <1>1 DEF Typed, TypeOK
<1>3. balance'[c] = after /\ ledger'[c] = rows
  BY <1>1 DEF Typed, TypeOK
<1> HIDE DEF row
<1>4. /\ Len(ledger[c]) \in Nat /\ Len(rows) = Len(ledger[c]) + 1
      /\ \A i \in 1 .. Len(ledger[c]) : rows[i] = ledger[c][i]
      /\ rows[Len(ledger[c]) + 1] = row
  BY DEF Typed, TypeOK
<1> HIDE DEF rows
<1>5. /\ \A i \in 1 .. Len(ledger[c]) :
            Explains(BalanceAfter(ledger[c], i - 1), ledger[c][i])
      /\ balance[c] = BalanceAfter(ledger[c], Len(ledger[c]))
  BY DEF LedgerExplainsBalance
<1>6. \A i \in 0 .. Len(ledger[c]) : BalanceAfter(rows, i) = BalanceAfter(ledger[c], i)
  BY <1>4 DEF BalanceAfter
<1>7. ASSUME NEW i \in 1 .. Len(rows)
      PROVE  Explains(BalanceAfter(rows, i - 1), rows[i])
  <2>1. CASE i \in 1 .. Len(ledger[c])
    BY <1>4, <1>5, <1>6, <2>1
  <2>2. CASE i = Len(ledger[c]) + 1
    <3>1. BalanceAfter(rows, i - 1) = balance[c] /\ rows[i] = row
      BY <1>4, <1>5, <1>6, <2>2
    <3> QED
      BY <3>1 DEF row
  <2> QED
    BY <1>4, <2>1, <2>2
<1>8. balance'[c] = BalanceAfter(rows, Len(rows))
  BY <1>1, <1>3, <1>4 DEF BalanceAfter
<1> QED
  BY <1>2, <1>3, <1>7, <1>8 DEF LedgerExplainsBalance

\* Every step keeps the ledgers explaining the balances.
LEMMA LedgerStep ==
  Typed /\ Isolated /\ LedgerExplainsBalance /\ [Next]_vars => LedgerExplainsBalance'
<1> SUFFICES ASSUME Typed, Isolated, LedgerExplainsBalance, [Next]_vars
             PROVE  LedgerExplainsBalance'
  OBVIOUS
<1>1. CASE UNCHANGED <<balance, ledger>>
  BY <1>1 DEF LedgerExplainsBalance
<1>2. ASSUME NEW s \in Session, CommitPayment(s) PROVE LedgerExplainsBalance'
  <2> DEFINE r == req[s]
  <2>1. pc[s] = "settle" /\ r.customer \in Customer /\ r.amount \in Nat /\ r.wallet \in Nat
    BY <1>2 DEF CommitPayment, Typed, TypeOK, Operands, OnOrder, Request
  <2>2. CASE r.method = "DEPOSIT"
    <3>1. Post(r.customer, "DEDUCTION", r.amount, r.wallet)
      BY <1>2, <2>2 DEF CommitPayment
    <3>2. balance[r.customer] = r.wallet + r.amount
      BY <2>1, <2>2 DEF Isolated, WalletReadsFresh
    <3>3. Explains(balance[r.customer],
                   [type |-> "DEDUCTION", amount |-> r.amount, balanceAfter |-> r.wallet])
      BY <2>1, <3>2 DEF Explains
    <3> QED
      BY <2>1, <3>1, <3>3, PostExplained
  <2>3. CASE r.method # "DEPOSIT"
    BY <1>1, <1>2, <2>3 DEF CommitPayment
  <2> QED
    BY <2>2, <2>3
<1>3. ASSUME NEW s \in Session, CommitVoid(s) \/ CommitDelete(s) PROVE LedgerExplainsBalance'
  <2> DEFINE r == req[s]
  <2>1. r.customer \in Customer /\ r.amount \in Nat
    BY <1>3 DEF CommitVoid, CommitDelete, Typed, TypeOK, Operands, OnOrder, Request
  <2>2. CASE Post(r.customer, "REFUND", r.amount, balance[r.customer] + r.amount)
    BY <2>1, <2>2, PostExplained DEF Explains
  <2>3. CASE UNCHANGED <<balance, ledger>>
    BY <1>1, <2>3
  <2> QED
    BY <1>3, <2>2, <2>3 DEF CommitVoid, CommitDelete
<1>4. ASSUME NEW s \in Session, CommitTopUp(s) PROVE LedgerExplainsBalance'
  <2> DEFINE r == req[s]
  <2>1. /\ r.customer \in Customer /\ Post(r.customer, r.type, r.amount, r.wallet)
        /\ r.wallet = balance[r.customer] + r.amount
    BY <1>4 DEF CommitTopUp, Typed, Operands, Isolated, WalletReadsFresh
  <2> QED
    BY <2>1, PostExplained DEF Explains
<1>5. ASSUME NEW s \in Session, SessionStep(s) \/ Rollback(s) \/ DeadlockVictim(s)
      PROVE  LedgerExplainsBalance'
  BY <1>1, <1>2, <1>3, <1>4, <1>5
     DEF SessionStep, ChargeWallet, InsufficientDeposit, Rollback, DeadlockVictim
<1> QED
  BY <1>1, <1>5 DEF Next, vars, CreateOrder, UpdateOrder, BeginPayment, BeginVoid,
     BeginDelete, BeginTopUp

-----------------------------------------------------------------------------
(* paidAmount is the sum of the order's payments. *)

\* Payments of an order are finitely many Payment rows.
LEMMA PaymentsOfFinite ==
  ASSUME Typed, NEW o
  PROVE  /\ PaymentsOf(o) \in SUBSET PaymentRow /\ IsFiniteSet(PaymentsOf(o))
         /\ DepositsOf(o) \in SUBSET PaymentRow /\ IsFiniteSet(DepositsOf(o))
<1>1. PaymentsOf(o) \in SUBSET payments /\ DepositsOf(o) \in SUBSET payments
  BY DEF PaymentsOf, DepositsOf
<1> QED
  BY <1>1, FS_Subset DEF Typed, TypeOK, Operands

\* A step that leaves the other orders and their payments alone keeps them
\* matched; the order it writes is the caller's business.
LEMMA PaidAt ==
  ASSUME PaidMatchesPayments, NEW o \in Order,
         \A x \in Order : x # o => order'[x] = order[x] /\ PaymentsOf(x)' = PaymentsOf(x),
         order'[o].stage = "live" => order'[o].paidAmount = SumAmounts(PaymentsOf(o)')
  PROVE  PaidMatchesPayments'
<1>1. \A x \in Order : SumAmounts(PaymentsOf(x))' = SumAmounts(PaymentsOf(x)')
  BY DEF SumAmounts
<1> QED
  BY <1>1 DEF PaidMatchesPayments

\* Every step keeps paidAmount the sum of the order's payments.
LEMMA PaidStep ==
  Typed /\ Isolated /\ PaidMatchesPayments /\ [Next]_vars => PaidMatchesPayments'
<1> SUFFICES ASSUME Typed, Isolated, PaidMatchesPayments, [Next]_vars
             PROVE  PaidMatchesPayments'
  OBVIOUS
<1>1. CASE UNCHANGED <<order, payments>>
  BY <1>1 DEF PaidMatchesPayments, PaymentsOf
<1>2. ASSUME NEW o \in Order, NEW c \in Customer, NEW t \in Total, CreateOrder(o, c, t)
      PROVE  PaidMatchesPayments'
  <2>1. /\ order[o].stage = "unborn" /\ order'[o].paidAmount = 0
        /\ \A x \in Order : x # o => order'[x] = order[x]
        /\ payments' = payments
    BY <1>2 DEF CreateOrder, Typed, TypeOK
  <2>2. PaymentsOf(o) = {}
    BY <2>1 DEF Isolated, PaymentsHaveOrders, PaymentsOf
  <2>3. \A x \in Order : PaymentsOf(x)' = PaymentsOf(x)
    BY <2>1 DEF PaymentsOf
  <2> QED
    BY <2>1, <2>2, <2>3, SumAmountsEmpty DEF PaidMatchesPayments
<1>3. ASSUME NEW o \in Order, NEW c \in Customer, NEW t \in Total, UpdateOrder(o, c, t)
      PROVE  PaidMatchesPayments'
  <2>1. /\ \A x \in Order : order'[x].paidAmount = order[x].paidAmount
                            /\ order'[x].stage = order[x].stage
        /\ payments' = payments
    BY <1>3 DEF UpdateOrder, Typed, TypeOK, OrderRow
  <2> QED
    BY <2>1 DEF PaidMatchesPayments, PaymentsOf
<1>4. ASSUME NEW s \in Session, CommitPayment(s) PROVE PaidMatchesPayments'
  <2> DEFINE r == req[s]
             row == [id |-> r.payment, orderId |-> r.order, amount |-> r.amount,
                     method |-> r.method, payer |-> r.customer]
  <2>1. /\ s \in OnOrder /\ s \in Paying /\ r.order \in Order
        /\ r.customer \in Customer /\ r.payment \in Payment
    BY <1>4 DEF CommitPayment, OnOrder, Paying, Typed, Operands
  <2>2. r.amount \in Nat /\ r.paid \in Nat /\ r.method \in Method /\ r.order \in Order
    BY <2>1 DEF Typed, TypeOK, Request, OnOrder
  <2>3. row \in PaymentRow
    BY <2>1, <2>2 DEF PaymentRow
  <2>4. row \notin payments
    BY <2>1 DEF Isolated, PaymentIds
  <2>5. order[r.order].stage = "live" /\ r.paid = order[r.order].paidAmount
    BY <2>1 DEF Isolated, OrderReadsFresh
  <2>6. PICK o \in Order : o = r.order
    BY <2>1
  <2>7. /\ payments' = payments \cup {row}
        /\ order'[o].paidAmount = r.paid + r.amount
        /\ \A x \in Order : x # o => order'[x] = order[x]
    BY <1>4, <2>6 DEF CommitPayment, Typed, TypeOK, OrderRow
  <2>8. row.orderId = o /\ row.amount = r.amount
    BY <2>6
  <2> HIDE DEF row, r
  <2>9. PaymentsOf(o)' = PaymentsOf(o) \cup {row}
    BY <2>7, <2>8 DEF PaymentsOf
  <2>10. SumAmounts(PaymentsOf(o) \cup {row}) = SumAmounts(PaymentsOf(o)) + r.amount
    <3>1. row \notin PaymentsOf(o)
      BY <2>4 DEF PaymentsOf
    <3> QED
      BY <2>3, <2>8, <3>1, PaymentsOfFinite, SumAmountsAdd
  <2>11. \A x \in Order : x # o => PaymentsOf(x)' = PaymentsOf(x)
    BY <2>7, <2>8 DEF PaymentsOf
  <2>12. r.paid = SumAmounts(PaymentsOf(o))
    BY <2>5, <2>6 DEF PaidMatchesPayments
  <2>13. order'[o].paidAmount = SumAmounts(PaymentsOf(o)')
    BY <2>7, <2>9, <2>10, <2>12
  <2> QED
    BY <2>7, <2>11, <2>13, PaidAt
<1>5. ASSUME NEW s \in Session, CommitVoid(s) PROVE PaidMatchesPayments'
  <2> DEFINE r == req[s]
             newPaid == IF r.paid < r.amount THEN 0 ELSE r.paid - r.amount
  <2>1. s \in OnOrder /\ pc[s] = "void" /\ r.order \in Order
    BY <1>5 DEF CommitVoid, OnOrder, Typed, Operands
  <2>2. order[r.order].stage = "live" /\ r.paid = order[r.order].paidAmount
    BY <2>1 DEF Isolated, OrderReadsFresh
  <2>3. PICK p \in payments : /\ p.id = r.payment /\ p.orderId = r.order
                              /\ p.amount = r.amount /\ p.method = r.method
    BY <2>1 DEF Isolated, PaymentReadsFresh, OnOrder
  <2>4. PICK o \in Order : o = r.order
    BY <2>1
  <2>5. /\ payments' = {x \in payments : x.id # r.payment}
        /\ order'[o].paidAmount = newPaid
        /\ \A x \in Order : x # o => order'[x] = order[x]
    BY <1>5, <2>4 DEF CommitVoid, Typed, TypeOK, OrderRow
  <2>6. payments' = payments \ {p}
    BY <2>3, <2>5 DEF Isolated, PaymentIds
  <2> HIDE DEF r, newPaid
  <2>7. p \in PaymentsOf(o) /\ PaymentsOf(o)' = PaymentsOf(o) \ {p}
    BY <2>3, <2>4, <2>6 DEF PaymentsOf
  <2>8. SumAmounts(PaymentsOf(o)) = SumAmounts(PaymentsOf(o) \ {p}) + r.amount
    BY <2>3, <2>7, PaymentsOfFinite, SumAmountsRemove
  <2>9. SumAmounts(PaymentsOf(o) \ {p}) \in Nat
    <3>1. PaymentsOf(o) \ {p} \in SUBSET PaymentRow /\ IsFiniteSet(PaymentsOf(o) \ {p})
      BY PaymentsOfFinite, FS_RemoveElement
    <3> QED
      BY <3>1, SumAmountsNat
  <2>10. r.paid = SumAmounts(PaymentsOf(o))
    BY <2>2, <2>4 DEF PaidMatchesPayments
  <2>11. r.amount \in Nat
    BY <2>3 DEF Typed, TypeOK, PaymentRow
  <2>12. newPaid = SumAmounts(PaymentsOf(o) \ {p})
    BY <2>8, <2>9, <2>10, <2>11 DEF newPaid
  <2>13. \A x \in Order : x # o => PaymentsOf(x)' = PaymentsOf(x)
    BY <2>3, <2>4, <2>6 DEF PaymentsOf
  <2>14. order'[o].paidAmount = SumAmounts(PaymentsOf(o)')
    BY <2>5, <2>7, <2>12
  <2> QED
    BY <2>5, <2>13, <2>14, PaidAt
<1>6. ASSUME NEW s \in Session, CommitDelete(s) PROVE PaidMatchesPayments'
  <2>1. PICK o \in Order : o = req[s].order
    BY <1>6 DEF CommitDelete, OnOrder, Typed, Operands
  <2>2. /\ payments' = payments \ PaymentsOf(o)
        /\ order'[o].stage = "deleted"
        /\ \A x \in Order : x # o => order'[x] = order[x]
    BY <1>6, <2>1 DEF CommitDelete, Typed, TypeOK, OrderRow
  <2>3. \A x \in Order : x # o => PaymentsOf(x)' = PaymentsOf(x)
    BY <2>2 DEF PaymentsOf
  <2> QED
    BY <2>2, <2>3, PaidAt
<1>7. ASSUME NEW s \in Session, SessionStep(s) \/ Rollback(s) \/ DeadlockVictim(s)
      PROVE  PaidMatchesPayments'
  BY <1>1, <1>4, <1>5, <1>6, <1>7
     DEF SessionStep, ChargeWallet, InsufficientDeposit, CommitTopUp, Rollback, DeadlockVictim
<1>8. ASSUME NEW o \in Order, NEW c \in Customer, NEW t \in Total,
             CreateOrder(o, c, t) \/ UpdateOrder(o, c, t)
      PROVE  PaidMatchesPayments'
  BY <1>2, <1>3, <1>8
<1> QED
  BY <1>1, <1>7, <1>8 DEF Next, vars, BeginPayment, BeginVoid, BeginDelete, BeginTopUp
-----------------------------------------------------------------------------
(* Deposits are conserved. *)

\* The rows whose amounts were taken from a wallet.
DepositRows(rows) == {p \in rows : p.method = "DEPOSIT"}

\* Writing one wallet changes the total of all wallets by the difference.
LEMMA PostMovesTotal ==
  ASSUME Typed, NEW c \in Customer, NEW a, NEW type, NEW after \in Nat,
         Post(c, type, a, after)
  PROVE  /\ SumFunction(balance) \in Nat /\ SumFunction(balance') \in Nat
         /\ SumFunction(balance') - after = SumFunction(balance) - balance[c]
<1>1. /\ DOMAIN balance = Customer /\ DOMAIN balance' = Customer
      /\ \A x \in Customer : balance[x] \in Nat /\ balance'[x] \in Nat
      /\ \A x \in Customer \ {c} : balance[x] = balance'[x]
      /\ balance'[c] = after
  BY DEF Post, Typed, TypeOK
<1>2. /\ SumFunction(balance) = SumFunctionOnSet(balance, Customer)
      /\ SumFunction(balance') = SumFunctionOnSet(balance', Customer)
  BY <1>1 DEF SumFunction
<1>3. /\ SumFunctionOnSet(balance, Customer) \in Nat
      /\ SumFunctionOnSet(balance', Customer) \in Nat
  BY <1>1, LedgerAssumption, SumNat
<1>4. SumFunctionOnSet(balance, Customer) - balance[c]
        = SumFunctionOnSet(balance', Customer) - balance'[c]
  BY <1>1, LedgerAssumption, SumUpdate
<1> QED
  BY <1>1, <1>2, <1>3, <1>4

\* Deposit payments are finitely many Payment rows, with a natural sum.
LEMMA DepositRowsFinite ==
  ASSUME Typed
  PROVE  /\ DepositRows(payments) \in SUBSET PaymentRow
         /\ IsFiniteSet(DepositRows(payments))
         /\ SumAmounts(DepositRows(payments)) \in Nat
<1>1. /\ DepositRows(payments) \in SUBSET PaymentRow
      /\ IsFiniteSet(DepositRows(payments))
  <2>1. DepositRows(payments) \in SUBSET payments
    BY DEF DepositRows
  <2> QED
    BY <2>1, FS_Subset DEF Typed, TypeOK, Operands
<1> QED
  BY <1>1, SumAmountsNat

\* The balance sheet, with the primes on the variables only.
LEMMA DepositsPrimed ==
  /\ DepositsConserved <=>
        SumFunction(balance) + SumAmounts(DepositRows(payments)) = toppedUp
  /\ DepositsConserved' <=>
        SumFunction(balance') + SumAmounts(DepositRows(payments')) = toppedUp'
<1>1. SumFunction(balance)' = SumFunction(balance')
  BY DEF SumFunction
<1>2. SumAmounts(DepositRows(payments))' = SumAmounts(DepositRows(payments'))
  BY DEF SumAmounts, DepositRows
<1> QED
  BY <1>1, <1>2 DEF DepositsConserved, DepositRows

\* Every step keeps the balance sheet: a payment moves its amount from a wallet
\* to the rows, a refund moves back what the rows removed with it amount to.
LEMMA DepositsStep ==
  Typed /\ Isolated /\ DepositsConserved /\ [Next]_vars => DepositsConserved'
<1> SUFFICES ASSUME Typed, Isolated, DepositsConserved, [Next]_vars
             PROVE  DepositsConserved'
  OBVIOUS
<1>0. /\ SumFunction(balance) + SumAmounts(DepositRows(payments)) = toppedUp
      /\ DepositRows(payments) \in SUBSET PaymentRow
      /\ IsFiniteSet(DepositRows(payments))
      /\ SumAmounts(DepositRows(payments)) \in Nat
  BY DepositsPrimed, DepositRowsFinite
<1>1. CASE UNCHANGED <<balance, payments, toppedUp>>
  BY <1>0, <1>1, DepositsPrimed
<1>2. ASSUME NEW s \in Session, CommitPayment(s) PROVE DepositsConserved'
  <2> DEFINE r == req[s]
             row == [id |-> r.payment, orderId |-> r.order, amount |-> r.amount,
                     method |-> r.method, payer |-> r.customer]
  <2>1. /\ pc[s] = "settle" /\ s \in Paying /\ r.order \in Order
        /\ r.customer \in Customer /\ r.payment \in Payment
        /\ r.amount \in Nat /\ r.wallet \in Nat /\ r.method \in Method
    BY <1>2 DEF CommitPayment, OnOrder, Paying, Typed, TypeOK, Operands, Request
  <2>2. row \in PaymentRow /\ row.amount = r.amount /\ row.method = r.method
    BY <2>1 DEF PaymentRow
  <2>3. row \notin payments
    BY <2>1 DEF Isolated, PaymentIds
  <2>4. payments' = payments \cup {row} /\ toppedUp' = toppedUp
    BY <1>2 DEF CommitPayment
  <2>5. CASE r.method = "DEPOSIT"
    <3>1. Post(r.customer, "DEDUCTION", r.amount, r.wallet)
      BY <1>2, <2>5 DEF CommitPayment
    <3>2. balance[r.customer] = r.wallet + r.amount
      BY <2>1, <2>5 DEF Isolated, WalletReadsFresh
    <3> HIDE DEF row, r
    <3>3. /\ SumFunction(balance) \in Nat /\ SumFunction(balance') \in Nat
          /\ SumFunction(balance') - r.wallet = SumFunction(balance) - balance[r.customer]
      BY <2>1, <3>1, PostMovesTotal
    <3>4. DepositRows(payments') = DepositRows(payments) \cup {row}
      BY <2>2, <2>4, <2>5 DEF DepositRows
    <3>5. SumAmounts(DepositRows(payments'))
            = SumAmounts(DepositRows(payments)) + r.amount
      <4>1. row \notin DepositRows(payments)
        BY <2>3 DEF DepositRows
      <4> QED
        BY <1>0, <2>2, <3>4, <4>1, SumAmountsAdd
    <3>6. SumFunction(balance') + SumAmounts(DepositRows(payments')) = toppedUp'
      BY <1>0, <2>1, <2>4, <3>2, <3>3, <3>5
    <3> QED
      BY <3>6, DepositsPrimed
  <2>6. CASE r.method # "DEPOSIT"
    <3>1. balance' = balance
      BY <1>2, <2>6 DEF CommitPayment
    <3> HIDE DEF row, r
    <3>2. DepositRows(payments') = DepositRows(payments)
      BY <2>2, <2>4, <2>6 DEF DepositRows
    <3> QED
      BY <1>0, <2>4, <3>1, <3>2, DepositsPrimed
  <2> QED
    BY <2>5, <2>6
<1>3. ASSUME NEW s \in Session, CommitVoid(s) PROVE DepositsConserved'
  <2> DEFINE r == req[s]
  <2>1. /\ pc[s] = "void" /\ r.customer \in Customer /\ r.amount \in Nat
    BY <1>3 DEF CommitVoid, OnOrder, Typed, TypeOK, Operands, Request
  <2>2. PICK p \in payments : /\ p.id = r.payment /\ p.orderId = r.order
                              /\ p.amount = r.amount /\ p.method = r.method
    BY <2>1 DEF Isolated, PaymentReadsFresh
  <2>3. payments' = {x \in payments : x.id # r.payment} /\ toppedUp' = toppedUp
    BY <1>3 DEF CommitVoid
  <2>4. payments' = payments \ {p}
    BY <2>2, <2>3 DEF Isolated, PaymentIds
  <2>5. CASE r.method = "DEPOSIT"
    <3>1. Post(r.customer, "REFUND", r.amount, balance[r.customer] + r.amount)
      BY <1>3, <2>5 DEF CommitVoid
    <3> HIDE DEF r
    <3>2. balance[r.customer] \in Nat /\ balance[r.customer] + r.amount \in Nat
      BY <2>1 DEF Typed, TypeOK
    <3>3. /\ SumFunction(balance) \in Nat /\ SumFunction(balance') \in Nat
          /\ SumFunction(balance') - (balance[r.customer] + r.amount)
               = SumFunction(balance) - balance[r.customer]
      BY <2>1, <3>1, <3>2, PostMovesTotal
    <3>4. /\ p \in DepositRows(payments)
          /\ DepositRows(payments') = DepositRows(payments) \ {p}
      BY <2>2, <2>4, <2>5 DEF DepositRows
    <3>5. SumAmounts(DepositRows(payments))
            = SumAmounts(DepositRows(payments')) + r.amount
      BY <1>0, <2>2, <3>4, SumAmountsRemove
    <3>6. SumAmounts(DepositRows(payments')) \in Nat
      <4>1. /\ DepositRows(payments') \in SUBSET PaymentRow
            /\ IsFiniteSet(DepositRows(payments'))
        BY <1>0, <3>4, FS_RemoveElement
      <4> QED
        BY <4>1, SumAmountsNat
    <3>7. SumFunction(balance') + SumAmounts(DepositRows(payments')) = toppedUp'
      BY <1>0, <2>1, <2>3, <3>2, <3>3, <3>5, <3>6
    <3> QED
      BY <3>7, DepositsPrimed
  <2>6. CASE r.method # "DEPOSIT"
    <3>1. balance' = balance
      BY <1>3, <2>6 DEF CommitVoid
    <3> HIDE DEF r
    <3>2. DepositRows(payments') = DepositRows(payments)
      BY <2>2, <2>4, <2>6 DEF DepositRows
    <3> QED
      BY <1>0, <2>3, <3>1, <3>2, DepositsPrimed
  <2> QED
    BY <2>5, <2>6
<1>4. ASSUME NEW s \in Session, CommitDelete(s) PROVE DepositsConserved'
  <2> DEFINE r == req[s]
             part == DepositsOf(r.order)
  <2>1. /\ pc[s] = "delete" /\ r.customer \in Customer /\ r.amount \in Nat
    BY <1>4 DEF CommitDelete, OnOrder, Typed, TypeOK, Operands, Request
  <2>2. r.amount = SumAmounts(part)
    BY <2>1 DEF Isolated, PaymentReadsFresh
  <2>3. payments' = payments \ PaymentsOf(r.order) /\ toppedUp' = toppedUp
    BY <1>4 DEF CommitDelete
  <2>4. /\ part \in SUBSET DepositRows(payments)
        /\ DepositRows(payments') = DepositRows(payments) \ part
    BY <2>3 DEF DepositRows, DepositsOf, PaymentsOf
  <2>5. CASE r.amount > 0
    <3>1. Post(r.customer, "REFUND", r.amount, balance[r.customer] + r.amount)
      BY <1>4, <2>5 DEF CommitDelete
    <3>2. balance[r.customer] \in Nat /\ balance[r.customer] + r.amount \in Nat
      BY <2>1 DEF Typed, TypeOK
    <3> HIDE DEF r, part
    <3>3. /\ SumFunction(balance) \in Nat /\ SumFunction(balance') \in Nat
          /\ SumFunction(balance') - (balance[r.customer] + r.amount)
               = SumFunction(balance) - balance[r.customer]
      BY <2>1, <3>1, <3>2, PostMovesTotal
    <3>4. SumAmounts(DepositRows(payments))
            = SumAmounts(DepositRows(payments')) + r.amount
      BY <1>0, <2>2, <2>4, SumAmountsSplit
    <3>5. SumAmounts(DepositRows(payments')) \in Nat
      <4>1. /\ DepositRows(payments') \in SUBSET PaymentRow
            /\ IsFiniteSet(DepositRows(payments'))
        BY <1>0, <2>4, FS_Subset
      <4> QED
        BY <4>1, SumAmountsNat
    <3>6. SumFunction(balance') + SumAmounts(DepositRows(payments')) = toppedUp'
      BY <1>0, <2>1, <2>3, <3>2, <3>3, <3>4, <3>5
    <3> QED
      BY <3>6, DepositsPrimed
  <2>6. CASE ~(r.amount > 0)
    <3>1. balance' = balance
      BY <1>4, <2>6 DEF CommitDelete
    <3>2. r.amount = 0
      BY <2>1, <2>6
    <3> HIDE DEF r, part
    <3>3. SumAmounts(DepositRows(payments))
            = SumAmounts(DepositRows(payments')) + r.amount
      BY <1>0, <2>2, <2>4, SumAmountsSplit
    <3>4. SumAmounts(DepositRows(payments')) \in Nat
      <4>1. /\ DepositRows(payments') \in SUBSET PaymentRow
            /\ IsFiniteSet(DepositRows(payments'))
        BY <1>0, <2>4, FS_Subset
      <4> QED
        BY <4>1, SumAmountsNat
    <3>5. SumAmounts(DepositRows(payments')) = SumAmounts(DepositRows(payments))
      BY <3>2, <3>3, <3>4
    <3> QED
      BY <1>0, <2>3, <3>1, <3>5, DepositsPrimed
  <2> QED
    BY <2>5, <2>6
<1>5. ASSUME NEW s \in Session, CommitTopUp(s) PROVE DepositsConserved'
  <2> DEFINE r == req[s]
  <2>1. /\ pc[s] = "topup" /\ r.customer \in Customer /\ r.amount \in Nat /\ r.wallet \in Nat
        /\ Post(r.customer, r.type, r.amount, r.wallet)
        /\ toppedUp' = toppedUp + r.amount /\ payments' = payments
    BY <1>5 DEF CommitTopUp, Typed, TypeOK, Operands, Request
  <2>2. r.wallet = balance[r.customer] + r.amount
    BY <2>1 DEF Isolated, WalletReadsFresh
  <2> HIDE DEF r
  <2>3. /\ SumFunction(balance) \in Nat /\ SumFunction(balance') \in Nat
        /\ SumFunction(balance') - r.wallet = SumFunction(balance) - balance[r.customer]
    BY <2>1, PostMovesTotal
  <2>4. balance[r.customer] \in Nat
    BY <2>1 DEF Typed, TypeOK
  <2>5. SumFunction(balance') + SumAmounts(DepositRows(payments')) = toppedUp'
    BY <1>0, <2>1, <2>2, <2>3, <2>4
  <2> QED
    BY <2>5, DepositsPrimed
<1>6. ASSUME NEW s \in Session, SessionStep(s) \/ Rollback(s) \/ DeadlockVictim(s)
      PROVE  DepositsConserved'
  BY <1>1, <1>2, <1>3, <1>4, <1>5, <1>6
     DEF SessionStep, ChargeWallet, InsufficientDeposit, Rollback, DeadlockVictim
<1> QED
  BY <1>1, <1>6 DEF Next, vars, CreateOrder, UpdateOrder, BeginPayment, BeginVoid,
     BeginDelete, BeginTopUp

-----------------------------------------------------------------------------
(* What recording and voiding a payment do to its order. *)

\* The step that records a payment, without the box.
NoOverpayment ==
    \A o \in Order :
        (order[o].stage = "live" /\ order'[o].paidAmount > order[o].paidAmount)
            => order'[o].paidAmount <= order'[o].totalAmount

\* The step that follows a payment or a void, without the box.
StatusInLine ==
    \A o \in Order :
        (order[o].stage = "live" /\ order'[o].paidAmount # order[o].paidAmount)
            => /\ order'[o].paymentStatus = "PAID"
                     <=> order'[o].paidAmount >= order'[o].totalAmount
               /\ order'[o].paymentStatus = "PENDING" => order'[o].paidAmount = 0

\* Only these two handlers write the paidAmount of a live order.
LEMMA PaidWrittenBy ==
  ASSUME Typed, [Next]_vars,
         \A s \in Session : ~CommitPayment(s) /\ ~CommitVoid(s)
  PROVE  \A o \in Order : order[o].stage = "live" =>
            order'[o].paidAmount = order[o].paidAmount
<1>1. CASE UNCHANGED order
  BY <1>1
<1>2. ASSUME NEW o \in Order, NEW c \in Customer, NEW t \in Total,
             CreateOrder(o, c, t) \/ UpdateOrder(o, c, t)
      PROVE  \A x \in Order : order[x].stage = "live" =>
                order'[x].paidAmount = order[x].paidAmount
  <2>1. CASE CreateOrder(o, c, t)
    BY <2>1 DEF CreateOrder, Typed, TypeOK
  <2>2. CASE UpdateOrder(o, c, t)
    BY <2>2 DEF UpdateOrder, Typed, TypeOK, OrderRow
  <2> QED
    BY <1>2, <2>1, <2>2
<1>3. ASSUME NEW s \in Session, CommitDelete(s)
      PROVE  \A x \in Order : order[x].stage = "live" =>
                order'[x].paidAmount = order[x].paidAmount
  BY <1>3 DEF CommitDelete, Typed, TypeOK, OrderRow
<1>4. ASSUME NEW s \in Session, SessionStep(s) \/ Rollback(s) \/ DeadlockVictim(s)
      PROVE  UNCHANGED order \/ \E t \in Session : CommitDelete(t)
  BY <1>4 DEF SessionStep, ChargeWallet, InsufficientDeposit, CommitTopUp, Rollback,
     DeadlockVictim
<1> QED
  BY <1>1, <1>2, <1>3, <1>4 DEF Next, vars, BeginPayment, BeginVoid, BeginDelete, BeginTopUp

\* A payment raises paidAmount, not above the present total, and recomputes the
\* status.
LEMMA PaymentWrites ==
  ASSUME Typed, Isolated, NEW s \in Session, CommitPayment(s)
  PROVE  \E o \in Order, a \in Nat :
            LET paid == order[o].paidAmount + a IN
            /\ paid <= order[o].totalAmount
            /\ order'[o].totalAmount = order[o].totalAmount
            /\ order'[o].paidAmount = paid
            /\ order'[o].paymentStatus = StatusAfterPayment(paid, order[o].totalAmount)
            /\ \A x \in Order : x # o => order'[x] = order[x]
<1> DEFINE r == req[s]
<1>1. /\ pc[s] = "settle" /\ s \in OnOrder /\ r.order \in Order
      /\ r.amount \in Nat
  BY DEF CommitPayment, OnOrder, Typed, TypeOK, Operands, Request
<1>2. /\ r.total = order[r.order].totalAmount /\ r.paid = order[r.order].paidAmount
      /\ r.paid + r.amount <= r.total
  BY <1>1 DEF Isolated, OrderReadsFresh
<1>3. /\ order'[r.order].totalAmount = order[r.order].totalAmount
      /\ order'[r.order].paidAmount = r.paid + r.amount
      /\ order'[r.order].paymentStatus = StatusAfterPayment(r.paid + r.amount, r.total)
      /\ \A x \in Order : x # r.order => order'[x] = order[x]
  BY <1>1 DEF CommitPayment, Typed, TypeOK, OrderRow
<1> QED
  BY <1>1, <1>2, <1>3

\* A void lowers paidAmount, not below zero, and recomputes the status.
LEMMA VoidWrites ==
  ASSUME Typed, Isolated, NEW s \in Session, CommitVoid(s)
  PROVE  \E o \in Order, paid \in Nat :
            /\ paid <= order[o].paidAmount
            /\ order'[o].totalAmount = order[o].totalAmount
            /\ order'[o].paidAmount = paid
            /\ order'[o].paymentStatus = StatusAfterVoid(paid, order[o].totalAmount)
            /\ \A x \in Order : x # o => order'[x] = order[x]
<1> DEFINE r == req[s]
           newPaid == IF r.paid < r.amount THEN 0 ELSE r.paid - r.amount
<1>1. /\ pc[s] = "void" /\ s \in OnOrder /\ r.order \in Order
      /\ r.amount \in Nat /\ r.paid \in Nat
  BY DEF CommitVoid, OnOrder, Typed, TypeOK, Operands, Request
<1>2. r.total = order[r.order].totalAmount /\ r.paid = order[r.order].paidAmount
  BY <1>1 DEF Isolated, OrderReadsFresh
<1>3. newPaid \in Nat /\ newPaid <= r.paid
  BY <1>1
<1>4. /\ order'[r.order].totalAmount = order[r.order].totalAmount
      /\ order'[r.order].paidAmount = newPaid
      /\ order'[r.order].paymentStatus = StatusAfterVoid(newPaid, r.total)
      /\ \A x \in Order : x # r.order => order'[x] = order[x]
  BY <1>1 DEF CommitVoid, Typed, TypeOK, OrderRow
<1> HIDE DEF newPaid
<1> QED
  BY <1>1, <1>2, <1>3, <1>4

\* Hence every step keeps both promises about the amounts of an order.
LEMMA AmountStep == Typed /\ Isolated /\ [Next]_vars => NoOverpayment /\ StatusInLine
<1> SUFFICES ASSUME Typed, Isolated, [Next]_vars PROVE NoOverpayment /\ StatusInLine
  OBVIOUS
<1>0. \A o \in Order : order[o].paidAmount \in Nat /\ order[o].totalAmount \in Nat
  BY DEF Typed, TypeOK, OrderRow
<1>1. CASE \E s \in Session : CommitPayment(s)
  <2>1. PICK o \in Order, a \in Nat :
            LET paid == order[o].paidAmount + a IN
            /\ paid <= order[o].totalAmount
            /\ order'[o].totalAmount = order[o].totalAmount
            /\ order'[o].paidAmount = paid
            /\ order'[o].paymentStatus = StatusAfterPayment(paid, order[o].totalAmount)
            /\ \A x \in Order : x # o => order'[x] = order[x]
    BY <1>1, PaymentWrites
  <2>2. NoOverpayment
    BY <1>0, <2>1 DEF NoOverpayment
  <2>3. StatusInLine
    BY <1>0, <2>1 DEF StatusInLine, StatusAfterPayment
  <2> QED
    BY <2>2, <2>3
<1>2. CASE \E s \in Session : CommitVoid(s)
  <2>1. PICK o \in Order, paid \in Nat :
            /\ paid <= order[o].paidAmount
            /\ order'[o].totalAmount = order[o].totalAmount
            /\ order'[o].paidAmount = paid
            /\ order'[o].paymentStatus = StatusAfterVoid(paid, order[o].totalAmount)
            /\ \A x \in Order : x # o => order'[x] = order[x]
    BY <1>2, VoidWrites
  <2>2. NoOverpayment
    BY <1>0, <2>1 DEF NoOverpayment
  <2>3. StatusInLine
    BY <1>0, <2>1 DEF StatusInLine, StatusAfterVoid
  <2> QED
    BY <2>2, <2>3
<1>3. CASE \A s \in Session : ~CommitPayment(s) /\ ~CommitVoid(s)
  <2>1. \A o \in Order : order[o].stage = "live" =>
            order'[o].paidAmount = order[o].paidAmount
    BY <1>3, PaidWrittenBy
  <2> QED
    BY <1>0, <2>1 DEF NoOverpayment, StatusInLine
<1> QED
  BY <1>1, <1>2, <1>3

-----------------------------------------------------------------------------
(* The theorems. *)

\* Initially there are no rows and every wallet is empty.
LEMMA SumsInit ==
  Init => PaidMatchesPayments /\ LedgerExplainsBalance /\ DepositsConserved
<1> SUFFICES ASSUME Init
             PROVE  PaidMatchesPayments /\ LedgerExplainsBalance /\ DepositsConserved
  OBVIOUS
<1>1. PaidMatchesPayments
  BY DEF Init, PaidMatchesPayments
<1>2. LedgerExplainsBalance
  <2>1. \A c \in Customer : ledger[c] = <<>> /\ Len(ledger[c]) = 0 /\ balance[c] = 0
    BY DEF Init
  <2> QED
    BY <2>1 DEF LedgerExplainsBalance, BalanceAfter
<1>3. DepositsConserved
  <2>1. DOMAIN balance = Customer /\ \A c \in Customer : balance[c] = 0
    BY DEF Init
  <2>2. SumFunction(balance) = SumFunctionOnSet(balance, Customer)
    BY <2>1 DEF SumFunction
  <2>3. SumFunction(balance) = 0
    BY <2>1, <2>2, LedgerAssumption, SumZero
  <2>4. SumAmounts(DepositRows(payments)) = 0
    <3>1. DepositRows(payments) = {}
      BY DEF Init, DepositRows
    <3> QED
      BY <3>1, SumAmountsEmpty
  <2>5. SumFunction(balance) + SumAmounts(DepositRows(payments)) = toppedUp
    BY <2>3, <2>4 DEF Init
  <2> QED
    BY <2>5, DepositsPrimed
<1> QED
  BY <1>1, <1>2, <1>3

\* The inductive invariant of the module, put together from its layers.
LEMMA InvLayers ==
  Inv <=> Typed /\ Isolated /\ PaidMatchesPayments /\ LedgerExplainsBalance
            /\ DepositsConserved
  BY DEF Inv, Typed, Isolated

\* The invariant holds initially.
LEMMA InvInit == Init => Inv
  BY TypedInit, IsolatedInit, SumsInit, InvLayers

\* Every step keeps the invariant.
LEMMA InvStep == Inv /\ [Next]_vars => Inv'
<1> SUFFICES ASSUME Inv, [Next]_vars PROVE Inv'
  OBVIOUS
<1>1. /\ Typed /\ Isolated /\ PaidMatchesPayments /\ LedgerExplainsBalance
      /\ DepositsConserved
  BY InvLayers
<1>2. Typed' /\ Isolated'
  BY <1>1, TypedStep, IsolatedStep
<1>3. PaidMatchesPayments' /\ LedgerExplainsBalance' /\ DepositsConserved'
  BY <1>1, PaidStep, LedgerStep, DepositsStep
<1> QED
  BY <1>2, <1>3 DEF Inv, Typed, Isolated

\* The row locks make every handler's write follow from what it read: the
\* inductive invariant holds of every behaviour of the ledger.
THEOREM InvHolds == Spec => []Inv
<1>1. Init => Inv
  BY InvInit
<1>2. Inv /\ [Next]_vars => Inv'
  BY InvStep
<1> QED
  BY <1>1, <1>2, PTL DEF Spec

\* An order's paidAmount is the sum of its Payment rows in every behaviour of
\* RecordPayment, VoidPayment, Update and Delete.
THEOREM PaidCorrect == Spec => []PaidMatchesPayments
<1>1. Inv => PaidMatchesPayments
  BY DEF Inv
<1> QED
  BY <1>1, InvHolds, PTL

\* The DepositTransaction rows of every customer explain the wallet's balance.
THEOREM LedgerExplained == Spec => []LedgerExplainsBalance
<1>1. Inv => LedgerExplainsBalance
  BY DEF Inv
<1> QED
  BY <1>1, InvHolds, PTL

\* No interleaving of payments, voids, deletes and top-ups creates or loses
\* deposited money.
THEOREM DepositsAreConserved == Spec => []DepositsConserved
<1>1. Inv => DepositsConserved
  BY DEF Inv
<1> QED
  BY <1>1, InvHolds, PTL

\* RecordPayment never takes a payment past the order's total.
THEOREM NeverOverpaid == Spec => PaymentsNeverOverpay
<1>1. Inv /\ [Next]_vars => [NoOverpayment]_vars
  BY AmountStep, InvLayers
<1>2. PaymentsNeverOverpay <=> [][NoOverpayment]_vars
  BY DEF PaymentsNeverOverpay, NoOverpayment
<1> QED
  BY <1>1, <1>2, InvHolds, PTL DEF Spec

\* RecordPayment and VoidPayment bring paymentStatus in line with the amounts.
THEOREM StatusInLineWithAmounts == Spec => StatusRecomputed
<1>1. Inv /\ [Next]_vars => [StatusInLine]_vars
  BY AmountStep, InvLayers
<1>2. StatusRecomputed <=> [][StatusInLine]_vars
  BY DEF StatusRecomputed, StatusInLine
<1> QED
  BY <1>1, <1>2, InvHolds, PTL DEF Spec

-----------------------------------------------------------------------------
(* The escrow: each commit is one step of it, and every other step of a      *)
(* request is a stutter.                                                     *)

\* The variables of Escrow, as the ledger represents them.
escrow == <<balance, Held, Deleted, toppedUp>>

\* What the orders hold, with the prime on the variables only.
LEMMA HeldPrimed ==
  /\ Held' = [o \in Order |-> SumAmounts(DepositsOf(o)')]
  /\ Deleted' = {o \in Order : order'[o].stage = "deleted"}
  BY DEF Held, Deleted, SumAmounts

\* An order holds a natural amount.
LEMMA HeldNat ==
  ASSUME Typed, NEW o \in Order
  PROVE  Held[o] = SumAmounts(DepositsOf(o)) /\ Held[o] \in Nat
  BY PaymentsOfFinite, SumAmountsNat DEF Held

\* A step that changes neither wallets nor deposits nor deletes an order is a
\* stutter of the escrow.
LEMMA EscrowStutter ==
  ASSUME balance' = balance, toppedUp' = toppedUp,
         \A o \in Order : DepositsOf(o)' = DepositsOf(o),
         \A o \in Order : order'[o].stage = "deleted" <=> order[o].stage = "deleted"
  PROVE  UNCHANGED escrow
<1>1. Held' = Held
  BY HeldPrimed DEF Held
<1>2. Deleted' = Deleted
  BY HeldPrimed DEF Deleted
<1> QED
  BY <1>1, <1>2 DEF escrow

\* A step that changes the deposits of one order changes what that order holds.
LEMMA HeldMoves ==
  ASSUME NEW o \in Order, NEW n,
         \A x \in Order : x # o => DepositsOf(x)' = DepositsOf(x),
         SumAmounts(DepositsOf(o)') = n
  PROVE  Held' = [Held EXCEPT ![o] = n]
  BY HeldPrimed DEF Held

\* Initially the wallets and the orders of the escrow are empty.
LEMMA EscrowInit == Init => Promise!Init
<1> SUFFICES ASSUME Init PROVE Promise!Init
  OBVIOUS
<1>1. \A o \in Order : DepositsOf(o) = {} /\ order[o].stage = "unborn"
  BY DEF Init, DepositsOf, PaymentsOf
<1>2. Held = [o \in Order |-> 0]
  BY <1>1, SumAmountsEmpty DEF Held
<1>3. Deleted = {}
  BY <1>1 DEF Deleted
<1> QED
  BY <1>2, <1>3 DEF Init, Promise!Init

\* Recording a DEPOSIT payment moves its amount from the wallet to the order;
\* any other payment is a stutter.
LEMMA PaymentHolds ==
  ASSUME Typed, Isolated, NEW s \in Session, CommitPayment(s)
  PROVE  [Promise!Next]_escrow
<1> DEFINE r == req[s]
           row == [id |-> r.payment, orderId |-> r.order, amount |-> r.amount,
                   method |-> r.method, payer |-> r.customer]
<1>1. /\ pc[s] = "settle" /\ s \in OnOrder /\ s \in Paying /\ r.order \in Order
      /\ r.customer \in Customer /\ r.payment \in Payment
      /\ r.amount \in Nat /\ r.wallet \in Nat /\ r.method \in Method
  BY DEF CommitPayment, OnOrder, Paying, Typed, TypeOK, Operands, Request
<1>2. row \in PaymentRow /\ row.amount = r.amount /\ row.method = r.method
      /\ row.orderId = r.order
  BY <1>1 DEF PaymentRow
<1>3. row \notin payments
  BY <1>1 DEF Isolated, PaymentIds
<1>4. payments' = payments \cup {row} /\ toppedUp' = toppedUp
  BY DEF CommitPayment
<1>5. PICK o \in Order : o = r.order
  BY <1>1
<1>6. order[o].stage = "live" /\ (\A x \in Order : order'[x].stage = order[x].stage)
  BY <1>1, <1>5 DEF CommitPayment, Typed, TypeOK, OrderRow, Isolated, OrderReadsFresh
<1>7. Deleted' = Deleted /\ o \notin Deleted
  BY <1>6, HeldPrimed DEF Deleted
<1>8. CASE r.method = "DEPOSIT"
  <2>1. Post(r.customer, "DEDUCTION", r.amount, r.wallet)
    BY <1>8 DEF CommitPayment
  <2>2. balance[r.customer] = r.wallet + r.amount
    BY <1>1, <1>8 DEF Isolated, WalletReadsFresh
  <2>3. PICK c \in Customer : c = r.customer
    BY <1>1
  <2>4. PICK a \in Nat : a = r.amount
    BY <1>1
  <2>5. balance' = [balance EXCEPT ![c] = @ - a] /\ a \in 0 .. balance[c]
    <3>1. balance[c] \in Nat /\ r.wallet = balance[c] - a
      BY <1>1, <2>2, <2>3, <2>4 DEF Typed, TypeOK
    <3>2. balance' = [balance EXCEPT ![c] = r.wallet]
      BY <2>1, <2>3 DEF Post
    <3> QED
      BY <1>1, <3>1, <3>2
  <2> HIDE DEF row, r
  <2>6. DepositsOf(o)' = DepositsOf(o) \cup {row} /\ row \notin DepositsOf(o)
    BY <1>2, <1>3, <1>4, <1>5, <1>8 DEF DepositsOf, PaymentsOf
  <2>7. \A x \in Order : x # o => DepositsOf(x)' = DepositsOf(x)
    BY <1>2, <1>4, <1>5 DEF DepositsOf, PaymentsOf
  <2>8. SumAmounts(DepositsOf(o)') = Held[o] + a
    BY <1>2, <2>4, <2>6, PaymentsOfFinite, SumAmountsAdd, HeldNat
  <2>9. Held' = [Held EXCEPT ![o] = @ + a]
    BY <2>7, <2>8, HeldMoves
  <2>10. Promise!Hold(c, o, a)
    BY <1>4, <1>7, <2>5, <2>9 DEF Promise!Hold
  <2> QED
    BY <2>5, <2>10 DEF Promise!Next
<1>9. CASE r.method # "DEPOSIT"
  <2>1. balance' = balance
    BY <1>9 DEF CommitPayment
  <2> HIDE DEF row, r
  <2>2. \A x \in Order : DepositsOf(x)' = DepositsOf(x)
    BY <1>2, <1>4, <1>9 DEF DepositsOf, PaymentsOf
  <2> QED
    BY <1>4, <1>6, <2>1, <2>2, EscrowStutter
<1> QED
  BY <1>8, <1>9

\* Voiding a DEPOSIT payment moves what it held back to a wallet; voiding any
\* other payment is a stutter.
LEMMA VoidReturns ==
  ASSUME Typed, Isolated, NEW s \in Session, CommitVoid(s)
  PROVE  [Promise!Next]_escrow
<1> DEFINE r == req[s]
<1>1. /\ pc[s] = "void" /\ s \in OnOrder /\ r.order \in Order
      /\ r.customer \in Customer /\ r.amount \in Nat
  BY DEF CommitVoid, OnOrder, Typed, TypeOK, Operands, Request
<1>2. PICK p \in payments : /\ p.id = r.payment /\ p.orderId = r.order
                            /\ p.amount = r.amount /\ p.method = r.method
  BY <1>1 DEF Isolated, PaymentReadsFresh
<1>3. payments' = payments \ {p} /\ toppedUp' = toppedUp
  BY <1>2 DEF CommitVoid, Isolated, PaymentIds
<1>4. PICK o \in Order : o = r.order
  BY <1>1
<1>5. order[o].stage = "live" /\ (\A x \in Order : order'[x].stage = order[x].stage)
  BY <1>1, <1>4 DEF CommitVoid, Typed, TypeOK, OrderRow, Isolated, OrderReadsFresh
<1>6. Deleted' = Deleted /\ o \notin Deleted
  BY <1>5, HeldPrimed DEF Deleted
<1>7. CASE r.method = "DEPOSIT"
  <2>1. Post(r.customer, "REFUND", r.amount, balance[r.customer] + r.amount)
    BY <1>7 DEF CommitVoid
  <2>2. PICK c \in Customer : c = r.customer
    BY <1>1
  <2>3. PICK a \in Nat : a = r.amount
    BY <1>1
  <2>4. balance' = [balance EXCEPT ![c] = @ + a]
    BY <2>1, <2>2, <2>3 DEF Post, Typed, TypeOK
  <2> HIDE DEF r
  <2>5. p \in DepositsOf(o) /\ DepositsOf(o)' = DepositsOf(o) \ {p}
    BY <1>2, <1>3, <1>4, <1>7 DEF DepositsOf, PaymentsOf
  <2>6. \A x \in Order : x # o => DepositsOf(x)' = DepositsOf(x)
    BY <1>2, <1>3, <1>4 DEF DepositsOf, PaymentsOf
  <2>7. SumAmounts(DepositsOf(o)) = SumAmounts(DepositsOf(o) \ {p}) + a
    BY <1>2, <2>3, <2>5, PaymentsOfFinite, SumAmountsRemove
  <2>8. SumAmounts(DepositsOf(o) \ {p}) \in Nat
    <3>1. DepositsOf(o) \ {p} \in SUBSET PaymentRow /\ IsFiniteSet(DepositsOf(o) \ {p})
      BY PaymentsOfFinite, FS_RemoveElement
    <3> QED
      BY <3>1, SumAmountsNat
  <2>9. a \in 0 .. Held[o] /\ SumAmounts(DepositsOf(o)') = Held[o] - a
    BY <2>5, <2>7, <2>8, HeldNat
  <2>10. Held' = [Held EXCEPT ![o] = @ - a]
    BY <2>6, <2>9, HeldMoves
  <2>11. Promise!Return(c, o, a)
    BY <1>3, <1>6, <2>4, <2>10 DEF Promise!Return
  <2> QED
    BY <2>9, <2>11 DEF Promise!Next
<1>8. CASE r.method # "DEPOSIT"
  <2>1. balance' = balance
    BY <1>8 DEF CommitVoid
  <2> HIDE DEF r
  <2>2. \A x \in Order : DepositsOf(x)' = DepositsOf(x)
    BY <1>2, <1>3, <1>8 DEF DepositsOf, PaymentsOf
  <2> QED
    BY <1>3, <1>5, <2>1, <2>2, EscrowStutter
<1> QED
  BY <1>7, <1>8

\* Deleting an order returns all it holds and closes it.
LEMMA DeleteCloses ==
  ASSUME Typed, Isolated, NEW s \in Session, CommitDelete(s)
  PROVE  [Promise!Next]_escrow
<1> DEFINE r == req[s]
<1>1. /\ pc[s] = "delete" /\ s \in OnOrder /\ r.order \in Order
      /\ r.customer \in Customer /\ r.amount \in Nat
  BY DEF CommitDelete, OnOrder, Typed, TypeOK, Operands, Request
<1>2. PICK o \in Order : o = r.order
  BY <1>1
<1>3. PICK c \in Customer : c = r.customer
  BY <1>1
<1>4. order[o].stage = "live" /\ r.amount = SumAmounts(DepositsOf(o))
  BY <1>1, <1>2 DEF Isolated, OrderReadsFresh, PaymentReadsFresh
<1>5. /\ payments' = payments \ PaymentsOf(o) /\ toppedUp' = toppedUp
      /\ order'[o].stage = "deleted"
      /\ \A x \in Order : x # o => order'[x] = order[x]
  BY <1>2 DEF CommitDelete, Typed, TypeOK, OrderRow
<1>6. Deleted' = Deleted \cup {o} /\ o \notin Deleted
  BY <1>4, <1>5, HeldPrimed DEF Deleted
<1>7. balance' = [balance EXCEPT ![c] = @ + Held[o]]
  <2>1. Held[o] = r.amount /\ balance[c] \in Nat
    BY <1>3, <1>4, HeldNat DEF Typed, TypeOK
  <2>2. CASE r.amount > 0
    BY <1>3, <2>1, <2>2 DEF CommitDelete, Post, Typed, TypeOK
  <2>3. CASE ~(r.amount > 0)
    <3>1. balance' = balance /\ Held[o] = 0
      BY <1>1, <2>1, <2>3 DEF CommitDelete
    <3> QED
      BY <2>1, <3>1 DEF Typed, TypeOK
  <2> QED
    BY <2>2, <2>3
<1> HIDE DEF r
<1>8. DepositsOf(o)' = {} /\ (\A x \in Order : x # o => DepositsOf(x)' = DepositsOf(x))
  BY <1>5 DEF DepositsOf, PaymentsOf
<1>9. Held' = [Held EXCEPT ![o] = 0]
  BY <1>8, HeldMoves, SumAmountsEmpty
<1>10. Promise!Close(c, o)
  BY <1>5, <1>6, <1>7, <1>9 DEF Promise!Close
<1> QED
  BY <1>10 DEF Promise!Next

\* A committed top-up puts its amount into the wallet.
LEMMA TopUpPuts ==
  ASSUME Typed, Isolated, NEW s \in Session, CommitTopUp(s)
  PROVE  [Promise!Next]_escrow
<1> DEFINE r == req[s]
<1>1. /\ pc[s] = "topup" /\ r.customer \in Customer /\ r.amount \in Amount
      /\ Post(r.customer, r.type, r.amount, r.wallet)
      /\ toppedUp' = toppedUp + r.amount /\ UNCHANGED <<order, payments>>
  BY DEF CommitTopUp, Typed, Operands
<1>2. r.wallet = balance[r.customer] + r.amount
  BY <1>1 DEF Isolated, WalletReadsFresh
<1>3. balance' = [balance EXCEPT ![r.customer] = @ + r.amount]
  BY <1>1, <1>2 DEF Post, Typed, TypeOK
<1>4. \A x \in Order : DepositsOf(x)' = DepositsOf(x)
  BY <1>1 DEF DepositsOf, PaymentsOf
<1>5. Held' = Held /\ Deleted' = Deleted
  BY <1>1, <1>4, HeldPrimed DEF Held, Deleted
<1>6. Promise!TopUp(r.customer, r.amount)
  BY <1>1, <1>3, <1>5 DEF Promise!TopUp
<1> QED
  BY <1>1, <1>6 DEF Promise!Next

\* A step that writes neither wallets nor payments, nor deletes an order, is a
\* stutter.
LEMMA QuietStep ==
  ASSUME UNCHANGED <<balance, payments, toppedUp>>,
         \A o \in Order : order'[o].stage = "deleted" <=> order[o].stage = "deleted"
  PROVE  UNCHANGED escrow
<1>1. \A o \in Order : DepositsOf(o)' = DepositsOf(o)
  BY DEF DepositsOf, PaymentsOf
<1> QED
  BY <1>1, EscrowStutter

\* Every step of the ledger is a step of the escrow or a stutter.
LEMMA EscrowStep == Typed /\ Isolated /\ [Next]_vars => [Promise!Next]_escrow
<1> SUFFICES ASSUME Typed, Isolated, [Next]_vars PROVE [Promise!Next]_escrow
  OBVIOUS
<1>1. CASE UNCHANGED <<order, payments, balance, toppedUp>>
  BY <1>1, QuietStep
<1>2. ASSUME NEW o \in Order, NEW c \in Customer, NEW t \in Total,
             CreateOrder(o, c, t) \/ UpdateOrder(o, c, t)
      PROVE  [Promise!Next]_escrow
  <2>1. UNCHANGED <<balance, payments, toppedUp>>
    BY <1>2 DEF CreateOrder, UpdateOrder
  <2>2. CASE CreateOrder(o, c, t)
    BY <2>1, <2>2, QuietStep DEF CreateOrder, Typed, TypeOK, OrderRow
  <2>3. CASE UpdateOrder(o, c, t)
    <3>1. \A x \in Order : order'[x].stage = order[x].stage
      BY <2>3 DEF UpdateOrder, Typed, TypeOK, OrderRow
    <3> QED
      BY <2>1, <3>1, QuietStep
  <2> QED
    BY <1>2, <2>2, <2>3
<1>3. ASSUME NEW s \in Session, SessionStep(s) \/ Rollback(s) \/ DeadlockVictim(s)
      PROVE  [Promise!Next]_escrow
  BY <1>1, <1>3, PaymentHolds, VoidReturns, DeleteCloses, TopUpPuts
     DEF SessionStep, ChargeWallet, InsufficientDeposit, Rollback, DeadlockVictim
<1> QED
  BY <1>1, <1>2, <1>3 DEF Next, vars, BeginPayment, BeginVoid, BeginDelete, BeginTopUp

\* The ledger implements the escrow: as far as wallets and orders can tell,
\* every payment, void, deletion and top-up happens in one step or not at all.
THEOREM LedgerImplementsEscrow == Spec => ImplementsEscrow
<1>1. Init => Promise!Init
  BY EscrowInit
<1>2. Inv /\ [Next]_vars => [Promise!Next]_escrow
  BY EscrowStep, InvLayers
<1>3. Spec => []Inv
  BY InvHolds
<1> QED
  BY <1>1, <1>2, <1>3, PTL DEF Spec, ImplementsEscrow, Promise!Spec, escrow
=============================================================================
