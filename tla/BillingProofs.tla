---------------------------- MODULE BillingProofs ----------------------------
(***************************************************************************)
(* Proofs about Billing, for any number of tenants, payments, promos and   *)
(* sessions.  Most steps of a request change no row: MoveKeepsInv says     *)
(* what such a step has to bring along.  The steps that write are then     *)
(* taken one by one.                                                       *)
(***************************************************************************)
EXTENDS Billing, FiniteSetTheorems, TLAPS

(* The inductive invariant: what the locks and the claims are there for. *)

\* A request is about rows that exist, a settlement redeems its payment's promo, and
\* nothing is known of a payment without a row.
Refers(phase, r) ==
    /\ phase \in {"mint", "notified", "claim", "activate", "cover"} =>
          /\ r.payment \in Payment
          /\ payment[r.payment].status # "none"
          /\ r.tenant = TenantOf[r.payment]
          /\ r.promo = payment[r.payment].promo
    /\ phase \in {"refund", "uncover", "expire"} =>
          r.payment \in Payment /\ r.tenant = TenantOf[r.payment]
    /\ phase \in {"checkout", "extend", "widen"} => r.tenant \in Tenant

RequestsRefer ==
    /\ \A s \in Session : Refers(pc[s], req[s])
    /\ \A p \in Payment :
          payment[p].status = "none" => midtrans[p] = "unknown" /\ settled[p] = 0

\* The sessions that have claimed a payment, to settle it or to refund it.
Claimants == {s \in Session : pc[s] \in {"activate", "cover", "uncover", "expire"}}

\* The claimed payment is still as it was when claimed.
ClaimHolds(phase, r) ==
    /\ phase \in {"activate", "cover"} => payment[r.payment].status # "PAID"
    /\ phase \in {"uncover", "expire"} => payment[r.payment].status = "PAID"

\* A claimed payment has one claimant.
ClaimsExclusive ==
    /\ \A s \in Session : ClaimHolds(pc[s], req[s])
    /\ \A s, t \in Claimants : req[s].payment = req[t].payment => s = t

\* The inductive invariant, but for a fact about the set of redemptions.
BillingInv ==
    /\ BillingTypeOK /\ RequestsRefer /\ ClaimsExclusive
    /\ SettledOncePerRefund /\ RedeemedOncePerTenant /\ CoverageInLockstep

-----------------------------------------------------------------------------
\* Session s goes to a phase with request r, the others stay where they are.
Moves(s, phase, r) ==
    /\ pc' \in [Session -> Phase] /\ req' \in [Session -> Request]
    /\ pc'[s] = phase /\ req'[s] = r
    /\ \A t \in Session \ {s} : pc'[t] = pc[t] /\ req'[t] = req[t]

\* Counting the redemptions needs them to be finitely many.
Inv == BillingInv /\ IsFiniteSet(redemptions)

\* Entering a phase is a move there with the request given.
LEMMA EnterMoves ==
  ASSUME BillingTypeOK, NEW s \in Session, NEW phase \in Phase, NEW r \in Request,
         Enter(s, phase, r)
  PROVE  Moves(s, phase, r)
  BY DEF BillingTypeOK, Enter, Moves

\* Going to a phase is a move there with the request kept.
LEMMA GoToMoves ==
  ASSUME BillingTypeOK, NEW s \in Session, NEW phase \in Phase, GoTo(s, phase)
  PROVE  Moves(s, phase, req[s])
  BY DEF BillingTypeOK, GoTo, Moves

\* Leaving is a move to "idle" without a request.
LEMMA LeaveMoves ==
  ASSUME BillingTypeOK, NEW s \in Session, Leave(s)
  PROVE  Moves(s, "idle", NoRequest)
<1>1. NoRequest \in Request /\ "idle" \in Phase
  BY DEF NoRequest, Request, Phase
<1> QED
  BY <1>1, EnterMoves DEF Leave

\* The invariant holds of the initial rows and sessions.
LEMMA InvInit == Init => Inv
<1> SUFFICES ASSUME Init PROVE Inv
  OBVIOUS
<1> USE BillingAssumption DEF Init
<1>1. NoRequest \in Request
  BY DEF NoRequest, Request
<1>2. BillingTypeOK
  BY <1>1 DEF BillingTypeOK, PaymentRow, Phase
<1>3. RequestsRefer /\ ClaimsExclusive
  BY DEF RequestsRefer, Refers, ClaimsExclusive, ClaimHolds, Claimants
<1>4. SettledOncePerRefund /\ CoverageInLockstep
  BY DEF SettledOncePerRefund, CoverageInLockstep, NoPayment
<1>5. RedeemedOncePerTenant
  <2>1. \A c \in Promo : {r \in redemptions : r[1] = c} = {}
    OBVIOUS
  <2>2. Cardinality({}) = 0
    BY FS_EmptySet
  <2> QED
    BY <2>1, <2>2 DEF RedeemedOncePerTenant
<1> QED
  BY <1>2, <1>3, <1>4, <1>5, FS_EmptySet DEF Inv, BillingInv

-----------------------------------------------------------------------------
(* Steps that change no row. *)

\* A step of s that writes nothing keeps the invariant, if its new request refers to
\* rows that exist and what it claims is as it should be and nobody else's.
LEMMA MoveKeepsInv ==
  ASSUME Inv, NEW s \in Session, NEW phase, NEW r, Moves(s, phase, r),
         UNCHANGED <<now, rows, midtrans>>,
         Refers(phase, r), ClaimHolds(phase, r),
         phase \in {"activate", "cover", "uncover", "expire"} =>
             \A t \in Session \ {s} : ~HoldsPayment(t, r.payment)
  PROVE  Inv'
<1>1. BillingTypeOK'
  BY DEF Inv, BillingInv, BillingTypeOK, Moves, rows
<1>2. RequestsRefer'
  <2>1. \A t \in Session : Refers(pc'[t], req'[t])
    BY DEF Inv, BillingInv, RequestsRefer, Moves
  <2>2. (\A t \in Session : Refers(pc[t], req[t]))'
    BY <2>1 DEF Refers, rows
  <2> QED
    BY <2>2 DEF Inv, BillingInv, RequestsRefer, rows
<1>3. ClaimsExclusive'
  <2>1. \A t \in Session : ClaimHolds(pc'[t], req'[t])
    BY DEF Inv, BillingInv, ClaimsExclusive, Moves
  <2>2. (\A t \in Session : ClaimHolds(pc[t], req[t]))'
    BY <2>1 DEF ClaimHolds, rows
  <2>3. ASSUME NEW t \in Claimants', NEW u \in Claimants',
               req'[t].payment = req'[u].payment
        PROVE  t = u
    BY <2>3 DEF Inv, BillingInv, ClaimsExclusive, Claimants, HoldsPayment, Moves
  <2> QED
    BY <2>2, <2>3 DEF ClaimsExclusive
<1>4. SettledOncePerRefund' /\ CoverageInLockstep' /\ RedeemedOncePerTenant'
  BY DEF Inv, BillingInv, SettledOncePerRefund, CoverageInLockstep,
         RedeemedOncePerTenant, rows
<1> QED
  BY <1>1, <1>2, <1>3, <1>4 DEF Inv, BillingInv, rows

\* Leaving keeps the invariant: a rollback, an acknowledgement, a claim refused.
LEMMA LeaveKeepsInv ==
  ASSUME Inv, NEW s \in Session, Leave(s), UNCHANGED <<now, rows, midtrans>>
  PROVE  Inv'
<1>1. Moves(s, "idle", NoRequest)
  BY LeaveMoves DEF Inv, BillingInv
<1>2. Refers("idle", NoRequest) /\ ClaimHolds("idle", NoRequest)
  BY DEF Refers, ClaimHolds
<1> QED
  BY <1>1, <1>2, MoveKeepsInv

\* Going on with the same request keeps the invariant, when the new phase asks for
\* nothing that the request does not fulfil.
LEMMA GoToKeepsInv ==
  ASSUME Inv, NEW s \in Session, NEW phase \in Phase, GoTo(s, phase),
         UNCHANGED <<now, rows, midtrans>>,
         Refers(phase, req[s]), ClaimHolds(phase, req[s]),
         phase \in {"activate", "cover", "uncover", "expire"} =>
             \A t \in Session \ {s} : ~HoldsPayment(t, req[s].payment)
  PROVE  Inv'
<1>1. Moves(s, phase, req[s])
  BY GoToMoves DEF Inv, BillingInv
<1> QED
  BY <1>1, MoveKeepsInv

\* Entering a phase that claims nothing keeps the invariant.
LEMMA EnterKeepsInv ==
  ASSUME Inv, NEW s \in Session, NEW phase \in Phase, NEW r \in Request,
         Enter(s, phase, r), UNCHANGED <<now, rows, midtrans>>,
         Refers(phase, r), phase \notin {"activate", "cover", "uncover", "expire"}
  PROVE  Inv'
<1>1. Moves(s, phase, r)
  BY EnterMoves DEF Inv, BillingInv
<1>2. ClaimHolds(phase, r)
  BY DEF ClaimHolds
<1> QED
  BY <1>1, <1>2, MoveKeepsInv

\* What a claimant knows: nobody else holds the payment it holds.
LEMMA ClaimantAlone ==
  ASSUME Inv, NEW s \in Session,
         pc[s] \in {"activate", "cover", "uncover", "expire"}
  PROVE  \A t \in Session \ {s} : ~HoldsPayment(t, req[s].payment)
BY DEF Inv, BillingInv, ClaimsExclusive, Claimants, HoldsPayment

\* The columns of a payment.
LEMMA RowFields ==
  ASSUME NEW row \in PaymentRow
  PROVE  /\ row.months \in Nat /\ row.promo \in Promo \cup {None}
         /\ row.status \in {"none", "PENDING", "PAID", "REFUNDED"}
         /\ row.status # "none" =>
               \A st \in {"PAID", "REFUNDED"} : [row EXCEPT !.status = st] \in PaymentRow
<1>1. CASE row = NoPayment
  BY <1>1 DEF NoPayment
<1>2. CASE row # NoPayment
  BY <1>2, BillingAssumption DEF PaymentRow, NoPayment
<1> QED
  BY <1>1, <1>2

\* Beginning a request: a checkout, a notification, a refund or an extension.
LEMMA BeginKeepsInv ==
  ASSUME Inv, NEW s \in Session,
         \/ \E t \in Tenant, c \in Promo \cup {None} : Checkout(s, t, c)
         \/ \E p \in Payment : Deliver(s, p)
         \/ \E p \in Payment : BeginRefund(s, p)
         \/ \E t \in Tenant, d \in Days : BeginExtension(s, t, d)
  PROVE  Inv'
<1>1. ASSUME NEW t \in Tenant, NEW c \in Promo \cup {None}, Checkout(s, t, c)
      PROVE  Inv'
  <2> DEFINE r == [NoRequest EXCEPT !.tenant = t, !.promo = c]
  <2>1. r \in Request /\ r.tenant = t
    BY DEF NoRequest, Request
  <2>2. Refers("checkout", r) /\ "checkout" \in Phase
    BY <2>1 DEF Refers, Phase
  <2> QED
    BY <1>1, <2>1, <2>2, EnterKeepsInv DEF Checkout
<1>2. ASSUME NEW p \in Payment, Deliver(s, p)
      PROVE  Inv'
  <2> DEFINE r == [NoRequest EXCEPT !.tenant = TenantOf[p], !.payment = p,
                                    !.promo = payment[p].promo]
  <2>1. payment[p].status # "none"
    BY <1>2 DEF Deliver, Inv, BillingInv, RequestsRefer
  <2>2. payment[p].promo \in Promo \cup {None}
    BY DEF Inv, BillingInv, BillingTypeOK, PaymentRow, NoPayment
  <2>3. r \in Request /\ r.payment = p /\ r.tenant = TenantOf[p]
        /\ r.promo = payment[p].promo
    BY <2>2, BillingAssumption DEF NoRequest, Request
  <2>4. Refers("notified", r) /\ "notified" \in Phase
    BY <2>1, <2>3 DEF Refers, Phase
  <2> QED
    BY <1>2, <2>3, <2>4, EnterKeepsInv DEF Deliver
<1>3. ASSUME NEW p \in Payment, BeginRefund(s, p)
      PROVE  Inv'
  <2> DEFINE r == [NoRequest EXCEPT !.tenant = TenantOf[p], !.payment = p, !.end = now]
  <2>1. now \in Nat
    BY DEF Inv, BillingInv, BillingTypeOK
  <2>2. r \in Request /\ r.payment = p /\ r.tenant = TenantOf[p]
    BY <2>1, BillingAssumption DEF NoRequest, Request
  <2>3. Refers("refund", r) /\ "refund" \in Phase
    BY <2>2 DEF Refers, Phase
  <2> QED
    BY <1>3, <2>2, <2>3, EnterKeepsInv DEF BeginRefund
<1>4. ASSUME NEW t \in Tenant, NEW d \in Days, BeginExtension(s, t, d)
      PROVE  Inv'
  <2> DEFINE r == [NoRequest EXCEPT !.tenant = t, !.end = periodEnd[t] + d]
  <2>1. periodEnd[t] + d \in Nat
    BY BillingAssumption DEF Inv, BillingInv, BillingTypeOK
  <2>2. r \in Request /\ r.tenant = t
    BY <2>1 DEF NoRequest, Request
  <2>3. Refers("extend", r) /\ "extend" \in Phase
    BY <2>2 DEF Refers, Phase
  <2> QED
    BY <1>4, <2>2, <2>3, EnterKeepsInv DEF BeginExtension
<1> QED
  BY <1>1, <1>2, <1>3, <1>4

\* The statements between claim and commit, and those that end in a refusal.
LEMMA StatementKeepsInv ==
  ASSUME Inv, NEW s \in Session,
         \/ SettlementStep(s) \/ ClaimRefund(s) \/ ExpireCoverage(s)
         \/ ExtendSubscription(s) \/ Rollback(s)
  PROVE  Inv'
<1>0. Refers(pc[s], req[s]) /\ ClaimHolds(pc[s], req[s]) /\ req[s] \in Request
  BY DEF Inv, BillingInv, BillingTypeOK, RequestsRefer, ClaimsExclusive
<1>1. CASE ReadPayment(s)
  <2>1. CASE Leave(s)
    BY <1>1, <2>1, LeaveKeepsInv DEF ReadPayment
  <2>2. CASE GoTo(s, "claim")
    <3>1. Refers("claim", req[s]) /\ ClaimHolds("claim", req[s]) /\ "claim" \in Phase
      BY <1>0, <1>1 DEF ReadPayment, At, Refers, ClaimHolds, Phase
    <3> QED
      BY <1>1, <2>2, <3>1, GoToKeepsInv DEF ReadPayment
  <2> QED
    BY <1>1, <2>1, <2>2 DEF ReadPayment
<1>2. CASE ClaimPayment(s)
  <2> DEFINE p == req[s].payment
             r == [req[s] EXCEPT !.end = now + payment[p].months]
  <2>1. CASE Leave(s)
    BY <1>2, <2>1, LeaveKeepsInv DEF ClaimPayment
  <2>2. CASE Claimable(p) /\ Enter(s, "activate", r)
    <3>1. p \in Payment /\ payment[p].status # "none"
      BY <1>0, <1>2 DEF ClaimPayment, At, Refers
    <3>2. now \in Nat /\ payment[p].months \in Nat
      BY <3>1, RowFields DEF Inv, BillingInv, BillingTypeOK
    <3>3. r \in Request /\ r.payment = p /\ r.tenant = req[s].tenant
          /\ r.promo = req[s].promo
      BY <1>0, <3>2 DEF Request
    <3>4. Refers("activate", r) /\ ClaimHolds("activate", r)
      BY <1>0, <1>2, <2>2, <3>3 DEF ClaimPayment, At, Claimable, Refers, ClaimHolds
    <3>5. Moves(s, "activate", r)
      BY <2>2, <3>3, EnterMoves DEF Inv, BillingInv, Phase
    <3>6. \A t \in Session \ {s} : ~HoldsPayment(t, r.payment)
      BY <1>2, <3>3 DEF ClaimPayment, PaymentFree
    <3>7. UNCHANGED <<now, rows, midtrans>>
      BY <1>2 DEF ClaimPayment
    <3> HIDE DEF r
    <3> QED
      BY <3>4, <3>5, <3>6, <3>7, MoveKeepsInv
  <2> QED
    BY <1>2, <2>1, <2>2 DEF ClaimPayment
<1>3. CASE ActivateSubscription(s)
  <2>1. Refers("cover", req[s]) /\ ClaimHolds("cover", req[s]) /\ "cover" \in Phase
    BY <1>0, <1>3 DEF ActivateSubscription, At, Refers, ClaimHolds, Phase
  <2>2. \A t \in Session \ {s} : ~HoldsPayment(t, req[s].payment)
    BY <1>3, ClaimantAlone DEF ActivateSubscription, At
  <2> QED
    BY <1>3, <2>1, <2>2, GoToKeepsInv DEF ActivateSubscription
<1>4. CASE RefuseRedemption(s)
  BY <1>4, LeaveKeepsInv DEF RefuseRedemption
<1>5. CASE ClaimRefund(s)
  <2> DEFINE p == req[s].payment
  <2>1. CASE Leave(s)
    BY <1>5, <2>1, LeaveKeepsInv DEF ClaimRefund
  <2>2. CASE payment[p].status = "PAID" /\ GoTo(s, "uncover")
    <3>1. Refers("uncover", req[s]) /\ ClaimHolds("uncover", req[s])
          /\ "uncover" \in Phase
      BY <1>0, <1>5, <2>2 DEF ClaimRefund, At, Refers, ClaimHolds, Phase
    <3>2. \A t \in Session \ {s} : ~HoldsPayment(t, req[s].payment)
      BY <1>5 DEF ClaimRefund, PaymentFree
    <3> QED
      BY <1>5, <2>2, <3>1, <3>2, GoToKeepsInv DEF ClaimRefund
  <2> QED
    BY <1>5, <2>1, <2>2 DEF ClaimRefund
<1>6. CASE ExpireCoverage(s)
  <2>1. Refers("expire", req[s]) /\ ClaimHolds("expire", req[s]) /\ "expire" \in Phase
    BY <1>0, <1>6 DEF ExpireCoverage, At, Refers, ClaimHolds, Phase
  <2>2. \A t \in Session \ {s} : ~HoldsPayment(t, req[s].payment)
    BY <1>6, ClaimantAlone DEF ExpireCoverage, At
  <2> QED
    BY <1>6, <2>1, <2>2, GoToKeepsInv DEF ExpireCoverage
<1>7. CASE ExtendSubscription(s)
  <2>1. Refers("widen", req[s]) /\ ClaimHolds("widen", req[s]) /\ "widen" \in Phase
    BY <1>0, <1>7 DEF ExtendSubscription, At, Refers, ClaimHolds, Phase
  <2> QED
    BY <1>7, <2>1, GoToKeepsInv DEF ExtendSubscription
<1>8. CASE Rollback(s)
  BY <1>8, LeaveKeepsInv DEF Rollback
<1> QED
  BY <1>1, <1>2, <1>3, <1>4, <1>5, <1>6, <1>7, <1>8 DEF SettlementStep

-----------------------------------------------------------------------------
(* Steps that write. *)

\* The clock.
LEMMA TickKeepsInv == Inv /\ Tick => Inv'
<1> SUFFICES ASSUME Inv, Tick PROVE Inv'
  OBVIOUS
<1>1. BillingTypeOK'
  BY DEF Inv, BillingInv, BillingTypeOK, Tick, rows
<1>2. RequestsRefer' /\ ClaimsExclusive'
  BY DEF Inv, BillingInv, RequestsRefer, Refers, ClaimsExclusive, ClaimHolds, Claimants,
         Tick, rows
<1>3. SettledOncePerRefund' /\ CoverageInLockstep' /\ RedeemedOncePerTenant'
  BY DEF Inv, BillingInv, SettledOncePerRefund, CoverageInLockstep,
         RedeemedOncePerTenant, Tick, rows
<1> QED
  BY <1>1, <1>2, <1>3 DEF Inv, BillingInv, Tick, rows

\* Midtrans learns of a payment that has a row.
LEMMA MidtransKeepsInv ==
  ASSUME Inv, midtrans' \in [Payment -> {"unknown", "minted", "captured"}],
         \A p \in Payment : payment[p].status = "none" => midtrans'[p] = midtrans[p],
         UNCHANGED <<now, rows, pc, req>>
  PROVE  Inv'
<1>1. BillingTypeOK'
  BY DEF Inv, BillingInv, BillingTypeOK, rows
<1>2. RequestsRefer' /\ ClaimsExclusive'
  BY DEF Inv, BillingInv, RequestsRefer, Refers, ClaimsExclusive, ClaimHolds, Claimants,
         rows
<1>3. SettledOncePerRefund' /\ CoverageInLockstep' /\ RedeemedOncePerTenant'
  BY DEF Inv, BillingInv, SettledOncePerRefund, CoverageInLockstep,
         RedeemedOncePerTenant, rows
<1> QED
  BY <1>1, <1>2, <1>3 DEF Inv, BillingInv, rows

\* The tenant pays.
LEMMA CaptureKeepsInv ==
  ASSUME Inv, NEW p \in Payment, Capture(p)
  PROVE  Inv'
BY MidtransKeepsInv DEF Inv, BillingInv, BillingTypeOK, RequestsRefer, Capture

\* The requests, when s leaves and at most its payment is written.
LEMMA LeavingKeepsRequests ==
  ASSUME Inv, NEW s \in Session, Leave(s),
         payment' \in [Payment -> PaymentRow],
         \A p \in Payment :
             /\ payment'[p].promo = payment[p].promo
             /\ payment[p].status # "none" => payment'[p].status # "none"
             /\ payment'[p].status = "none" => midtrans'[p] = "unknown" /\ settled'[p] = 0,
         \A t \in Session \ {s}, p \in Payment :
             HoldsPayment(t, p) => payment'[p] = payment[p]
  PROVE  RequestsRefer' /\ ClaimsExclusive'
<1>1. Moves(s, "idle", NoRequest)
  BY LeaveMoves DEF Inv, BillingInv
<1>2. \A t \in Session \ {s} : Refers(pc[t], req[t]) /\ ClaimHolds(pc[t], req[t])
  BY DEF Inv, BillingInv, RequestsRefer, ClaimsExclusive
<1>3. (\A t \in Session : Refers(pc[t], req[t]))'
  BY <1>1, <1>2 DEF Refers, Moves
<1>4. (\A t \in Session : ClaimHolds(pc[t], req[t]))'
  BY <1>1, <1>2 DEF ClaimHolds, Refers, HoldsPayment, Moves
<1>5. ASSUME NEW t \in Claimants', NEW u \in Claimants',
             req'[t].payment = req'[u].payment
      PROVE  t = u
  BY <1>1, <1>5 DEF Inv, BillingInv, ClaimsExclusive, Claimants, Moves
<1> QED
  BY <1>3, <1>4, <1>5 DEF RequestsRefer, ClaimsExclusive

\* What a request that is about to write knows of its payment, and itself.
LEMMA WriterFacts ==
  ASSUME Inv, NEW s \in Session
  PROVE  /\ req[s] \in Request /\ Refers(pc[s], req[s]) /\ ClaimHolds(pc[s], req[s])
         /\ Leave(s) => pc' \in [Session -> Phase] /\ req' \in [Session -> Request]
<1>1. Leave(s) => Moves(s, "idle", NoRequest)
  BY LeaveMoves DEF Inv, BillingInv
<1> QED
  BY <1>1 DEF Inv, BillingInv, BillingTypeOK, RequestsRefer, ClaimsExclusive, Moves

\* The token of a payment.
LEMMA MintTokenKeepsInv ==
  ASSUME Inv, NEW s \in Session, MintToken(s)
  PROVE  Inv'
<1> DEFINE p == req[s].payment
<1>1. p \in Payment /\ payment[p].status # "none"
  BY WriterFacts DEF MintToken, At, Refers
<1>2. midtrans' \in [Payment -> {"unknown", "minted", "captured"}]
      /\ \A q \in Payment : q # p => midtrans'[q] = midtrans[q]
  BY <1>1 DEF Inv, BillingInv, BillingTypeOK, MintToken
<1>3. Leave(s) /\ UNCHANGED <<now, rows>>
  BY DEF MintToken
<1> HIDE DEF p
<1>4. BillingTypeOK'
  BY <1>2, <1>3, WriterFacts DEF Inv, BillingInv, BillingTypeOK, rows
<1>5. RequestsRefer' /\ ClaimsExclusive'
  <2>1. \A q \in Payment :
           payment'[q].status = "none" => midtrans'[q] = "unknown" /\ settled'[q] = 0
    BY <1>1, <1>2, <1>3 DEF Inv, BillingInv, RequestsRefer, rows
  <2>2. payment' = payment /\ payment \in [Payment -> PaymentRow]
    BY <1>3 DEF Inv, BillingInv, BillingTypeOK, rows
  <2> QED
    BY <1>3, <2>1, <2>2, LeavingKeepsRequests
<1>6. SettledOncePerRefund' /\ CoverageInLockstep' /\ RedeemedOncePerTenant'
  BY <1>3 DEF Inv, BillingInv, SettledOncePerRefund, CoverageInLockstep,
              RedeemedOncePerTenant, rows
<1> QED
  BY <1>3, <1>4, <1>5, <1>6 DEF Inv, BillingInv, rows

\* The new payment: nobody refers to it, and it was never settled.
LEMMA CreatePaymentKeepsInv ==
  ASSUME Inv, NEW s \in Session, NEW p \in Payment, NEW m \in Months,
         NEW free \in BOOLEAN, CreatePayment(s, p, m, free)
  PROVE  Inv'
<1> DEFINE row == [status |-> "PENDING", months |-> m, promo |-> req[s].promo]
           phase == IF free THEN "claim" ELSE "mint"
           r == [req[s] EXCEPT !.payment = p]
<1>0. At(s, "checkout") /\ payment[p].status = "none" /\ TenantOf[p] = req[s].tenant
  BY DEF CreatePayment
<1>1. req[s] \in Request /\ req[s].promo \in Promo \cup {None}
  BY WriterFacts DEF Request
<1>2. row \in PaymentRow /\ row.status = "PENDING" /\ row.promo = req[s].promo
  BY <1>1 DEF PaymentRow
<1>3. r \in Request /\ r.payment = p /\ r.tenant = TenantOf[p] /\ r.promo = row.promo
  BY <1>0, <1>1 DEF Request
<1>4. phase \in {"claim", "mint"} /\ phase \in Phase
  BY DEF Phase
<1>5. Enter(s, phase, r) /\ payment' = [payment EXCEPT ![p] = row]
      /\ UNCHANGED <<now, periodEnd, coverage, redemptionCount, redemptions,
                     settled, refunded, midtrans>>
  BY DEF CreatePayment
<1> HIDE DEF row, phase, r
<1>6. Moves(s, phase, r)
  BY <1>3, <1>4, <1>5, EnterMoves DEF Inv, BillingInv
<1>7. /\ payment \in [Payment -> PaymentRow] /\ payment' \in [Payment -> PaymentRow]
      /\ payment'[p] = row /\ \A q \in Payment : q # p => payment'[q] = payment[q]
  BY <1>2, <1>5 DEF Inv, BillingInv, BillingTypeOK
<1>8. settled[p] = 0 /\ midtrans[p] = "unknown"
  BY <1>0 DEF Inv, BillingInv, RequestsRefer
<1>9. BillingTypeOK'
  BY <1>5, <1>6, <1>7 DEF Inv, BillingInv, BillingTypeOK, Moves
<1>10. RequestsRefer'
  <2>1. \A t \in Session \ {s} : Refers(pc[t], req[t])
    BY DEF Inv, BillingInv, RequestsRefer
  <2>2. (\A t \in Session \ {s} : Refers(pc[t], req[t]))'
    BY <1>0, <1>6, <1>7, <2>1 DEF Refers, Moves
  <2>3. Refers(pc[s], req[s])'
    BY <1>2, <1>3, <1>4, <1>6, <1>7 DEF Refers, Moves
  <2>4. \A q \in Payment :
           payment'[q].status = "none" => midtrans'[q] = "unknown" /\ settled'[q] = 0
    BY <1>2, <1>5, <1>7 DEF Inv, BillingInv, RequestsRefer
  <2> QED
    BY <2>2, <2>3, <2>4 DEF RequestsRefer
<1>11. ClaimsExclusive'
  <2>1. \A t \in Session \ {s} : Refers(pc[t], req[t]) /\ ClaimHolds(pc[t], req[t])
    BY DEF Inv, BillingInv, RequestsRefer, ClaimsExclusive
  <2>2. (\A t \in Session : ClaimHolds(pc[t], req[t]))'
    BY <1>0, <1>2, <1>4, <1>6, <1>7, <2>1 DEF Refers, ClaimHolds, Moves
  <2>3. ASSUME NEW t \in Claimants', NEW u \in Claimants',
               req'[t].payment = req'[u].payment
        PROVE  t = u
    BY <1>4, <1>6, <2>3 DEF Inv, BillingInv, ClaimsExclusive, Claimants, Moves
  <2> QED
    BY <2>2, <2>3 DEF ClaimsExclusive
<1>12. SettledOncePerRefund'
  BY <1>0, <1>2, <1>5, <1>7 DEF Inv, BillingInv, SettledOncePerRefund
<1>13. RedeemedOncePerTenant'
  BY <1>5, <1>7, <1>8 DEF Inv, BillingInv, RedeemedOncePerTenant
<1>14. CoverageInLockstep'
  BY <1>5 DEF Inv, BillingInv, CoverageInLockstep
<1> QED
  BY <1>5, <1>9, <1>10, <1>11, <1>12, <1>13, <1>14 DEF Inv, BillingInv

\* The extension writes both ends of what the tenant has.
LEMMA CommitExtensionKeepsInv ==
  ASSUME Inv, NEW s \in Session, CommitExtension(s)
  PROVE  Inv'
<1> DEFINE t == req[s].tenant
           e == req[s].end
<1>1. t \in Tenant /\ e \in Nat
  BY WriterFacts DEF CommitExtension, At, Refers, Request
<1>2. /\ periodEnd' = [periodEnd EXCEPT ![t] = e] /\ coverage' = [coverage EXCEPT ![t] = e]
      /\ Leave(s)
      /\ UNCHANGED <<now, payment, redemptionCount, redemptions, settled, refunded, midtrans>>
  BY DEF CommitExtension
<1> HIDE DEF t, e
<1>3. BillingTypeOK'
  BY <1>1, <1>2, WriterFacts DEF Inv, BillingInv, BillingTypeOK
<1>4. RequestsRefer' /\ ClaimsExclusive'
  BY <1>2, LeavingKeepsRequests DEF Inv, BillingInv, BillingTypeOK, RequestsRefer
<1>5. CoverageInLockstep'
  BY <1>1, <1>2 DEF Inv, BillingInv, BillingTypeOK, CoverageInLockstep
<1>6. SettledOncePerRefund' /\ RedeemedOncePerTenant'
  BY <1>2 DEF Inv, BillingInv, SettledOncePerRefund, RedeemedOncePerTenant
<1> QED
  BY <1>2, <1>3, <1>4, <1>5, <1>6 DEF Inv, BillingInv

\* What a commit does to the payments: the status of one, which nobody else holds.
LEMMA CommitWritesOne ==
  ASSUME Inv, NEW s \in Session, pc[s] \in {"cover", "expire"},
         NEW st \in {"PAID", "REFUNDED"},
         payment' = [payment EXCEPT ![req[s].payment].status = st]
  PROVE  /\ req[s].payment \in Payment /\ payment[req[s].payment].status # "none"
         /\ payment' \in [Payment -> PaymentRow]
         /\ payment'[req[s].payment].status = st
         /\ \A q \in Payment :
               /\ q # req[s].payment => payment'[q] = payment[q]
               /\ payment'[q].promo = payment[q].promo
         /\ \A t \in Session \ {s}, q \in Payment :
               HoldsPayment(t, q) => payment'[q] = payment[q]
<1> DEFINE p == req[s].payment
           row == [payment[p] EXCEPT !.status = st]
<1>1. p \in Payment /\ payment[p].status # "none"
  BY WriterFacts DEF Refers, ClaimHolds
<1>2. payment \in [Payment -> PaymentRow]
  BY DEF Inv, BillingInv, BillingTypeOK
<1>3. row \in PaymentRow
  BY <1>1, <1>2, RowFields
<1>4. row.promo = payment[p].promo /\ row.status = st
  <2>1. CASE payment[p] = NoPayment
    BY <1>1, <2>1 DEF NoPayment
  <2>2. CASE payment[p] # NoPayment
    BY <1>1, <1>2, <2>2 DEF PaymentRow
  <2> QED
    BY <2>1, <2>2
<1>5. payment' = [payment EXCEPT ![p] = row]
  OBVIOUS
<1>6. \A t \in Session \ {s} : ~HoldsPayment(t, p)
  BY ClaimantAlone
<1> HIDE DEF row
<1>7. payment' \in [Payment -> PaymentRow] /\ payment'[p] = row
      /\ \A q \in Payment : q # p => payment'[q] = payment[q]
  BY <1>1, <1>2, <1>3, <1>5
<1> HIDE DEF p
<1>8. \A q \in Payment : payment'[q].promo = payment[q].promo
  BY <1>4, <1>7
<1> QED
  BY <1>1, <1>4, <1>6, <1>7, <1>8 DEF p

\* The refund makes room for one more settlement.
LEMMA CommitRefundKeepsInv ==
  ASSUME Inv, NEW s \in Session, CommitRefund(s)
  PROVE  Inv'
<1> DEFINE p == req[s].payment
           t == req[s].tenant
           e == req[s].end
<1>0. pc[s] = "expire"
  BY DEF CommitRefund, At
<1>1. p \in Payment /\ t \in Tenant /\ e \in Nat /\ payment[p].status = "PAID"
  BY <1>0, WriterFacts, BillingAssumption DEF Refers, ClaimHolds, Request
<1>2. /\ payment' = [payment EXCEPT ![p].status = "REFUNDED"]
      /\ refunded' = [refunded EXCEPT ![p] = @ + 1]
      /\ periodEnd' = [periodEnd EXCEPT ![t] = e] /\ coverage' = [coverage EXCEPT ![t] = e]
      /\ Leave(s)
      /\ UNCHANGED <<now, redemptionCount, redemptions, settled, midtrans>>
  BY DEF CommitRefund
<1>3. /\ payment' \in [Payment -> PaymentRow] /\ payment'[p].status = "REFUNDED"
      /\ \A q \in Payment :
            /\ q # p => payment'[q] = payment[q]
            /\ payment'[q].promo = payment[q].promo
      /\ \A u \in Session \ {s}, q \in Payment :
            HoldsPayment(u, q) => payment'[q] = payment[q]
  BY <1>0, <1>2, CommitWritesOne
<1> HIDE DEF p, t, e
<1>4. refunded' \in [Payment -> Nat] /\ refunded'[p] = refunded[p] + 1
      /\ \A q \in Payment : q # p => refunded'[q] = refunded[q]
  BY <1>1, <1>2 DEF Inv, BillingInv, BillingTypeOK
<1>5. BillingTypeOK'
  BY <1>1, <1>2, <1>3, <1>4, WriterFacts DEF Inv, BillingInv, BillingTypeOK
<1>6. RequestsRefer' /\ ClaimsExclusive'
  <2>1. \A q \in Payment :
           /\ payment[q].status # "none" => payment'[q].status # "none"
           /\ payment'[q].status = "none" => midtrans'[q] = "unknown" /\ settled'[q] = 0
    BY <1>2, <1>3 DEF Inv, BillingInv, RequestsRefer
  <2> QED
    BY <1>2, <1>3, <2>1, LeavingKeepsRequests
<1>7. SettledOncePerRefund'
  <2>1. settled[p] \in Nat /\ refunded[p] \in Nat /\ settled[p] - refunded[p] = 1
    BY <1>1 DEF Inv, BillingInv, BillingTypeOK, SettledOncePerRefund
  <2>2. settled'[p] - refunded'[p] = 0
    BY <1>2, <1>4, <2>1
  <2>3. \A q \in Payment : q # p =>
           settled'[q] - refunded'[q] = IF payment'[q].status = "PAID" THEN 1 ELSE 0
    BY <1>2, <1>3, <1>4 DEF Inv, BillingInv, SettledOncePerRefund
  <2> QED
    BY <1>3, <2>2, <2>3 DEF SettledOncePerRefund
<1>8. RedeemedOncePerTenant'
  BY <1>2, <1>3 DEF Inv, BillingInv, RedeemedOncePerTenant
<1>9. CoverageInLockstep'
  BY <1>1, <1>2 DEF Inv, BillingInv, BillingTypeOK, CoverageInLockstep
<1> QED
  BY <1>2, <1>5, <1>6, <1>7, <1>8, <1>9 DEF Inv, BillingInv

\* The settlement: its payment was not paid, its promo not redeemed.
LEMMA CommitSettlementKeepsInv ==
  ASSUME Inv, NEW s \in Session, CommitSettlement(s)
  PROVE  Inv'
<1> DEFINE p == req[s].payment
           t == req[s].tenant
           e == req[s].end
           c == req[s].promo
<1>0. pc[s] = "cover"
  BY DEF CommitSettlement, At
<1>1. /\ p \in Payment /\ t \in Tenant /\ t = TenantOf[p] /\ e \in Nat
      /\ c \in Promo \cup {None} /\ c = payment[p].promo
      /\ payment[p].status \notin {"none", "PAID"}
  BY <1>0, WriterFacts, BillingAssumption DEF Refers, ClaimHolds, Request
<1>2. /\ payment' = [payment EXCEPT ![p].status = "PAID"]
      /\ settled' = [settled EXCEPT ![p] = @ + 1]
      /\ periodEnd' = [periodEnd EXCEPT ![t] = e] /\ coverage' = [coverage EXCEPT ![t] = e]
      /\ IF c = None
         THEN UNCHANGED <<redemptionCount, redemptions>>
         ELSE /\ redemptionCount' = [redemptionCount EXCEPT ![c] = @ + 1]
              /\ redemptions' = redemptions \cup {<<c, t>>}
      /\ c # None => <<c, t>> \notin redemptions
      /\ Leave(s)
      /\ UNCHANGED <<now, refunded, midtrans>>
  BY DEF CommitSettlement, Redeemable
<1>3. /\ payment' \in [Payment -> PaymentRow] /\ payment'[p].status = "PAID"
      /\ \A q \in Payment :
            /\ q # p => payment'[q] = payment[q]
            /\ payment'[q].promo = payment[q].promo
      /\ \A u \in Session \ {s}, q \in Payment :
            HoldsPayment(u, q) => payment'[q] = payment[q]
  BY <1>0, <1>2, CommitWritesOne
<1> HIDE DEF p, t, e, c
<1>4. settled' \in [Payment -> Nat] /\ settled'[p] = settled[p] + 1
      /\ \A q \in Payment : q # p => settled'[q] = settled[q]
  BY <1>1, <1>2 DEF Inv, BillingInv, BillingTypeOK
<1>5. redemptionCount' \in [Promo -> Nat] /\ redemptions' \subseteq Promo \X Tenant
      /\ IsFiniteSet(redemptions')
  <2>1. CASE c = None
    BY <1>2, <2>1 DEF Inv, BillingInv, BillingTypeOK
  <2>2. CASE c \in Promo
    <3>1. c # None
      BY <2>2, BillingAssumption
    <3>2. IsFiniteSet(redemptions \cup {<<c, t>>})
      BY FS_AddElement DEF Inv
    <3>3. redemptionCount' = [redemptionCount EXCEPT ![c] = @ + 1]
          /\ redemptions' = redemptions \cup {<<c, t>>}
      BY <1>2, <3>1
    <3>4. redemptions' \subseteq Promo \X Tenant
      <4>1. redemptions \subseteq Promo \X Tenant /\ <<c, t>> \in Promo \X Tenant
        BY <1>1, <2>2 DEF Inv, BillingInv, BillingTypeOK
      <4> QED
        BY <3>3, <4>1
    <3>5. redemptionCount' \in [Promo -> Nat]
      BY <2>2, <3>3 DEF Inv, BillingInv, BillingTypeOK
    <3> QED
      BY <3>2, <3>3, <3>4, <3>5
  <2> QED
    BY <1>1, <2>1, <2>2
<1>6. BillingTypeOK'
  BY <1>1, <1>2, <1>3, <1>4, <1>5, WriterFacts DEF Inv, BillingInv, BillingTypeOK
<1>7. RequestsRefer' /\ ClaimsExclusive'
  <2>1. \A q \in Payment :
           /\ payment[q].status # "none" => payment'[q].status # "none"
           /\ payment'[q].status = "none" => midtrans'[q] = "unknown" /\ settled'[q] = 0
    BY <1>2, <1>3, <1>4 DEF Inv, BillingInv, RequestsRefer
  <2> QED
    BY <1>2, <1>3, <2>1, LeavingKeepsRequests
<1>8. SettledOncePerRefund'
  <2>1. settled[p] \in Nat /\ refunded[p] \in Nat /\ settled[p] - refunded[p] = 0
    BY <1>1 DEF Inv, BillingInv, BillingTypeOK, SettledOncePerRefund
  <2>2. settled'[p] - refunded'[p] = 1
    BY <1>2, <1>4, <2>1
  <2>3. \A q \in Payment : q # p =>
           settled'[q] - refunded'[q] = IF payment'[q].status = "PAID" THEN 1 ELSE 0
    BY <1>2, <1>3, <1>4 DEF Inv, BillingInv, SettledOncePerRefund
  <2> QED
    BY <1>3, <2>2, <2>3 DEF SettledOncePerRefund
<1>9. CoverageInLockstep'
  BY <1>1, <1>2 DEF Inv, BillingInv, BillingTypeOK, CoverageInLockstep
<1>10. \A d \in Promo : redemptionCount'[d] = Cardinality({r \in redemptions' : r[1] = d})
  <2>1. CASE c = None
    BY <1>2, <2>1 DEF Inv, BillingInv, RedeemedOncePerTenant
  <2>2. ASSUME c \in Promo, NEW d \in Promo
        PROVE  redemptionCount'[d] = Cardinality({r \in redemptions' : r[1] = d})
    <3> DEFINE Of == {r \in redemptions : r[1] = d}
    <3>1. c # None
      BY <2>2, BillingAssumption
    <3>2. IsFiniteSet(Of) /\ redemptionCount[d] = Cardinality(Of)
          /\ redemptionCount \in [Promo -> Nat]
      BY FS_Subset DEF Inv, BillingInv, BillingTypeOK, RedeemedOncePerTenant
    <3>3. CASE d = c
      <4>1. {r \in redemptions' : r[1] = d} = Of \cup {<<c, t>>} /\ <<c, t>> \notin Of
        BY <1>2, <3>1, <3>3
      <4>2. Cardinality(Of \cup {<<c, t>>}) = Cardinality(Of) + 1
        <5> HIDE DEF Of
        <5> QED
          BY <3>2, <4>1, FS_AddElement
      <4> QED
        BY <1>2, <2>2, <3>1, <3>2, <3>3, <4>1, <4>2
    <3>4. CASE d # c
      <4>1. {r \in redemptions' : r[1] = d} = Of
        BY <1>2, <3>1, <3>4
      <4> QED
        BY <1>2, <2>2, <3>1, <3>2, <3>4, <4>1
    <3> QED
      BY <3>3, <3>4
  <2> QED
    BY <1>1, <2>1, <2>2
<1>11. ASSUME NEW q \in Payment, NEW u \in Payment,
              payment'[q].promo # None, settled'[q] > 0
       PROVE  /\ <<payment'[q].promo, TenantOf[q]>> \in redemptions'
              /\ settled'[q] = 1
              /\ (TenantOf[u] = TenantOf[q] /\ payment'[u].promo = payment'[q].promo
                  /\ settled'[u] > 0) => u = q
  <2>1. redemptions \subseteq redemptions' /\ (c # None => <<c, t>> \in redemptions')
    BY <1>2
  <2>2. \A x \in Payment :
           x # p /\ payment[x].promo # None /\ settled'[x] > 0 =>
               <<payment[x].promo, TenantOf[x]>> \in redemptions /\ settled'[x] = 1
    BY <1>4 DEF Inv, BillingInv, RedeemedOncePerTenant
  <2>3. c # None => settled'[p] = 1
    <3>1. c # None => ~(settled[p] > 0)
      BY <1>1, <1>2 DEF Inv, BillingInv, RedeemedOncePerTenant
    <3> QED
      BY <1>1, <1>4, <3>1 DEF Inv, BillingInv, BillingTypeOK
  <2>4. CASE q = p
    BY <1>1, <1>2, <1>3, <1>11, <2>1, <2>2, <2>3, <2>4
  <2>5. CASE q # p /\ u = p
    BY <1>1, <1>2, <1>3, <1>11, <2>1, <2>2, <2>5
  <2>6. CASE q # p /\ u # p
    BY <1>3, <1>4, <1>11, <2>1, <2>2, <2>6 DEF Inv, BillingInv, RedeemedOncePerTenant
  <2> QED
    BY <2>4, <2>5, <2>6
<1> QED
  <2>1. RedeemedOncePerTenant'
    BY <1>10, <1>11 DEF RedeemedOncePerTenant
  <2> QED
    BY <1>5, <1>6, <1>7, <1>8, <1>9, <2>1 DEF Inv, BillingInv

-----------------------------------------------------------------------------
\* Every step keeps the invariant.
LEMMA InvNext == Inv /\ [Next]_vars => Inv'
<1> SUFFICES ASSUME Inv, [Next]_vars PROVE Inv'
  OBVIOUS
<1>1. CASE Tick
  BY <1>1, TickKeepsInv
<1>2. ASSUME NEW p \in Payment, Capture(p) PROVE Inv'
  BY <1>2, CaptureKeepsInv
<1>3. ASSUME NEW s \in Session,
             \/ \E t \in Tenant, c \in Promo \cup {None} : Checkout(s, t, c)
             \/ \E p \in Payment : Deliver(s, p)
             \/ \E p \in Payment : BeginRefund(s, p)
             \/ \E t \in Tenant, d \in Days : BeginExtension(s, t, d)
      PROVE  Inv'
  BY <1>3, BeginKeepsInv
<1>4. ASSUME NEW s \in Session, SessionStep(s) PROVE Inv'
  <2>1. CASE CheckoutStep(s)
    BY <2>1, CreatePaymentKeepsInv, MintTokenKeepsInv DEF CheckoutStep
  <2>2. CASE SettlementStep(s)
    BY <2>2, StatementKeepsInv
  <2>3. CASE CommitSettlement(s)
    BY <2>3, CommitSettlementKeepsInv
  <2>4. CASE RefundStep(s)
    BY <2>4, StatementKeepsInv, CommitRefundKeepsInv DEF RefundStep
  <2>5. CASE ExtensionStep(s)
    BY <2>5, StatementKeepsInv, CommitExtensionKeepsInv DEF ExtensionStep
  <2> QED
    BY <1>4, <2>1, <2>2, <2>3, <2>4, <2>5 DEF SessionStep
<1>5. ASSUME NEW s \in Session, Rollback(s) \/ DeadlockVictim(s) PROVE Inv'
  BY <1>5, StatementKeepsInv DEF DeadlockVictim
<1>6. CASE UNCHANGED vars
  <2>1. BillingTypeOK'
    BY <1>6 DEF Inv, BillingInv, BillingTypeOK, vars, rows
  <2>2. RequestsRefer' /\ ClaimsExclusive'
    BY <1>6 DEF Inv, BillingInv, RequestsRefer, Refers, ClaimsExclusive, ClaimHolds,
                Claimants, vars, rows
  <2>3. SettledOncePerRefund' /\ CoverageInLockstep' /\ RedeemedOncePerTenant'
    BY <1>6 DEF Inv, BillingInv, SettledOncePerRefund, CoverageInLockstep,
                RedeemedOncePerTenant, vars, rows
  <2> QED
    BY <1>6, <2>1, <2>2, <2>3 DEF Inv, BillingInv, vars, rows
<1> QED
  BY <1>1, <1>2, <1>3, <1>4, <1>5, <1>6 DEF Next

\* Types, references, claims and the three properties below hold in every state.
LEMMA BillingInvHolds == Spec => []BillingInv
<1>1. Inv => BillingInv
  BY DEF Inv
<1> QED
  BY <1>1, InvInit, InvNext, PTL DEF Spec

\* The rows and the requests keep their types, whatever is checked out, settled,
\* refunded and extended.
THEOREM BillingTypeCorrect == Spec => []BillingTypeOK
<1>1. BillingInv => BillingTypeOK
  BY DEF BillingInv
<1> QED
  BY <1>1, BillingInvHolds, PTL

\* However often, late and concurrently Midtrans notifies, and whatever is refunded or
\* extended in between, a payment is settled once more than it was refunded while it is
\* PAID, and as often as it was refunded while it is not.
THEOREM SettledOnce == Spec => []SettledOncePerRefund
<1>1. BillingInv => SettledOncePerRefund
  BY DEF BillingInv
<1> QED
  BY <1>1, BillingInvHolds, PTL

\* A tenant redeems a promo with one settlement of one payment, and the count of the
\* promo is the number of its redemptions.
THEOREM RedeemedOnce == Spec => []RedeemedOncePerTenant
<1>1. BillingInv => RedeemedOncePerTenant
  BY DEF BillingInv
<1> QED
  BY <1>1, BillingInvHolds, PTL

\* Settlements, refunds and extensions move the coverage of the branches together with
\* the period of the subscription.
THEOREM CoverageMovesWithPeriod == Spec => []CoverageInLockstep
<1>1. BillingInv => CoverageInLockstep
  BY DEF BillingInv
<1> QED
  BY <1>1, BillingInvHolds, PTL
=============================================================================
