------------------------------- MODULE Billing -------------------------------
(***************************************************************************)
(* What a tenant has paid for: the checkout, the Midtrans notifications    *)
(* that settle a payment, and the super-admin's refunds and extensions.    *)
(* Midtrans delivers a notification late, several times and side by side;  *)
(* each request is a transaction that takes row locks one statement after  *)
(* another and commits its writes at once.  The subscription row and the   *)
(* branch rows of a tenant are locked in one order by a settlement and an  *)
(* extension, and in the other by a refund.                                *)
(***************************************************************************)
EXTENDS Integers, FiniteSets

CONSTANTS
    Tenant,
    Payment,         \* ids a "SaaSPayment" row may get
    Promo,           \* "PromoCode" rows
    Session,         \* database sessions, one request at a time each
    TenantOf,        \* [Payment -> Tenant]
    MaxRedemptions,  \* [Promo -> Nat], 0 for no limit
    Months,          \* months a checkout may ask for
    Days,            \* lengths of an extension, in the same unit
    TrialLength,     \* the trial a new tenant gets
    MaxNow,          \* bound: the clock stops here
    MaxEnd,          \* bound: no extension beyond this time
    MaxRefunds,      \* bound: refunds of one payment
    None             \* no payment, no tenant, no promo, no coverage

ASSUME BillingAssumption ==
    /\ TenantOf \in [Payment -> Tenant]
    /\ MaxRedemptions \in [Promo -> Nat]
    /\ Months \subseteq Nat \ {0} /\ Days \subseteq Nat \ {0}
    /\ TrialLength \in Nat /\ MaxNow \in Nat /\ MaxEnd \in Nat /\ MaxRefunds \in Nat
    /\ None \notin Tenant \cup Payment \cup Promo \cup Nat

VARIABLES
    now,              \* the clock
    payment,          \* the "SaaSPayment" table
    periodEnd,        \* "Subscription".currentPeriodEnd of each tenant
    coverage,         \* "Branch".coverageEnd, the same for all branches of a tenant
    redemptionCount,  \* "PromoCode".redemptionCount
    redemptions,      \* "PromoRedemption" rows
    midtrans,         \* what Midtrans knows of a payment
    settled,          \* not a column: how often a payment has been settled
    refunded,         \* not a column: how often it has been refunded
    pc,               \* the statement each session is at
    req               \* what its request is about and has computed

rows == <<payment, periodEnd, coverage, redemptionCount, redemptions,
          settled, refunded>>

vars == <<now, rows, midtrans, pc, req>>

-----------------------------------------------------------------------------
NoPayment == [status |-> "none", months |-> 0, promo |-> None]

PaymentRow ==
    {NoPayment} \cup
    [status: {"PENDING", "PAID", "REFUNDED"}, months: Months, promo: Promo \cup {None}]

Phase == {"idle", "checkout", "mint", "notified", "claim", "activate", "cover",
          "refund", "uncover", "expire", "extend", "widen"}

\* end is the period end the request is going to write.
Request ==
    [tenant: Tenant \cup {None}, payment: Payment \cup {None},
     promo: Promo \cup {None}, end: Nat]

NoRequest == [tenant |-> None, payment |-> None, promo |-> None, end |-> 0]

At(s, p) == pc[s] = p

Enter(s, p, r) ==
    /\ pc' = [pc EXCEPT ![s] = p]
    /\ req' = [req EXCEPT ![s] = r]

GoTo(s, p) == pc' = [pc EXCEPT ![s] = p] /\ UNCHANGED req

Leave(s) == Enter(s, "idle", NoRequest)

(* Row locks: the phases in which a session holds one. *)

HoldsPayment(s, p) ==
    pc[s] \in {"activate", "cover", "uncover", "expire"} /\ req[s].payment = p

PaymentFree(p) == \A s \in Session : ~HoldsPayment(s, p)

HoldsSubscription(s, t) == pc[s] \in {"cover", "widen"} /\ req[s].tenant = t

HoldsBranches(s, t) == pc[s] = "expire" /\ req[s].tenant = t

SubscriptionFree(t) == \A s \in Session : ~HoldsSubscription(s, t)

BranchesFree(t) == \A s \in Session : ~HoldsBranches(s, t)

Init ==
    /\ now = 0
    /\ payment = [p \in Payment |-> NoPayment]
    /\ periodEnd = [t \in Tenant |-> TrialLength]
    /\ coverage = [t \in Tenant |-> None]
    /\ redemptionCount = [c \in Promo |-> 0]
    /\ redemptions = {}
    /\ midtrans = [p \in Payment |-> "unknown"]
    /\ settled = [p \in Payment |-> 0]
    /\ refunded = [p \in Payment |-> 0]
    /\ pc = [s \in Session |-> "idle"]
    /\ req = [s \in Session |-> NoRequest]

Tick == now < MaxNow /\ now' = now + 1 /\ UNCHANGED <<rows, midtrans, pc, req>>

-----------------------------------------------------------------------------
(* Checkout: compare the promo with its limit, insert the payment, and let  *)
(* Midtrans mint a token; an amount of zero is settled at once.             *)

\* Bound: a checkout begins only while there is an id left for its payment.
FreeIds(t) == {p \in Payment : TenantOf[p] = t /\ payment[p].status = "none"}

CheckingOut(t) == {s \in Session : At(s, "checkout") /\ req[s].tenant = t}

Checkout(s, t, c) ==
    /\ At(s, "idle")
    /\ Cardinality(FreeIds(t)) > Cardinality(CheckingOut(t))
    /\ c # None => MaxRedemptions[c] = 0 \/ redemptionCount[c] < MaxRedemptions[c]
    /\ Enter(s, "checkout", [NoRequest EXCEPT !.tenant = t, !.promo = c])
    /\ UNCHANGED <<now, rows, midtrans>>

\* Mutant: months is not checked to be at least one.
CreateUnchecked(s, p, m, free) ==
    /\ At(s, "checkout")
    /\ payment[p].status = "none"
    /\ TenantOf[p] = req[s].tenant
    /\ payment' = [payment EXCEPT ![p] = [status |-> "PENDING", months |-> m - 1,
                                          promo |-> req[s].promo]]
    /\ Enter(s, IF free THEN "claim" ELSE "mint", [req[s] EXCEPT !.payment = p])
    /\ UNCHANGED <<now, periodEnd, coverage, redemptionCount, redemptions,
                   settled, refunded, midtrans>>

CreatePayment(s, p, m, free) ==
    /\ At(s, "checkout")
    /\ payment[p].status = "none"
    /\ TenantOf[p] = req[s].tenant
    /\ payment' = [payment EXCEPT ![p] = [status |-> "PENDING", months |-> m,
                                          promo |-> req[s].promo]]
    /\ Enter(s, IF free THEN "claim" ELSE "mint", [req[s] EXCEPT !.payment = p])
    /\ UNCHANGED <<now, periodEnd, coverage, redemptionCount, redemptions,
                   settled, refunded, midtrans>>

MintToken(s) ==
    /\ At(s, "mint")
    /\ midtrans' = [midtrans EXCEPT ![req[s].payment] = "minted"]
    /\ Leave(s)
    /\ UNCHANGED <<now, rows>>

\* The tenant pays; from now on Midtrans may notify at any time, any number of times.
Capture(p) ==
    /\ midtrans[p] = "minted"
    /\ midtrans' = [midtrans EXCEPT ![p] = "captured"]
    /\ UNCHANGED <<now, rows, pc, req>>

Deliver(s, p) ==
    /\ At(s, "idle")
    /\ midtrans[p] = "captured"
    /\ Enter(s, "notified", [NoRequest EXCEPT !.tenant = TenantOf[p], !.payment = p,
                                              !.promo = payment[p].promo])
    /\ UNCHANGED <<now, rows, midtrans>>

\* HandleWebhook: a payment that is PAID already is acknowledged.
ReadPayment(s) ==
    /\ At(s, "notified")
    /\ IF payment[req[s].payment].status = "PAID" THEN Leave(s) ELSE GoTo(s, "claim")
    /\ UNCHANGED <<now, rows, midtrans>>

(* SettlePayment *)

\* Mutant: the status is read before the UPDATE only.
ClaimableOnce(p) == TRUE

\* WHERE status <> 'PAID', evaluated once the row lock is granted.
Claimable(p) == payment[p].status # "PAID"

ClaimPayment(s) ==
    LET p == req[s].payment IN
    /\ At(s, "claim")
    /\ PaymentFree(p)
    /\ IF Claimable(p)
       THEN Enter(s, "activate", [req[s] EXCEPT !.end = now + payment[p].months])
       ELSE Leave(s)
    /\ UNCHANGED <<now, rows, midtrans>>

ActivateSubscription(s) ==
    /\ At(s, "activate")
    /\ SubscriptionFree(req[s].tenant)
    /\ GoTo(s, "cover")
    /\ UNCHANGED <<now, rows, midtrans>>

\* Mutant: INSERT ... ON CONFLICT DO NOTHING, after the count was incremented.
RedeemableAgain(s) == TRUE

\* PromoRedemption_promoCodeId_tenantId_key
Redeemable(s) == req[s].promo # None => <<req[s].promo, req[s].tenant>> \notin redemptions

CommitSettlement(s) ==
    LET r == req[s] IN
    /\ At(s, "cover")
    /\ BranchesFree(r.tenant)
    /\ Redeemable(s)
    /\ payment' = [payment EXCEPT ![r.payment].status = "PAID"]
    /\ settled' = [settled EXCEPT ![r.payment] = @ + 1]
    /\ periodEnd' = [periodEnd EXCEPT ![r.tenant] = r.end]
    /\ coverage' = [coverage EXCEPT ![r.tenant] = r.end]
    /\ IF r.promo = None
       THEN UNCHANGED <<redemptionCount, redemptions>>
       ELSE /\ redemptionCount' = [redemptionCount EXCEPT ![r.promo] = @ + 1]
            /\ redemptions' = redemptions \cup {<<r.promo, r.tenant>>}
    /\ Leave(s)
    /\ UNCHANGED <<now, refunded, midtrans>>

\* The unique index refuses the redemption: nothing is committed, Midtrans gets a 500.
RefuseRedemption(s) ==
    /\ At(s, "cover")
    /\ BranchesFree(req[s].tenant)
    /\ ~Redeemable(s)
    /\ Leave(s)
    /\ UNCHANGED <<now, rows, midtrans>>

(* RefundPayment: the payment, the branches, the subscription. *)

Refunding(p) ==
    {s \in Session : pc[s] \in {"refund", "uncover", "expire"} /\ req[s].payment = p}

\* NOW() is the start of the transaction.
BeginRefund(s, p) ==
    /\ At(s, "idle")
    /\ payment[p].status # "none"
    /\ refunded[p] + Cardinality(Refunding(p)) < MaxRefunds
    /\ Enter(s, "refund", [NoRequest EXCEPT !.tenant = TenantOf[p], !.payment = p,
                                            !.end = now])
    /\ UNCHANGED <<now, rows, midtrans>>

ClaimRefund(s) ==
    LET p == req[s].payment IN
    /\ At(s, "refund")
    /\ PaymentFree(p)
    /\ IF payment[p].status = "PAID" THEN GoTo(s, "uncover") ELSE Leave(s)
    /\ UNCHANGED <<now, rows, midtrans>>

ExpireCoverage(s) ==
    /\ At(s, "uncover")
    /\ BranchesFree(req[s].tenant)
    /\ GoTo(s, "expire")
    /\ UNCHANGED <<now, rows, midtrans>>

CommitRefund(s) ==
    LET r == req[s] IN
    /\ At(s, "expire")
    /\ SubscriptionFree(r.tenant)
    /\ payment' = [payment EXCEPT ![r.payment].status = "REFUNDED"]
    /\ refunded' = [refunded EXCEPT ![r.payment] = @ + 1]
    /\ periodEnd' = [periodEnd EXCEPT ![r.tenant] = r.end]
    /\ coverage' = [coverage EXCEPT ![r.tenant] = r.end]
    /\ Leave(s)
    /\ UNCHANGED <<now, redemptionCount, redemptions, settled, midtrans>>

(* ExtendTrial: the period end is read without a lock. *)

BeginExtension(s, t, d) ==
    /\ At(s, "idle")
    /\ periodEnd[t] + d <= MaxEnd
    /\ Enter(s, "extend", [NoRequest EXCEPT !.tenant = t, !.end = periodEnd[t] + d])
    /\ UNCHANGED <<now, rows, midtrans>>

ExtendSubscription(s) ==
    /\ At(s, "extend")
    /\ SubscriptionFree(req[s].tenant)
    /\ GoTo(s, "widen")
    /\ UNCHANGED <<now, rows, midtrans>>

\* Mutant: as in the legacy application, "left Branch.coverageEnd behind".
CommitExtensionLegacy(s) ==
    LET r == req[s] IN
    /\ At(s, "widen")
    /\ BranchesFree(r.tenant)
    /\ periodEnd' = [periodEnd EXCEPT ![r.tenant] = r.end]
    /\ Leave(s)
    /\ UNCHANGED <<now, payment, coverage, redemptionCount, redemptions, settled, refunded,
                   midtrans>>

CommitExtension(s) ==
    LET r == req[s] IN
    /\ At(s, "widen")
    /\ BranchesFree(r.tenant)
    /\ periodEnd' = [periodEnd EXCEPT ![r.tenant] = r.end]
    /\ coverage' = [coverage EXCEPT ![r.tenant] = r.end]
    /\ Leave(s)
    /\ UNCHANGED <<now, payment, redemptionCount, redemptions, settled, refunded, midtrans>>

\* A failed statement, a crash, or a Midtrans that does not answer the mint.
Rollback(s) ==
    /\ ~At(s, "idle")
    /\ Leave(s)
    /\ UNCHANGED <<now, rows, midtrans>>

\* t holds the row that s waits for.
WaitsOn(s, t) ==
    /\ s # t
    /\ \/ pc[s] \in {"cover", "widen"} /\ HoldsBranches(t, req[s].tenant)
       \/ pc[s] = "expire" /\ HoldsSubscription(t, req[s].tenant)

Deadlocked(s) == \E t \in Session : WaitsOn(s, t) /\ WaitsOn(t, s)

\* Mutant: nothing breaks a deadlock.
NoVictim(s) == FALSE

DeadlockVictim(s) == Deadlocked(s) /\ Rollback(s)

-----------------------------------------------------------------------------
CheckoutStep(s) ==
    \/ \E p \in Payment, m \in Months, free \in BOOLEAN : CreatePayment(s, p, m, free)
    \/ MintToken(s)

SettlementStep(s) ==
    ReadPayment(s) \/ ClaimPayment(s) \/ ActivateSubscription(s) \/ RefuseRedemption(s)

RefundStep(s) == ClaimRefund(s) \/ ExpireCoverage(s) \/ CommitRefund(s)

ExtensionStep(s) == ExtendSubscription(s) \/ CommitExtension(s)

SessionStep(s) ==
    \/ CheckoutStep(s) \/ SettlementStep(s) \/ CommitSettlement(s)
    \/ RefundStep(s) \/ ExtensionStep(s)

Next ==
    \/ Tick
    \/ \E s \in Session, t \in Tenant :
          \/ \E c \in Promo \cup {None} : Checkout(s, t, c)
          \/ \E d \in Days : BeginExtension(s, t, d)
    \/ \E p \in Payment : Capture(p) \/ \E s \in Session : Deliver(s, p) \/ BeginRefund(s, p)
    \/ \E s \in Session : SessionStep(s) \/ Rollback(s) \/ DeadlockVictim(s)

Spec == Init /\ [][Next]_vars

\* Row-lock queues are first come first served, and the deadlock detector runs.
FairSpec ==
    /\ Spec
    /\ \A s \in Session : SF_vars(SessionStep(s)) /\ WF_vars(DeadlockVictim(s))

\* Midtrans notifies until it is acknowledged, and not every attempt fails.
RedeliveredSpec ==
    /\ FairSpec
    /\ \A p \in Payment :
          /\ SF_vars(\E s \in Session : Deliver(s, p))
          /\ SF_vars(\E s \in Session : req[s].payment = p /\ ReadPayment(s))
          /\ SF_vars(\E s \in Session : req[s].payment = p /\ ClaimPayment(s))
          /\ SF_vars(\E s \in Session : req[s].payment = p /\ ActivateSubscription(s))
          /\ SF_vars(\E s \in Session : req[s].payment = p /\ CommitSettlement(s))

-----------------------------------------------------------------------------
(* Properties *)

\* Every row and every local keeps its type.
BillingTypeOK ==
    /\ now \in Nat
    /\ payment \in [Payment -> PaymentRow]
    /\ periodEnd \in [Tenant -> Nat]
    /\ coverage \in [Tenant -> Nat \cup {None}]
    /\ redemptionCount \in [Promo -> Nat]
    /\ redemptions \subseteq Promo \X Tenant
    /\ midtrans \in [Payment -> {"unknown", "minted", "captured"}]
    /\ settled \in [Payment -> Nat] /\ refunded \in [Payment -> Nat]
    /\ pc \in [Session -> Phase]
    /\ req \in [Session -> Request]

\* However often and however concurrently Midtrans notifies, a payment extends the
\* subscription once; only a refund in between makes room for a second time.
SettledOncePerRefund ==
    \A p \in Payment :
        settled[p] - refunded[p] = IF payment[p].status = "PAID" THEN 1 ELSE 0

\* A promo is used at most once per tenant, by one settlement of one payment; its
\* count and its audit rows agree with that, also when a settlement fails half way.
RedeemedOncePerTenant ==
    /\ \A c \in Promo : redemptionCount[c] = Cardinality({r \in redemptions : r[1] = c})
    /\ \A p, q \in Payment :
          (payment[p].promo # None /\ settled[p] > 0) =>
              /\ <<payment[p].promo, TenantOf[p]>> \in redemptions
              /\ settled[p] = 1
              /\ (TenantOf[q] = TenantOf[p] /\ payment[q].promo = payment[p].promo
                  /\ settled[q] > 0) => q = p

\* "Advance per-outlet coverage in lockstep with the subscription period": once
\* written, the coverage of the outlets ends when the period does.
CoverageInLockstep ==
    \A t \in Tenant :
        coverage[t] # None => coverage[t] = periodEnd[t]

\* Every request ends, although settlements and refunds lock the subscription and
\* the branches in opposite orders.
BillingRequestsEnd == \A s \in Session : ~At(s, "idle") ~> At(s, "idle")

(* What the code does not keep: violated by a run of its own. *)

\* "Redeem promo if attached (ignore duplicate-redemption errors)": whatever a
\* tenant has paid for is settled.
CapturedPaymentsSettle ==
    \A p \in Payment :
        midtrans[p] = "captured" ~> payment[p].status \in {"PAID", "REFUNDED"}
=============================================================================
