------------------------------ MODULE PlanLimits ------------------------------
(***************************************************************************)
(* The plan limits of one tenant: the subscription they follow from, the   *)
(* cache of five minutes in front of it, and the requests that create what *)
(* is limited - branches, users or orders.  A request resolves the limit,  *)
(* counts, and inserts, each a step of its own; a resolve that misses the  *)
(* cache reads the database and stores what it read later; a change of the *)
(* subscription is committed first and drops the cached entry afterwards,  *)
(* if it does so at all.                                                   *)
(*                                                                         *)
(* Time passes in ticks.  The timeout of every request bounds how long     *)
(* what it has read can wait to be used.                                   *)
(***************************************************************************)
EXTENDS Integers, FiniteSets

CONSTANTS
    Plan, Free,
    MaxOf,       \* [Plan -> Nat]: how many of the resource a plan allows
    Session,     \* requests that check the limit at one time
    TTL,         \* limitsTTL
    Patience,    \* RequestTimeout
    MaxUsed,     \* bound: nothing is created beyond this many
    MaxChanges,  \* bound: changes of the subscription and restarts
    None

ASSUME LimitsAssumption ==
    /\ Free \in Plan /\ None \notin Plan
    /\ MaxOf \in [Plan -> Nat]
    /\ IsFiniteSet(Session)
    /\ TTL \in Nat \ {0} /\ Patience \in Nat
    /\ MaxUsed \in Nat /\ MaxChanges \in Nat

VARIABLES
    sub,      \* the "Subscription" row; plan None stands for no row
    cache,    \* limitsCache of the tenant
    pending,  \* changes committed whose Invalidate is still to come
    used,     \* active rows of the resource
    pc,
    req,      \* the limit each request goes by, and for how long it runs
    since,    \* not in the code: ticks since a plan was last in force
    lenient,  \* not in the code: a row has, or may have, come in unchecked
    changes

vars == <<sub, cache, pending, used, pc, req, since, lenient, changes>>

Subscription == [plan: Plan \cup {None}, trial: BOOLEAN, over: BOOLEAN]

\* excused is not in the code: the entry was out of date when it was stored, or
\* a change that announces nothing has made it so.
Entry == [limit: Plan, age: 0 .. TTL, excused: BOOLEAN]

NoRequest == [limit |-> None, clock |-> 0]

\* How old a limit can be when a request that goes by it inserts.
Horizon == TTL - 1 + 2 * Patience

InForce(s) == IF s.plan = None \/ (s.trial /\ s.over) THEN Free ELSE s.plan

Init ==
    /\ sub \in [plan: Plan \cup {None}, trial: {TRUE}, over: {FALSE}]
    /\ cache = None /\ pending = 0 /\ used = 0
    /\ pc = [s \in Session |-> "idle"]
    /\ req = [s \in Session |-> NoRequest]
    /\ since = [p \in Plan |-> IF p = InForce(sub) THEN 0 ELSE Horizon + 1]
    /\ lenient = FALSE /\ changes = 0

-----------------------------------------------------------------------------
(* Checks *)

\* Mutant: an entry never expires.
NeverExpires == cache # None

Usable == cache # None /\ cache.age < TTL

Go(s, phase, r) == pc' = [pc EXCEPT ![s] = phase] /\ req' = [req EXCEPT ![s] = r]

\* Mutant: a hit makes the entry young again.
SlidingHit(s) ==
    /\ pc[s] = "idle" /\ Usable
    /\ Go(s, "count", [limit |-> cache.limit, clock |-> 0])
    /\ cache' = [cache EXCEPT !.age = 0]
    /\ UNCHANGED <<sub, pending, used, since, lenient, changes>>

Hit(s) ==
    /\ pc[s] = "idle" /\ Usable
    /\ Go(s, "count", [limit |-> cache.limit, clock |-> 0])
    /\ UNCHANGED <<sub, cache, pending, used, since, lenient, changes>>

\* The request missed the cache; its clock began before the read.
ReadPlan(s) ==
    /\ pc[s] = "idle" /\ ~Usable
    /\ Go(s, "store", [limit |-> InForce(sub), clock |-> 0])
    /\ UNCHANGED <<sub, cache, pending, used, since, lenient, changes>>

Store(s) ==
    /\ pc[s] = "store"
    /\ cache' = [limit |-> req[s].limit, age |-> 0,
                 excused |-> req[s].limit # InForce(sub)]
    /\ Go(s, "count", req[s])
    /\ UNCHANGED <<sub, pending, used, since, lenient, changes>>

\* Mutant: a failed resolve is cached like any other.
FailureStored(s) ==
    /\ pc[s] = "idle" /\ ~Usable
    /\ Go(s, "store", NoRequest)
    /\ UNCHANGED <<sub, cache, pending, used, since, lenient, changes>>

\* The handlers drop the error of Check: the request goes on unchecked.
ReadFails(s) ==
    /\ pc[s] = "idle" /\ ~Usable
    /\ Go(s, "insert", NoRequest)
    /\ lenient' = TRUE
    /\ UNCHANGED <<sub, cache, pending, used, since, changes>>

\* Mutant: the last one allowed is one too many.
AllowedUpTo(limit) == used <= MaxOf[limit]

Allowed(limit) == used < MaxOf[limit]

Count(s) ==
    /\ pc[s] = "count"
    /\ IF Allowed(req[s].limit) THEN Go(s, "insert", req[s]) ELSE Go(s, "idle", NoRequest)
    /\ UNCHANGED <<sub, cache, pending, used, since, lenient, changes>>

CountFails(s) ==
    /\ pc[s] = "count"
    /\ Go(s, "insert", NoRequest)
    /\ lenient' = TRUE
    /\ UNCHANGED <<sub, cache, pending, used, since, changes>>

Insert(s) ==
    /\ pc[s] = "insert" /\ used < MaxUsed
    /\ used' = used + 1
    /\ Go(s, "idle", NoRequest)
    /\ UNCHANGED <<sub, cache, pending, since, lenient, changes>>

\* The billing status only resolves; an insert fails or times out.
Leave(s) ==
    /\ pc[s] \in {"count", "insert"}
    /\ Go(s, "idle", NoRequest)
    /\ UNCHANGED <<sub, cache, pending, used, since, lenient, changes>>

\* A branch or user is deactivated, an order deleted, a month of orders over.
Deactivate ==
    /\ used > 0 /\ used' = used - 1
    /\ UNCHANGED <<sub, cache, pending, pc, req, since, lenient, changes>>

\* An edit makes a branch or user active again: no limit is looked at.
Reactivate ==
    /\ used < MaxUsed /\ used' = used + 1
    /\ lenient' = TRUE
    /\ UNCHANGED <<sub, cache, pending, pc, req, since, changes>>

-----------------------------------------------------------------------------
(* Changes of the subscription *)

\* The plan in force until now was so a moment ago.
BecomesInForce(new) ==
    /\ sub' = new
    /\ since' = [since EXCEPT ![InForce(new)] = 0]

Changed == changes < MaxChanges /\ changes' = changes + 1

\* Mutant: the cache is left alone.
Unannounced == UNCHANGED <<cache, pending>>

Announced == pending' = pending + 1 /\ UNCHANGED cache

Silent ==
    /\ cache' = IF cache = None THEN None ELSE [cache EXCEPT !.excused = TRUE]
    /\ UNCHANGED pending

\* SettlePayment and RefundPayment tolerate a missing row, as ExtendTrial does.
SettlePayment ==
    /\ Changed
    /\ BecomesInForce([sub EXCEPT !.trial = FALSE, !.over = FALSE])
    /\ Announced
    /\ UNCHANGED <<used, pc, req, lenient>>

RefundPayment ==
    /\ Changed
    /\ BecomesInForce([sub EXCEPT !.over = TRUE])
    /\ Announced
    /\ UNCHANGED <<used, pc, req, lenient>>

\* The days are added to a period end that may lie far back.
ExtendTrial(over) ==
    /\ Changed
    /\ BecomesInForce([sub EXCEPT !.trial = TRUE, !.over = over])
    /\ Announced
    /\ UNCHANGED <<used, pc, req, lenient>>

Invalidate ==
    /\ pending > 0 /\ pending' = pending - 1
    /\ cache' = None
    /\ UNCHANGED <<sub, used, pc, req, since, lenient, changes>>

\* A super-admin assigns a plan, inserting the row if there is none, or a status.
AssignPlan(p) ==
    /\ Changed
    /\ BecomesInForce(IF sub.plan = None THEN [plan |-> p, trial |-> FALSE, over |-> FALSE]
                      ELSE [sub EXCEPT !.plan = p])
    /\ Silent
    /\ UNCHANGED <<used, pc, req, lenient>>

AssignStatus(trial) ==
    /\ Changed
    /\ BecomesInForce([sub EXCEPT !.trial = trial])
    /\ Silent
    /\ UNCHANGED <<used, pc, req, lenient>>

\* No job notices: the next resolve does.
PeriodEnds ==
    /\ ~sub.over
    /\ BecomesInForce([sub EXCEPT !.over = TRUE])
    /\ Silent
    /\ UNCHANGED <<used, pc, req, lenient, changes>>

-----------------------------------------------------------------------------
(* The process and its clock *)

Restart ==
    /\ Changed
    /\ cache' = None /\ pending' = 0
    /\ pc' = [s \in Session |-> "idle"]
    /\ req' = [s \in Session |-> NoRequest]
    /\ UNCHANGED <<sub, used, since, lenient>>

Older(n, most) == IF n < most THEN n + 1 ELSE most

Tick ==
    /\ \A s \in Session : pc[s] # "idle" => req[s].clock < Patience
    /\ req' = [s \in Session |-> IF pc[s] = "idle" THEN req[s]
                                 ELSE [req[s] EXCEPT !.clock = @ + 1]]
    /\ cache' = IF cache = None THEN None
                ELSE [cache EXCEPT !.age = Older(@, TTL)]
    /\ since' = [p \in Plan |-> IF p = InForce(sub) THEN 0
                                ELSE Older(since[p], Horizon + 1)]
    /\ UNCHANGED <<sub, pending, used, pc, lenient, changes>>

-----------------------------------------------------------------------------
Proceed(s) ==
    \/ Store(s) \/ Count(s) \/ Insert(s) \/ Leave(s)

Next ==
    \/ \E s \in Session :
          Proceed(s) \/ Hit(s) \/ ReadPlan(s) \/ ReadFails(s) \/ CountFails(s)
    \/ Deactivate \/ Reactivate \/ Invalidate \/ PeriodEnds \/ Restart \/ Tick
    \/ SettlePayment \/ RefundPayment
    \/ \E b \in BOOLEAN : ExtendTrial(b) \/ AssignStatus(b)
    \/ \E p \in Plan : AssignPlan(p)

Spec == Init /\ [][Next]_vars

\* Time passes, requests run to their end, and a commit is followed by its
\* Invalidate.
FairSpec ==
    /\ Spec /\ WF_vars(Tick) /\ WF_vars(Invalidate)
    /\ \A s \in Session : WF_vars(Proceed(s))

-----------------------------------------------------------------------------
(* Properties *)

\* The variables keep their types; what is stored in the cache, or counted
\* against, is the limit of a plan, never the outcome of a failed resolve.
LimitsTypeOK ==
    /\ sub \in Subscription
    /\ cache \in Entry \cup {None}
    /\ pending \in 0 .. MaxChanges /\ used \in 0 .. MaxUsed
    /\ pc \in [Session -> {"idle", "store", "count", "insert"}]
    /\ req \in [Session -> [limit: Plan \cup {None}, clock: 0 .. Patience]]
    /\ \A s \in Session : pc[s] \in {"store", "count"} => req[s].limit \in Plan
    /\ since \in [Plan -> 0 .. Horizon + 1]
    /\ lenient \in BOOLEAN /\ changes \in 0 .. MaxChanges

\* Whatever changes race whatever resolves, and also where nothing invalidates:
\* a cached limit was in force within its age and one request's time, and what a
\* request goes by was in force within the cache's five minutes and two of them.
LimitsAreRecent ==
    /\ Usable => since[cache.limit] <= cache.age + Patience
    /\ \A s \in Session :
          pc[s] # "idle" /\ req[s].limit # None =>
             since[req[s].limit] <= TTL - 1 + Patience + req[s].clock

\* Invalidate does what it is there for: a cached limit that is not in force any
\* more was overtaken by a change that announces nothing, or read before the
\* change and stored after it, or its Invalidate is about to come.
StaleOnlyIfExcused ==
    cache # None /\ cache.limit # InForce(sub) => cache.excused \/ pending > 0

\* As long as no check fails and nothing is made active again, what is created
\* stays within a limit that was in force lately, but for the requests that
\* counted at the same time.
Lately == {p \in Plan : since[p] <= Horizon}

CreatedWithinLimit ==
    [][used' > used /\ ~lenient' =>
          \E p \in Lately : used' <= MaxOf[p] + Cardinality(Session) - 1]_vars

\* Once the subscription stays as it is, the cache comes to serve it, although
\* most changes announce nothing and an announced one may be overwritten.
LimitsSettle == <>[](Usable => cache.limit = InForce(sub))
=============================================================================
