--------------------------- MODULE PlanLimitsProofs ---------------------------
(* The invariants of PlanLimits, for every set of plans and requests, every *)
(* lifetime of the cache and every timeout.                                 *)
EXTENDS PlanLimits, FiniteSetTheorems, TLAPS

\* What the three invariants rest on: the plan in force has just been so, a
\* limit read and not yet stored was in force since the request began, and
\* every Invalidate to come is that of a change.
IInv ==
    /\ LimitsTypeOK
    /\ LimitsAreRecent
    /\ StaleOnlyIfExcused
    /\ since[InForce(sub)] = 0
    /\ \A s \in Session : pc[s] = "store" => since[req[s].limit] <= req[s].clock
    /\ pending <= changes

\* A request record, by its fields.
Held == [limit: Plan \cup {None}, clock: 0 .. Patience]

-----------------------------------------------------------------------------
\* The horizon is a number of ticks.
LEMMA HorizonNat == Horizon \in Nat
  BY LimitsAssumption DEF Horizon

\* Some plan is in force, whatever the subscription says.
LEMMA InForceIsPlan == \A r \in Subscription : InForce(r) \in Plan
  BY LimitsAssumption DEF Subscription, InForce

\* What Older returns lies between the count and its limit.
LEMMA OlderBounds ==
  ASSUME NEW n \in Nat, NEW most \in Nat, n <= most
  PROVE  Older(n, most) \in 0 .. most /\ Older(n, most) <= n + 1
  BY DEF Older

\* The strengthened invariant holds initially.
LEMMA InitIInv == Init => IInv
<1> SUFFICES ASSUME Init PROVE IInv
  OBVIOUS
<1> USE LimitsAssumption
<1>1. sub \in Subscription
  BY DEF Init, Subscription
<1>2. InForce(sub) \in Plan
  BY <1>1, InForceIsPlan
<1>3. Horizon + 1 \in Nat
  BY HorizonNat
<1>4. /\ since \in [Plan -> 0 .. Horizon + 1]
      /\ since[InForce(sub)] = 0
  BY <1>2, <1>3 DEF Init
<1>5. req \in [Session -> Held]
  BY DEF Init, Held, NoRequest
<1>6. /\ pc \in [Session -> {"idle", "store", "count", "insert"}]
      /\ \A s \in Session : pc[s] = "idle"
  BY DEF Init
<1>7. /\ cache \in Entry \cup {None} /\ lenient \in BOOLEAN
      /\ pending \in 0 .. MaxChanges /\ changes \in 0 .. MaxChanges /\ used \in 0 .. MaxUsed
  <2>1. cache = None /\ lenient = FALSE /\ pending = 0 /\ changes = 0 /\ used = 0
    BY DEF Init
  <2>2. MaxChanges \in Nat /\ MaxUsed \in Nat
    OBVIOUS
  <2>3. cache \in Entry \cup {None} /\ lenient \in BOOLEAN
    BY <2>1, Zenon
  <2> QED
    BY <2>1, <2>2, <2>3
<1>8. LimitsTypeOK
  BY <1>1, <1>4, <1>5, <1>6, <1>7 DEF LimitsTypeOK, Held
<1> QED
  BY <1>4, <1>6, <1>8 DEF IInv, LimitsAreRecent, StaleOnlyIfExcused, Usable, Init

-----------------------------------------------------------------------------
\* One request moves on to a phase and what it holds; the subscription and the
\* clocks stay as they are.  What the new phase asks of the record suffices.
LEMMA RequestMoves ==
  ASSUME IInv, NEW s \in Session,
         NEW phase \in {"idle", "store", "count", "insert"}, NEW r \in Held,
         Go(s, phase, r), UNCHANGED <<sub, since, changes, pending>>,
         phase \in {"store", "count"} => r.limit \in Plan,
         phase = "store" => since[r.limit] <= r.clock,
         phase # "idle" /\ r.limit # None =>
            since[r.limit] <= TTL - 1 + Patience + r.clock
  PROVE  /\ pc' \in [Session -> {"idle", "store", "count", "insert"}]
         /\ req' \in [Session -> Held]
         /\ \A t \in Session : pc'[t] \in {"store", "count"} => req'[t].limit \in Plan
         /\ \A t \in Session : pc'[t] = "store" => since'[req'[t].limit] <= req'[t].clock
         /\ \A t \in Session : pc'[t] # "idle" /\ req'[t].limit # None =>
               since'[req'[t].limit] <= TTL - 1 + Patience + req'[t].clock
         /\ since'[InForce(sub)'] = 0
         /\ pending' <= changes'
<1> USE DEF IInv, LimitsTypeOK, LimitsAreRecent
<1>1. req \in [Session -> Held]
  BY DEF Held
<1>2. /\ pc' \in [Session -> {"idle", "store", "count", "insert"}]
      /\ req' \in [Session -> Held]
      /\ pc'[s] = phase /\ req'[s] = r
      /\ \A t \in Session \ {s} : pc'[t] = pc[t] /\ req'[t] = req[t]
  BY <1>1 DEF Go
<1>3. InForce(sub)' = InForce(sub)
  BY DEF InForce
<1> QED
  BY <1>2, <1>3

\* What remains to be shown once the sessions are dealt with: the cache.
LEMMA CacheStays ==
  ASSUME IInv, UNCHANGED <<sub, cache, since, pending>>
  PROVE  /\ (cache \in Entry \cup {None})'
         /\ (Usable => since[cache.limit] <= cache.age + Patience)'
         /\ StaleOnlyIfExcused'
  BY DEF IInv, LimitsTypeOK, LimitsAreRecent, StaleOnlyIfExcused, Usable, InForce

\* The parts make the whole.
LEMMA Assembled ==
  ASSUME sub' \in Subscription,
         (cache \in Entry \cup {None})',
         pending' \in 0 .. MaxChanges, used' \in 0 .. MaxUsed,
         pc' \in [Session -> {"idle", "store", "count", "insert"}],
         req' \in [Session -> Held],
         \A t \in Session : pc'[t] \in {"store", "count"} => req'[t].limit \in Plan,
         since' \in [Plan -> 0 .. Horizon + 1],
         lenient' \in BOOLEAN, changes' \in 0 .. MaxChanges,
         (Usable => since[cache.limit] <= cache.age + Patience)',
         \A t \in Session : pc'[t] # "idle" /\ req'[t].limit # None =>
               since'[req'[t].limit] <= TTL - 1 + Patience + req'[t].clock,
         StaleOnlyIfExcused',
         since'[InForce(sub)'] = 0,
         \A t \in Session : pc'[t] = "store" => since'[req'[t].limit] <= req'[t].clock,
         pending' <= changes'
  PROVE  IInv'
  BY DEF IInv, LimitsTypeOK, LimitsAreRecent, Held

-----------------------------------------------------------------------------
\* The steps of a check.
LEMMA CheckSteps ==
  ASSUME IInv, NEW s \in Session,
         \/ Store(s) \/ Count(s) \/ Insert(s) \/ Leave(s)
         \/ Hit(s) \/ ReadPlan(s) \/ ReadFails(s) \/ CountFails(s)
  PROVE  IInv'
<1> USE LimitsAssumption
<1>1. /\ sub \in Subscription /\ cache \in Entry \cup {None}
      /\ pending \in 0 .. MaxChanges /\ used \in 0 .. MaxUsed
      /\ req \in [Session -> Held] /\ req[s] \in Held
      /\ since \in [Plan -> 0 .. Horizon + 1]
      /\ lenient \in BOOLEAN /\ changes \in 0 .. MaxChanges
      /\ InForce(sub) \in Plan /\ since[InForce(sub)] = 0
  BY InForceIsPlan DEF IInv, LimitsTypeOK, Held
<1>2. NoRequest \in Held /\ NoRequest.limit = None
  BY DEF NoRequest, Held
<1>3. TTL \in Nat /\ TTL >= 1 /\ Patience \in Nat /\ 0 \in 0 .. Patience
  OBVIOUS
<1>4. CASE Store(s)
  <2>1. req[s].limit \in Plan /\ since[req[s].limit] <= req[s].clock /\ req[s].clock \in 0 .. Patience
    BY <1>1, <1>4 DEF IInv, LimitsTypeOK, Store, Held
  <2>2. since[req[s].limit] \in Nat
    BY <1>1, <2>1, HorizonNat
  <2>3. since[req[s].limit] <= TTL - 1 + Patience + req[s].clock
    BY <1>3, <2>1, <2>2
  <2>4. Go(s, "count", req[s]) /\ UNCHANGED <<sub, since, changes, pending>>
    BY <1>4 DEF Store
  <2>5. /\ cache' \in Entry /\ cache'.limit = req[s].limit /\ cache'.age = 0
        /\ cache'.limit # InForce(sub) => cache'.excused
    <3> DEFINE stale == req[s].limit # InForce(sub)
    <3>1. stale \in BOOLEAN
      BY Zenon
    <3>2. cache' = [limit |-> req[s].limit, age |-> 0, excused |-> stale]
      BY <1>4 DEF Store
    <3>3. stale => cache'.excused
      BY <3>2, Zenon
    <3> HIDE DEF stale
    <3>4. cache' \in Entry /\ cache'.limit = req[s].limit /\ cache'.age = 0
      BY <1>3, <2>1, <3>1, <3>2 DEF Entry
    <3> QED
      BY <3>3, <3>4 DEF stale
  <2>6. (Usable => since[cache.limit] <= cache.age + Patience)'
    BY <1>3, <2>1, <2>2, <2>4, <2>5 DEF Usable
  <2>7. StaleOnlyIfExcused'
    BY <2>4, <2>5 DEF StaleOnlyIfExcused, InForce
  <2>8. UNCHANGED <<used, lenient>>
    BY <1>4 DEF Store
  <2> HIDE DEF Usable
  <2> QED
    BY <1>1, <2>1, <2>3, <2>4, <2>5, <2>6, <2>7, <2>8, RequestMoves, Assembled
<1>5. CASE Hit(s)
  <2> DEFINE r == [limit |-> cache.limit, clock |-> 0]
  <2>1. cache \in Entry /\ cache.age < TTL /\ since[cache.limit] <= cache.age + Patience
    BY <1>1, <1>5 DEF Hit, Usable, IInv, LimitsAreRecent
  <2>2. r \in Held /\ r.limit = cache.limit /\ r.limit \in Plan /\ r.clock = 0
    BY <1>3, <2>1 DEF Held, Entry
  <2>3. cache.age \in Nat /\ since[cache.limit] \in Nat
    BY <1>1, <2>1, <2>2, HorizonNat DEF Entry
  <2> HIDE DEF r
  <2>4. since[r.limit] <= TTL - 1 + Patience + r.clock
    BY <1>3, <2>1, <2>2, <2>3
  <2>5. Go(s, "count", r) /\ UNCHANGED <<sub, cache, since, changes, pending, used, lenient>>
    BY <1>5 DEF Hit, r
  <2> QED
    BY <1>1, <2>2, <2>4, <2>5, RequestMoves, CacheStays, Assembled
<1>6. CASE ReadPlan(s)
  <2> DEFINE r == [limit |-> InForce(sub), clock |-> 0]
  <2>1. r \in Held /\ r.limit \in Plan /\ since[r.limit] = 0 /\ r.clock = 0
    BY <1>1, <1>3 DEF Held
  <2>2. Go(s, "store", r) /\ UNCHANGED <<sub, cache, since, changes, pending, used, lenient>>
    BY <1>6 DEF ReadPlan
  <2> HIDE DEF r
  <2>3. since[r.limit] <= r.clock /\ since[r.limit] <= TTL - 1 + Patience + r.clock
    BY <1>3, <2>1
  <2> QED
    BY <1>1, <2>1, <2>2, <2>3, RequestMoves, CacheStays, Assembled
<1>7. CASE Count(s) /\ Allowed(req[s].limit)
  <2>1. Go(s, "insert", req[s]) /\ UNCHANGED <<sub, cache, since, changes, pending, used, lenient>>
    BY <1>7 DEF Count
  <2>2. req[s].limit # None => since[req[s].limit] <= TTL - 1 + Patience + req[s].clock
    BY <1>7 DEF IInv, LimitsAreRecent, Count
  <2> QED
    BY <1>1, <2>1, <2>2, RequestMoves, CacheStays, Assembled
<1>8. CASE \/ Count(s) /\ ~Allowed(req[s].limit)
           \/ Leave(s)
  <2>1. Go(s, "idle", NoRequest) /\ UNCHANGED <<sub, cache, since, changes, pending, used, lenient>>
    BY <1>8 DEF Count, Leave
  <2> QED
    BY <1>1, <1>2, <2>1, RequestMoves, CacheStays, Assembled
<1>9. CASE Insert(s)
  <2>1. Go(s, "idle", NoRequest) /\ UNCHANGED <<sub, cache, since, changes, pending, lenient>>
    BY <1>9 DEF Insert
  <2>2. used' \in 0 .. MaxUsed
    BY <1>1, <1>9 DEF Insert
  <2> QED
    BY <1>1, <1>2, <2>1, <2>2, RequestMoves, CacheStays, Assembled
<1>10. CASE ReadFails(s) \/ CountFails(s)
  <2>1. Go(s, "insert", NoRequest) /\ UNCHANGED <<sub, cache, since, changes, pending, used>>
    BY <1>10 DEF ReadFails, CountFails
  <2>2. lenient' \in BOOLEAN
    BY <1>10 DEF ReadFails, CountFails
  <2> QED
    BY <1>1, <1>2, <2>1, <2>2, RequestMoves, CacheStays, Assembled
<1> QED
  BY <1>4, <1>5, <1>6, <1>7, <1>8, <1>9, <1>10

-----------------------------------------------------------------------------
\* A change of the subscription makes no plan longer out of force.
LEMMA SinceAfterChange ==
  ASSUME IInv, NEW new \in Subscription, BecomesInForce(new)
  PROVE  /\ sub' \in Subscription
         /\ since' \in [Plan -> 0 .. Horizon + 1]
         /\ since'[InForce(sub)'] = 0
         /\ \A p \in Plan : since'[p] <= since[p]
<1>1. since \in [Plan -> 0 .. Horizon + 1] /\ InForce(new) \in Plan
  BY InForceIsPlan DEF IInv, LimitsTypeOK
<1>2. InForce(sub)' = InForce(new)
  BY DEF BecomesInForce, InForce
<1>3. Horizon + 1 \in Nat
  BY HorizonNat
<1> QED
  BY <1>1, <1>2, <1>3 DEF BecomesInForce

\* Every change keeps the invariant, announced or not.
LEMMA ChangeStep ==
  ASSUME IInv, NEW new \in Subscription, BecomesInForce(new),
         Announced \/ Silent,
         UNCHANGED <<used, pc, req, lenient>>,
         changes' \in 0 .. MaxChanges, changes <= changes',
         Announced => changes' = changes + 1
  PROVE  IInv'
<1> USE LimitsAssumption
<1>1. /\ cache \in Entry \cup {None}
      /\ pending \in 0 .. MaxChanges /\ used \in 0 .. MaxUsed
      /\ pc \in [Session -> {"idle", "store", "count", "insert"}]
      /\ req \in [Session -> Held]
      /\ \A t \in Session : pc[t] \in {"store", "count"} => req[t].limit \in Plan
      /\ since \in [Plan -> 0 .. Horizon + 1]
      /\ lenient \in BOOLEAN /\ changes \in 0 .. MaxChanges
      /\ pending <= changes
  BY DEF IInv, LimitsTypeOK, Held
<1>2. /\ sub' \in Subscription /\ since' \in [Plan -> 0 .. Horizon + 1]
      /\ since'[InForce(sub)'] = 0
      /\ \A p \in Plan : since'[p] <= since[p]
  BY SinceAfterChange
<1>3. /\ \A p \in Plan : since[p] \in Nat /\ since'[p] \in Nat
      /\ \A t \in Session : req[t].clock \in Nat /\ req[t].limit \in Plan \cup {None}
  BY <1>1, <1>2, HorizonNat DEF Held
<1>4. \A t \in Session : pc'[t] = "store" => since'[req'[t].limit] <= req'[t].clock
  <2> SUFFICES ASSUME NEW t \in Session, pc[t] = "store"
               PROVE  since'[req[t].limit] <= req[t].clock
    OBVIOUS
  <2>1. req[t].limit \in Plan /\ since[req[t].limit] <= req[t].clock
    BY <1>1 DEF IInv
  <2> QED
    BY <1>2, <1>3, <2>1
<1>5. \A t \in Session : pc'[t] # "idle" /\ req'[t].limit # None =>
         since'[req'[t].limit] <= TTL - 1 + Patience + req'[t].clock
  <2> SUFFICES ASSUME NEW t \in Session, pc[t] # "idle", req[t].limit # None
               PROVE  since'[req[t].limit] <= TTL - 1 + Patience + req[t].clock
    OBVIOUS
  <2>1. req[t].limit \in Plan /\ since[req[t].limit] <= TTL - 1 + Patience + req[t].clock
    BY <1>3 DEF IInv, LimitsAreRecent
  <2> QED
    BY <1>2, <1>3, <2>1
<1>6. CASE Announced
  <2>1. cache' = cache /\ pending' = pending + 1 /\ changes' = changes + 1
    BY <1>6 DEF Announced
  <2>2. pending' \in 0 .. MaxChanges /\ pending' <= changes' /\ pending' > 0
    BY <1>1, <2>1
  <2>3. StaleOnlyIfExcused'
    BY <2>2 DEF StaleOnlyIfExcused
  <2>4. (Usable => since[cache.limit] <= cache.age + Patience)'
    <3> SUFFICES ASSUME Usable PROVE since'[cache.limit] <= cache.age + Patience
      BY <2>1 DEF Usable
    <3>1. cache.limit \in Plan /\ cache.age \in Nat /\ since[cache.limit] <= cache.age + Patience
      BY <1>1 DEF Usable, Entry, IInv, LimitsAreRecent
    <3> QED
      BY <1>2, <1>3, <3>1
  <2> QED
    BY <1>1, <1>2, <1>4, <1>5, <2>1, <2>2, <2>3, <2>4, Assembled
<1>7. CASE Silent
  <2>1. pending' = pending /\ (cache = None => cache' = None)
    BY <1>7 DEF Silent
  <2>2. cache # None =>
           /\ cache' \in Entry /\ cache'.limit = cache.limit
           /\ cache'.age = cache.age /\ cache'.excused
    BY <1>1, <1>7 DEF Silent, Entry
  <2>3. (cache \in Entry \cup {None})' /\ StaleOnlyIfExcused'
    BY <2>1, <2>2 DEF StaleOnlyIfExcused
  <2>4. (Usable => since[cache.limit] <= cache.age + Patience)'
    <3> SUFFICES ASSUME Usable' PROVE since'[cache'.limit] <= cache'.age + Patience
      OBVIOUS
    <3>1. cache # None /\ Usable
      BY <2>1, <2>2 DEF Usable
    <3>2. cache.limit \in Plan /\ cache.age \in Nat /\ since[cache.limit] <= cache.age + Patience
      BY <1>1, <3>1 DEF Usable, Entry, IInv, LimitsAreRecent
    <3> QED
      BY <1>2, <1>3, <2>2, <3>1, <3>2
  <2>5. pending' <= changes'
    BY <1>1, <2>1
  <2> QED
    BY <1>1, <1>2, <1>4, <1>5, <2>1, <2>3, <2>4, <2>5, Assembled
<1> QED
  BY <1>6, <1>7

-----------------------------------------------------------------------------
\* A change yields a subscription again.
LEMMA ChangesAreSubscriptions ==
  ASSUME sub \in Subscription
  PROVE  /\ [sub EXCEPT !.trial = FALSE, !.over = FALSE] \in Subscription
         /\ [sub EXCEPT !.over = TRUE] \in Subscription
         /\ \A b \in BOOLEAN : /\ [sub EXCEPT !.trial = TRUE, !.over = b] \in Subscription
                              /\ [sub EXCEPT !.trial = b] \in Subscription
         /\ \A p \in Plan : /\ [plan |-> p, trial |-> FALSE, over |-> FALSE] \in Subscription
                           /\ [sub EXCEPT !.plan = p] \in Subscription
  BY DEF Subscription

\* The changes, by whom they are made.
LEMMA ChangeSteps ==
  ASSUME IInv,
         \/ SettlePayment \/ RefundPayment \/ PeriodEnds
         \/ \E b \in BOOLEAN : ExtendTrial(b) \/ AssignStatus(b)
         \/ \E p \in Plan : AssignPlan(p)
  PROVE  IInv'
<1>1. sub \in Subscription /\ changes \in 0 .. MaxChanges /\ MaxChanges \in Nat
  BY LimitsAssumption DEF IInv, LimitsTypeOK
<1>2. Changed => /\ changes' = changes + 1 /\ changes' \in 0 .. MaxChanges
                 /\ changes <= changes'
  BY <1>1 DEF Changed
<1>3. CASE SettlePayment
  BY <1>1, <1>2, <1>3, ChangeStep, ChangesAreSubscriptions DEF SettlePayment
<1>4. CASE RefundPayment
  BY <1>1, <1>2, <1>4, ChangeStep, ChangesAreSubscriptions DEF RefundPayment
<1>5. ASSUME NEW b \in BOOLEAN, ExtendTrial(b)
      PROVE  IInv'
  BY <1>1, <1>2, <1>5, ChangeStep, ChangesAreSubscriptions DEF ExtendTrial
<1>6. ASSUME NEW b \in BOOLEAN, AssignStatus(b)
      PROVE  IInv'
  <2>1. Silent /\ changes' = changes + 1
    BY <1>6, <1>2 DEF AssignStatus
  <2>2. Announced => FALSE
    BY <2>1, <1>1 DEF Silent, Announced, IInv, LimitsTypeOK
  <2> QED
    BY <1>1, <1>2, <1>6, <2>1, <2>2, ChangeStep, ChangesAreSubscriptions DEF AssignStatus
<1>7. ASSUME NEW p \in Plan, AssignPlan(p)
      PROVE  IInv'
  <2> DEFINE new == IF sub.plan = None THEN [plan |-> p, trial |-> FALSE, over |-> FALSE]
                    ELSE [sub EXCEPT !.plan = p]
  <2>1. new \in Subscription
    BY <1>1, ChangesAreSubscriptions
  <2>2. BecomesInForce(new) /\ Silent /\ changes' = changes + 1 /\ UNCHANGED <<used, pc, req, lenient>>
    BY <1>7, <1>2 DEF AssignPlan
  <2> HIDE DEF new
  <2> QED
    BY <1>1, <1>2, <1>7, <2>1, <2>2, ChangeStep DEF AssignPlan
<1>8. CASE PeriodEnds
  <2>1. Silent /\ changes' = changes /\ UNCHANGED <<used, pc, req, lenient>>
        /\ BecomesInForce([sub EXCEPT !.over = TRUE])
    BY <1>8 DEF PeriodEnds
  <2>2. Announced => FALSE
    BY <2>1, <1>1 DEF Silent, Announced, IInv, LimitsTypeOK
  <2>3. [sub EXCEPT !.over = TRUE] \in Subscription
    BY <1>1, ChangesAreSubscriptions
  <2>4. changes' \in 0 .. MaxChanges /\ changes <= changes'
    BY <1>1, <2>1
  <2> QED
    BY <2>1, <2>2, <2>3, <2>4, ChangeStep
<1> QED
  BY <1>3, <1>4, <1>5, <1>6, <1>7, <1>8

-----------------------------------------------------------------------------
\* A restart forgets the cache and the requests.
LEMMA RestartStep == ASSUME IInv, Restart PROVE IInv'
<1> USE LimitsAssumption
<1>1. /\ sub \in Subscription /\ used \in 0 .. MaxUsed /\ changes \in 0 .. MaxChanges
      /\ since \in [Plan -> 0 .. Horizon + 1] /\ lenient \in BOOLEAN
      /\ since[InForce(sub)] = 0
  BY DEF IInv, LimitsTypeOK
<1>2. NoRequest \in Held
  BY DEF NoRequest, Held
<1>3. /\ pc' = [s \in Session |-> "idle"] /\ req' = [s \in Session |-> NoRequest]
      /\ cache' = None /\ pending' = 0
      /\ changes' = changes + 1 /\ changes' \in 0 .. MaxChanges
      /\ UNCHANGED <<sub, used, since, lenient>>
  BY <1>1 DEF Restart, Changed
<1>4. /\ pc' \in [Session -> {"idle", "store", "count", "insert"}]
      /\ req' \in [Session -> Held]
      /\ \A t \in Session : pc'[t] = "idle"
  BY <1>2, <1>3
<1>5. (Usable => since[cache.limit] <= cache.age + Patience)' /\ StaleOnlyIfExcused'
  BY <1>3 DEF Usable, StaleOnlyIfExcused
<1>6. InForce(sub)' = InForce(sub)
  BY <1>3 DEF InForce
<1>7. pending' \in 0 .. MaxChanges /\ pending' <= changes' /\ (cache \in Entry \cup {None})'
  BY <1>1, <1>3
<1> QED
  BY <1>1, <1>3, <1>4, <1>5, <1>6, <1>7, Assembled

\* Invalidate empties the cache.
LEMMA InvalidateStep == ASSUME IInv, Invalidate PROVE IInv'
<1> USE LimitsAssumption
<1>1. /\ cache' = None /\ pending \in 0 .. MaxChanges /\ pending' = pending - 1
      /\ pending > 0 /\ pending <= changes /\ changes \in 0 .. MaxChanges
      /\ UNCHANGED <<sub, used, pc, req, since, lenient, changes>>
  BY DEF Invalidate, IInv, LimitsTypeOK
<1>2. pending' \in 0 .. MaxChanges /\ pending' <= changes'
  BY <1>1
<1>3. (Usable => since[cache.limit] <= cache.age + Patience)' /\ StaleOnlyIfExcused'
  BY <1>1 DEF Usable, StaleOnlyIfExcused
<1>4. InForce(sub)' = InForce(sub)
  BY <1>1 DEF InForce
<1>5. (cache \in Entry \cup {None})'
  BY <1>1
<1> QED
  BY <1>1, <1>2, <1>3, <1>4, <1>5, Assembled DEF IInv, LimitsTypeOK, LimitsAreRecent, Held

\* Nothing that a step of Next may change but the rows.
LEMMA RowsStep == ASSUME IInv, Deactivate \/ Reactivate PROVE IInv'
<1> USE LimitsAssumption
<1>1. /\ used' \in 0 .. MaxUsed
      /\ lenient' \in BOOLEAN
      /\ UNCHANGED <<sub, cache, pending, pc, req, since, changes>>
  <2>1. CASE Deactivate
    BY <2>1 DEF Deactivate, IInv, LimitsTypeOK
  <2>2. CASE Reactivate
    BY <2>2 DEF Reactivate, IInv, LimitsTypeOK
  <2> QED
    BY <2>1, <2>2
<1> QED
  BY <1>1 DEF IInv, LimitsTypeOK, LimitsAreRecent, StaleOnlyIfExcused, Usable, InForce

\* A tick: clocks and ages advance together, and what is in force stays so.
LEMMA TickStep == ASSUME IInv, Tick PROVE IInv'
<1> USE LimitsAssumption
<1>1. /\ sub \in Subscription /\ cache \in Entry \cup {None}
      /\ pending \in 0 .. MaxChanges /\ used \in 0 .. MaxUsed
      /\ pc \in [Session -> {"idle", "store", "count", "insert"}]
      /\ req \in [Session -> Held]
      /\ \A t \in Session : pc[t] \in {"store", "count"} => req[t].limit \in Plan
      /\ since \in [Plan -> 0 .. Horizon + 1]
      /\ lenient \in BOOLEAN /\ changes \in 0 .. MaxChanges /\ pending <= changes
      /\ InForce(sub) \in Plan
  BY InForceIsPlan DEF IInv, LimitsTypeOK, Held
<1>2. UNCHANGED <<sub, pending, used, pc, lenient, changes>>
  BY DEF Tick
<1>3. InForce(sub)' = InForce(sub)
  BY <1>2 DEF InForce
<1>4. /\ since' \in [Plan -> 0 .. Horizon + 1]
      /\ since'[InForce(sub)] = 0
      /\ \A p \in Plan : since'[p] <= since[p] + 1
  <2>1. Horizon + 1 \in Nat /\ 0 \in 0 .. Horizon + 1
    BY HorizonNat
  <2>2. \A p \in Plan : /\ since[p] \in Nat /\ since[p] <= Horizon + 1
                       /\ Older(since[p], Horizon + 1) \in 0 .. Horizon + 1
                       /\ Older(since[p], Horizon + 1) <= since[p] + 1
    BY <1>1, <2>1, OlderBounds
  <2>3. since' = [p \in Plan |-> IF p = InForce(sub) THEN 0 ELSE Older(since[p], Horizon + 1)]
    BY DEF Tick
  <2> QED
    BY <1>1, <2>1, <2>2, <2>3
<1>5. \A p \in Plan : since[p] \in Nat /\ since'[p] \in Nat
  BY <1>1, <1>4, HorizonNat
<1>6. ASSUME NEW t \in Session
      PROVE  /\ req'[t] \in Held /\ req'[t].limit = req[t].limit
             /\ pc[t] # "idle" => req'[t].clock = req[t].clock + 1
  <2>1. /\ req[t].limit \in Plan \cup {None} /\ req[t].clock \in 0 .. Patience
        /\ pc[t] # "idle" => req[t].clock < Patience
    BY <1>1 DEF Tick, Held
  <2>2. req'[t] = IF pc[t] = "idle" THEN req[t] ELSE [req[t] EXCEPT !.clock = req[t].clock + 1]
    BY DEF Tick
  <2>3. req[t] \in Held
    BY <1>1
  <2>4. pc[t] # "idle" => req[t].clock + 1 \in 0 .. Patience
    BY <2>1
  <2> QED
    BY <2>1, <2>2, <2>3, <2>4 DEF Held
<1>7. req' \in [Session -> Held]
  <2>1. req' = [s \in Session |-> req'[s]]
    BY DEF Tick
  <2> QED
    BY <1>6, <2>1, Zenon
<1>8. \A t \in Session : pc'[t] \in {"store", "count"} => req'[t].limit \in Plan
  BY <1>1, <1>2, <1>6
<1>9. \A t \in Session : pc'[t] = "store" => since'[req'[t].limit] <= req'[t].clock
  <2> SUFFICES ASSUME NEW t \in Session, pc[t] = "store"
               PROVE  since'[req'[t].limit] <= req'[t].clock
    BY <1>2
  <2>1. /\ req[t].limit \in Plan /\ since[req[t].limit] <= req[t].clock
        /\ req[t].clock \in Nat /\ req'[t].clock = req[t].clock + 1
        /\ req'[t].limit = req[t].limit
    BY <1>1, <1>6 DEF IInv, Held
  <2> QED
    BY <1>4, <1>5, <2>1
<1>10. \A t \in Session : pc'[t] # "idle" /\ req'[t].limit # None =>
          since'[req'[t].limit] <= TTL - 1 + Patience + req'[t].clock
  <2> SUFFICES ASSUME NEW t \in Session, pc[t] # "idle", req'[t].limit # None
               PROVE  since'[req'[t].limit] <= TTL - 1 + Patience + req'[t].clock
    BY <1>2
  <2>1. /\ req[t].limit \in Plan /\ req[t].clock \in Nat
        /\ since[req[t].limit] <= TTL - 1 + Patience + req[t].clock
        /\ req'[t].clock = req[t].clock + 1 /\ req'[t].limit = req[t].limit
    BY <1>1, <1>6 DEF IInv, LimitsAreRecent, Held
  <2> QED
    BY <1>4, <1>5, <2>1
<1>11. /\ (cache \in Entry \cup {None})' /\ StaleOnlyIfExcused'
       /\ (Usable => since[cache.limit] <= cache.age + Patience)'
  <2>1. CASE cache = None
    BY <2>1 DEF Tick, StaleOnlyIfExcused, Usable
  <2>2. CASE cache # None
    <3>1. /\ cache \in Entry /\ cache.limit \in Plan /\ cache.age \in 0 .. TTL
          /\ TTL \in Nat /\ cache.age <= TTL
      BY <1>1, <2>2 DEF Entry
    <3>2. Older(cache.age, TTL) \in 0 .. TTL
      BY <3>1 DEF Older
    <3>3. cache' = [cache EXCEPT !.age = Older(cache.age, TTL)]
      BY <2>2 DEF Tick
    <3>4. /\ cache' \in Entry /\ cache'.limit = cache.limit /\ cache'.excused = cache.excused
          /\ cache'.age = Older(cache.age, TTL)
      BY <3>1, <3>2, <3>3 DEF Entry
    <3>5. cache.limit # InForce(sub) => cache.excused \/ pending > 0
      BY <2>2 DEF IInv, StaleOnlyIfExcused
    <3>6. StaleOnlyIfExcused'
      BY <1>2, <1>3, <3>4, <3>5 DEF StaleOnlyIfExcused
    <3>7. cache'.age < TTL => cache.age < TTL /\ cache'.age = cache.age + 1
      BY <3>1, <3>4 DEF Older
    <3>8. cache.age < TTL => since[cache.limit] <= cache.age + Patience
      BY <2>2 DEF IInv, LimitsAreRecent, Usable
    <3>9. cache'.age < TTL => since'[cache'.limit] <= cache'.age + Patience
      BY <1>4, <1>5, <3>1, <3>4, <3>7, <3>8
    <3> QED
      BY <3>4, <3>6, <3>9 DEF Usable
  <2> QED
    BY <2>1, <2>2
<1> QED
  BY <1>1, <1>2, <1>3, <1>4, <1>7, <1>8, <1>9, <1>10, <1>11, Assembled

-----------------------------------------------------------------------------
\* Every step keeps the strengthened invariant.
LEMMA NextIInv == IInv /\ [Next]_vars => IInv'
<1> SUFFICES ASSUME IInv, [Next]_vars PROVE IInv'
  OBVIOUS
<1>1. CASE UNCHANGED vars
  BY <1>1 DEF vars, IInv, LimitsTypeOK, LimitsAreRecent, StaleOnlyIfExcused, Usable, InForce
<1>2. ASSUME NEW s \in Session,
             Proceed(s) \/ Hit(s) \/ ReadPlan(s) \/ ReadFails(s) \/ CountFails(s)
      PROVE  IInv'
  BY <1>2, CheckSteps DEF Proceed
<1>3. CASE Deactivate \/ Reactivate
  BY <1>3, RowsStep
<1>4. CASE Invalidate
  BY <1>4, InvalidateStep
<1>5. CASE Restart
  BY <1>5, RestartStep
<1>6. CASE Tick
  BY <1>6, TickStep
<1>7. CASE \/ SettlePayment \/ RefundPayment \/ PeriodEnds
           \/ \E b \in BOOLEAN : ExtendTrial(b) \/ AssignStatus(b)
           \/ \E p \in Plan : AssignPlan(p)
  BY <1>7, ChangeSteps
<1> QED
  BY <1>1, <1>2, <1>3, <1>4, <1>5, <1>6, <1>7 DEF Next

\* The strengthened invariant holds in every reachable state.
LEMMA IInvHolds == Spec => []IInv
  BY InitIInv, NextIInv, PTL DEF Spec

\* The variables of the cache and of its callers keep their types: no failed
\* resolve is ever cached or counted against.
THEOREM LimitsTypeCorrect == Spec => []LimitsTypeOK
<1>1. IInv => LimitsTypeOK
  BY DEF IInv
<1> QED
  BY <1>1, IInvHolds, PTL

\* A limit that a request goes by was in force within the lifetime of a cache
\* entry and twice the time a request may take, whatever that lifetime is.
THEOREM LimitsRecent == Spec => []LimitsAreRecent
<1>1. IInv => LimitsAreRecent
  BY DEF IInv
<1> QED
  BY <1>1, IInvHolds, PTL

\* A cached limit is out of date only for the reasons the code leaves open.
THEOREM StaleExcused == Spec => []StaleOnlyIfExcused
<1>1. IInv => StaleOnlyIfExcused
  BY DEF IInv
<1> QED
  BY <1>1, IInvHolds, PTL
-----------------------------------------------------------------------------
(* What is created stays within the limit.  A request that may insert was   *)
(* counted against the limit of a plan, when fewer than it allows were in   *)
(* use.  Since then only requests that were ahead of it could insert: those *)
(* that may insert too, or that began before it did and are yet to count.   *)
(* One that began later counts against a limit at least as recent, which    *)
(* then serves for both.                                                    *)

Ahead(s) ==
    {t \in Session :
        \/ pc[t] = "insert"
        \/ pc[t] \in {"store", "count"} /\ req[t].clock > req[s].clock}

\* A plan last in force age ticks ago has room for n rows, at a clock.
Fits(p, age, n, clock) ==
    /\ age <= TTL - 1 + Patience + clock
    /\ n <= MaxOf[p] + Cardinality(Session) - 1

RoomLeft ==
    ~lenient => \A s \in Session : pc[s] = "insert" =>
        \E p \in Plan : Fits(p, since[p], used + Cardinality(Ahead(s)), req[s].clock)

\* There are at most as many requests ahead as there are requests.
LEMMA AheadBounded ==
  ASSUME NEW s \in Session
  PROVE  /\ IsFiniteSet(Ahead(s)) /\ Cardinality(Ahead(s)) \in Nat
         /\ Cardinality(Ahead(s)) <= Cardinality(Session)
         /\ Cardinality(Session) \in Nat
<1>1. Ahead(s) \subseteq Session
  BY DEF Ahead
<1>2. IsFiniteSet(Session)
  BY LimitsAssumption
<1> QED
  BY <1>1, <1>2, FS_Subset, FS_CardinalityType

\* The same one step later.
LEMMA AheadBoundedNext ==
  ASSUME NEW s \in Session
  PROVE  /\ IsFiniteSet(Ahead(s)') /\ Cardinality(Ahead(s)') \in Nat
         /\ Cardinality(Ahead(s)') <= Cardinality(Session)
<1>1. Ahead(s)' \subseteq Session
  BY DEF Ahead
<1>2. IsFiniteSet(Session)
  BY LimitsAssumption
<1> QED
  BY <1>1, <1>2, FS_Subset, FS_CardinalityType

\* What the strengthened invariant says of numbers.
LEMMA Numbers ==
  ASSUME IInv
  PROVE  /\ used \in Nat /\ TTL \in Nat /\ Patience \in Nat /\ Horizon \in Nat
         /\ \A p \in Plan : since[p] \in Nat /\ MaxOf[p] \in Nat
         /\ \A s \in Session : req[s].clock \in 0 .. Patience
<1>1. used \in Nat /\ TTL \in Nat /\ Patience \in Nat /\ Horizon \in Nat
  BY LimitsAssumption, HorizonNat DEF IInv, LimitsTypeOK
<1>2. since \in [Plan -> 0 .. Horizon + 1] /\ MaxOf \in [Plan -> Nat]
      /\ req \in [Session -> Held]
  BY LimitsAssumption DEF IInv, LimitsTypeOK, Held
<1> QED
  BY <1>1, <1>2 DEF Held

\* A request that has room keeps it while nobody new gets ahead of it, no more
\* is used and its plan is no longer out of force.
LEMMA RoomStays ==
  ASSUME IInv, IInv', RoomLeft, ~lenient, NEW s \in Session, pc[s] = "insert",
         used' <= used, \A p \in Plan : since'[p] <= since[p],
         req'[s] = req[s], Ahead(s)' \subseteq Ahead(s)
  PROVE  \E p \in Plan : Fits(p, since'[p], used' + Cardinality(Ahead(s)'), req'[s].clock)
<1>1. PICK p \in Plan : Fits(p, since[p], used + Cardinality(Ahead(s)), req[s].clock)
  BY DEF RoomLeft
<1>2. Cardinality(Ahead(s)') <= Cardinality(Ahead(s))
  BY AheadBounded, FS_Subset
<1>3. used' \in Nat /\ since'[p] \in Nat
  BY HorizonNat, LimitsAssumption DEF IInv, LimitsTypeOK
<1>4. Fits(p, since'[p], used' + Cardinality(Ahead(s)'), req'[s].clock)
  BY <1>1, <1>2, <1>3, Numbers, AheadBounded, AheadBoundedNext DEF Fits
<1> QED
  BY <1>4

\* Nobody gets ahead of anybody by starting, storing or leaving.
LEMMA NobodyGetsAhead ==
  ASSUME IInv, IInv', RoomLeft, NEW t \in Session, NEW r \in Held,
         NEW phase \in {"idle", "store", "count"},
         Go(t, phase, r),
         phase # "idle" => r.clock = 0 \/ (pc[t] = "store" /\ r = req[t]),
         UNCHANGED <<used, since, lenient>>
  PROVE  RoomLeft'
<1> SUFFICES ASSUME ~lenient, NEW s \in Session, pc'[s] = "insert"
             PROVE  \E p \in Plan :
                       Fits(p, since'[p], used' + Cardinality(Ahead(s)'), req'[s].clock)
  BY DEF RoomLeft
<1>1. /\ pc'[t] = phase /\ req'[t] = r
      /\ \A u \in Session \ {t} : pc'[u] = pc[u] /\ req'[u] = req[u]
  BY DEF Go, IInv, LimitsTypeOK
<1>2. s # t /\ pc[s] = "insert" /\ req'[s] = req[s]
  BY <1>1
<1>3. \A u \in Session : req[u].clock \in Nat
  BY Numbers
<1>4. Ahead(s)' \subseteq Ahead(s)
  BY <1>1, <1>2, <1>3 DEF Ahead
<1>5. used' <= used /\ \A p \in Plan : since'[p] <= since[p]
  BY Numbers
<1> QED
  BY <1>2, <1>4, <1>5, RoomStays

\* An insert uses the room its request had, and that request is ahead of
\* nobody any more.
LEMMA InsertKeepsRoom ==
  ASSUME IInv, IInv', RoomLeft, NEW t \in Session, Insert(t)
  PROVE  RoomLeft'
<1> SUFFICES ASSUME ~lenient, NEW s \in Session, pc'[s] = "insert"
             PROVE  \E p \in Plan :
                       Fits(p, since'[p], used' + Cardinality(Ahead(s)'), req'[s].clock)
  BY DEF RoomLeft, Insert
<1>1. /\ pc[t] = "insert" /\ pc'[t] = "idle"
      /\ \A u \in Session \ {t} : pc'[u] = pc[u] /\ req'[u] = req[u]
      /\ used' = used + 1 /\ since' = since
  BY DEF Insert, Go, IInv, LimitsTypeOK
<1>2. s # t /\ pc[s] = "insert" /\ req'[s] = req[s]
  BY <1>1
<1>3. PICK p \in Plan : Fits(p, since[p], used + Cardinality(Ahead(s)), req[s].clock)
  BY <1>2 DEF RoomLeft
<1>4. t \in Ahead(s) /\ Ahead(s)' \subseteq Ahead(s) \ {t}
  BY <1>1, <1>2 DEF Ahead
<1>5. /\ IsFiniteSet(Ahead(s) \ {t})
      /\ Cardinality(Ahead(s) \ {t}) = Cardinality(Ahead(s)) - 1
  BY <1>4, AheadBounded, FS_RemoveElement
<1>6. Cardinality(Ahead(s)') <= Cardinality(Ahead(s)) - 1
  BY <1>4, <1>5, FS_Subset
<1>7. Fits(p, since'[p], used' + Cardinality(Ahead(s)'), req'[s].clock)
  BY <1>1, <1>2, <1>3, <1>6, Numbers, AheadBounded, AheadBoundedNext DEF Fits
<1> QED
  BY <1>7

\* A request that is counted has room, and so has everyone who began before it;
\* it was ahead of the others already.
LEMMA CountKeepsRoom ==
  ASSUME IInv, IInv', RoomLeft, NEW t \in Session, Count(t), Allowed(req[t].limit)
  PROVE  RoomLeft'
<1> SUFFICES ASSUME ~lenient, NEW s \in Session, pc'[s] = "insert"
             PROVE  \E p \in Plan :
                       Fits(p, since'[p], used' + Cardinality(Ahead(s)'), req'[s].clock)
  BY DEF RoomLeft, Count
<1>1. /\ pc[t] = "count" /\ pc'[t] = "insert" /\ req'[t] = req[t]
      /\ \A u \in Session \ {t} : pc'[u] = pc[u] /\ req'[u] = req[u]
      /\ used' = used /\ since' = since
  BY DEF Count, Go, IInv, LimitsTypeOK
<1>2. \A u \in Session : req'[u] = req[u] /\ req[u].clock \in Nat
  BY <1>1, Numbers
<1>3. CASE req[t].clock <= req[s].clock
  <2>1. PICK p \in Plan : p = req[t].limit
    BY <1>1 DEF IInv, LimitsTypeOK
  <2>2. used < MaxOf[p]
    BY <2>1 DEF Allowed
  <2>3. since[p] <= TTL - 1 + Patience + req[t].clock
    BY <1>1, <2>1, LimitsAssumption DEF IInv, LimitsAreRecent
  <2>4. Fits(p, since'[p], used' + Cardinality(Ahead(s)'), req'[s].clock)
    BY <1>1, <1>2, <1>3, <2>2, <2>3, Numbers, AheadBounded, AheadBoundedNext DEF Fits
  <2> QED
    BY <2>4
<1>4. CASE req[t].clock > req[s].clock
  <2>1. s # t /\ pc[s] = "insert"
    BY <1>1, <1>2, <1>4
  <2>2. Ahead(s)' \subseteq Ahead(s)
    BY <1>1, <1>2, <1>4 DEF Ahead
  <2>3. used' <= used /\ \A p \in Plan : since'[p] <= since[p]
    BY <1>1, Numbers
  <2> QED
    BY <1>2, <2>1, <2>2, <2>3, RoomStays
<1> QED
  BY <1>2, <1>3, <1>4

\* While the requests stand still, fewer rows and plans more recently in force
\* leave no less room.
LEMMA StandstillKeepsRoom ==
  ASSUME IInv, IInv', RoomLeft, UNCHANGED <<pc, req, lenient>>,
         used' <= used, \A p \in Plan : since'[p] <= since[p]
  PROVE  RoomLeft'
<1> SUFFICES ASSUME ~lenient, NEW s \in Session, pc[s] = "insert"
             PROVE  \E p \in Plan :
                       Fits(p, since'[p], used' + Cardinality(Ahead(s)'), req'[s].clock)
  BY DEF RoomLeft
<1>1. Ahead(s)' \subseteq Ahead(s)
  BY DEF Ahead
<1> QED
  BY <1>1, RoomStays

\* All requests that run grow older at once, and the plans with them.
LEMMA TickKeepsRoom == ASSUME IInv, IInv', RoomLeft, Tick PROVE RoomLeft'
<1> SUFFICES ASSUME ~lenient, NEW s \in Session, pc[s] = "insert"
             PROVE  \E p \in Plan :
                       Fits(p, since'[p], used' + Cardinality(Ahead(s)'), req'[s].clock)
  BY DEF RoomLeft, Tick
<1>1. pc' = pc /\ used' = used
  BY DEF Tick
<1>2. ASSUME NEW u \in Session, pc[u] # "idle"
      PROVE  req'[u].clock = req[u].clock + 1
  <2>1. req[u] \in Held
    BY DEF IInv, LimitsTypeOK, Held
  <2>2. req'[u] = [req[u] EXCEPT !.clock = req[u].clock + 1]
    BY <1>2 DEF Tick
  <2> QED
    BY <2>1, <2>2 DEF Held
<1>3. ASSUME NEW p \in Plan
      PROVE  since'[p] <= since[p] + 1 /\ since'[p] \in Nat
  <2>1. /\ Horizon + 1 \in Nat /\ since[p] \in Nat
        /\ since[p] <= Horizon + 1
    BY HorizonNat DEF IInv, LimitsTypeOK
  <2>2. since'[p] = IF p = InForce(sub) THEN 0 ELSE Older(since[p], Horizon + 1)
    BY DEF Tick
  <2>3. Older(since[p], Horizon + 1) \in 0 .. Horizon + 1 /\ Older(since[p], Horizon + 1) <= since[p] + 1
    BY <2>1, OlderBounds
  <2> QED
    BY <2>1, <2>2, <2>3
<1>4. Ahead(s)' \subseteq Ahead(s)
  <2> SUFFICES ASSUME NEW u \in Session, pc[u] \in {"store", "count"},
                      req'[u].clock > req'[s].clock
               PROVE  req[u].clock > req[s].clock
    BY <1>1 DEF Ahead
  <2> QED
    BY <1>2, Numbers
<1>5. PICK p \in Plan : Fits(p, since[p], used + Cardinality(Ahead(s)), req[s].clock)
  BY DEF RoomLeft
<1>6. Cardinality(Ahead(s)') <= Cardinality(Ahead(s))
  BY <1>4, AheadBounded, FS_Subset
<1>7. req'[s].clock = req[s].clock + 1
  BY <1>2
<1>8. Fits(p, since'[p], used' + Cardinality(Ahead(s)'), req'[s].clock)
  BY <1>1, <1>3, <1>5, <1>6, <1>7, Numbers, AheadBounded, AheadBoundedNext DEF Fits
<1> QED
  BY <1>8

\* Every step leaves the room there was.
LEMMA NextRoom == IInv /\ IInv' /\ RoomLeft /\ [Next]_vars => RoomLeft'
<1> SUFFICES ASSUME IInv, IInv', RoomLeft, [Next]_vars PROVE RoomLeft'
  OBVIOUS
<1>1. CASE UNCHANGED vars \/ Invalidate
  BY <1>1, Numbers, StandstillKeepsRoom DEF vars, Invalidate
<1>2. ASSUME NEW t \in Session, Store(t) \/ Hit(t) \/ ReadPlan(t) \/ Leave(t)
                                \/ (Count(t) /\ ~Allowed(req[t].limit))
      PROVE  RoomLeft'
  <2>1. PICK r \in Held, phase \in {"idle", "store", "count"} :
           /\ Go(t, phase, r)
           /\ phase # "idle" => r.clock = 0 \/ (pc[t] = "store" /\ r = req[t])
    <3>1. NoRequest \in Held /\ req[t] \in Held
      BY LimitsAssumption DEF NoRequest, Held, IInv, LimitsTypeOK
    <3>2. CASE Leave(t) \/ (Count(t) /\ ~Allowed(req[t].limit))
      BY <3>1, <3>2 DEF Leave, Count
    <3>3. CASE Store(t)
      BY <3>1, <3>3 DEF Store
    <3>4. CASE Hit(t)
      <4> DEFINE h == [limit |-> cache.limit, clock |-> 0]
      <4>1. h \in Held /\ h.clock = 0
        BY <3>4, LimitsAssumption DEF Hit, Usable, IInv, LimitsTypeOK, Entry, Held
      <4>2. Go(t, "count", h)
        BY <3>4 DEF Hit
      <4> HIDE DEF h
      <4> QED
        BY <4>1, <4>2
    <3>5. CASE ReadPlan(t)
      <4> DEFINE h == [limit |-> InForce(sub), clock |-> 0]
      <4>1. h \in Held /\ h.clock = 0
        BY <3>5, LimitsAssumption, InForceIsPlan DEF IInv, LimitsTypeOK, Held
      <4>2. Go(t, "store", h)
        BY <3>5 DEF ReadPlan
      <4> HIDE DEF h
      <4> QED
        BY <4>1, <4>2
    <3> QED
      BY <1>2, <3>2, <3>3, <3>4, <3>5
  <2>2. UNCHANGED <<used, since, lenient>>
    BY <1>2 DEF Store, Hit, ReadPlan, Leave, Count
  <2> QED
    BY <2>1, <2>2, NobodyGetsAhead
<1>3. ASSUME NEW t \in Session, Insert(t) \/ (Count(t) /\ Allowed(req[t].limit))
      PROVE  RoomLeft'
  BY <1>3, InsertKeepsRoom, CountKeepsRoom
<1>4. ASSUME NEW t \in Session, ReadFails(t) \/ CountFails(t)
      PROVE  RoomLeft'
  BY <1>4 DEF ReadFails, CountFails, RoomLeft
<1>5. CASE Reactivate
  BY <1>5 DEF Reactivate, RoomLeft
<1>6. CASE Deactivate
  <2>1. used' <= used /\ UNCHANGED <<pc, req, since, lenient>>
    BY <1>6, Numbers DEF Deactivate
  <2> QED
    BY <2>1, Numbers, StandstillKeepsRoom
<1>7. CASE Restart
  BY <1>7 DEF Restart, RoomLeft
<1>8. CASE Tick
  BY <1>8, TickKeepsRoom
<1>9. CASE \/ SettlePayment \/ RefundPayment \/ PeriodEnds
           \/ \E b \in BOOLEAN : ExtendTrial(b) \/ AssignStatus(b)
           \/ \E p \in Plan : AssignPlan(p)
  <2>1. sub \in Subscription
    BY DEF IInv, LimitsTypeOK
  <2>2. PICK new \in Subscription : BecomesInForce(new) /\ UNCHANGED <<used, pc, req, lenient>>
    <3>1. CASE SettlePayment \/ RefundPayment \/ PeriodEnds
      BY <2>1, <3>1, ChangesAreSubscriptions DEF SettlePayment, RefundPayment, PeriodEnds
    <3>2. ASSUME NEW b \in BOOLEAN, ExtendTrial(b) \/ AssignStatus(b)
          PROVE  \E new \in Subscription :
                    BecomesInForce(new) /\ UNCHANGED <<used, pc, req, lenient>>
      BY <2>1, <3>2, ChangesAreSubscriptions DEF ExtendTrial, AssignStatus
    <3>3. ASSUME NEW p \in Plan, AssignPlan(p)
          PROVE  \E new \in Subscription :
                    BecomesInForce(new) /\ UNCHANGED <<used, pc, req, lenient>>
      BY <2>1, <3>3, ChangesAreSubscriptions DEF AssignPlan
    <3> QED
      BY <1>9, <3>1, <3>2, <3>3
  <2>3. used' <= used /\ \A p \in Plan : since'[p] <= since[p]
    BY <2>2, Numbers, SinceAfterChange
  <2> QED
    BY <2>2, <2>3, StandstillKeepsRoom
<1> QED
  BY <1>1, <1>2, <1>3, <1>4, <1>5, <1>6, <1>7, <1>8, <1>9 DEF Next, Proceed

\* Every reachable state leaves room for the requests that may insert.
LEMMA RoomHolds == Spec => []RoomLeft
<1>1. Init => RoomLeft
  BY DEF Init, RoomLeft
<1> QED
  BY <1>1, NextRoom, IInvHolds, PTL DEF Spec

\* Only an insert creates while the checks are not lenient.
LEMMA CreatedByInsert ==
  ASSUME IInv, [Next]_vars, used' > used, ~lenient'
  PROVE  \E s \in Session : Insert(s)
<1>1. used \in Nat
  BY Numbers
<1>2. used' # used
  BY <1>1
<1>3. ~Deactivate
  BY <1>1 DEF Deactivate
<1>4. ~Reactivate
  BY DEF Reactivate
<1> QED
  BY <1>2, <1>3, <1>4 DEF Next, Proceed, vars, Store, Count, Leave, Hit, ReadPlan, ReadFails,
     CountFails, Invalidate, PeriodEnds, Restart, Tick, SettlePayment, RefundPayment,
     ExtendTrial, AssignStatus, AssignPlan

\* However many requests check at once, and however the subscription changes
\* under them: a row is only ever created within a limit that was in force
\* lately, but for the requests that counted at the same time.
THEOREM CreationsWithinLimit == Spec => CreatedWithinLimit
<1> DEFINE Within == used' > used /\ ~lenient' =>
                        \E p \in Lately : used' <= MaxOf[p] + Cardinality(Session) - 1
<1>1. IInv /\ RoomLeft /\ [Next]_vars => [Within]_vars
  <2> SUFFICES ASSUME IInv, RoomLeft, [Next]_vars, used' > used, ~lenient'
               PROVE  \E p \in Lately : used' <= MaxOf[p] + Cardinality(Session) - 1
    OBVIOUS
  <2>1. PICK s \in Session : Insert(s)
    BY CreatedByInsert
  <2>2. pc[s] = "insert" /\ used' = used + 1 /\ lenient' = lenient
    BY <2>1 DEF Insert
  <2>3. PICK p \in Plan : Fits(p, since[p], used + Cardinality(Ahead(s)), req[s].clock)
    BY <2>2 DEF RoomLeft
  <2>4. s \in Ahead(s) /\ Cardinality(Ahead(s)) >= 1
    <3>1. s \in Ahead(s)
      BY <2>2 DEF Ahead
    <3> QED
      BY <3>1, AheadBounded, FS_EmptySet
  <2>5. used' <= MaxOf[p] + Cardinality(Session) - 1
    BY <2>2, <2>3, <2>4, Numbers, AheadBounded DEF Fits
  <2>6. p \in Lately
    BY <2>3, Numbers DEF Fits, Lately, Horizon
  <2> QED
    BY <2>5, <2>6
<1> QED
  BY <1>1, IInvHolds, RoomHolds, PTL DEF Spec, CreatedWithinLimit
=============================================================================
