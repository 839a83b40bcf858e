------------------------------- MODULE Breaker -------------------------------
(***************************************************************************)
(* resilience.CircuitBreaker: each operator is one critical section of its *)
(* mutex.  Do is Allow, then the call itself, then a Record, with the      *)
(* steps of other calls in between; the modules that guard calls with a    *)
(* breaker put them there.                                                 *)
(***************************************************************************)
EXTENDS Integers

CONSTANTS Threshold, Cooldown

ASSUME BreakerAssumption == Threshold \in Nat \ {0} /\ Cooldown \in Nat \ {0}

VARIABLES
    state,     \* closed, open or halfOpen
    failures,  \* failures recorded since the last success
    age        \* time since openedAt, up to Cooldown

breakerVars == <<state, failures, age>>

BreakerInit == state = "closed" /\ failures = 0 /\ age = 0

Admits == state # "open" \/ age >= Cooldown

Allow ==
    /\ Admits
    /\ state' = IF state = "open" THEN "halfOpen" ELSE state
    /\ UNCHANGED <<failures, age>>

\* Mutant: a success closes the breaker and keeps the count.
SuccessKeepsCount == state' = "closed" /\ UNCHANGED <<failures, age>>

\* Mutant: a success leaves a half-open breaker half-open.
SuccessKeepsState == failures' = 0 /\ UNCHANGED <<state, age>>

RecordSuccess == state' = "closed" /\ failures' = 0 /\ UNCHANGED age

RecordFailure ==
    /\ failures' = failures + 1
    /\ IF state = "halfOpen" \/ failures + 1 >= Threshold
       THEN state' = "open" /\ age' = 0
       ELSE UNCHANGED <<state, age>>

\* Time only counts while the breaker is open.
Passes ==
    /\ state = "open" /\ age < Cooldown
    /\ age' = age + 1
    /\ UNCHANGED <<state, failures>>

BreakerTypeOK ==
    /\ state \in {"closed", "open", "halfOpen"}
    /\ failures \in Nat
    /\ age \in 0 .. Cooldown

\* The breaker is closed exactly while fewer than Threshold calls have failed
\* since the last success, whichever calls overlap: no half-open probe and no
\* late answer leaves it closed on a count that should trip it, or open on one
\* that should not.
ClosedBelowThreshold == state = "closed" <=> failures < Threshold
=============================================================================
