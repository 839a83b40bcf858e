---------------------------- MODULE WhatsAppProofs ----------------------------
(***************************************************************************)
(* Proofs about WhatsApp, for any number of proxied calls and sockets, any *)
(* threshold and cooldown, and any number of faults.                       *)
(***************************************************************************)
EXTENDS WhatsApp, FiniteSetTheorems, TLAPS

\* A live socket has its entry's first attempt before it.
LiveUnattempted == \A s \in Live : attempts[s] = 0

\* The inductive invariant.
IInv ==
    /\ WhatsAppTypeOK /\ ClosedBelowThreshold
    /\ ConnectedIsOpen /\ LiveUnattempted

\* Every critical section of the breaker keeps its type and its threshold.
LEMMA BreakerSteps ==
  ASSUME BreakerTypeOK, ClosedBelowThreshold,
         Allow \/ RecordSuccess \/ RecordFailure \/ Passes \/ UNCHANGED breakerVars
  PROVE  BreakerTypeOK' /\ ClosedBelowThreshold'
<1> USE BreakerAssumption DEF BreakerTypeOK, ClosedBelowThreshold
<1>1. CASE Allow
  BY <1>1 DEF Allow, Admits
<1>2. CASE RecordSuccess
  BY <1>2 DEF RecordSuccess
<1>3. CASE RecordFailure
  <2>1. CASE state = "halfOpen" \/ failures + 1 >= Threshold
    BY <1>3, <2>1 DEF RecordFailure
  <2>2. CASE ~(state = "halfOpen" \/ failures + 1 >= Threshold)
    BY <1>3, <2>2 DEF RecordFailure
  <2> QED
    BY <2>1, <2>2
<1>4. CASE Passes
  BY <1>4 DEF Passes
<1>5. CASE UNCHANGED breakerVars
  BY <1>5 DEF breakerVars
<1> QED
  BY <1>1, <1>2, <1>3, <1>4, <1>5

\* A step that leaves the gateway's memory and disk alone.
LEMMA ProxySteps ==
  ASSUME IInv, UNCHANGED <<alive, gateway>>, faults' \in 0 .. MaxFaults,
         pc' \in [Call -> Path \cup {"idle", "lost", "connecting", "gone",
                                     "leaving", "goneLeaving"}],
         Allow \/ RecordSuccess \/ RecordFailure \/ Passes \/ UNCHANGED breakerVars
  PROVE  IInv'
<1>1. BreakerTypeOK' /\ ClosedBelowThreshold'
  BY BreakerSteps DEF IInv, WhatsAppTypeOK
<1>2. WhatsAppTypeOK'
  BY <1>1 DEF IInv, WhatsAppTypeOK, gateway
<1>3. ConnectedIsOpen' /\ LiveUnattempted'
  BY DEF IInv, ConnectedIsOpen, LiveUnattempted, Live, gateway
<1> QED
  BY <1>1, <1>2, <1>3 DEF IInv

\* The phases and the count of faults stay in range.
LEMMA Counted ==
  ASSUME WhatsAppTypeOK
  PROVE  /\ Fault => faults' \in 0 .. MaxFaults
         /\ \A c \in Call, p \in Path \cup {"idle", "lost", "connecting", "gone",
                                            "leaving", "goneLeaving"} :
               SetPc(c, p) =>
                 pc' \in [Call -> Path \cup {"idle", "lost", "connecting", "gone",
                                             "leaving", "goneLeaving"}]
         /\ \A c \in Call : Answered(c) =>
              /\ pc' \in [Call -> Path \cup {"idle", "lost", "connecting", "gone",
                                             "leaving", "goneLeaving"}]
              /\ RecordSuccess \/ UNCHANGED breakerVars
  BY WhatsAppAssumption DEF WhatsAppTypeOK, Fault, SetPc, Answered

\* The proxy, its breaker, and the handlers that touch no socket.
LEMMA CallSteps ==
  ASSUME IInv, NEW c,
         \/ /\ c \in Call
            /\ \/ \E path \in Path : Request(c, path)
               \/ Unreachable(c) \/ Cancel(c) \/ HandleSend(c) \/ HandleDisconnect(c)
         \/ CooldownPasses
  PROVE  IInv'
<1>0. WhatsAppTypeOK /\ faults \in 0 .. MaxFaults
  BY DEF IInv, WhatsAppTypeOK
<1>1. CASE c \in Call /\ (\E path \in Path : Request(c, path))
  BY <1>0, <1>1, Counted, ProxySteps DEF Request
<1>2. CASE c \in Call /\ Unreachable(c)
  BY <1>0, <1>2, Counted, ProxySteps DEF Unreachable
<1>3. CASE c \in Call /\ Cancel(c)
  BY <1>0, <1>3, Counted, ProxySteps DEF Cancel
<1>4. CASE c \in Call /\ HandleSend(c)
  BY <1>0, <1>4, Counted, ProxySteps DEF HandleSend
<1>5. CASE c \in Call /\ HandleDisconnect(c)
  BY <1>0, <1>5, Counted, ProxySteps DEF HandleDisconnect
<1>6. CASE CooldownPasses
  BY <1>0, <1>6, ProxySteps DEF CooldownPasses, WhatsAppTypeOK
<1> QED
  BY <1>1, <1>2, <1>3, <1>4, <1>5, <1>6

\* Steps that change the map, the timers or the disk, but no socket's entry.
LEMMA MapSteps ==
  ASSUME IInv, NEW x,
         \/ x \in Call /\ (HandleConnect(x) \/ Leave(x))
         \/ x \in Sock /\ (TimerFires(x) \/ QRCode(x) \/ SaveCreds(x))
         \/ Start
  PROVE  IInv'
<1>1. /\ pc' \in [Call -> Path \cup {"idle", "lost", "connecting", "gone",
                                     "leaving", "goneLeaving"}]
      /\ RecordSuccess \/ UNCHANGED breakerVars
      /\ UNCHANGED <<net, status, attempts, faults>>
  BY Counted DEF IInv, WhatsAppTypeOK, HandleConnect, Leave, TimerFires, QRCode,
     SaveCreds, Start
<1>2. BreakerTypeOK' /\ ClosedBelowThreshold'
  BY <1>1, BreakerSteps DEF IInv, WhatsAppTypeOK
<1>3. /\ alive' \in BOOLEAN /\ auth' \in {"none", "empty", "saved"}
      /\ drawing' \subseteq Sock /\ timers' \subseteq Sock
      /\ session' \in Sock \cup {None}
      /\ connecting' \subseteq Call \cup Sock \cup {Boot}
  BY DEF IInv, WhatsAppTypeOK, HandleConnect, Leave, TimerFires, QRCode,
     SaveCreds, Start, Connect
<1>4. WhatsAppTypeOK'
  BY <1>1, <1>2, <1>3 DEF IInv, WhatsAppTypeOK
<1>5. ConnectedIsOpen' /\ LiveUnattempted'
  BY <1>1 DEF IInv, ConnectedIsOpen, LiveUnattempted, Live
<1> QED
  BY <1>2, <1>4, <1>5 DEF IInv

\* A new socket starts with a fresh entry.
LEMMA MakeSteps ==
  ASSUME IInv, NEW origin \in Call \cup Sock \cup {Boot}, NEW s \in Sock,
         MakeSocket(origin, s)
  PROVE  IInv'
<1>1. /\ pc' \in [Call -> Path \cup {"idle", "lost", "connecting", "gone",
                                     "leaving", "goneLeaving"}]
      /\ RecordSuccess \/ UNCHANGED breakerVars
  BY Counted DEF IInv, WhatsAppTypeOK, MakeSocket
<1>2. BreakerTypeOK' /\ ClosedBelowThreshold'
  BY <1>1, BreakerSteps DEF IInv, WhatsAppTypeOK
<1>3. WhatsAppTypeOK'
  BY <1>1, <1>2 DEF IInv, WhatsAppTypeOK, MakeSocket, ResetAttempts
<1>4. ConnectedIsOpen' /\ LiveUnattempted'
  BY DEF IInv, WhatsAppTypeOK, MakeSocket, ResetAttempts, ConnectedIsOpen,
     LiveUnattempted, Live
<1> QED
  BY <1>2, <1>3, <1>4 DEF IInv

\* The events of a socket, and the crash that ends them all.
LEMMA SocketSteps ==
  ASSUME IInv, NEW s, NEW loggedOut \in BOOLEAN,
         \/ s \in Sock /\ (QRReady(s) \/ Open(s) \/ CloseTransient(s))
         \/ s \in Sock /\ CloseFinal(s, loggedOut)
         \/ Crash
  PROVE  IInv'
<1>1. BreakerTypeOK' /\ ClosedBelowThreshold'
  BY BreakerSteps
     DEF IInv, WhatsAppTypeOK, QRReady, Open, CloseTransient, CloseFinal, Crash
<1>0. Fault => faults' \in 0 .. MaxFaults
  BY Counted DEF IInv
<1> USE DEF IInv, WhatsAppTypeOK, ConnectedIsOpen, LiveUnattempted, Live
<1>2. CASE s \in Sock /\ QRReady(s)
  BY <1>1, <1>2 DEF QRReady
<1>3. CASE s \in Sock /\ Open(s)
  BY <1>1, <1>3 DEF Open
<1>4. CASE s \in Sock /\ CloseTransient(s)
  <2>1. attempts' = [attempts EXCEPT ![s] = 1]
    <3>1. attempts[s] = 0
      BY <1>4 DEF CloseTransient
    <3>2. attempts' = [attempts EXCEPT ![s] = attempts[s] + 1]
      BY <1>4 DEF CloseTransient
    <3>3. attempts[s] + 1 = 1
      BY <3>1
    <3> HIDE DEF IInv, WhatsAppTypeOK, ConnectedIsOpen, LiveUnattempted, Live
    <3> QED
      BY <3>2, <3>3
  <2>2. attempts' \in [Sock -> 0 .. 1]
    <3>1. attempts \in [Sock -> 0 .. 1] /\ 1 \in 0 .. 1
      OBVIOUS
    <3> HIDE DEF IInv, WhatsAppTypeOK, ConnectedIsOpen, LiveUnattempted, Live
    <3> QED
      BY <2>1, <3>1
  <2>3. /\ s \in Sock /\ net' = [net EXCEPT ![s] = "closed"]
        /\ status' = [status EXCEPT ![s] = "reconnecting"]
        /\ session' \in Sock \cup {None} /\ timers' \subseteq Sock
        /\ faults' \in 0 .. MaxFaults
        /\ UNCHANGED <<breakerVars, pc, alive, auth, drawing, connecting>>
    <3>1. /\ s \in Sock /\ net' = [net EXCEPT ![s] = "closed"]
          /\ status' = [status EXCEPT ![s] = "reconnecting"]
          /\ faults' \in 0 .. MaxFaults
          /\ UNCHANGED <<breakerVars, pc, alive, auth, drawing, connecting>>
      <4>1. Fault
        BY <1>4 DEF CloseTransient
      <4> QED
        BY <1>0, <1>4, <4>1 DEF CloseTransient, SetsStatus
    <3>2. \/ session' = None /\ timers' = timers
          \/ session' = session /\ timers' = timers \cup {s}
      BY <1>4, Zenon DEF CloseTransient
    <3> QED
      BY <3>1, <3>2
  <2>4. WhatsAppTypeOK'
    <3>1. net' \in [Sock -> {"opening", "open", "closed"}]
          /\ status' \in [Sock -> {"connecting", "qr_ready", "connected",
                                   "reconnecting", "disconnected"}]
      BY <2>3
    <3> QED
      BY <1>1, <2>2, <2>3, <3>1
  <2>5. ConnectedIsOpen'
    BY <2>3
  <2>6. LiveUnattempted'
    <3>1. \A x \in Sock : net'[x] \in {"opening", "open"} => attempts'[x] = 0
      BY <2>1, <2>3
    <3> QED
      BY <3>1
  <2> QED
    BY <1>1, <2>4, <2>5, <2>6
<1>5. CASE s \in Sock /\ CloseFinal(s, loggedOut)
  <2>1. /\ s \in Sock /\ net' = [net EXCEPT ![s] = "closed"]
        /\ status' = [status EXCEPT ![s] = "disconnected"]
        /\ session' = None /\ auth' \in {"none", "empty", "saved"}
        /\ faults' \in 0 .. MaxFaults
        /\ UNCHANGED <<breakerVars, pc, alive, attempts, drawing, connecting, timers>>
    BY <1>0, <1>5 DEF CloseFinal, SetsStatus
  <2> QED
    BY <1>1, <2>1
<1>6. CASE Crash
  <2>1. pc' \in [Call -> Path \cup {"idle", "lost", "connecting", "gone",
                                    "leaving", "goneLeaving"}]
    BY <1>6 DEF Crash
  <2>2. WhatsAppTypeOK'
    <3>1. /\ alive' \in BOOLEAN /\ net' = [x \in Sock |-> "closed"]
          /\ status' = [x \in Sock |-> "disconnected"]
          /\ attempts' = [x \in Sock |-> 0]
          /\ drawing' = {} /\ session' = None /\ connecting' = {} /\ timers' = {}
          /\ auth' = auth /\ faults' \in 0 .. MaxFaults
      <4>1. Fault
        BY <1>6 DEF Crash
      <4> QED
        BY <1>0, <1>6, <4>1 DEF Crash
    <3> QED
      BY <1>1, <2>1, <3>1
  <2>3. ConnectedIsOpen' /\ LiveUnattempted'
    BY <1>6 DEF Crash
  <2> QED
    BY <1>1, <2>2, <2>3
<1> QED
  BY <1>2, <1>3, <1>4, <1>5, <1>6

\* The invariant holds initially.
LEMMA IInvInit == Init => IInv
  BY WhatsAppAssumption, BreakerAssumption
     DEF Init, BreakerInit, IInv, WhatsAppTypeOK, BreakerTypeOK, ClosedBelowThreshold,
         ConnectedIsOpen, LiveUnattempted, Live

\* Every step keeps the invariant.
LEMMA IInvStep == IInv /\ [Next]_vars => IInv'
<1> SUFFICES ASSUME IInv, [Next]_vars PROVE IInv'
  OBVIOUS
<1>1. CASE UNCHANGED vars
  <2>1. pc' \in [Call -> Path \cup {"idle", "lost", "connecting", "gone",
                                    "leaving", "goneLeaving"}]
        /\ faults' \in 0 .. MaxFaults
    BY <1>1 DEF vars, IInv, WhatsAppTypeOK
  <2> QED
    BY <1>1, <2>1, ProxySteps DEF vars
<1>2. ASSUME NEW c \in Call,
             \/ \E path \in Path : Request(c, path)
             \/ Unreachable(c) \/ Cancel(c) \/ Handler(c)
      PROVE  IInv'
  BY <1>2, CallSteps, MapSteps DEF Handler
<1>3. CASE CooldownPasses \/ Crash \/ Start
  BY <1>3, CallSteps, MapSteps, SocketSteps
<1>4. ASSUME NEW origin \in Call \cup Sock \cup {Boot}, Made(origin) PROVE IInv'
  BY <1>4, MakeSteps DEF Made
<1>5. ASSUME NEW s \in Sock,
             \/ TimerFires(s) \/ QRCode(s) \/ QRReady(s) \/ SaveCreds(s) \/ Open(s)
             \/ CloseTransient(s) \/ CloseFinal(s, TRUE) \/ CloseFinal(s, FALSE)
      PROVE  IInv'
  BY <1>5, MapSteps, SocketSteps
<1> QED
  BY <1>1, <1>2, <1>3, <1>4, <1>5 DEF Next

\* The inductive invariant holds of every behaviour.
LEMMA IInvHolds == Spec => []IInv
  BY IInvInit, IInvStep, PTL DEF Spec

\* The proxy and the gateway keep their types, and no entry sees more than one
\* attempt.
THEOREM WhatsAppTypeCorrect == Spec => []WhatsAppTypeOK
<1>1. IInv => WhatsAppTypeOK
  BY DEF IInv
<1> QED
  BY <1>1, IInvHolds, PTL

\* The breaker is closed exactly while the failures are below the threshold,
\* for every threshold and any number of overlapping calls.
THEOREM BreakerCounts == Spec => []ClosedBelowThreshold
<1>1. IInv => ClosedBelowThreshold
  BY DEF IInv
<1> QED
  BY <1>1, IInvHolds, PTL

\* A message is only ever handed to an open socket.
THEOREM ConnectedSocketsOpen == Spec => []ConnectedIsOpen
<1>1. IInv => ConnectedIsOpen
  BY DEF IInv
<1> QED
  BY <1>1, IInvHolds, PTL

-----------------------------------------------------------------------------
(* Connections do not multiply. *)

\* A set that gains at most one element counts at most one more.
LEMMA AtMostOneMore ==
  ASSUME NEW S, IsFiniteSet(S), NEW x, NEW T, T \subseteq S \cup {x}
  PROVE  /\ Cardinality(S) \in Nat /\ Cardinality(T) \in Nat
         /\ Cardinality(T) <= Cardinality(S) + 1
         /\ T \subseteq S => Cardinality(T) <= Cardinality(S)
<1>1. /\ IsFiniteSet(S \cup {x})
      /\ Cardinality(S \cup {x}) \in {Cardinality(S), Cardinality(S) + 1}
  BY FS_AddElement
<1>2. IsFiniteSet(T) /\ Cardinality(T) <= Cardinality(S \cup {x})
  BY <1>1, FS_Subset
<1>3. Cardinality(S) \in Nat /\ Cardinality(T) \in Nat
  BY <1>2, FS_CardinalityType
<1>4. T \subseteq S => Cardinality(T) <= Cardinality(S)
  BY FS_Subset
<1> QED
  BY <1>1, <1>2, <1>3, <1>4

\* What the population counts is finite.
LEMMA PopulationFinite ==
  ASSUME IInv
  PROVE  IsFiniteSet(Live) /\ IsFiniteSet(timers) /\ IsFiniteSet(connecting)
<1>1. IsFiniteSet(Call \cup Sock \cup {Boot})
  BY WhatsAppAssumption, FS_Union, FS_AddElement
<1>2. /\ Live \subseteq Call \cup Sock \cup {Boot}
      /\ timers \subseteq Call \cup Sock \cup {Boot}
      /\ connecting \subseteq Call \cup Sock \cup {Boot}
  BY DEF Live, IInv, WhatsAppTypeOK
<1> QED
  BY <1>1, <1>2, FS_Subset

\* A step that adds to none of the three does not add to the population.
LEMMA NothingMade ==
  ASSUME IInv, Live' \subseteq Live, timers' \subseteq timers,
         connecting' \subseteq connecting
  PROVE  ~(Population' > Population)
<1>1. /\ Cardinality(Live') <= Cardinality(Live)
      /\ Cardinality(timers') <= Cardinality(timers)
      /\ Cardinality(connecting') <= Cardinality(connecting)
      /\ Cardinality(Live) \in Nat /\ Cardinality(Live') \in Nat
      /\ Cardinality(timers) \in Nat /\ Cardinality(timers') \in Nat
      /\ Cardinality(connecting) \in Nat /\ Cardinality(connecting') \in Nat
  BY PopulationFinite, AtMostOneMore
<1> QED
  BY <1>1 DEF Population

\* A socket is made of a connect that was under way.
LEMMA MadeOfConnect ==
  ASSUME IInv, NEW origin \in connecting, NEW s \in Sock, MakeSocket(origin, s)
  PROVE  ~(Population' > Population)
<1>1. /\ connecting' = connecting \ {origin} /\ timers' = timers
      /\ Live' \subseteq Live \cup {s}
  BY DEF MakeSocket, Live, IInv, WhatsAppTypeOK
<1>2. Cardinality(connecting') = Cardinality(connecting) - 1
  BY <1>1, PopulationFinite, FS_RemoveElement
<1>3. Cardinality(Live') <= Cardinality(Live) + 1
  BY <1>1, PopulationFinite, AtMostOneMore
<1>4. /\ Cardinality(Live) \in Nat /\ Cardinality(Live') \in Nat
      /\ Cardinality(timers) \in Nat /\ Cardinality(connecting) \in Nat
  BY <1>1, PopulationFinite, AtMostOneMore
<1> QED
  BY <1>1, <1>2, <1>3, <1>4 DEF Population

\* A reconnect is of a timer.
LEMMA FiredOfTimer ==
  ASSUME IInv, NEW s \in Sock, TimerFires(s)
  PROVE  ~(Population' > Population)
<1>1. /\ timers' = timers \ {s} /\ s \in timers /\ Live' = Live
      /\ connecting' \subseteq connecting \cup {s}
  BY DEF TimerFires, Connect, Live
<1>2. Cardinality(timers') = Cardinality(timers) - 1
  BY <1>1, PopulationFinite, FS_RemoveElement
<1>3. /\ Cardinality(connecting') <= Cardinality(connecting) + 1
      /\ Cardinality(connecting) \in Nat /\ Cardinality(connecting') \in Nat
      /\ Cardinality(Live) \in Nat /\ Cardinality(timers) \in Nat
  BY <1>1, PopulationFinite, AtMostOneMore, FS_CardinalityType
<1> QED
  BY <1>1, <1>2, <1>3 DEF Population

\* A timer is of a socket that closed.
LEMMA TimerOfSocket ==
  ASSUME IInv, NEW s \in Sock, CloseTransient(s)
  PROVE  ~(Population' > Population)
<1>1. /\ Live' = Live \ {s} /\ s \in Live /\ connecting' = connecting
      /\ timers' \subseteq timers \cup {s}
  BY DEF CloseTransient, Live, IInv, WhatsAppTypeOK
<1>2. Cardinality(Live') = Cardinality(Live) - 1
  BY <1>1, PopulationFinite, FS_RemoveElement
<1>3. /\ Cardinality(timers') <= Cardinality(timers) + 1
      /\ Cardinality(timers) \in Nat /\ Cardinality(timers') \in Nat
      /\ Cardinality(Live) \in Nat /\ Cardinality(connecting) \in Nat
  BY <1>1, PopulationFinite, AtMostOneMore, FS_CardinalityType
<1> QED
  BY <1>1, <1>2, <1>3 DEF Population

\* Every other step of a call leaves the gateway's sets as they are.
LEMMA CallsMakeNothing ==
  ASSUME IInv, NEW c \in Call,
         \/ \E path \in Path : Request(c, path)
         \/ Unreachable(c) \/ Cancel(c) \/ Handler(c)
  PROVE  Population' > Population => c \in connecting' \ connecting
<1>1. CASE HandleConnect(c)
  <2>1. Live' = Live /\ timers' = timers /\ connecting' \subseteq connecting \cup {c}
    BY <1>1 DEF HandleConnect, Connect, Live
  <2>2. CASE c \in connecting' \ connecting
    BY <2>2
  <2>3. CASE c \notin connecting' \ connecting
    BY <2>1, <2>3, NothingMade
  <2> QED
    BY <2>2, <2>3
<1>2. CASE ~HandleConnect(c)
  <2>1. UNCHANGED <<net, timers, connecting>>
    BY <1>2 DEF Request, Unreachable, Cancel, Handler, HandleSend, HandleDisconnect,
                Leave, gateway
  <2>2. Live' = Live
    BY <2>1 DEF Live
  <2> QED
    BY <2>1, <2>2, NothingMade
<1> QED
  BY <1>1, <1>2

\* A step adds to the population only for a request to connect, or a restart.
LEMMA StepReplaces ==
  ASSUME IInv, [Next]_vars, Population' > Population
  PROVE  (\E c \in Call : c \in connecting' \ connecting) \/ (~alive /\ alive')
<1>1. CASE UNCHANGED vars \/ CooldownPasses
  <2>1. Live' = Live /\ UNCHANGED <<timers, connecting>>
    BY <1>1 DEF vars, gateway, CooldownPasses, Live
  <2> QED
    BY <2>1, NothingMade
<1>2. ASSUME NEW c \in Call,
             \/ \E path \in Path : Request(c, path)
             \/ Unreachable(c) \/ Cancel(c) \/ Handler(c)
      PROVE  c \in connecting' \ connecting
  BY <1>2, CallsMakeNothing
<1>3. CASE Crash
  <2>1. Live' = {} /\ timers' = {} /\ connecting' = {}
    BY <1>3 DEF Crash, Live
  <2> QED
    BY <2>1, NothingMade
<1>4. CASE Start
  BY <1>4 DEF Start
<1>5. ASSUME NEW origin \in Call \cup Sock \cup {Boot}, Made(origin) PROVE FALSE
  BY <1>5, MadeOfConnect DEF Made, MakeSocket
<1>6. ASSUME NEW s \in Sock,
             \/ TimerFires(s) \/ QRCode(s) \/ QRReady(s) \/ SaveCreds(s) \/ Open(s)
             \/ CloseTransient(s) \/ CloseFinal(s, TRUE) \/ CloseFinal(s, FALSE)
      PROVE  FALSE
  <2>1. CASE QRCode(s) \/ QRReady(s) \/ SaveCreds(s)
    <3>1. Live' = Live /\ UNCHANGED <<timers, connecting>>
      BY <2>1 DEF QRCode, QRReady, SaveCreds, Live
    <3> QED
      BY <3>1, NothingMade
  <2>2. CASE Open(s) \/ CloseFinal(s, TRUE) \/ CloseFinal(s, FALSE)
    <3>1. Live' \subseteq Live /\ UNCHANGED <<timers, connecting>>
      BY <2>2 DEF Open, CloseFinal, Live, IInv, WhatsAppTypeOK
    <3> QED
      BY <3>1, NothingMade
  <2> QED
    BY <1>6, <2>1, <2>2, FiredOfTimer, TimerOfSocket
<1> QED
  BY <1>1, <1>2, <1>3, <1>4, <1>5, <1>6 DEF Next

\* Reconnects replace sockets, timers and connects under way, one for one: only
\* a request to connect, or a restart, adds any.
THEOREM ReconnectsOnlyReplace == Spec => ReconnectsReplace
<1>1. IInv /\ [Next]_vars =>
         [Population' > Population =>
             (\E c \in Call : c \in connecting' \ connecting) \/ (~alive /\ alive')]_vars
  BY StepReplaces
<1> QED
  BY <1>1, IInvHolds, PTL DEF Spec, ReconnectsReplace
=============================================================================
