------------------------------- MODULE WhatsApp -------------------------------
(***************************************************************************)
(* The WhatsApp proxy of the API (modules/whatsapp) with its breaker, and  *)
(* the gateway behind it (whatsapp-gateway), for one tenant: the gateway's *)
(* map and disk are keyed by tenant.  A proxied call is refused by the     *)
(* breaker or travels to the gateway, whose handlers give up the thread at *)
(* every await; sockets report events, and reconnect timers fire, between  *)
(* them.  The gateway may crash at any time and is started again.          *)
(***************************************************************************)
EXTENDS Breaker, FiniteSets

CONSTANTS
    Call,            \* proxied requests of the API at one time
    Sock,            \* sockets with their map entries, reused once forgotten
    MaxReconnects,   \* the 5 of the close handler
    MaxFaults,       \* bound: closes, crashes and cancelled requests
    MaxFailures,     \* bound: the failures after which a dead gateway is left alone
    Boot,            \* the origin of the connects of reconnectAll
    None             \* no map entry

ASSUME WhatsAppAssumption ==
    /\ MaxReconnects \in Nat \ {0} /\ MaxFaults \in Nat /\ MaxFailures \in Nat
    /\ Call \cap Sock = {} /\ Boot \notin Call \cup Sock /\ None \notin Sock
    /\ IsFiniteSet(Call) /\ IsFiniteSet(Sock)

VARIABLES
    pc,          \* the phase of each proxied call
    alive,       \* the gateway process runs
    auth,        \* auth-states/<tenant>: none, empty or saved
    net,         \* each socket: opening, open or closed
    status,      \* entry.status of each socket's entry
    attempts,    \* entry.reconnectAttempts
    drawing,     \* sockets whose QR code is being rendered
    session,     \* sessions.get(tenant), named by its socket
    connecting,  \* who runs connect between its check and sessions.set
    timers,      \* closed sockets with a reconnect timer pending
    faults

gateway == <<auth, net, status, attempts, drawing, session, connecting, timers>>

vars == <<breakerVars, pc, alive, gateway, faults>>

Path == {"connect", "disconnect", "send"}

Init ==
    /\ BreakerInit
    /\ pc = [c \in Call |-> "idle"]
    /\ alive = TRUE /\ auth = "none"
    /\ net = [s \in Sock |-> "closed"]
    /\ status = [s \in Sock |-> "disconnected"]
    /\ attempts = [s \in Sock |-> 0]
    /\ drawing = {} /\ session = None /\ connecting = {} /\ timers = {}
    /\ faults = 0

Fault == faults < MaxFaults /\ faults' = faults + 1

SetPc(c, phase) == pc' = [pc EXCEPT ![c] = phase]

Live == {s \in Sock : net[s] \in {"opening", "open"}}

\* A socket the process still knows of in any way may not be made again.
Known == Live \cup timers \cup drawing \cup connecting \cup {session}

\* Everything that is, or will become, a socket.
Population ==
    Cardinality(Live) + Cardinality(timers) + Cardinality(connecting)

\* Mutant: any entry counts as an existing connection.
AnyEntry == session # None

Connected == session # None /\ status[session] = "connected"

\* The gateway answers, and the proxy receives it in the same step: to the
\* breaker an answer of any HTTP status is a success, unless the caller left.
Answered(c) ==
    /\ SetPc(c, "idle")
    /\ IF pc[c] \in {"gone", "goneLeaving"} THEN UNCHANGED breakerVars ELSE RecordSuccess

-----------------------------------------------------------------------------
(* The proxy: gatewayDo around each call. *)

\* Bound: connects are asked for while there is a socket left for each of them
\* and one for a restart.
SocketLeft ==
    Population + Cardinality({c \in Call : pc[c] = "connect"}) < Cardinality(Sock) - 1

\* A path names what is asked for until the gateway takes the request.
Request(c, path) ==
    /\ pc[c] = "idle"
    /\ path = "connect" => SocketLeft
    /\ alive \/ failures < MaxFailures
    /\ Allow
    /\ SetPc(c, path)
    /\ UNCHANGED <<alive, gateway, faults>>

\* The connection is refused or reset.
Unreachable(c) ==
    /\ pc[c] = "lost" \/ (pc[c] \in Path /\ ~alive)
    /\ RecordFailure
    /\ SetPc(c, "idle")
    /\ UNCHANGED <<alive, gateway, faults>>

\* The caller goes away: Do returns the context's error, the gateway goes on.
Cancel(c) ==
    /\ Fault
    /\ pc[c] \in Path \cup {"connecting", "leaving"}
    /\ RecordFailure
    /\ SetPc(c, IF pc[c] \in Path THEN "idle"
                ELSE IF pc[c] = "connecting" THEN "gone" ELSE "goneLeaving")
    /\ UNCHANGED <<alive, gateway>>

CooldownPasses == Passes /\ UNCHANGED <<pc, alive, gateway, faults>>

-----------------------------------------------------------------------------
(* SessionManager *)

\* connect up to its first await; a connected session is only reported.
Connect(origin) ==
    connecting' = IF Connected THEN connecting ELSE connecting \cup {origin}

HandleConnect(c) ==
    /\ alive /\ pc[c] = "connect"
    /\ Connect(c)
    /\ IF Connected THEN Answered(c)
       ELSE SetPc(c, "connecting") /\ UNCHANGED breakerVars
    /\ UNCHANGED <<alive, auth, net, status, attempts, drawing,
                   session, timers, faults>>

\* sendMessage: over the socket of a connected entry, or 503.
HandleSend(c) ==
    /\ alive /\ pc[c] = "send"
    /\ Answered(c)
    /\ UNCHANGED <<alive, gateway, faults>>

\* disconnect up to its await of logout.
HandleDisconnect(c) ==
    /\ alive /\ pc[c] = "disconnect"
    /\ SetPc(c, "leaving")
    /\ UNCHANGED <<breakerVars, alive, gateway, faults>>

\* The rest of disconnect, whether logout succeeded or threw.
Leave(c) ==
    /\ pc[c] \in {"leaving", "goneLeaving"}
    /\ Answered(c)
    /\ session' = None
    /\ auth' = "none"
    /\ UNCHANGED <<alive, net, status, attempts, drawing,
                   connecting, timers, faults>>

\* Mutant: the attempts of the entry before are carried over.
KeepsAttempts(s) == UNCHANGED attempts

ResetAttempts(s) == attempts' = [attempts EXCEPT ![s] = 0]

\* A socket nobody knows of; a reconnect may reuse the one it replaces.
Fresh(origin) ==
    IF origin \in Sock \ drawing THEN {origin} ELSE Sock \ Known

\* The rest of connect: the new entry replaces whatever the map holds.
MakeSocket(origin, s) ==
    /\ origin \in connecting
    /\ Fresh(origin) # {}
    /\ s = CHOOSE k \in Fresh(origin) : TRUE
    /\ connecting' = connecting \ {origin}
    /\ auth' = IF auth = "none" THEN "empty" ELSE auth
    /\ net' = [net EXCEPT ![s] = "opening"]
    /\ status' = [status EXCEPT ![s] = "connecting"]
    /\ ResetAttempts(s)
    /\ session' = s
    /\ IF origin \in Call THEN Answered(origin) ELSE UNCHANGED <<breakerVars, pc>>
    /\ UNCHANGED <<alive, drawing, timers, faults>>

\* Mutant: a reconnect interval instead of a timeout.
IntervalFires(s) ==
    /\ s \in timers
    /\ Connect(s)
    /\ UNCHANGED <<breakerVars, pc, alive, auth, net, status, attempts, drawing,
                   session, timers, faults>>

TimerFires(s) ==
    /\ s \in timers
    /\ timers' = timers \ {s}
    /\ Connect(s)
    /\ UNCHANGED <<breakerVars, pc, alive, auth, net, status, attempts, drawing,
                   session, faults>>

-----------------------------------------------------------------------------
(* Events of a socket. *)

\* Bound: one code is rendered at a time.
QRCode(s) ==
    /\ net[s] = "opening" /\ drawing = {}
    /\ drawing' = drawing \cup {s}
    /\ UNCHANGED <<breakerVars, pc, alive, auth, net, status, attempts, session,
                   connecting, timers, faults>>

\* toDataURL resolves, whatever has become of the socket since.
QRReady(s) ==
    /\ s \in drawing
    /\ drawing' = drawing \ {s}
    /\ status' = [status EXCEPT ![s] = "qr_ready"]
    /\ UNCHANGED <<breakerVars, pc, alive, auth, net, attempts, session,
                   connecting, timers, faults>>

\* creds.update: written into the directory, if it is still there.
SaveCreds(s) ==
    /\ s \in Live /\ auth = "empty"
    /\ auth' = "saved"
    /\ UNCHANGED <<breakerVars, pc, alive, net, status, attempts, drawing,
                   session, connecting, timers, faults>>

Open(s) ==
    /\ net[s] = "opening"
    /\ net' = [net EXCEPT ![s] = "open"]
    /\ status' = [status EXCEPT ![s] = "connected"]
    /\ UNCHANGED <<breakerVars, pc, alive, auth, attempts, drawing, session,
                   connecting, timers, faults>>

\* Mutant: a transient close leaves entry.status to the reconnect.
KeepsStatus(s, new) == UNCHANGED status

SetsStatus(s, new) == status' = [status EXCEPT ![s] = new]

\* Transient: reconnect later, unless the attempts of this entry are used up.
CloseTransient(s) ==
    /\ Fault
    /\ s \in Live
    /\ net' = [net EXCEPT ![s] = "closed"]
    /\ SetsStatus(s, "reconnecting")
    /\ attempts' = [attempts EXCEPT ![s] = @ + 1]
    /\ IF attempts[s] + 1 > MaxReconnects
       THEN session' = None /\ UNCHANGED timers
       ELSE timers' = timers \cup {s} /\ UNCHANGED session
    /\ UNCHANGED <<breakerVars, pc, alive, auth, drawing, connecting>>

\* Any other close forgets the tenant's entry, this socket's or a newer one's.
CloseFinal(s, loggedOut) ==
    /\ Fault
    /\ s \in Live
    /\ net' = [net EXCEPT ![s] = "closed"]
    /\ SetsStatus(s, "disconnected")
    /\ session' = None
    /\ auth' = IF loggedOut THEN "none" ELSE auth
    /\ UNCHANGED <<breakerVars, pc, alive, attempts, drawing, connecting, timers>>

-----------------------------------------------------------------------------
(* The process. *)

Crash ==
    /\ alive /\ Fault
    /\ alive' = FALSE
    /\ net' = [s \in Sock |-> "closed"]
    /\ status' = [s \in Sock |-> "disconnected"]
    /\ attempts' = [s \in Sock |-> 0]
    /\ drawing' = {} /\ session' = None /\ connecting' = {} /\ timers' = {}
    /\ pc' = [c \in Call |->
                IF pc[c] \in {"gone", "goneLeaving", "idle"} THEN "idle" ELSE "lost"]
    /\ UNCHANGED <<breakerVars, auth>>

\* reconnectAll connects only a tenant whose directory has files.
Start ==
    /\ ~alive
    /\ alive' = TRUE
    /\ connecting' = IF auth = "saved" THEN {Boot} ELSE {}
    /\ UNCHANGED <<breakerVars, pc, auth, net, status, attempts, drawing,
                   session, timers, faults>>

-----------------------------------------------------------------------------
Handler(c) == HandleConnect(c) \/ HandleSend(c) \/ HandleDisconnect(c) \/ Leave(c)

Made(origin) == \E s \in Sock : MakeSocket(origin, s)

Next ==
    \/ \E c \in Call :
          \/ \E path \in Path : Request(c, path)
          \/ Unreachable(c) \/ Cancel(c) \/ Handler(c)
    \/ CooldownPasses \/ Crash \/ Start
    \/ \E origin \in Call \cup Sock \cup {Boot} : Made(origin)
    \/ \E s \in Sock :
          \/ TimerFires(s) \/ QRCode(s) \/ QRReady(s) \/ SaveCreds(s) \/ Open(s)
          \/ CloseTransient(s) \/ CloseFinal(s, TRUE) \/ CloseFinal(s, FALSE)

Spec == Init /\ [][Next]_vars

\* Timers fire, handlers run to their next await, the supervisor restarts the
\* gateway, time passes, and the dashboards keep polling.
FairSpec ==
    /\ Spec
    /\ WF_vars(CooldownPasses) /\ WF_vars(Start)
    /\ \A c \in Call : /\ WF_vars(Unreachable(c)) /\ WF_vars(Handler(c))
                       /\ WF_vars(\E path \in Path : Request(c, path))
    /\ \A o \in Call \cup Sock \cup {Boot} : WF_vars(Made(o))
    /\ \A s \in Sock : WF_vars(TimerFires(s)) /\ WF_vars(QRReady(s))

-----------------------------------------------------------------------------
(* Properties *)

\* The variables keep their types; in particular every entry is closed after
\* at most one attempt, so the limit of MaxReconnects never comes into play.
WhatsAppTypeOK ==
    /\ BreakerTypeOK
    /\ pc \in [Call -> Path \cup {"idle", "lost", "connecting", "gone",
                                  "leaving", "goneLeaving"}]
    /\ alive \in BOOLEAN /\ auth \in {"none", "empty", "saved"}
    /\ net \in [Sock -> {"opening", "open", "closed"}]
    /\ status \in [Sock -> {"connecting", "qr_ready", "connected", "reconnecting",
                            "disconnected"}]
    /\ attempts \in [Sock -> 0 .. 1]
    /\ drawing \subseteq Sock /\ timers \subseteq Sock
    /\ session \in Sock \cup {None}
    /\ connecting \subseteq Call \cup Sock \cup {Boot}
    /\ faults \in 0 .. MaxFaults

\* Whatever races a message, sendMessage never hands it to a socket that has
\* closed: an entry that says connected has an open socket.
ConnectedIsOpen == \A s \in Sock : status[s] = "connected" => net[s] = "open"

\* Reconnecting never multiplies connections: only a request to connect, or a
\* restart, adds to the sockets, timers and connects under way; every reconnect
\* replaces the socket it is for.
ReconnectsReplace ==
    [][Population' > Population =>
          (\E c \in Call : c \in connecting' \ connecting) \/ (~alive /\ alive')]_vars

\* A session that lost its connection for a passing reason does not stay
\* "reconnecting" for ever: it is tried again, forgotten, or the process ends.
Waiting == session # None /\ net[session] = "closed"

ReconnectingEnds == Waiting ~> ~Waiting

\* Once the faults are over the breaker closes and stays closed, whatever calls
\* of before the trip are still out and however the probes overlap.
BreakerRecovers == <>[](state = "closed")
=============================================================================
