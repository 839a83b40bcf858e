---------------------------- MODULE OfflineOutbox ----------------------------
(***************************************************************************)
(* Orders taken while the browser is offline: they wait in an outbox in    *)
(* IndexedDB, which all tabs of the browser share, and each tab drains it  *)
(* against the API of OrderIntake - customers first, then orders, in       *)
(* parallel chunks, every POST retried a few times.  A request or its      *)
(* answer may get lost, and a lost answer leaves the handler running.      *)
(***************************************************************************)
EXTENDS OrderIntake

CONSTANTS
    Tab,           \* browser tabs of one device
    OrderKey,      \* keys of orders saved offline
    CustomerKey,   \* keys of walk-in customers saved offline
    WalkInPhone,   \* what the phone field may hold: a phone, or None
    Attempts,      \* POSTs of one row in one drain (4 by the engine, 3 by apiFetch)
    Chunk,         \* rows synced in parallel
    NetworkLoses   \* whether requests and answers may get lost

ASSUME OutboxAssumption ==
    /\ OrderKey \cup CustomerKey \subseteq Key
    /\ OrderKey \cap CustomerKey = {}
    /\ WalkInPhone \subseteq Phone \cup {None}
    /\ Attempts \in Nat \ {0} /\ Chunk \in Nat \ {0}
    /\ NetworkLoses \in BOOLEAN

VARIABLES
    outbox,  \* the pendingCustomers and pendingOrders stores
    form,    \* the New Order form: the walk-in picked, the customer saved for it
    tab,     \* each tab's drain
    task,    \* the rows each tab is syncing
    ordersMade  \* history: every order made on the server, as it was then

clientVars == <<outbox, form, tab, task>>

outboxVars == <<intakeVars, clientVars, ordersMade>>

-----------------------------------------------------------------------------
RowKey == OrderKey \cup CustomerKey

\* A key is "unused" before its row is put, "deleted" or "purged" when it is gone.
Present == {"pending", "syncing", "synced", "error"}

Row ==
    [status: Present \cup {"unused", "deleted", "purged"},
     phone: Phone \cup {None},             \* pendingCustomers: payload.phone
     customer: Customer \cup {None},       \* pendingOrders: customerId
     pending: CustomerKey \cup {None},     \* pendingOrders: pendingCustomerId
     server: OrderRow \cup Customer \cup {None}]  \* serverId, serverOrderNumber

NoRow ==
    [status |-> "unused", phone |-> None, customer |-> None, pending |-> None,
     server |-> None]

Form == [stage: {"empty", "picked", "saved"}, phone: Phone \cup {None},
         key: CustomerKey \cup {None}]

EmptyForm == [stage |-> "empty", phone |-> None, key |-> None]

\* ids is customerIdMap; queue holds the rows of the phase not yet started.
Drain ==
    [phase: {"idle", "customers", "orders"}, queue: SUBSET RowKey,
     ids: [CustomerKey -> Customer \cup {None}]]

NoDrain == [phase |-> "idle", queue |-> {}, ids |-> [k \in CustomerKey |-> None]]

\* seen is the row an update has read and is about to put back, patched.
Task ==
    [phase: {"none", "resolve", "marking", "posting", "waiting", "saving", "failing"},
     tries: 0 .. Attempts, handler: Handler \cup {None}, seen: Row,
     customer: Customer \cup {None}, server: OrderRow \cup Customer \cup {None}]

NoTask ==
    [phase |-> "none", tries |-> 0, handler |-> None, seen |-> NoRow,
     customer |-> None, server |-> None]

OutboxInit ==
    /\ Init
    /\ outbox = [k \in RowKey |-> NoRow]
    /\ form = EmptyForm
    /\ tab = [t \in Tab |-> NoDrain]
    /\ task = [t \in Tab |-> [k \in RowKey |-> NoTask]]
    /\ ordersMade = {}

-----------------------------------------------------------------------------
(* The New Order form, offline. *)

PutPending(k, row) ==
    /\ outbox[k].status = "unused"
    /\ outbox' = [outbox EXCEPT ![k] = [row EXCEPT !.status = "pending"]]

\* customer-picker: a walk-in customer is stashed and selected.
PickWalkIn(k, p) ==
    /\ form.stage = "empty"
    /\ PutPending(k, [NoRow EXCEPT !.phone = p])
    /\ form' = [EmptyForm EXCEPT !.stage = "picked", !.phone = p]
    /\ UNCHANGED <<intakeVars, tab, task>>

\* createOrderOffline gets it as newCustomer and puts it under a key of its own.
SaveWalkIn(k) ==
    /\ form.stage = "picked"
    /\ PutPending(k, [NoRow EXCEPT !.phone = form.phone])
    /\ form' = [form EXCEPT !.stage = "saved", !.key = k]
    /\ UNCHANGED <<intakeVars, tab, task>>

SaveOrder(o) ==
    /\ form.stage = "saved"
    /\ PutPending(o, [NoRow EXCEPT !.pending = form.key])
    /\ form' = EmptyForm
    /\ UNCHANGED <<intakeVars, tab, task>>

\* An order of a customer from the cached list, who may be gone by now, perhaps
\* instead of a walk-in that has been stashed already.
SaveOrderOf(o, c) ==
    /\ form.stage # "saved"
    /\ \E row \in customersMade : row.id = c
    /\ PutPending(o, [NoRow EXCEPT !.customer = c])
    /\ form' = EmptyForm
    /\ UNCHANGED <<intakeVars, tab, task>>

\* The list on the screen lags: the row may be in any state by now.
DeleteRow(o) ==
    /\ outbox[o].status \in Present
    /\ outbox' = [outbox EXCEPT ![o].status = "deleted"]
    /\ UNCHANGED <<intakeVars, form, tab, task>>

\* purgeOldSyncedRows, a day later.
PurgeSynced(k) ==
    /\ outbox[k].status = "synced"
    /\ outbox' = [outbox EXCEPT ![k].status = "purged"]
    /\ UNCHANGED <<intakeVars, form, tab, task>>

-----------------------------------------------------------------------------
(* drainOutbox *)

Waiting(K) == {k \in K : outbox[k].status \in {"pending", "syncing"}}

Running(t) == {k \in RowKey : task[t][k].phase # "none"}

StartDrain(t) ==
    /\ tab[t].phase = "idle"
    /\ tab' = [tab EXCEPT ![t] = [NoDrain EXCEPT !.phase = "customers",
                                                 !.queue = Waiting(CustomerKey)]]
    /\ UNCHANGED <<intakeVars, outbox, form, task>>

\* Promise.all over the next rows; a customer's first await is the read of its
\* row, an order first looks for its customer.
StartChunk(t) ==
    /\ Running(t) = {}
    /\ \E C \in SUBSET tab[t].queue :
          /\ Cardinality(C) = IF Cardinality(tab[t].queue) < Chunk
                              THEN Cardinality(tab[t].queue) ELSE Chunk
          /\ C # {}
          /\ tab' = [tab EXCEPT ![t].queue = @ \ C]
          /\ task' = [task EXCEPT ![t] = [k \in RowKey |->
                CASE k \in C \cap CustomerKey ->
                        [NoTask EXCEPT !.phase = "marking", !.seen = outbox[k]]
                  [] k \in C \cap OrderKey -> [NoTask EXCEPT !.phase = "resolve"]
                  [] OTHER -> NoTask]]
    /\ UNCHANGED <<intakeVars, outbox, form>>

EndPhase(t) ==
    /\ tab[t].phase # "idle"
    /\ Running(t) = {}
    /\ tab[t].queue = {}
    /\ tab' = [tab EXCEPT ![t] =
          IF @.phase = "customers"
          THEN [@ EXCEPT !.phase = "orders", !.queue = Waiting(OrderKey)]
          ELSE NoDrain]
    /\ UNCHANGED <<intakeVars, outbox, form, task>>

\* The tab is closed or reloaded: its drain is gone, its requests are not.
CloseTab(t) ==
    /\ tab[t].phase # "idle"
    /\ tab' = [tab EXCEPT ![t] = NoDrain]
    /\ task' = [task EXCEPT ![t] = [k \in RowKey |-> NoTask]]
    /\ UNCHANGED <<intakeVars, outbox, form>>

-----------------------------------------------------------------------------
(* syncCustomer, syncOrder, postWithRetry: one row in one tab. *)

In(t, k, p) == task[t][k].phase = p

Become(t, k, x) == task' = [task EXCEPT ![t][k] = x]

\* The catch block reads the row it is going to mark.
Failing(t, k) == [task[t][k] EXCEPT !.phase = "failing", !.seen = outbox[k]]

\* Mutant: any customer of this drain will do.
AnySynced(t, o) ==
    LET Ids == {tab[t].ids[k] : k \in CustomerKey} \ {None} IN
    IF Ids = {} THEN outbox[o].customer ELSE CHOOSE c \in Ids : TRUE

\* The customer synced in this drain, else the one an earlier drain stored.
ServerCustomer(t, o) ==
    LET k == outbox[o].pending IN
    IF k = None THEN outbox[o].customer
    ELSE IF tab[t].ids[k] # None THEN tab[t].ids[k]
    ELSE IF outbox[k].status \in Present THEN outbox[k].server ELSE None

ResolveCustomer(t, o) ==
    LET c == ServerCustomer(t, o) IN
    /\ In(t, o, "resolve")
    /\ Become(t, o, IF c = None THEN Failing(t, o)
                    ELSE [task[t][o] EXCEPT !.phase = "marking", !.seen = outbox[o],
                                            !.customer = c])
    /\ UNCHANGED <<intakeVars, outbox, form, tab>>

\* Nothing is put when the row was gone on reading.
PutBack(k, seen, status, server) ==
    outbox' = IF seen.status \in Present
              THEN [outbox EXCEPT ![k] = [seen EXCEPT !.status = status, !.server = server]]
              ELSE outbox

MarkSyncing(t, k) ==
    /\ In(t, k, "marking")
    /\ PutBack(k, task[t][k].seen, "syncing", task[t][k].seen.server)
    /\ Become(t, k, [task[t][k] EXCEPT !.phase = "posting"])
    /\ UNCHANGED <<intakeVars, form, tab>>

Post(t, k, h) ==
    /\ In(t, k, "posting")
    /\ IF k \in OrderKey THEN ArriveOrder(h, k, task[t][k].customer)
                         ELSE ArriveCustomer(h, k, outbox[k].phone)
    /\ Become(t, k, [task[t][k] EXCEPT !.phase = "waiting", !.handler = h, !.tries = @ + 1])
    /\ UNCHANGED <<outbox, form, tab>>

\* Mutant: postWithRetry has no MAX_ATTEMPTS.
RetryForEver(t, k) ==
    [task[t][k] EXCEPT !.phase = "posting", !.handler = None, !.tries = 0]

\* Mutant: the attempts are counted with <=.
RetryOnceMore(t, k) ==
    IF task[t][k].tries <= Attempts
    THEN [task[t][k] EXCEPT !.phase = "posting", !.handler = None]
    ELSE [Failing(t, k) EXCEPT !.handler = None]

\* A network error or a 5xx: post again, or give up.
RetryOrFail(t, k) ==
    IF task[t][k].tries < Attempts
    THEN [task[t][k] EXCEPT !.phase = "posting", !.handler = None]
    ELSE [Failing(t, k) EXCEPT !.handler = None]

\* Mutant: any answer of the server counts as success.
ReceiveAny(t, k) ==
    LET h == task[t][k].handler IN
    /\ In(t, k, "waiting")
    /\ At(h, "done")
    /\ Become(t, k, [task[t][k] EXCEPT !.phase = "saving", !.handler = None,
                                       !.seen = outbox[k], !.server = req[h].answer])
    /\ Finish(h)
    /\ UNCHANGED <<outbox, form, tab>>

Receive(t, k) ==
    LET h == task[t][k].handler
        x == task[t][k] IN
    /\ In(t, k, "waiting")
    /\ At(h, "done")
    /\ Become(t, k,
          CASE req[h].status = 201 -> [x EXCEPT !.phase = "saving", !.handler = None,
                                                !.seen = outbox[k], !.server = req[h].answer]
            [] req[h].status = 500 -> RetryOrFail(t, k)
            [] OTHER -> [Failing(t, k) EXCEPT !.handler = None])
    /\ Finish(h)
    /\ UNCHANGED <<outbox, form, tab>>

LoseAnswer(t, k) ==
    /\ NetworkLoses
    /\ In(t, k, "waiting")
    /\ Become(t, k, RetryOrFail(t, k))
    /\ UNCHANGED <<intakeVars, outbox, form, tab>>

LoseRequest(t, k) ==
    /\ NetworkLoses
    /\ In(t, k, "posting")
    /\ Become(t, k, IF task[t][k].tries + 1 < Attempts
                    THEN [task[t][k] EXCEPT !.tries = @ + 1] ELSE Failing(t, k))
    /\ UNCHANGED <<intakeVars, outbox, form, tab>>

SaveSynced(t, k) ==
    /\ In(t, k, "saving")
    /\ PutBack(k, task[t][k].seen, "synced", task[t][k].server)
    /\ tab' = IF k \in CustomerKey
              THEN [tab EXCEPT ![t].ids[k] = task[t][k].server] ELSE tab
    /\ Become(t, k, NoTask)
    /\ UNCHANGED <<intakeVars, form>>

SaveError(t, k) ==
    /\ In(t, k, "failing")
    /\ PutBack(k, task[t][k].seen, "error", task[t][k].seen.server)
    /\ Become(t, k, NoTask)
    /\ UNCHANGED <<intakeVars, form, tab>>

-----------------------------------------------------------------------------
FormStep ==
    \/ \E k \in CustomerKey : SaveWalkIn(k) \/ \E p \in WalkInPhone : PickWalkIn(k, p)
    \/ \E o \in OrderKey : SaveOrder(o) \/ \E c \in Customer : SaveOrderOf(o, c)

DrainStep(t) == StartChunk(t) \/ EndPhase(t)

TaskStep(t, k) ==
    \/ k \in OrderKey /\ ResolveCustomer(t, k)
    \/ MarkSyncing(t, k) \/ Receive(t, k) \/ SaveSynced(t, k) \/ SaveError(t, k)
    \/ \E h \in Handler : Post(t, k, h)

\* An answer nobody waits for any more.
Unawaited(h) == \A t \in Tab, k \in RowKey : task[t][k].handler # h

ServerStep(h) ==
    /\ HandlerStep(h) \/ DatabaseError(h) \/ (Unawaited(h) /\ Finish(h))
    /\ UNCHANGED clientVars

\* Another device edits or deletes what is on the server.
Elsewhere == OtherStep /\ UNCHANGED clientVars

BrowserStep ==
    \/ FormStep
    \/ \E o \in OrderKey : DeleteRow(o)
    \/ \E k \in RowKey : PurgeSynced(k)
    \/ \E t \in Tab : StartDrain(t) \/ DrainStep(t) \/ CloseTab(t)
    \/ \E t \in Tab, k \in RowKey : TaskStep(t, k) \/ LoseAnswer(t, k) \/ LoseRequest(t, k)

\* An order that is made has a number no row has; an edit keeps it.
Remember ==
    ordersMade' = ordersMade \cup {x \in orders' : x.seq \notin SeqsOf(x.prefix)}

OutboxNext ==
    /\ BrowserStep \/ Elsewhere \/ \E h \in Handler : ServerStep(h)
    /\ Remember

OutboxSpec == OutboxInit /\ [][OutboxNext]_outboxVars

\* Promises and timers of an open tab run, and the API answers.
OutboxFairSpec ==
    /\ OutboxSpec
    /\ \A h \in Handler : SF_outboxVars(ServerStep(h) /\ Remember)
    /\ \A t \in Tab : WF_outboxVars(DrainStep(t) /\ Remember)
    /\ \A t \in Tab, k \in RowKey : SF_outboxVars(TaskStep(t, k) /\ Remember)

\* And the kasir, or a reconnect, starts a drain again and again.
DrainedAgainSpec ==
    /\ OutboxFairSpec
    /\ \A t \in Tab : SF_outboxVars(StartDrain(t) /\ Remember)

-----------------------------------------------------------------------------
(* Properties *)

\* Every store and every drain keeps its type.
OutboxTypeOK ==
    /\ outbox \in [RowKey -> Row]
    /\ form \in Form
    /\ tab \in [Tab -> Drain]
    /\ task \in [Tab -> [RowKey -> Task]]
    /\ ordersMade \subseteq OrderRow

\* An order as it may read after it was edited.
Versions(x) == {[x EXCEPT !.customer = id] : id \in Customer}

\* "Synced rows": a row shown as synced, or purged a day later, was made an order
\* on the server, the one the row names, whatever became of that order since; no
\* order leaves the outbox otherwise.
SyncedOrdersWereMade ==
    \A o \in OrderKey : outbox[o].status \in {"synced", "purged"} =>
        \E x \in ordersMade : x.clientId = o /\ outbox[o].server \in Versions(x)

\* "Orders may reference a customer synced this run": an order is made for the very
\* customer it was taken for, however the drains of the tabs interleave.
OrdersMadeForTheirCustomer ==
    \A x \in ordersMade :
        LET row == outbox[x.clientId] IN
        IF row.pending = None THEN x.customer = row.customer
        ELSE \E c \in customersMade : c.id = x.customer /\ c.origin = row.pending

\* Every drain comes to an end: a tab never stays "draining", which would make
\* all later drains return at once.
DrainsEnd == \A t \in Tab : tab[t].phase # "idle" ~> tab[t].phase = "idle"

(* What the code does not keep: each is violated by a run of its own. *)

\* "Customer not yet synced - will retry on next drain", "drainOutbox re-attempts
\* it": an order parked as an error is tried again while drains go on.
ParkedOrdersRetried ==
    \A o \in OrderKey : outbox[o].status = "error" ~> outbox[o].status # "error"
=============================================================================
