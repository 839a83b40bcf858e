-------------------------- MODULE OfflineOutboxProofs --------------------------
(***************************************************************************)
(* Proofs about the outbox of the browser in front of the intake, for any  *)
(* number of tabs, rows, handlers and attempts.  Every step of the browser *)
(* and the API together is a step of the intake, so what is proved of the  *)
(* intake holds here.  What the outbox adds is knowledge about rows on     *)
(* both sides of the network: each value that travels - the customer of a  *)
(* request, an answer, a row that is read and put back later - says        *)
(* something of what was made on the server, which stays true once it is,  *)
(* although rows are edited and deleted there meanwhile.                   *)
(***************************************************************************)
EXTENDS OfflineOutbox, OrderIntakeProofs

(* The predicates below take what was made on the server (C customers, S       *)
(* orders) and the outbox as parameters.                                       *)

\* A customer row was made for a walk-in's key.
Made(C, c, k) == \E row \in C : row.id = c /\ row.origin = k

\* A row was put under this key, though it may be gone by now.
Used(row) == row.status # "unused"

\* Once put, a row of the outbox keeps whom it is for.
Frozen(row, new) ==
    Used(row) => Used(new) /\ new.pending = row.pending /\ new.customer = row.customer

\* Every row of the outbox does so.
Evolves(box, new) == \A k \in RowKey : Frozen(box[k], new[k])

\* The customer an order was taken for.
Right(C, row, c) ==
    /\ c \in Customer
    /\ IF row.pending = None THEN c = row.customer ELSE Made(C, c, row.pending)

\* What a 201 to a request of key k says.
Answers(C, S, k, a) ==
    /\ k \in OrderKey => \E x \in S : x.clientId = k /\ a \in Versions(x)
    /\ k \in CustomerKey => Made(C, a, k)

\* The server id kept in a walk-in's row is of a customer made for its key.
Served(C, k, row) == k \in CustomerKey /\ row.server # None => Made(C, row.server, k)

\* What a row of the outbox may say of the server.
RowGood(C, S, k, row) ==
    /\ Served(C, k, row)
    /\ k \in OrderKey /\ row.status \in {"synced", "purged"} => Answers(C, S, k, row.server)

\* A drain queues rows that were put, and maps walk-ins to their customers.
TabGood(C, box, x) ==
    /\ \A k \in x.queue : Used(box[k])
    /\ \A k \in CustomerKey : x.ids[k] # None => Made(C, x.ids[k], k)

\* What a task holds of its row k: the row as it read it, whose request it
\* sends, what it was answered.
TaskGood(C, S, k, row, x) ==
    /\ x.phase # "none" => Used(row)
    /\ x.phase \in {"resolve", "marking", "posting"} => x.tries < Attempts
    /\ x.phase \in {"marking", "saving", "failing"} =>
          /\ x.seen.pending = row.pending /\ x.seen.customer = row.customer
          /\ Served(C, k, x.seen)
    /\ k \in OrderKey /\ x.phase \in {"marking", "posting", "waiting"} => Right(C, row, x.customer)
    /\ x.phase = "saving" => Answers(C, S, k, x.server)

\* A request under way is of a row that was put, for the right customer; its
\* answer tells the truth.
HandlerGood(C, S, box, p, r) ==
    /\ p \in OrderPhase =>
          r.key \in OrderKey /\ Used(box[r.key]) /\ Right(C, box[r.key], r.customer)
    /\ p \in CustomerPhase => r.key \in CustomerKey
    /\ p = "done" => r.key \in RowKey /\ (r.status = 201 => Answers(C, S, r.key, r.answer))

\* An order was made of a row that was put, for the right customer.
OrderGood(C, box, x) ==
    x.clientId \in OrderKey /\ Used(box[x.clientId]) /\ Right(C, box[x.clientId], x.customer)

\* A task waits for the answer to its request.
Awaiting(t, k) == task[t][k].phase = "waiting"

\* Each task that waits has a handler of its own, at work on its row.
Awaited ==
    /\ \A t \in Tab, k \in RowKey : Awaiting(t, k) =>
          LET h == task[t][k].handler IN
          h \in Handler /\ phase[h] # "idle" /\ req[h].key = k
    /\ \A t, u \in Tab, k, l \in RowKey :
          Awaiting(t, k) /\ Awaiting(u, l) /\ task[t][k].handler = task[u][l].handler =>
             t = u /\ k = l

\* The rows on file: no customer has a key, and every order is one that was made,
\* perhaps edited since.
Traced ==
    /\ \A c \in customers : c.clientId = None
    /\ \A x \in orders : \E y \in ordersMade : x \in Versions(y)

\* The inductive invariant of the outbox: all that is said of what was made on
\* the server is true of it.
OInv ==
    /\ OutboxTypeOK
    /\ form.stage = "saved" => form.key # None
    /\ Traced
    /\ \A x \in ordersMade : OrderGood(customersMade, outbox, x)
    /\ \A k \in RowKey : RowGood(customersMade, ordersMade, k, outbox[k])
    /\ \A t \in Tab : TabGood(customersMade, outbox, tab[t])
    /\ \A t \in Tab, k \in RowKey : TaskGood(customersMade, ordersMade, k, outbox[k], task[t][k])
    /\ \A h \in Handler : HandlerGood(customersMade, ordersMade, outbox, phase[h], req[h])
    /\ Awaited

\* What was made stays made, whatever becomes of the rows.
Grows == customersMade \subseteq customersMade' /\ ordersMade \subseteq ordersMade'

-----------------------------------------------------------------------------
(* What is known stays known *)

\* An order is a version of itself, and an edit of a version is one.
LEMMA VersionsOfOrder ==
  ASSUME NEW x \in OrderRow
  PROVE  /\ x \in Versions(x)
         /\ \A y \in Versions(x) :
               /\ y \in OrderRow
               /\ y.clientId = x.clientId /\ y.prefix = x.prefix /\ y.seq = x.seq
               /\ \A id \in Customer : [y EXCEPT !.customer = id] \in Versions(x)
<1>1. x.customer \in Customer /\ x = [x EXCEPT !.customer = x.customer]
  BY DEF OrderRow
<1>2. ASSUME NEW y \in Versions(x)
      PROVE  /\ y \in OrderRow
             /\ y.clientId = x.clientId /\ y.prefix = x.prefix /\ y.seq = x.seq
             /\ \A id \in Customer : [y EXCEPT !.customer = id] \in Versions(x)
  <2>1. PICK c \in Customer : y = [x EXCEPT !.customer = c]
    BY DEF Versions
  <2>2. \A id \in Customer : [y EXCEPT !.customer = id] = [x EXCEPT !.customer = id]
    BY <2>1 DEF OrderRow
  <2> QED
    BY <2>1, <2>2 DEF Versions, OrderRow
<1> QED
  BY <1>1, <1>2 DEF Versions

\* The key of nothing is no key of a row.
LEMMA KeysAreKeys ==
  /\ None \notin RowKey /\ None \notin OrderKey /\ None \notin CustomerKey
  /\ None \notin Customer /\ RowKey \subseteq Key
  /\ OrderKey \subseteq RowKey /\ CustomerKey \subseteq RowKey
  /\ \A k \in RowKey : k \in OrderKey <=> k \notin CustomerKey
  BY IntakeAssumption, OutboxAssumption DEF RowKey

\* Facts about the server's rows survive new rows and rows of the outbox that
\* keep whom they are for.
LEMMA KnownStaysKnown ==
  ASSUME NEW C, NEW D, C \subseteq D, NEW S, NEW R, S \subseteq R,
         NEW row, NEW new, Frozen(row, new), NEW k
  PROVE  /\ \A c : Made(C, c, k) => Made(D, c, k)
         /\ \A c : Used(row) /\ Right(C, row, c) => Right(D, new, c)
         /\ \A a : Answers(C, S, k, a) => Answers(D, R, k, a)
         /\ \A x : Served(C, k, x) => Served(D, k, x)
         /\ \A x : RowGood(C, S, k, x) => RowGood(D, R, k, x)
         /\ \A x : TaskGood(C, S, k, row, x) => TaskGood(D, R, k, new, x)
<1>1. \A c, l : Made(C, c, l) => Made(D, c, l)
  BY DEF Made
<1>2. \A c : Used(row) /\ Right(C, row, c) => Right(D, new, c)
  BY <1>1 DEF Right, Frozen
<1>3. \A a : Answers(C, S, k, a) => Answers(D, R, k, a)
  BY <1>1 DEF Answers
<1>4. \A x : Served(C, k, x) => Served(D, k, x)
  BY <1>1 DEF Served
<1>5. \A x : RowGood(C, S, k, x) => RowGood(D, R, k, x)
  BY <1>3, <1>4 DEF RowGood
<1>6. \A x : TaskGood(C, S, k, row, x) => TaskGood(D, R, k, new, x)
  BY <1>2, <1>3, <1>4 DEF TaskGood, Frozen
<1> QED
  BY <1>1, <1>2, <1>3, <1>4, <1>5, <1>6

\* The same for what speaks of the whole outbox.
LEMMA KnownStaysKnownOfAll ==
  ASSUME NEW C, NEW D, C \subseteq D, NEW S, NEW R, S \subseteq R,
         NEW box, NEW next, Evolves(box, next)
  PROVE  /\ \A x \in Drain : TabGood(C, box, x) => TabGood(D, next, x)
         /\ \A p, r : HandlerGood(C, S, box, p, r) => HandlerGood(D, R, next, p, r)
         /\ \A x : OrderGood(C, box, x) => OrderGood(D, next, x)
<1>1. \A k \in RowKey : Frozen(box[k], next[k])
  BY DEF Evolves
<1>2. \A k, c : Made(C, c, k) => Made(D, c, k)
  BY DEF Made
<1>3. \A k \in RowKey : \A c : Used(box[k]) /\ Right(C, box[k], c) => Used(next[k]) /\ Right(D, next[k], c)
  BY <1>1, <1>2 DEF Right, Frozen
<1>4. \A k, a : Answers(C, S, k, a) => Answers(D, R, k, a)
  BY <1>2 DEF Answers
<1>5. \A x \in Drain : TabGood(C, box, x) => TabGood(D, next, x)
  BY <1>1, <1>2 DEF TabGood, Drain, Frozen
<1>6. \A p, r : HandlerGood(C, S, box, p, r) => HandlerGood(D, R, next, p, r)
  BY <1>3, <1>4, KeysAreKeys DEF HandlerGood
<1>7. \A x : OrderGood(C, box, x) => OrderGood(D, next, x)
  BY <1>3, KeysAreKeys DEF OrderGood
<1> QED
  BY <1>5, <1>6, <1>7

\* A step that leaves well everything it changes keeps the invariant.
LEMMA StepKeeps ==
  ASSUME OInv, Grows, Evolves(outbox, outbox'), OutboxTypeOK',
         (form.stage = "saved" => form.key # None)',
         Traced',
         \A x \in ordersMade' : x \in ordersMade \/ OrderGood(customersMade', outbox', x),
         \A k \in RowKey : outbox'[k] = outbox[k] \/ RowGood(customersMade', ordersMade', k, outbox'[k]),
         \A t \in Tab : tab'[t] = tab[t] \/ TabGood(customersMade', outbox', tab'[t]),
         \A t \in Tab, k \in RowKey :
            task'[t][k] = task[t][k] \/ TaskGood(customersMade', ordersMade', k, outbox'[k], task'[t][k]),
         \A h \in Handler :
            \/ phase'[h] = phase[h] /\ req'[h] = req[h]
            \/ HandlerGood(customersMade', ordersMade', outbox', phase'[h], req'[h]),
         Awaited'
  PROVE  OInv'
<1>1. \A x \in ordersMade' : OrderGood(customersMade', outbox', x)
  BY KnownStaysKnownOfAll DEF OInv, Grows
<1>2. \A k \in RowKey : RowGood(customersMade', ordersMade', k, outbox'[k])
  <2> SUFFICES ASSUME NEW k \in RowKey, outbox'[k] = outbox[k]
               PROVE  RowGood(customersMade', ordersMade', k, outbox'[k])
    OBVIOUS
  <2>1. RowGood(customersMade, ordersMade, k, outbox[k])
    BY DEF OInv
  <2>2. Frozen(outbox[k], outbox'[k])
    BY DEF Evolves
  <2> QED
    BY <2>1, <2>2, KnownStaysKnown DEF Grows
<1>3. \A t \in Tab : TabGood(customersMade', outbox', tab'[t])
  <2>1. \A t \in Tab : tab[t] \in Drain
    BY DEF OInv, OutboxTypeOK
  <2> QED
    BY <2>1, KnownStaysKnownOfAll DEF OInv, Grows
<1>4. \A t \in Tab, k \in RowKey : TaskGood(customersMade', ordersMade', k, outbox'[k], task'[t][k])
  <2> SUFFICES ASSUME NEW t \in Tab, NEW k \in RowKey, task'[t][k] = task[t][k]
               PROVE  TaskGood(customersMade', ordersMade', k, outbox'[k], task'[t][k])
    OBVIOUS
  <2>1. TaskGood(customersMade, ordersMade, k, outbox[k], task[t][k])
    BY DEF OInv
  <2>2. Frozen(outbox[k], outbox'[k])
    BY DEF Evolves
  <2> QED
    BY <2>1, <2>2, KnownStaysKnown DEF Grows
<1>5. \A h \in Handler : HandlerGood(customersMade', ordersMade', outbox', phase'[h], req'[h])
  BY KnownStaysKnownOfAll DEF OInv, Grows
<1> QED
  BY <1>1, <1>2, <1>3, <1>4, <1>5 DEF OInv

\* Nobody begins to wait, and who is waited for is still at work on the same key.
LEMMA AwaitedKept ==
  ASSUME Awaited,
         \A t \in Tab, k \in RowKey :
            task'[t][k].phase = "waiting" =>
               /\ task'[t][k] = task[t][k]
               /\ phase'[task[t][k].handler] # "idle"
               /\ req'[task[t][k].handler].key = req[task[t][k].handler].key
  PROVE  Awaited'
  BY DEF Awaited, Awaiting

-----------------------------------------------------------------------------
(* Rows, tasks and their updates *)

\* One task changes.
LEMMA TaskMoves ==
  ASSUME OutboxTypeOK, NEW t \in Tab, NEW k \in RowKey, NEW x \in Task, Become(t, k, x)
  PROVE  /\ task' \in [Tab -> [RowKey -> Task]]
         /\ task'[t][k] = x
         /\ \A u \in Tab, l \in RowKey : u # t \/ l # k => task'[u][l] = task[u][l]
<1> DEFINE mine == [task[t] EXCEPT ![k] = x]
<1>1. task \in [Tab -> [RowKey -> Task]] /\ task[t] \in [RowKey -> Task]
  BY DEF OutboxTypeOK
<1>2. /\ mine \in [RowKey -> Task] /\ mine[k] = x
      /\ \A l \in RowKey \ {k} : mine[l] = task[t][l]
  BY <1>1
<1>3. task' = [task EXCEPT ![t] = mine]
  BY DEF Become
<1> HIDE DEF mine
<1> QED
  BY <1>1, <1>2, <1>3

\* A row of a task is a row.
LEMMA NoRowTyped ==
  NoRow \in Row /\ NoRow.status = "unused" /\ NoRow.server = None
  BY DEF NoRow, Row

\* A task that does nothing is a task.
LEMMA NoTaskTyped == NoTask \in Task /\ NoTask.phase = "none"
<1>1. None \in Handler \cup {None} /\ 0 \in 0 .. Attempts
  BY OutboxAssumption
<1> QED
  BY <1>1, NoRowTyped DEF NoTask, Task

\* A task that fails.
LEMMA FailingTask ==
  ASSUME OutboxTypeOK, NEW t \in Tab, NEW k \in RowKey
  PROVE  /\ Failing(t, k) \in Task
         /\ Failing(t, k).phase = "failing" /\ Failing(t, k).seen = outbox[k]
<1> DEFINE x == task[t][k]
           y == [x EXCEPT !.phase = "failing"]
<1>1. x \in Task /\ outbox[k] \in Row
  BY DEF OutboxTypeOK
<1> HIDE DEF x
<1>2. y \in Task /\ y.phase = "failing"
  BY <1>1 DEF Task
<1>3. Failing(t, k) = [y EXCEPT !.seen = outbox[k]]
  BY DEF Failing, x
<1> HIDE DEF y
<1> QED
  BY <1>1, <1>2, <1>3 DEF Task

\* What RetryOrFail makes of a task.
LEMMA RetryOrFailTask ==
  ASSUME OutboxTypeOK, NEW t \in Tab, NEW k \in RowKey
  PROVE  LET x == task[t][k]
             y == RetryOrFail(t, k) IN
         /\ y \in Task
         /\ \/ y.phase = "posting" /\ y.tries < Attempts /\ y.customer = x.customer
            \/ y.phase = "failing" /\ y.seen = outbox[k]
<1> DEFINE x == task[t][k]
           y == [x EXCEPT !.phase = "posting"]
<1>1. x \in Task
  BY DEF OutboxTypeOK
<1>2. CASE x.tries < Attempts
  <2> HIDE DEF x
  <2>1. y \in Task /\ y.phase = "posting" /\ y.tries = x.tries /\ y.customer = x.customer
    BY <1>1 DEF Task
  <2>2. RetryOrFail(t, k) = [y EXCEPT !.handler = None]
    BY <1>2 DEF RetryOrFail, x
  <2> HIDE DEF y
  <2>3. [y EXCEPT !.handler = None] \in Task
    BY <2>1 DEF Task
  <2>4. /\ [y EXCEPT !.handler = None].phase = "posting"
        /\ [y EXCEPT !.handler = None].tries = x.tries
        /\ [y EXCEPT !.handler = None].customer = x.customer
    BY <2>1 DEF Task
  <2> QED
    BY <1>2, <2>2, <2>3, <2>4 DEF x
<1>3. CASE ~(x.tries < Attempts)
  <2>1. RetryOrFail(t, k) = [Failing(t, k) EXCEPT !.handler = None]
    BY <1>3 DEF RetryOrFail
  <2>2. /\ [Failing(t, k) EXCEPT !.handler = None] \in Task
        /\ [Failing(t, k) EXCEPT !.handler = None].phase = "failing"
        /\ [Failing(t, k) EXCEPT !.handler = None].seen = outbox[k]
    BY FailingTask DEF Task
  <2> QED
    BY <2>1, <2>2
<1> QED
  BY <1>2, <1>3

-----------------------------------------------------------------------------
(* The form and the list of the kasir *)

\* A row is put that keeps whom it is for, if it was put before.
LEMMA RowPut ==
  ASSUME OInv, UNCHANGED ordersMade, NEW k \in RowKey, NEW new \in Row, outbox' = [outbox EXCEPT ![k] = new],
         Frozen(outbox[k], new), RowGood(customersMade, ordersMade, k, new),
         form' \in Form, form'.stage = "saved" => form'.key # None,
         UNCHANGED <<intakeVars, tab, task>>
  PROVE  OInv'
<1>1. UNCHANGED <<orders, customers, customersMade, ordersMade, phase, req, tab, task>>
  BY DEF intakeVars
<1>2. /\ outbox' \in [RowKey -> Row] /\ outbox'[k] = new
      /\ \A l \in RowKey \ {k} : outbox'[l] = outbox[l]
  BY DEF OInv, OutboxTypeOK
<1>3. Grows /\ Evolves(outbox, outbox')
  BY <1>1, <1>2 DEF Grows, Evolves, Frozen
<1>4. OutboxTypeOK'
  BY <1>1, <1>2 DEF OInv, OutboxTypeOK
<1>5. Awaited'
  BY <1>1 DEF OInv, Awaited, Awaiting
<1>6. Traced'
  BY <1>1 DEF OInv, Traced
<1>7. \A l \in RowKey : outbox'[l] = outbox[l] \/ RowGood(customersMade', ordersMade', l, outbox'[l])
  BY <1>1, <1>2
<1> QED
  BY <1>1, <1>3, <1>4, <1>5, <1>6, <1>7, StepKeeps

\* A row that is put for the first time.
LEMMA PendingPut ==
  ASSUME OInv, UNCHANGED ordersMade, NEW k \in RowKey, NEW row \in Row, row.server = None, PutPending(k, row),
         form' \in Form, form'.stage = "saved" => form'.key # None,
         UNCHANGED <<intakeVars, tab, task>>
  PROVE  OInv'
<1> DEFINE new == [row EXCEPT !.status = "pending"]
<1>1. new \in Row /\ new.status = "pending" /\ new.server = None
  BY DEF Row, Present
<1>2. outbox' = [outbox EXCEPT ![k] = new]
  BY DEF PutPending
<1> HIDE DEF new
<1>3. Frozen(outbox[k], new)
  BY DEF PutPending, Frozen, Used
<1>4. RowGood(customersMade, ordersMade, k, new)
  BY <1>1 DEF RowGood, Served
<1> QED
  BY <1>1, <1>2, <1>3, <1>4, RowPut

\* The steps of the form.
LEMMA FormStepKeeps == ASSUME OInv, UNCHANGED ordersMade, FormStep PROVE OInv'
<1>1. form \in Form /\ NoRow \in Row /\ NoRow.server = None
  BY NoRowTyped DEF OInv, OutboxTypeOK
<1>2. EmptyForm \in Form /\ EmptyForm.stage = "empty"
  BY DEF EmptyForm, Form
<1>3. ASSUME NEW k \in CustomerKey, NEW p \in WalkInPhone, PickWalkIn(k, p)
      PROVE  OInv'
  <2> DEFINE row == [NoRow EXCEPT !.phone = p]
             half == [EmptyForm EXCEPT !.stage = "picked"]
  <2>1. p \in Phone \cup {None} /\ k \in RowKey
    BY OutboxAssumption, KeysAreKeys
  <2>2. row \in Row /\ row.server = None
    BY <1>1, <2>1 DEF Row
  <2>3. half \in Form /\ half.stage = "picked"
    BY <1>2 DEF Form
  <2>4. form' = [half EXCEPT !.phone = p]
    BY <1>3 DEF PickWalkIn
  <2>5. PutPending(k, row) /\ UNCHANGED <<intakeVars, tab, task>>
    BY <1>3 DEF PickWalkIn
  <2> HIDE DEF row, half
  <2>6. form' \in Form /\ form'.stage = "picked"
    BY <2>1, <2>3, <2>4 DEF Form
  <2> QED
    BY <2>1, <2>2, <2>5, <2>6, PendingPut
<1>4. ASSUME NEW k \in CustomerKey, SaveWalkIn(k)
      PROVE  OInv'
  <2> DEFINE row == [NoRow EXCEPT !.phone = form.phone]
             half == [form EXCEPT !.stage = "saved"]
  <2>1. form.phone \in Phone \cup {None} /\ k \in RowKey /\ k # None
    BY <1>1, KeysAreKeys DEF Form
  <2>2. row \in Row /\ row.server = None
    BY <1>1, <2>1 DEF Row
  <2>3. half \in Form
    BY <1>1 DEF Form
  <2>4. form' = [half EXCEPT !.key = k]
    BY <1>4 DEF SaveWalkIn
  <2>5. PutPending(k, row) /\ UNCHANGED <<intakeVars, tab, task>>
    BY <1>4 DEF SaveWalkIn
  <2> HIDE DEF row, half
  <2>6. form' \in Form /\ form'.key = k
    BY <2>3, <2>4 DEF Form
  <2> QED
    BY <2>1, <2>2, <2>5, <2>6, PendingPut
<1>5. ASSUME NEW o \in OrderKey, SaveOrder(o)
      PROVE  OInv'
  <2> DEFINE row == [NoRow EXCEPT !.pending = form.key]
  <2>1. form.key \in CustomerKey \cup {None} /\ o \in RowKey
    BY <1>1, KeysAreKeys DEF Form
  <2>2. row \in Row /\ row.server = None
    BY <1>1, <2>1 DEF Row
  <2>3. PutPending(o, row) /\ form' = EmptyForm /\ UNCHANGED <<intakeVars, tab, task>>
    BY <1>5 DEF SaveOrder
  <2> HIDE DEF row
  <2> QED
    BY <1>2, <2>1, <2>2, <2>3, PendingPut
<1>6. ASSUME NEW o \in OrderKey, NEW c \in Customer, SaveOrderOf(o, c)
      PROVE  OInv'
  <2> DEFINE row == [NoRow EXCEPT !.customer = c]
  <2>1. row \in Row /\ row.server = None /\ o \in RowKey
    BY <1>1, KeysAreKeys DEF Row
  <2>2. PutPending(o, row) /\ form' = EmptyForm /\ UNCHANGED <<intakeVars, tab, task>>
    BY <1>6 DEF SaveOrderOf
  <2> HIDE DEF row
  <2> QED
    BY <1>2, <2>1, <2>2, PendingPut
<1> QED
  BY <1>3, <1>4, <1>5, <1>6 DEF FormStep

\* A row is deleted, or purged when it has been synced.
LEMMA RowGoneKeeps ==
  ASSUME OInv, UNCHANGED ordersMade,
         \/ \E o \in OrderKey : DeleteRow(o)
         \/ \E k \in RowKey : PurgeSynced(k)
  PROVE  OInv'
<1>1. PICK k \in RowKey, s \in {"deleted", "purged"} :
         /\ outbox' = [outbox EXCEPT ![k].status = s]
         /\ outbox[k].status \in Present
         /\ s = "purged" => outbox[k].status = "synced"
         /\ UNCHANGED <<intakeVars, form, tab, task>>
  <2>1. CASE \E o \in OrderKey : DeleteRow(o)
    BY <2>1, KeysAreKeys DEF DeleteRow
  <2>2. CASE \E k \in RowKey : PurgeSynced(k)
    BY <2>2 DEF PurgeSynced, Present
  <2> QED
    BY <2>1, <2>2
<1> DEFINE new == [outbox[k] EXCEPT !.status = s]
<1>2. outbox[k] \in Row /\ form \in Form
  BY DEF OInv, OutboxTypeOK
<1>3. /\ new \in Row /\ new.status = s /\ new.server = outbox[k].server
      /\ new.pending = outbox[k].pending /\ new.customer = outbox[k].customer
  BY <1>2 DEF Row
<1>4. outbox' = [outbox EXCEPT ![k] = new]
  BY <1>1
<1> HIDE DEF new
<1>5. Frozen(outbox[k], new)
  BY <1>3 DEF Frozen, Used
<1>6. RowGood(customersMade, ordersMade, k, new)
  BY <1>1, <1>3 DEF OInv, RowGood, Served
<1> QED
  BY <1>1, <1>2, <1>3, <1>4, <1>5, <1>6, RowPut DEF OInv

-----------------------------------------------------------------------------
(* The drain of a tab *)

\* A tab goes on; its tasks, if they change, wait for nobody.
LEMMA TabMoves ==
  ASSUME OInv, UNCHANGED ordersMade, NEW t \in Tab, NEW x \in Drain, tab' = [tab EXCEPT ![t] = x],
         TabGood(customersMade, outbox, x),
         NEW f \in [RowKey -> Task], task' = [task EXCEPT ![t] = f],
         \A k \in RowKey :
            f[k] = task[t][k] \/ TaskGood(customersMade, ordersMade, k, outbox[k], f[k]),
         \A k \in RowKey : f[k].phase = "waiting" => f[k] = task[t][k],
         UNCHANGED <<intakeVars, outbox, form>>
  PROVE  OInv'
<1>1. UNCHANGED <<orders, customers, customersMade, ordersMade, phase, req>>
  BY DEF intakeVars
<1>2. /\ tab' \in [Tab -> Drain] /\ tab'[t] = x
      /\ \A u \in Tab \ {t} : tab'[u] = tab[u]
      /\ task' \in [Tab -> [RowKey -> Task]] /\ task'[t] = f
      /\ \A u \in Tab \ {t} : task'[u] = task[u]
  BY DEF OInv, OutboxTypeOK
<1>3. Grows /\ Evolves(outbox, outbox')
  BY <1>1 DEF Grows, Evolves, Frozen
<1>4. OutboxTypeOK'
  BY <1>1, <1>2 DEF OInv, OutboxTypeOK
<1>5. Awaited'
  BY <1>1, <1>2, AwaitedKept DEF OInv, Awaited, Awaiting
<1>6. Traced' /\ (form.stage = "saved" => form.key # None)'
  BY <1>1 DEF OInv, Traced
<1>7. \A u \in Tab : tab'[u] = tab[u] \/ TabGood(customersMade', outbox', tab'[u])
  BY <1>1, <1>2
<1>8. \A u \in Tab, k \in RowKey :
         task'[u][k] = task[u][k] \/ TaskGood(customersMade', ordersMade', k, outbox'[k], task'[u][k])
  BY <1>1, <1>2
<1> QED
  BY <1>1, <1>3, <1>4, <1>5, <1>6, <1>7, <1>8, StepKeeps

\* A tab that drains nothing.
LEMMA NoDrainTyped ==
  /\ NoDrain \in Drain /\ NoDrain.queue = {}
  /\ \A C, box : TabGood(C, box, NoDrain)
<1>1. NoDrain \in Drain /\ NoDrain.queue = {}
  BY DEF NoDrain, Drain
<1>2. \A k \in CustomerKey : NoDrain.ids[k] = None
  BY DEF NoDrain
<1> QED
  BY <1>1, <1>2 DEF TabGood

\* Rows that wait have been put.
LEMMA WaitingAreUsed ==
  ASSUME NEW K \in SUBSET RowKey
  PROVE  Waiting(K) \in SUBSET RowKey /\ \A k \in Waiting(K) : Used(outbox[k])
  BY DEF Waiting, Used

\* A drain begins.
LEMMA StartDrainKeeps == ASSUME OInv, UNCHANGED ordersMade, NEW t \in Tab, StartDrain(t) PROVE OInv'
<1> DEFINE Q == Waiting(CustomerKey)
           half == [NoDrain EXCEPT !.phase = "customers"]
           x == [half EXCEPT !.queue = Q]
<1>1. Q \in SUBSET RowKey /\ \A k \in Q : Used(outbox[k])
  BY WaitingAreUsed, KeysAreKeys
<1>2. half \in Drain /\ half.ids = NoDrain.ids
  BY NoDrainTyped DEF Drain
<1>3. tab' = [tab EXCEPT ![t] = x] /\ UNCHANGED <<intakeVars, outbox, form, task>>
  BY DEF StartDrain
<1> HIDE DEF half, Q
<1>4. x \in Drain /\ x.queue = Q /\ x.ids = NoDrain.ids
  BY <1>1, <1>2 DEF Drain
<1> HIDE DEF x
<1>5. TabGood(customersMade, outbox, x)
  BY <1>1, <1>4 DEF TabGood, NoDrain
<1>6. task[t] \in [RowKey -> Task] /\ task' = [task EXCEPT ![t] = task[t]]
  BY <1>3 DEF OInv, OutboxTypeOK
<1> QED
  BY <1>3, <1>4, <1>5, <1>6, TabMoves

\* The customers are through, or the orders.
LEMMA EndPhaseKeeps == ASSUME OInv, UNCHANGED ordersMade, NEW t \in Tab, EndPhase(t) PROVE OInv'
<1> DEFINE Q == Waiting(OrderKey)
           half == [tab[t] EXCEPT !.phase = "orders"]
           next == [half EXCEPT !.queue = Q]
<1>1. Q \in SUBSET RowKey /\ \A k \in Q : Used(outbox[k])
  BY WaitingAreUsed, KeysAreKeys
<1>2. tab[t] \in Drain /\ TabGood(customersMade, outbox, tab[t])
  BY DEF OInv, OutboxTypeOK
<1>3. half \in Drain /\ half.ids = tab[t].ids
  BY <1>2 DEF Drain
<1>4. /\ tab' = [tab EXCEPT ![t] = IF tab[t].phase = "customers" THEN next ELSE NoDrain]
      /\ UNCHANGED <<intakeVars, outbox, form, task>>
  BY DEF EndPhase
<1> HIDE DEF half, Q
<1>5. next \in Drain /\ next.queue = Q /\ next.ids = tab[t].ids
  BY <1>1, <1>3 DEF Drain
<1> HIDE DEF next
<1>6. TabGood(customersMade, outbox, next)
  BY <1>1, <1>2, <1>5 DEF TabGood
<1>7. task[t] \in [RowKey -> Task] /\ task' = [task EXCEPT ![t] = task[t]]
  BY <1>4 DEF OInv, OutboxTypeOK
<1>8. CASE tab[t].phase = "customers"
  BY <1>4, <1>5, <1>6, <1>7, <1>8, TabMoves
<1>9. CASE tab[t].phase # "customers"
  <2>1. tab' = [tab EXCEPT ![t] = NoDrain]
    BY <1>4, <1>9
  <2> QED
    BY <1>4, <1>7, <2>1, NoDrainTyped, TabMoves
<1> QED
  BY <1>8, <1>9

\* The tab is gone, and nobody in it waits any more.
LEMMA CloseTabKeeps == ASSUME OInv, UNCHANGED ordersMade, NEW t \in Tab, CloseTab(t) PROVE OInv'
<1> DEFINE f == [k \in RowKey |-> NoTask]
<1>1. /\ f \in [RowKey -> Task]
      /\ \A k \in RowKey : f[k].phase = "none"
  BY NoTaskTyped
<1>2. /\ tab' = [tab EXCEPT ![t] = NoDrain] /\ task' = [task EXCEPT ![t] = f]
      /\ UNCHANGED <<intakeVars, outbox, form>>
  BY DEF CloseTab
<1> HIDE DEF f
<1>3. \A k \in RowKey : TaskGood(customersMade, ordersMade, k, outbox[k], f[k])
  BY <1>1 DEF TaskGood
<1> QED
  BY <1>1, <1>2, <1>3, NoDrainTyped, TabMoves

\* A chunk of rows begins.
LEMMA StartChunkKeeps == ASSUME OInv, UNCHANGED ordersMade, NEW t \in Tab, StartChunk(t) PROVE OInv'
<1>1. PICK C \in SUBSET tab[t].queue :
         /\ tab' = [tab EXCEPT ![t].queue = @ \ C]
         /\ task' = [task EXCEPT ![t] = [k \in RowKey |->
               CASE k \in C \cap CustomerKey ->
                       [NoTask EXCEPT !.phase = "marking", !.seen = outbox[k]]
                 [] k \in C \cap OrderKey -> [NoTask EXCEPT !.phase = "resolve"]
                 [] OTHER -> NoTask]]
  BY DEF StartChunk
<1> DEFINE x == [tab[t] EXCEPT !.queue = tab[t].queue \ C]
           marked(k) == [NoTask EXCEPT !.phase = "marking", !.seen = outbox[k]]
           f == [k \in RowKey |->
                    CASE k \in C \cap CustomerKey -> marked(k)
                      [] k \in C \cap OrderKey -> [NoTask EXCEPT !.phase = "resolve"]
                      [] OTHER -> NoTask]
<1>2. tab[t] \in Drain /\ TabGood(customersMade, outbox, tab[t])
  BY DEF OInv, OutboxTypeOK
<1>3. C \subseteq RowKey /\ \A k \in C : Used(outbox[k])
  BY <1>2 DEF Drain, TabGood
<1>4. x \in Drain /\ x.queue \subseteq tab[t].queue /\ x.ids = tab[t].ids
  BY <1>2 DEF Drain
<1>5. tab' = [tab EXCEPT ![t] = x]
  BY <1>1, <1>2 DEF Drain
<1>6. TabGood(customersMade, outbox, x)
  BY <1>2, <1>4 DEF TabGood
<1>7. task' = [task EXCEPT ![t] = f] /\ UNCHANGED <<intakeVars, outbox, form>>
  BY <1>1 DEF StartChunk
<1>8. ASSUME NEW k \in RowKey
      PROVE  /\ marked(k) \in Task /\ marked(k).phase = "marking"
             /\ marked(k).seen = outbox[k] /\ marked(k).tries = 0
  <2>1. outbox[k] \in Row
    BY DEF OInv, OutboxTypeOK
  <2> DEFINE half == [NoTask EXCEPT !.phase = "marking"]
  <2>2. half \in Task /\ half.phase = "marking" /\ half.tries = 0
    BY NoTaskTyped DEF NoTask, Task
  <2>3. marked(k) = [half EXCEPT !.seen = outbox[k]]
    OBVIOUS
  <2> HIDE DEF half, marked
  <2> QED
    BY <2>1, <2>2, <2>3 DEF Task
<1>9. /\ [NoTask EXCEPT !.phase = "resolve"] \in Task
      /\ [NoTask EXCEPT !.phase = "resolve"].phase = "resolve"
      /\ [NoTask EXCEPT !.phase = "resolve"].tries = 0
  BY NoTaskTyped DEF NoTask, Task
<1>10. ASSUME NEW k \in RowKey
       PROVE  /\ f[k] \in Task /\ f[k].phase # "waiting"
              /\ TaskGood(customersMade, ordersMade, k, outbox[k], f[k])
  <2>1. 0 < Attempts
    BY OutboxAssumption
  <2>2. CASE k \in C \cap CustomerKey
    <3>1. f[k] = marked(k) /\ Used(outbox[k]) /\ k \notin OrderKey
      BY <1>3, <2>2, KeysAreKeys
    <3>2. Served(customersMade, k, outbox[k])
      BY DEF OInv, RowGood
    <3> HIDE DEF f, marked
    <3> QED
      BY <1>8, <2>1, <3>1, <3>2 DEF TaskGood
  <2>3. CASE k \in C \cap OrderKey
    <3>1. f[k] = [NoTask EXCEPT !.phase = "resolve"] /\ Used(outbox[k])
      BY <1>3, <2>3, KeysAreKeys
    <3> HIDE DEF f
    <3> QED
      BY <1>9, <2>1, <3>1 DEF TaskGood
  <2>4. CASE k \notin C \cap CustomerKey /\ k \notin C \cap OrderKey
    <3>1. f[k] = NoTask
      BY <2>4
    <3> HIDE DEF f
    <3> QED
      BY <3>1, NoTaskTyped DEF TaskGood
  <2> QED
    BY <2>2, <2>3, <2>4
<1>11. f \in [RowKey -> Task]
  <2>1. f = [k \in RowKey |-> f[k]]
    OBVIOUS
  <2> HIDE DEF f
  <2> QED
    BY <1>10, <2>1
<1> HIDE DEF f, x
<1> QED
  BY <1>4, <1>5, <1>6, <1>7, <1>10, <1>11, TabMoves

-----------------------------------------------------------------------------
(* One row in one tab, apart from its request *)

\* What the invariant knows of one row, its task and its tab.
LEMMA KnownOfTask ==
  ASSUME OInv, NEW t \in Tab, NEW k \in RowKey
  PROVE  /\ outbox[k] \in Row /\ RowGood(customersMade, ordersMade, k, outbox[k])
         /\ task[t][k] \in Task /\ TaskGood(customersMade, ordersMade, k, outbox[k], task[t][k])
         /\ tab[t] \in Drain /\ TabGood(customersMade, outbox, tab[t])
  BY DEF OInv, OutboxTypeOK

\* A task that goes on, or gives up, and does not wait.
LEMMA TaskGoesOn ==
  ASSUME OInv, UNCHANGED ordersMade, NEW t \in Tab, NEW k \in RowKey, NEW x \in Task, Become(t, k, x),
         TaskGood(customersMade, ordersMade, k, outbox[k], x), x.phase # "waiting",
         UNCHANGED <<intakeVars, outbox, form, tab>>
  PROVE  OInv'
<1>1. UNCHANGED <<orders, customers, customersMade, ordersMade, phase, req>>
  BY DEF intakeVars
<1>2. /\ task' \in [Tab -> [RowKey -> Task]] /\ task'[t][k] = x
      /\ \A u \in Tab, l \in RowKey : u # t \/ l # k => task'[u][l] = task[u][l]
  BY TaskMoves DEF OInv
<1>3. Grows /\ Evolves(outbox, outbox')
  BY <1>1 DEF Grows, Evolves, Frozen
<1>4. OutboxTypeOK'
  BY <1>2 DEF OInv, OutboxTypeOK
<1>5. Awaited'
  <2> SUFFICES ASSUME NEW u \in Tab, NEW l \in RowKey, task'[u][l].phase = "waiting"
               PROVE  /\ task'[u][l] = task[u][l]
                      /\ phase'[task[u][l].handler] # "idle"
                      /\ req'[task[u][l].handler].key = req[task[u][l].handler].key
    BY AwaitedKept DEF OInv
  <2>1. task'[u][l] = task[u][l]
    BY <1>2
  <2> QED
    BY <1>1, <2>1 DEF OInv, Awaited, Awaiting
<1>6. Traced' /\ (form.stage = "saved" => form.key # None)'
  BY <1>1 DEF OInv, Traced
<1>7. \A u \in Tab, l \in RowKey :
         task'[u][l] = task[u][l] \/ TaskGood(customersMade', ordersMade', l, outbox'[l], task'[u][l])
  BY <1>1, <1>2
<1> QED
  BY <1>1, <1>3, <1>4, <1>5, <1>6, <1>7, StepKeeps

\* A task that is about to mark its row as failed, as the row is now.
LEMMA FailingIsGood ==
  ASSUME OInv, NEW t \in Tab, NEW k \in RowKey, task[t][k].phase # "none",
         NEW x \in Task, x.phase = "failing", x.seen = outbox[k]
  PROVE  TaskGood(customersMade, ordersMade, k, outbox[k], x)
  BY KnownOfTask DEF TaskGood, RowGood

\* An order finds its customer: the one it was taken for.
LEMMA ResolveCustomerKeeps ==
  ASSUME OInv, UNCHANGED ordersMade, IntakeTypeOK, NEW t \in Tab, NEW o \in OrderKey, ResolveCustomer(t, o)
  PROVE  OInv'
<1> DEFINE c == ServerCustomer(t, o)
           x == task[t][o]
<1>1. o \in RowKey /\ x \in Task /\ outbox[o] \in Row
  BY KeysAreKeys, KnownOfTask
<1>2. x.phase = "resolve" /\ Used(outbox[o]) /\ x.tries < Attempts
  BY <1>1, KnownOfTask DEF ResolveCustomer, In, TaskGood
<1>3. CASE c = None
  <2>1. Become(t, o, Failing(t, o))
    BY <1>3 DEF ResolveCustomer
  <2>2. TaskGood(customersMade, ordersMade, o, outbox[o], Failing(t, o))
    BY <1>1, <1>2, FailingTask, FailingIsGood DEF OInv
  <2>3. Failing(t, o) \in Task /\ Failing(t, o).phase = "failing"
    BY <1>1, FailingTask DEF OInv
  <2> QED
    BY <1>1, <2>1, <2>2, <2>3, TaskGoesOn DEF ResolveCustomer
<1>4. CASE c # None
  <2>1. c \in Customer /\ Right(customersMade, outbox[o], c)
    <3> DEFINE k == outbox[o].pending
    <3>1. CASE k = None
      BY <1>1, <1>4, <3>1 DEF ServerCustomer, Right, Row
    <3>2. CASE k # None
      <4>1. k \in CustomerKey /\ k \in RowKey
        BY <1>1, <3>2, KeysAreKeys DEF Row
      <4>2. Made(customersMade, c, k)
        BY <1>4, <3>2, <4>1, KnownOfTask DEF ServerCustomer, TabGood, RowGood, Served
      <4>3. customersMade \subseteq Making
        BY DEF IntakeTypeOK
      <4>4. c \in Customer
        BY <4>2, <4>3 DEF Made, Making
      <4> QED
        BY <3>2, <4>2, <4>4 DEF Right
    <3> QED
      BY <3>1, <3>2
  <2> DEFINE y == [x EXCEPT !.phase = "marking"]
             z == [y EXCEPT !.seen = outbox[o]]
             w == [z EXCEPT !.customer = c]
  <2>2. Become(t, o, w)
    BY <1>4 DEF ResolveCustomer
  <2> HIDE DEF c, x
  <2>3. y \in Task /\ y.phase = "marking" /\ y.tries = x.tries
    BY <1>1 DEF Task
  <2> HIDE DEF y
  <2>4. z \in Task /\ z.phase = "marking" /\ z.tries = x.tries /\ z.seen = outbox[o]
    BY <1>1, <2>3 DEF Task
  <2> HIDE DEF z
  <2>5. /\ w \in Task /\ w.phase = "marking" /\ w.tries = x.tries /\ w.seen = outbox[o]
        /\ w.customer = c
    BY <2>1, <2>4 DEF Task
  <2> HIDE DEF w
  <2>6. TaskGood(customersMade, ordersMade, o, outbox[o], w)
    BY <1>1, <1>2, <2>1, <2>5, KnownOfTask DEF TaskGood, RowGood, x
  <2> QED
    BY <1>1, <2>2, <2>5, <2>6, TaskGoesOn DEF ResolveCustomer
<1> QED
  BY <1>3, <1>4

\* The request is lost, or its answer.
LEMMA LossKeeps ==
  ASSUME OInv, UNCHANGED ordersMade, NEW t \in Tab, NEW k \in RowKey, LoseAnswer(t, k) \/ LoseRequest(t, k)
  PROVE  OInv'
<1> DEFINE x == task[t][k]
<1>1. x \in Task /\ TaskGood(customersMade, ordersMade, k, outbox[k], x)
  BY KnownOfTask
<1>2. CASE LoseAnswer(t, k)
  <2> DEFINE y == RetryOrFail(t, k)
  <2>1. x.phase = "waiting" /\ Become(t, k, y) /\ UNCHANGED <<intakeVars, outbox, form, tab>>
    BY <1>2 DEF LoseAnswer, In
  <2>2. /\ y \in Task
        /\ \/ y.phase = "posting" /\ y.tries < Attempts /\ y.customer = x.customer
           \/ y.phase = "failing" /\ y.seen = outbox[k]
    BY RetryOrFailTask DEF OInv
  <2> HIDE DEF y
  <2>3. TaskGood(customersMade, ordersMade, k, outbox[k], y)
    <3>1. CASE y.phase = "failing"
      BY <2>1, <2>2, <3>1, FailingIsGood
    <3>2. CASE y.phase = "posting"
      BY <1>1, <2>1, <2>2, <3>2 DEF TaskGood
    <3> QED
      BY <2>2, <3>1, <3>2
  <2> QED
    BY <2>1, <2>2, <2>3, TaskGoesOn
<1>3. CASE LoseRequest(t, k)
  <2>1. x.phase = "posting" /\ UNCHANGED <<intakeVars, outbox, form, tab>>
    BY <1>3 DEF LoseRequest, In
  <2>2. CASE x.tries + 1 < Attempts
    <3> DEFINE y == [x EXCEPT !.tries = x.tries + 1]
    <3>1. x.tries + 1 \in 0 .. Attempts
      BY <1>1, <2>2, OutboxAssumption DEF Task
    <3>2. Become(t, k, y)
      BY <1>3, <2>2 DEF LoseRequest
    <3> HIDE DEF x
    <3>3. /\ y \in Task /\ y.phase = "posting" /\ y.tries = x.tries + 1
          /\ y.customer = x.customer
      BY <1>1, <2>1, <3>1 DEF Task
    <3> HIDE DEF y
    <3>4. TaskGood(customersMade, ordersMade, k, outbox[k], y)
      BY <1>1, <2>1, <2>2, <3>3 DEF TaskGood
    <3> QED
      BY <2>1, <3>2, <3>3, <3>4, TaskGoesOn
  <2>3. CASE ~(x.tries + 1 < Attempts)
    <3>1. Become(t, k, Failing(t, k))
      BY <1>3, <2>3 DEF LoseRequest
    <3>2. /\ Failing(t, k) \in Task /\ Failing(t, k).phase = "failing"
          /\ Failing(t, k).seen = outbox[k]
      BY FailingTask DEF OInv
    <3>3. TaskGood(customersMade, ordersMade, k, outbox[k], Failing(t, k))
      BY <2>1, <3>2, FailingIsGood
    <3> QED
      BY <2>1, <3>1, <3>2, <3>3, TaskGoesOn
  <2> QED
    BY <2>2, <2>3
<1> QED
  BY <1>2, <1>3

\* A row that was read is put back with a new status, and its task goes on.
LEMMA PutBackKeeps ==
  ASSUME OInv, UNCHANGED ordersMade, NEW t \in Tab, NEW k \in RowKey, NEW x \in Task, Become(t, k, x),
         x.phase # "waiting",
         NEW seen \in Row, NEW status \in Present, NEW server \in OrderRow \cup Customer \cup {None},
         PutBack(k, seen, status, server),
         Used(outbox[k]), seen.pending = outbox[k].pending, seen.customer = outbox[k].customer,
         k \in CustomerKey /\ server # None => Made(customersMade, server, k),
         k \in OrderKey /\ status = "synced" => Answers(customersMade, ordersMade, k, server),
         TaskGood(customersMade, ordersMade, k, outbox[k], x),
         NEW d \in Drain, TabGood(customersMade, outbox, d), tab' = [tab EXCEPT ![t] = d],
         UNCHANGED <<intakeVars, form>>
  PROVE  OInv'
<1> DEFINE half == [seen EXCEPT !.status = status]
           new == [half EXCEPT !.server = server]
<1>1. UNCHANGED <<orders, customers, customersMade, ordersMade, phase, req, form>>
  BY DEF intakeVars
<1>2. /\ half \in Row /\ half.status = status
      /\ half.pending = outbox[k].pending /\ half.customer = outbox[k].customer
  BY DEF Row
<1>3. outbox' = IF seen.status \in Present THEN [outbox EXCEPT ![k] = new] ELSE outbox
  BY DEF PutBack
<1> HIDE DEF half
<1>4. /\ new \in Row /\ new.status = status /\ new.server = server
      /\ new.pending = outbox[k].pending /\ new.customer = outbox[k].customer
  BY <1>2 DEF Row
<1> HIDE DEF new
<1>5. Frozen(outbox[k], new)
  BY <1>4 DEF Frozen, Used, Present
<1>6. RowGood(customersMade, ordersMade, k, new)
  BY <1>4 DEF RowGood, Served, Present
<1>7. /\ outbox' \in [RowKey -> Row]
      /\ outbox'[k] = outbox[k] \/ outbox'[k] = new
      /\ \A l \in RowKey \ {k} : outbox'[l] = outbox[l]
  BY <1>3, <1>4 DEF OInv, OutboxTypeOK
<1>8. /\ task' \in [Tab -> [RowKey -> Task]] /\ task'[t][k] = x
      /\ \A u \in Tab, l \in RowKey : u # t \/ l # k => task'[u][l] = task[u][l]
  BY TaskMoves DEF OInv
<1>9. /\ tab' \in [Tab -> Drain] /\ tab'[t] = d
      /\ \A u \in Tab \ {t} : tab'[u] = tab[u]
  BY DEF OInv, OutboxTypeOK
<1>10. Grows /\ Evolves(outbox, outbox')
  BY <1>1, <1>5, <1>7 DEF Grows, Evolves, Frozen
<1>11. OutboxTypeOK'
  BY <1>1, <1>7, <1>8, <1>9 DEF OInv, OutboxTypeOK
<1>12. Awaited'
  <2> SUFFICES ASSUME NEW u \in Tab, NEW l \in RowKey, task'[u][l].phase = "waiting"
               PROVE  /\ task'[u][l] = task[u][l]
                      /\ phase'[task[u][l].handler] # "idle"
                      /\ req'[task[u][l].handler].key = req[task[u][l].handler].key
    BY AwaitedKept DEF OInv
  <2>1. task'[u][l] = task[u][l]
    BY <1>8
  <2> QED
    BY <1>1, <2>1 DEF OInv, Awaited, Awaiting
<1>13. Traced' /\ (form.stage = "saved" => form.key # None)'
  BY <1>1 DEF OInv, Traced
<1>14. \A l \in RowKey : outbox'[l] = outbox[l] \/ RowGood(customersMade', ordersMade', l, outbox'[l])
  BY <1>1, <1>6, <1>7
<1>15. \A u \in Tab : tab'[u] = tab[u] \/ TabGood(customersMade', outbox', tab'[u])
  BY <1>1, <1>9, <1>10, KnownStaysKnownOfAll
<1>16. TaskGood(customersMade', ordersMade', k, outbox'[k], x)
  <2>1. Frozen(outbox[k], outbox'[k])
    BY <1>10 DEF Evolves
  <2> QED
    BY <1>1, <2>1, KnownStaysKnown
<1>17. \A u \in Tab, l \in RowKey :
         task'[u][l] = task[u][l] \/ TaskGood(customersMade', ordersMade', l, outbox'[l], task'[u][l])
  BY <1>8, <1>16
<1> QED
  BY <1>1, <1>10, <1>11, <1>12, <1>13, <1>14, <1>15, <1>17, StepKeeps

\* A row is marked as being synced.
LEMMA MarkSyncingKeeps ==
  ASSUME OInv, UNCHANGED ordersMade, NEW t \in Tab, NEW k \in RowKey, MarkSyncing(t, k) PROVE OInv'
<1> DEFINE x == task[t][k]
           y == [x EXCEPT !.phase = "posting"]
<1>1. x \in Task /\ TaskGood(customersMade, ordersMade, k, outbox[k], x) /\ x.phase = "marking"
  BY KnownOfTask DEF MarkSyncing, In
<1>2. /\ PutBack(k, x.seen, "syncing", x.seen.server) /\ Become(t, k, y)
      /\ UNCHANGED <<intakeVars, form, tab>>
  BY DEF MarkSyncing
<1>3. tab' = [tab EXCEPT ![t] = tab[t]] /\ tab[t] \in Drain /\ TabGood(customersMade, outbox, tab[t])
  BY <1>2, KnownOfTask DEF OInv, OutboxTypeOK
<1> HIDE DEF x
<1>4. y \in Task /\ y.phase = "posting" /\ y.tries = x.tries /\ y.customer = x.customer
  BY <1>1 DEF Task
<1> HIDE DEF y
<1>5. /\ x.seen \in Row /\ x.seen.server \in OrderRow \cup Customer \cup {None}
      /\ "syncing" \in Present /\ "syncing" # "synced"
  BY <1>1 DEF Task, Row, Present
<1>6. /\ Used(outbox[k]) /\ x.seen.pending = outbox[k].pending
      /\ x.seen.customer = outbox[k].customer /\ Served(customersMade, k, x.seen)
  BY <1>1 DEF TaskGood
<1>7. TaskGood(customersMade, ordersMade, k, outbox[k], y)
  BY <1>1, <1>4 DEF TaskGood
<1>8. k \in CustomerKey /\ x.seen.server # None => Made(customersMade, x.seen.server, k)
  BY <1>6 DEF Served
<1>9. k \in OrderKey /\ "syncing" = "synced" => Answers(customersMade, ordersMade, k, x.seen.server)
  OBVIOUS
<1> QED
  BY <1>2, <1>3, <1>4, <1>5, <1>6, <1>7, <1>8, <1>9, PutBackKeeps

\* A row is put back as an error.
LEMMA SaveErrorKeeps ==
  ASSUME OInv, UNCHANGED ordersMade, NEW t \in Tab, NEW k \in RowKey, SaveError(t, k) PROVE OInv'
<1> DEFINE x == task[t][k]
<1>1. x \in Task /\ TaskGood(customersMade, ordersMade, k, outbox[k], x) /\ x.phase = "failing"
  BY KnownOfTask DEF SaveError, In
<1>2. /\ PutBack(k, x.seen, "error", x.seen.server) /\ Become(t, k, NoTask)
      /\ UNCHANGED <<intakeVars, form, tab>>
  BY DEF SaveError
<1>3. tab' = [tab EXCEPT ![t] = tab[t]] /\ tab[t] \in Drain /\ TabGood(customersMade, outbox, tab[t])
  BY <1>2, KnownOfTask DEF OInv, OutboxTypeOK
<1> HIDE DEF x
<1>4. /\ x.seen \in Row /\ x.seen.server \in OrderRow \cup Customer \cup {None}
      /\ "error" \in Present
  BY <1>1 DEF Task, Row, Present
<1>5. /\ Used(outbox[k]) /\ x.seen.pending = outbox[k].pending
      /\ x.seen.customer = outbox[k].customer /\ Served(customersMade, k, x.seen)
  BY <1>1 DEF TaskGood
<1>6. k \in CustomerKey /\ x.seen.server # None => Made(customersMade, x.seen.server, k)
  BY <1>5 DEF Served
<1>7. k \in OrderKey /\ "error" = "synced" => Answers(customersMade, ordersMade, k, x.seen.server)
  OBVIOUS
<1>8. /\ NoTask \in Task /\ NoTask.phase # "waiting"
      /\ TaskGood(customersMade, ordersMade, k, outbox[k], NoTask)
  BY NoTaskTyped DEF TaskGood
<1> QED
  BY <1>2, <1>3, <1>4, <1>5, <1>6, <1>7, <1>8, PutBackKeeps

\* A row is put back as synced, and a customer is remembered for the orders.
LEMMA SaveSyncedKeeps ==
  ASSUME OInv, UNCHANGED ordersMade, NEW t \in Tab, NEW k \in RowKey, IntakeTypeOK, SaveSynced(t, k) PROVE OInv'
<1> DEFINE x == task[t][k]
           ids == [tab[t].ids EXCEPT ![k] = x.server]
           d == IF k \in CustomerKey THEN [tab[t] EXCEPT !.ids = ids] ELSE tab[t]
<1>1. x \in Task /\ TaskGood(customersMade, ordersMade, k, outbox[k], x) /\ x.phase = "saving"
  BY KnownOfTask DEF SaveSynced, In
<1>2. /\ PutBack(k, x.seen, "synced", x.server) /\ Become(t, k, NoTask)
      /\ UNCHANGED <<intakeVars, form>>
  BY DEF SaveSynced
<1>3. tab[t] \in Drain /\ TabGood(customersMade, outbox, tab[t]) /\ tab \in [Tab -> Drain]
  BY KnownOfTask DEF OInv, OutboxTypeOK
<1>4. tab' = [tab EXCEPT ![t] = d]
  <2>1. CASE k \in CustomerKey
    BY <1>3, <2>1 DEF SaveSynced, Drain
  <2>2. CASE k \notin CustomerKey
    BY <1>3, <2>2 DEF SaveSynced
  <2> QED
    BY <2>1, <2>2
<1> HIDE DEF x
<1>5. Answers(customersMade, ordersMade, k, x.server)
  BY <1>1 DEF TaskGood
<1>6. d \in Drain /\ TabGood(customersMade, outbox, d)
  <2>1. CASE k \in CustomerKey
    <3>1. Made(customersMade, x.server, k)
      BY <1>5, <2>1 DEF Answers
    <3>2. x.server \in Customer
      BY <3>1 DEF Made, IntakeTypeOK, Making
    <3>3. /\ ids \in [CustomerKey -> Customer \cup {None}]
          /\ ids[k] = x.server /\ \A l \in CustomerKey \ {k} : ids[l] = tab[t].ids[l]
      BY <1>3, <2>1, <3>2 DEF Drain
    <3> HIDE DEF ids
    <3>4. d \in Drain /\ d.ids = ids /\ d.queue = tab[t].queue
      BY <1>3, <2>1, <3>3 DEF Drain
    <3> HIDE DEF d
    <3> QED
      BY <1>3, <3>1, <3>3, <3>4 DEF TabGood
  <2>2. CASE k \notin CustomerKey
    BY <1>3, <2>2
  <2> QED
    BY <2>1, <2>2
<1> HIDE DEF d
<1>7. /\ x.seen \in Row /\ x.server \in OrderRow \cup Customer \cup {None}
      /\ "synced" \in Present
  BY <1>1 DEF Task, Present
<1>8. /\ Used(outbox[k]) /\ x.seen.pending = outbox[k].pending
      /\ x.seen.customer = outbox[k].customer
  BY <1>1 DEF TaskGood
<1>9. k \in CustomerKey /\ x.server # None => Made(customersMade, x.server, k)
  BY <1>5 DEF Answers
<1>10. /\ NoTask \in Task /\ NoTask.phase # "waiting"
       /\ TaskGood(customersMade, ordersMade, k, outbox[k], NoTask)
  BY NoTaskTyped DEF TaskGood
<1> QED
  BY <1>2, <1>4, <1>5, <1>6, <1>7, <1>8, <1>9, <1>10, PutBackKeeps

-----------------------------------------------------------------------------
(* Requests and answers *)

\* What the invariants know of a handler.
LEMMA KnownOfHandler ==
  ASSUME OInv, IntakeTypeOK, NEW h \in Handler
  PROVE  /\ req[h] \in Request /\ req \in [Handler -> Request]
         /\ phase \in [Handler -> {"idle", "done"} \cup OrderPhase \cup CustomerPhase]
         /\ HandlerGood(customersMade, ordersMade, outbox, phase[h], req[h])
         /\ phase[h] \in OrderPhase \cup CustomerPhase => req[h].key \in RowKey
         /\ orders \subseteq OrderRow /\ customers \subseteq CustomerRow
         /\ ordersMade \subseteq OrderRow
  BY KeysAreKeys DEF OInv, OutboxTypeOK, IntakeTypeOK, HandlerGood

\* A step of a handler on one request, in the terms of the outbox.
HandlerMoves(h) ==
    \E p \in Phases, r \in Request :
        /\ GoTo(h, p) /\ req' = [req EXCEPT ![h] = r]
        /\ p # "idle" /\ phase[h] # "idle" /\ r.key = req[h].key
        /\ Grows
        /\ HandlerGood(customersMade', ordersMade', outbox, p, r)
        /\ \A x \in ordersMade' : x \in ordersMade \/ OrderGood(customersMade', outbox, x)
        /\ Traced' /\ ordersMade' \subseteq OrderRow

\* Where no order is new or renumbered, none is made.
LEMMA NothingMade ==
  ASSUME Remember, \A x \in orders' : x.seq \in SeqsOf(x.prefix)
  PROVE  ordersMade' = ordersMade
  BY DEF Remember

\* In particular where the orders stay.
LEMMA NothingMadeHere ==
  ASSUME Remember, UNCHANGED orders
  PROVE  ordersMade' = ordersMade
<1>1. \A x \in orders' : x.seq \in SeqsOf(x.prefix)
  BY DEF SeqsOf
<1> QED
  BY <1>1, NothingMade

\* A handler answers.
LEMMA RespondMoves ==
  ASSUME OInv, Remember, IntakeTypeOK, NEW h \in Handler, NEW status \in Status,
         NEW answer \in OrderRow \cup Customer \cup {None}, Respond(h, status, answer),
         phase[h] \in OrderPhase \cup CustomerPhase, Grows,
         status = 201 => Answers(customersMade', ordersMade', req[h].key, answer),
         \A x \in ordersMade' : x \in ordersMade \/ OrderGood(customersMade', outbox, x),
         Traced', ordersMade' \subseteq OrderRow
  PROVE  HandlerMoves(h)
<1>1. PICK r \in Request : /\ GoTo(h, "done") /\ req' = [req EXCEPT ![h] = r]
                           /\ r.status = status /\ r.answer = answer /\ r.key = req[h].key
  BY RespondFields, KnownOfHandler
<1>2. "done" \notin OrderPhase \cup CustomerPhase /\ phase[h] # "idle" /\ "done" \in Phases
  BY DEF OrderPhase, CustomerPhase, Phases
<1>3. HandlerGood(customersMade', ordersMade', outbox, "done", r)
  BY <1>1, <1>2, KnownOfHandler DEF HandlerGood
<1> QED
  BY <1>1, <1>2, <1>3 DEF HandlerMoves

\* A handler answers and touches no row.
LEMMA RefusalMoves ==
  ASSUME OInv, Remember, IntakeTypeOK, NEW h \in Handler, NEW status \in Status \ {201},
         Respond(h, status, None),
         phase[h] \in OrderPhase \cup CustomerPhase, UNCHANGED <<orders, customers, customersMade>>
  PROVE  HandlerMoves(h)
<1>1. UNCHANGED ordersMade
  BY NothingMadeHere
<1>2. Grows /\ Traced' /\ ordersMade' \subseteq OrderRow
  BY <1>1, KnownOfHandler DEF Grows, OInv, Traced
<1> QED
  BY <1>1, <1>2, RespondMoves

\* A handler goes on to the next query about the same order or customer.
LEMMA GoOnMoves ==
  ASSUME OInv, Remember, IntakeTypeOK, NEW h \in Handler, NEW p, GoTo(h, p),
         NEW r \in Request, req' = [req EXCEPT ![h] = r],
         r.key = req[h].key, r.customer = req[h].customer,
         \/ phase[h] \in OrderPhase /\ p \in OrderPhase
         \/ phase[h] \in CustomerPhase /\ p \in CustomerPhase,
         UNCHANGED <<orders, customers, customersMade>>
  PROVE  HandlerMoves(h)
<1>1. UNCHANGED ordersMade
  BY NothingMadeHere
<1>2. Grows /\ Traced' /\ ordersMade' \subseteq OrderRow
  BY <1>1, KnownOfHandler DEF Grows, OInv, Traced
<1>3. /\ p # "idle" /\ phase[h] # "idle" /\ p # "done" /\ p \in Phases
      /\ p \in OrderPhase => p \notin CustomerPhase /\ phase[h] \in OrderPhase
      /\ p \in CustomerPhase => p \notin OrderPhase /\ phase[h] \in CustomerPhase
  BY DEF OrderPhase, CustomerPhase, Phases
<1>4. HandlerGood(customersMade', ordersMade', outbox, p, r)
  BY <1>1, <1>3, KnownOfHandler DEF HandlerGood
<1> QED
  BY <1>1, <1>2, <1>3, <1>4 DEF HandlerMoves

\* The queries of an order before its insert.
LEMMA OrderLookupsMove ==
  ASSUME OInv, Remember, IntakeTypeOK, NEW h \in Handler,
         CheckLimit(h) \/ FindByClientID(h) \/ RejectCustomer(h)
  PROVE  HandlerMoves(h)
<1>1. phase[h] \in OrderPhase /\ phase[h] \in {"limit", "lookup", "lock"}
      /\ UNCHANGED <<orders, customers, customersMade>>
  BY DEF CheckLimit, FindByClientID, RejectCustomer, At, OrderPhase
<1>2. req[h] \in Request /\ req = [req EXCEPT ![h] = req[h]]
  BY KnownOfHandler
<1>3. {"lookup", "lock"} \subseteq OrderPhase /\ {403, 400} \subseteq Status \ {201}
      /\ 201 \in Status
  BY DEF OrderPhase, Status
<1>4. CASE CheckLimit(h)
  <2>1. CASE GoTo(h, "lookup") /\ UNCHANGED req
    BY <1>1, <1>2, <1>3, <2>1, GoOnMoves
  <2>2. CASE Respond(h, 403, None)
    BY <1>1, <1>3, <2>2, RefusalMoves
  <2> QED
    BY <1>4, <2>1, <2>2 DEF CheckLimit
<1>5. CASE FindByClientID(h)
  <2>1. CASE GoTo(h, "lock") /\ UNCHANGED req
    BY <1>1, <1>2, <1>3, <2>1, GoOnMoves
  <2>2. ASSUME NEW o \in OrdersWithKey(req[h].key), Respond(h, 201, o)
        PROVE  HandlerMoves(h)
    <3>1. o \in orders /\ o.clientId = req[h].key /\ o \in OrderRow
      BY KnownOfHandler DEF OrdersWithKey
    <3>2. req[h].key \in OrderKey /\ req[h].key \notin CustomerKey
      BY <1>1, KnownOfHandler, KeysAreKeys DEF HandlerGood
    <3>3. PICK y \in ordersMade : o \in Versions(y)
      BY <3>1 DEF OInv, Traced
    <3>4. UNCHANGED ordersMade /\ y \in OrderRow
      BY <1>1, KnownOfHandler, NothingMadeHere
    <3>5. Answers(customersMade', ordersMade', req[h].key, o)
      BY <1>1, <3>1, <3>2, <3>3, <3>4, VersionsOfOrder DEF Answers
    <3>6. Grows /\ Traced' /\ ordersMade' \subseteq OrderRow
      BY <1>1, <3>4, KnownOfHandler DEF Grows, OInv, Traced
    <3> QED
      BY <1>1, <1>3, <2>2, <3>1, <3>4, <3>5, <3>6, RespondMoves
  <2> QED
    BY <1>5, <2>1, <2>2 DEF FindByClientID
<1>6. CASE RejectCustomer(h)
  BY <1>1, <1>3, <1>6, RefusalMoves DEF RejectCustomer
<1> QED
  BY <1>4, <1>5, <1>6

\* The prefix and the number of an order.
LEMMA NumberingMoves ==
  ASSUME OInv, Remember, IInv, NEW h \in Handler,
         AllocateNumber(h) \/ \E p \in Prefix : LockPrefix(h, p)
  PROVE  HandlerMoves(h)
<1>1. IntakeTypeOK /\ req[h] \in Request
  BY DEF IInv, IntakeTypeOK
<1>2. {"lock", "number", "insert"} \subseteq OrderPhase
  BY DEF OrderPhase
<1>3. CASE AllocateNumber(h)
  <2> DEFINE n == NextSeq(req[h].prefix)
             r == [req[h] EXCEPT !.seq = n]
  <2>1. n \in Nat
    BY <1>1, NextSeqIsFree DEF IInv, IntakeTypeOK
  <2> HIDE DEF n
  <2>2. r \in Request /\ r.key = req[h].key /\ r.customer = req[h].customer
    BY <1>1, <2>1 DEF Request
  <2>3. /\ GoTo(h, "insert") /\ req' = [req EXCEPT ![h] = r] /\ phase[h] = "number"
        /\ UNCHANGED <<orders, customers, customersMade>>
    BY <1>3 DEF AllocateNumber, At, n
  <2> HIDE DEF r
  <2> QED
    BY <1>1, <1>2, <2>2, <2>3, GoOnMoves
<1>4. ASSUME NEW p \in Prefix, LockPrefix(h, p)
      PROVE  HandlerMoves(h)
  <2> DEFINE r == [req[h] EXCEPT !.prefix = p]
  <2>1. r \in Request /\ r.key = req[h].key /\ r.customer = req[h].customer
    BY <1>1 DEF Request
  <2>2. /\ GoTo(h, "number") /\ req' = [req EXCEPT ![h] = r] /\ phase[h] = "lock"
        /\ UNCHANGED <<orders, customers, customersMade>>
    BY <1>4 DEF LockPrefix, At
  <2> HIDE DEF r
  <2> QED
    BY <1>1, <1>2, <2>1, <2>2, GoOnMoves
<1> QED
  BY <1>3, <1>4

\* The insert of an order: for the customer of the request, which is the one the
\* row of its key names.
LEMMA InsertOrderMoves ==
  ASSUME OInv, Remember, IInv, NEW h \in Handler, InsertOrder(h) PROVE HandlerMoves(h)
<1>1. /\ IntakeTypeOK /\ phase[h] = "insert" /\ phase[h] \in OrderPhase
      /\ UNCHANGED <<customers, customersMade>>
  BY DEF IInv, InsertOrder, At, OrderPhase
<1>2. 400 \in Status \ {201} /\ 201 \in Status
  BY DEF Status
<1>3. CASE Refused(h)
  BY <1>1, <1>2, <1>3, RefusalMoves DEF InsertOrder
<1>4. CASE ~Refused(h)
  <2>1. orders' = orders \cup {NewOrder(h)} /\ Respond(h, 201, NewOrder(h))
    BY <1>4 DEF InsertOrder
  <2>2. /\ NewOrder(h) \in OrderRow /\ NewOrder(h).clientId = req[h].key
        /\ NewOrder(h).customer = req[h].customer
        /\ NewOrder(h).prefix = req[h].prefix /\ NewOrder(h).seq = req[h].seq
    BY <1>1, NewOrderTyped DEF NewOrder
  <2>3. /\ req[h].key \in OrderKey /\ req[h].key \notin CustomerKey
        /\ Used(outbox[req[h].key]) /\ Right(customersMade, outbox[req[h].key], req[h].customer)
    BY <1>1, KnownOfHandler, KeysAreKeys DEF HandlerGood
  <2>4. PICK o \in OrderRow : o = NewOrder(h)
    BY <2>2
  <2>5. o.seq \notin SeqsOf(o.prefix)
    BY <1>4, <2>2, <2>4 DEF Refused, Duplicate
  <2>6. ordersMade' = ordersMade \cup {o}
    <3>1. \A x \in orders : x.seq \in SeqsOf(x.prefix)
      BY DEF SeqsOf
    <3>2. {x \in orders' : x.seq \notin SeqsOf(x.prefix)} = {o}
      BY <2>1, <2>4, <2>5, <3>1
    <3> QED
      BY <3>2 DEF Remember
  <2>7. Answers(customersMade', ordersMade', req[h].key, o)
    BY <2>2, <2>3, <2>4, <2>6, VersionsOfOrder DEF Answers
  <2>8. \A x \in ordersMade' : x \in ordersMade \/ OrderGood(customersMade', outbox, x)
    BY <1>1, <2>2, <2>3, <2>4, <2>6 DEF OrderGood
  <2>9. Grows /\ Traced' /\ ordersMade' \subseteq OrderRow
    BY <1>1, <2>1, <2>4, <2>6, KnownOfHandler, VersionsOfOrder DEF Grows, OInv, Traced
  <2>10. Respond(h, 201, o) /\ phase[h] \in OrderPhase \cup CustomerPhase
    BY <1>1, <2>1, <2>4
  <2> QED
    BY <1>1, <1>2, <2>7, <2>8, <2>9, <2>10, RespondMoves
<1> QED
  BY <1>3, <1>4

\* A request for a customer: the row that is inserted is made for its key.
LEMMA CustomerStepMoves ==
  ASSUME OInv, Remember, IntakeTypeOK, NEW h \in Handler, CustomerStep(h) PROVE HandlerMoves(h)
<1>1. {409, 500} \subseteq Status \ {201} /\ 201 \in Status
      /\ {"phone", "newcustomer"} = CustomerPhase
  BY DEF Status, CustomerPhase
<1>2. req[h] \in Request /\ req = [req EXCEPT ![h] = req[h]]
  BY KnownOfHandler
<1>3. CASE FindCustomer(h)
  <2>1. phase[h] = "phone" /\ UNCHANGED <<orders, customers, customersMade>>
    BY <1>3 DEF FindCustomer, At
  <2>2. CustomersWithKey(req[h].key) = {}
    BY DEF CustomersWithKey, OInv, Traced
  <2>3. Respond(h, 409, None) \/ (GoTo(h, "newcustomer") /\ UNCHANGED req)
    BY <1>3, <2>2 DEF FindCustomer
  <2>4. CASE Respond(h, 409, None)
    BY <1>1, <2>1, <2>4, RefusalMoves
  <2>5. CASE GoTo(h, "newcustomer") /\ UNCHANGED req
    BY <1>1, <1>2, <2>1, <2>5, GoOnMoves
  <2> QED
    BY <2>3, <2>4, <2>5
<1>4. ASSUME NEW id \in Customer, InsertCustomer(h, id)
      PROVE  HandlerMoves(h)
  <2>1. phase[h] \in CustomerPhase /\ orders' = orders /\ UNCHANGED ordersMade
    BY <1>1, <1>4, NothingMadeHere DEF InsertCustomer, At
  <2>2. CASE Respond(h, 500, None) /\ UNCHANGED <<customers, customersMade>>
    BY <1>1, <2>1, <2>2, RefusalMoves
  <2>3. CASE ~(Respond(h, 500, None) /\ UNCHANGED <<customers, customersMade>>)
    <3> DEFINE new == [id |-> id, phone |-> req[h].phone, clientId |-> None]
               making == [id |-> id, origin |-> req[h].key]
    <3>1. /\ customers' = customers \cup {new} /\ Respond(h, 201, id)
          /\ customersMade' = customersMade \cup {making}
      BY <1>4, <2>3 DEF InsertCustomer
    <3>2. new.clientId = None /\ making.id = id /\ making.origin = req[h].key
      OBVIOUS
    <3> HIDE DEF new, making
    <3>3. req[h].key \in CustomerKey /\ req[h].key \notin OrderKey
      BY <2>1, KnownOfHandler, KeysAreKeys DEF HandlerGood
    <3>4. Made(customersMade', id, req[h].key)
      BY <3>1, <3>2 DEF Made
    <3>5. Answers(customersMade', ordersMade', req[h].key, id)
      BY <3>3, <3>4 DEF Answers
    <3>6. Grows /\ Traced' /\ ordersMade' \subseteq OrderRow
      BY <2>1, <3>1, <3>2, KnownOfHandler DEF Grows, OInv, Traced
    <3>7. \A x \in ordersMade' : x \in ordersMade \/ OrderGood(customersMade', outbox, x)
      BY <2>1
    <3>8. Respond(h, 201, id) /\ phase[h] \in OrderPhase \cup CustomerPhase
      BY <2>1, <3>1
    <3> QED
      BY <1>1, <3>5, <3>6, <3>7, <3>8, RespondMoves
  <2> QED
    BY <2>2, <2>3
<1> QED
  BY <1>3, <1>4 DEF CustomerStep

\* A query fails.
LEMMA DatabaseErrorMoves ==
  ASSUME OInv, Remember, IntakeTypeOK, NEW h \in Handler, DatabaseError(h) PROVE HandlerMoves(h)
<1>1. {400, 500} \subseteq Status \ {201}
  BY DEF Status
<1>2. req[h] \in Request /\ req = [req EXCEPT ![h] = req[h]]
  BY KnownOfHandler
<1>3. CASE CreateFails(h)
  <2>1. phase[h] \in OrderPhase /\ Respond(h, 400, None) /\ UNCHANGED <<orders, customers, customersMade>>
    BY <1>3 DEF CreateFails, OrderPhase
  <2> QED
    BY <1>1, <2>1, RefusalMoves
<1>4. CASE CreateCustomerFails(h)
  <2>1. phase[h] \in CustomerPhase /\ Respond(h, 500, None) /\ UNCHANGED <<orders, customers, customersMade>>
    BY <1>4 DEF CreateCustomerFails, CustomerPhase, At
  <2> QED
    BY <1>1, <2>1, RefusalMoves
<1>5. CASE LookupFails(h)
  <2>1. PICK p \in {"lookup", "lock", "newcustomer"} :
           /\ GoTo(h, p)
           /\ \/ phase[h] \in OrderPhase /\ p \in OrderPhase
              \/ phase[h] \in CustomerPhase /\ p \in CustomerPhase
    BY <1>5 DEF LookupFails, At, OrderPhase, CustomerPhase
  <2>2. UNCHANGED <<orders, customers, customersMade>> /\ req' = [req EXCEPT ![h] = req[h]]
    BY <1>2, <1>5 DEF LookupFails
  <2> QED
    BY <1>2, <2>1, <2>2, GoOnMoves
<1> QED
  BY <1>3, <1>4, <1>5 DEF DatabaseError

\* A step of the API.
LEMMA ServerStepKeeps ==
  ASSUME OInv, Remember, IInv, NEW h \in Handler, ServerStep(h) PROVE OInv'
<1>1. IntakeTypeOK /\ UNCHANGED <<outbox, form, tab, task>>
  BY DEF IInv, ServerStep, clientVars
<1>2. /\ Evolves(outbox, outbox') /\ (form.stage = "saved" => form.key # None)'
      /\ ordersMade' \subseteq OrderRow => OutboxTypeOK'
  BY <1>1 DEF Evolves, Frozen, OInv, OutboxTypeOK
<1>3. CASE HandlerStep(h) \/ DatabaseError(h)
  <2>1. HandlerMoves(h)
    BY <1>1, <1>3, OrderLookupsMove, NumberingMoves, InsertOrderMoves, CustomerStepMoves,
       DatabaseErrorMoves DEF HandlerStep, OrderStep
  <2>2. PICK p \in Phases, r \in Request :
           /\ GoTo(h, p) /\ req' = [req EXCEPT ![h] = r]
           /\ p # "idle" /\ phase[h] # "idle" /\ r.key = req[h].key
           /\ Grows
           /\ HandlerGood(customersMade', ordersMade', outbox, p, r)
           /\ \A x \in ordersMade' : x \in ordersMade \/ OrderGood(customersMade', outbox, x)
           /\ Traced' /\ ordersMade' \subseteq OrderRow
    BY <2>1 DEF HandlerMoves
  <2>3. /\ phase'[h] = p /\ req'[h] = r
        /\ \A g \in Handler \ {h} : phase'[g] = phase[g] /\ req'[g] = req[g]
    BY <1>1, <2>2, KnownOfHandler DEF GoTo
  <2>4. Awaited'
    <3> SUFFICES ASSUME NEW t \in Tab, NEW k \in RowKey, task[t][k].phase = "waiting"
                 PROVE  /\ phase'[task[t][k].handler] # "idle"
                        /\ req'[task[t][k].handler].key = req[task[t][k].handler].key
      BY <1>1, AwaitedKept DEF OInv
    <3>1. task[t][k].handler \in Handler /\ phase[task[t][k].handler] # "idle"
      BY DEF OInv, Awaited, Awaiting
    <3> QED
      BY <2>2, <2>3, <3>1
  <2> QED
    BY <1>1, <1>2, <2>2, <2>3, <2>4, StepKeeps
<1>4. CASE Unawaited(h) /\ Finish(h)
  <2>1. UNCHANGED <<orders, customers, customersMade, ordersMade>>
    BY <1>4, NothingMadeHere DEF Finish
  <2>2. /\ phase'[h] = "idle" /\ req'[h] = NoRequest
        /\ \A g \in Handler \ {h} : phase'[g] = phase[g] /\ req'[g] = req[g]
    BY <1>1, <1>4, KnownOfHandler DEF Finish, GoTo
  <2>3. HandlerGood(customersMade', ordersMade', outbox', phase'[h], req'[h])
    BY <2>2 DEF HandlerGood, OrderPhase, CustomerPhase
  <2>4. Awaited'
    <3> SUFFICES ASSUME NEW t \in Tab, NEW k \in RowKey, task[t][k].phase = "waiting"
                 PROVE  /\ phase'[task[t][k].handler] # "idle"
                        /\ req'[task[t][k].handler].key = req[task[t][k].handler].key
      BY <1>1, AwaitedKept DEF OInv
    <3>1. /\ task[t][k].handler \in Handler /\ phase[task[t][k].handler] # "idle"
          /\ task[t][k].handler # h
      BY <1>4 DEF OInv, Awaited, Awaiting, Unawaited
    <3> QED
      BY <2>2, <3>1
  <2>5. Grows /\ Traced' /\ ordersMade' \subseteq OrderRow
    BY <1>1, <2>1, KnownOfHandler DEF Grows, OInv, Traced
  <2> QED
    BY <1>1, <1>2, <2>1, <2>2, <2>3, <2>4, <2>5, StepKeeps
<1> QED
  BY <1>3, <1>4 DEF ServerStep

\* Another device edits and deletes rows: none is made, and who waits for what is
\* the same.
LEMMA ElsewhereKeeps ==
  ASSUME OInv, Remember, IntakeTypeOK, Elsewhere PROVE OInv'
<1>1. UNCHANGED <<outbox, form, tab, task, customersMade, phase, req>>
  BY DEF Elsewhere, OtherStep, EditOrder, DeleteOrder, EditCustomer, DeleteCustomer, clientVars
<1>2. /\ \A x \in orders' : x.seq \in SeqsOf(x.prefix)
      /\ \A x \in orders' : \E y \in ordersMade : x \in Versions(y)
  <2>1. ASSUME NEW x \in orders
        PROVE  /\ x.seq \in SeqsOf(x.prefix)
               /\ \E y \in ordersMade : x \in Versions(y)
    BY DEF SeqsOf, OInv, Traced
  <2>2. ASSUME NEW o \in orders, NEW id \in Customer
        PROVE  LET x == [o EXCEPT !.customer = id] IN
               /\ x.seq \in SeqsOf(x.prefix)
               /\ \E y \in ordersMade : x \in Versions(y)
    <3>1. PICK y \in ordersMade : o \in Versions(y)
      BY <2>1
    <3>2. y \in OrderRow /\ o \in OrderRow
      BY DEF OInv, OutboxTypeOK, IntakeTypeOK
    <3>3. [o EXCEPT !.customer = id] \in Versions(y)
      BY <3>1, <3>2, VersionsOfOrder
    <3>4. /\ [o EXCEPT !.customer = id].seq = o.seq
          /\ [o EXCEPT !.customer = id].prefix = o.prefix
      BY <3>2 DEF OrderRow
    <3> QED
      BY <2>1, <3>3, <3>4
  <2> QED
    BY <2>1, <2>2 DEF Elsewhere, OtherStep, EditOrder, DeleteOrder, EditCustomer, DeleteCustomer
<1>3. UNCHANGED ordersMade
  BY <1>2, NothingMade
<1>4. \A c \in customers' : c.clientId = None
  <2>1. customers \subseteq CustomerRow /\ \A c \in customers : c.clientId = None
    BY DEF IntakeTypeOK, OInv, Traced
  <2>2. ASSUME NEW c \in customers, NEW p \in Phone \cup {None}, EditCustomer(c, p)
        PROVE  \A d \in customers' : d.clientId = None
    <3>1. [c EXCEPT !.phone = p].clientId = c.clientId
      BY <2>1 DEF CustomerRow
    <3> QED
      BY <2>1, <2>2, <3>1 DEF EditCustomer
  <2>3. CASE customers' \subseteq customers
    BY <2>1, <2>3
  <2> QED
    BY <2>2, <2>3 DEF Elsewhere, OtherStep, EditOrder, DeleteOrder, DeleteCustomer
<1>5. Traced'
  BY <1>2, <1>3, <1>4 DEF Traced
<1> QED
  BY <1>1, <1>3, <1>5 DEF OInv, OutboxTypeOK, Awaited, Awaiting

-----------------------------------------------------------------------------
(* A row posts its request and takes the answer *)

\* A request is posted: a free handler starts on it, and nobody else waits there.
LEMMA PostKeeps ==
  ASSUME OInv, UNCHANGED ordersMade, IntakeTypeOK, NEW t \in Tab, NEW k \in RowKey, NEW h \in Handler, Post(t, k, h)
  PROVE  OInv'
<1> DEFINE x == task[t][k]
           waits == [x EXCEPT !.phase = "waiting"]
           served == [waits EXCEPT !.handler = h]
           y == [served EXCEPT !.tries = x.tries + 1]
<1>1. x \in Task /\ TaskGood(customersMade, ordersMade, k, outbox[k], x) /\ x.phase = "posting"
  BY KnownOfTask DEF Post, In
<1>2. Become(t, k, y) /\ UNCHANGED <<outbox, form, tab>>
  BY DEF Post
<1> HIDE DEF x
<1>3. x.tries + 1 \in 0 .. Attempts
  BY <1>1, OutboxAssumption DEF TaskGood, Task
<1>4. /\ waits \in Task /\ waits.phase = "waiting" /\ waits.customer = x.customer
      /\ waits.tries = x.tries
  BY <1>1 DEF Task
<1> HIDE DEF waits
<1>5. /\ served \in Task /\ served.phase = "waiting" /\ served.customer = x.customer
      /\ served.handler = h /\ served.tries = x.tries
  BY <1>4 DEF Task
<1> HIDE DEF served
<1>6. /\ y \in Task /\ y.phase = "waiting" /\ y.customer = x.customer /\ y.handler = h
  BY <1>3, <1>5 DEF Task
<1> HIDE DEF y
<1>7. TaskGood(customersMade, ordersMade, k, outbox[k], y)
  BY <1>1, <1>6 DEF TaskGood
<1>8. /\ task' \in [Tab -> [RowKey -> Task]] /\ task'[t][k] = y
      /\ \A u \in Tab, l \in RowKey : u # t \/ l # k => task'[u][l] = task[u][l]
  BY <1>2, <1>6, TaskMoves DEF OInv
<1>9. \E p, r :
         /\ phase[h] = "idle" /\ GoTo(h, p) /\ req' = [req EXCEPT ![h] = r]
         /\ p # "idle" /\ r.key = k
         /\ HandlerGood(customersMade, ordersMade, outbox, p, r)
         /\ UNCHANGED <<orders, customers, customersMade>>
  <2> DEFINE half == [NoRequest EXCEPT !.key = k]
             ofOrder == [half EXCEPT !.customer = x.customer]
             ofCustomer == [half EXCEPT !.phone = outbox[k].phone]
  <2>1. half \in Request /\ half.key = k
    BY KeysAreKeys DEF NoRequest, Request
  <2>2. CASE k \in OrderKey
    <3>1. ArriveOrder(h, k, x.customer)
      BY <2>2 DEF Post, x
    <3>2. /\ phase[h] = "idle" /\ GoTo(h, "limit") /\ req' = [req EXCEPT ![h] = ofOrder]
          /\ UNCHANGED <<orders, customers, customersMade>>
      BY <3>1 DEF ArriveOrder, At
    <3>3. Right(customersMade, outbox[k], x.customer) /\ Used(outbox[k])
      BY <1>1, <2>2 DEF TaskGood
    <3> HIDE DEF half
    <3>4. ofOrder.key = k /\ ofOrder.customer = x.customer
      BY <2>1, <3>3 DEF Request, Right
    <3> HIDE DEF ofOrder
    <3>5. HandlerGood(customersMade, ordersMade, outbox, "limit", ofOrder)
      BY <2>2, <3>3, <3>4 DEF HandlerGood, OrderPhase, CustomerPhase
    <3> QED
      BY <3>2, <3>4, <3>5
  <2>3. CASE k \notin OrderKey
    <3>1. ArriveCustomer(h, k, outbox[k].phone) /\ k \in CustomerKey
      BY <2>3, KeysAreKeys DEF Post
    <3>2. /\ phase[h] = "idle" /\ GoTo(h, "phone") /\ req' = [req EXCEPT ![h] = ofCustomer]
          /\ UNCHANGED <<orders, customers, customersMade>>
      BY <3>1 DEF ArriveCustomer, At
    <3>3. outbox[k].phone \in Phone \cup {None}
      BY KnownOfTask DEF Row
    <3> HIDE DEF half
    <3>4. ofCustomer.key = k
      BY <2>1, <3>3 DEF Request
    <3> HIDE DEF ofCustomer
    <3>5. HandlerGood(customersMade, ordersMade, outbox, "phone", ofCustomer)
      BY <3>1, <3>4 DEF HandlerGood, OrderPhase, CustomerPhase
    <3> QED
      BY <3>2, <3>4, <3>5
  <2> QED
    BY <2>2, <2>3
<1>10. /\ phase[h] = "idle" /\ phase'[h] # "idle" /\ req'[h].key = k
       /\ \A g \in Handler \ {h} : phase'[g] = phase[g] /\ req'[g] = req[g]
       /\ HandlerGood(customersMade, ordersMade, outbox, phase'[h], req'[h])
       /\ UNCHANGED <<orders, customers, customersMade>>
  BY <1>9, KnownOfHandler DEF GoTo
<1>11. Grows /\ Evolves(outbox, outbox')
  BY <1>2, <1>10 DEF Grows, Evolves, Frozen
<1>12. OutboxTypeOK'
  BY <1>2, <1>8 DEF OInv, OutboxTypeOK
<1>13. Awaited'
  <2>1. \A u \in Tab, l \in RowKey : task[u][l].phase = "waiting" =>
           /\ task[u][l].handler \in Handler \ {h}
           /\ phase[task[u][l].handler] # "idle" /\ req[task[u][l].handler].key = l
    BY <1>10 DEF OInv, Awaited, Awaiting
  <2>2. \A u \in Tab, l \in RowKey : task'[u][l].phase = "waiting" =>
           /\ task'[u][l].handler \in Handler
           /\ phase'[task'[u][l].handler] # "idle" /\ req'[task'[u][l].handler].key = l
    BY <1>6, <1>8, <1>10, <2>1
  <2>3. \A u, v \in Tab, l, m \in RowKey :
           /\ task'[u][l].phase = "waiting" /\ task'[v][m].phase = "waiting"
           /\ task'[u][l].handler = task'[v][m].handler
           => u = v /\ l = m
    <3> SUFFICES ASSUME NEW u \in Tab, NEW v \in Tab, NEW l \in RowKey, NEW m \in RowKey,
                        task'[u][l].phase = "waiting", task'[v][m].phase = "waiting",
                        task'[u][l].handler = task'[v][m].handler
                 PROVE  u = v /\ l = m
      OBVIOUS
    <3>1. CASE (u = t /\ l = k) \/ (v = t /\ m = k)
      BY <1>6, <1>8, <2>1, <3>1
    <3>2. CASE ~(u = t /\ l = k) /\ ~(v = t /\ m = k)
      BY <1>8, <3>2 DEF OInv, Awaited, Awaiting
    <3> QED
      BY <3>1, <3>2
  <2> QED
    BY <2>2, <2>3 DEF Awaited, Awaiting
<1>14. Traced' /\ (form.stage = "saved" => form.key # None)'
  BY <1>2, <1>10 DEF OInv, Traced
<1>15. \A u \in Tab, l \in RowKey :
         task'[u][l] = task[u][l] \/ TaskGood(customersMade', ordersMade', l, outbox'[l], task'[u][l])
  BY <1>2, <1>7, <1>8, <1>10
<1>16. \A g \in Handler :
          \/ phase'[g] = phase[g] /\ req'[g] = req[g]
          \/ HandlerGood(customersMade', ordersMade', outbox', phase'[g], req'[g])
  BY <1>2, <1>10
<1> QED
  BY <1>2, <1>10, <1>11, <1>12, <1>13, <1>14, <1>15, <1>16, StepKeeps

\* An answer arrives, and the handler is free again: nobody else waits for it.
LEMMA ReceiveKeeps ==
  ASSUME OInv, UNCHANGED ordersMade, IntakeTypeOK, NEW t \in Tab, NEW k \in RowKey, Receive(t, k) PROVE OInv'
<1> DEFINE x == task[t][k]
           h == x.handler
           heard == [x EXCEPT !.phase = "saving"]
           freed == [heard EXCEPT !.handler = None]
           read == [freed EXCEPT !.seen = outbox[k]]
           saving == [read EXCEPT !.server = req[h].answer]
           y == CASE req[h].status = 201 -> saving
                  [] req[h].status = 500 -> RetryOrFail(t, k)
                  [] OTHER -> [Failing(t, k) EXCEPT !.handler = None]
<1>1. /\ x \in Task /\ TaskGood(customersMade, ordersMade, k, outbox[k], x) /\ x.phase = "waiting"
      /\ outbox[k] \in Row /\ RowGood(customersMade, ordersMade, k, outbox[k])
  BY KnownOfTask DEF Receive, In
<1>2. Become(t, k, y) /\ Finish(h) /\ phase[h] = "done" /\ UNCHANGED <<outbox, form, tab>>
  BY DEF Receive, At
<1>3. h \in Handler /\ req[h].key = k /\ req[h] \in Request
      /\ HandlerGood(customersMade, ordersMade, outbox, phase[h], req[h])
  BY <1>1, KnownOfHandler DEF OInv, Awaited, Awaiting
<1>4. /\ y \in Task /\ y.phase # "waiting" /\ TaskGood(customersMade, ordersMade, k, outbox[k], y)
  <2>1. CASE req[h].status = 201
    <3>1. Answers(customersMade, ordersMade, k, req[h].answer)
      BY <1>2, <1>3, <2>1 DEF HandlerGood
    <3>2. req[h].answer \in OrderRow \cup Customer \cup {None}
      BY <1>3 DEF Request
    <3>3. y = saving
      BY <2>1
    <3> DEFINE a == req[h].answer
    <3> HIDE DEF x, h
    <3>4. heard \in Task /\ heard.phase = "saving"
      BY <1>1 DEF Task
    <3> HIDE DEF heard
    <3>5. freed \in Task /\ freed.phase = "saving"
      BY <3>4 DEF Task
    <3> HIDE DEF freed
    <3>6. read \in Task /\ read.phase = "saving" /\ read.seen = outbox[k]
      BY <1>1, <3>5 DEF Task
    <3> HIDE DEF read
    <3>7. /\ saving \in Task /\ saving.phase = "saving" /\ saving.seen = outbox[k]
          /\ saving.server = a
      BY <3>2, <3>6 DEF Task
    <3> HIDE DEF saving, y
    <3> QED
      BY <1>1, <3>1, <3>3, <3>7 DEF TaskGood, RowGood
  <2>2. CASE req[h].status = 500
    <3>1. y = RetryOrFail(t, k)
      BY <2>2
    <3> HIDE DEF y, h
    <3>2. /\ y \in Task
          /\ \/ y.phase = "posting" /\ y.tries < Attempts /\ y.customer = x.customer
             \/ y.phase = "failing" /\ y.seen = outbox[k]
      BY <3>1, RetryOrFailTask DEF OInv
    <3>3. CASE y.phase = "failing"
      BY <1>1, <3>2, <3>3, FailingIsGood
    <3>4. CASE y.phase = "posting"
      BY <1>1, <3>2, <3>4 DEF TaskGood
    <3> QED
      BY <3>2, <3>3, <3>4
  <2>3. CASE req[h].status # 201 /\ req[h].status # 500
    <3> DEFINE f == Failing(t, k)
    <3>1. y = [f EXCEPT !.handler = None]
      BY <2>3
    <3>2. f \in Task /\ f.phase = "failing" /\ f.seen = outbox[k]
      BY FailingTask DEF OInv
    <3> HIDE DEF f, y, h
    <3>3. y \in Task /\ y.phase = "failing" /\ y.seen = outbox[k]
      BY <3>1, <3>2 DEF Task
    <3>4. TaskGood(customersMade, ordersMade, k, outbox[k], y)
      BY <1>1, <3>3, FailingIsGood
    <3> QED
      BY <3>3, <3>4
  <2> QED
    BY <2>1, <2>2, <2>3
<1> HIDE DEF y
<1>5. /\ task' \in [Tab -> [RowKey -> Task]] /\ task'[t][k] = y
      /\ \A u \in Tab, l \in RowKey : u # t \/ l # k => task'[u][l] = task[u][l]
  BY <1>2, <1>4, TaskMoves DEF OInv
<1>6. /\ phase'[h] = "idle"
      /\ \A g \in Handler \ {h} : phase'[g] = phase[g] /\ req'[g] = req[g]
      /\ UNCHANGED <<orders, customers, customersMade>>
  BY <1>2, <1>3, KnownOfHandler DEF Finish, GoTo
<1>7. Grows /\ Evolves(outbox, outbox')
  BY <1>2, <1>6 DEF Grows, Evolves, Frozen
<1>8. OutboxTypeOK'
  BY <1>2, <1>5 DEF OInv, OutboxTypeOK
<1>9. Awaited'
  <2> SUFFICES ASSUME NEW u \in Tab, NEW l \in RowKey, task'[u][l].phase = "waiting"
               PROVE  /\ task'[u][l] = task[u][l]
                      /\ phase'[task[u][l].handler] # "idle"
                      /\ req'[task[u][l].handler].key = req[task[u][l].handler].key
    BY AwaitedKept DEF OInv
  <2>1. task'[u][l] = task[u][l] /\ (u # t \/ l # k)
    BY <1>4, <1>5
  <2>2. /\ task[u][l].handler \in Handler \ {h}
        /\ phase[task[u][l].handler] # "idle"
    BY <1>1, <2>1 DEF OInv, Awaited, Awaiting
  <2> QED
    BY <1>6, <2>1, <2>2
<1>10. Traced' /\ (form.stage = "saved" => form.key # None)'
  BY <1>2, <1>6 DEF OInv, Traced
<1>11. \A u \in Tab, l \in RowKey :
         task'[u][l] = task[u][l] \/ TaskGood(customersMade', ordersMade', l, outbox'[l], task'[u][l])
  BY <1>2, <1>4, <1>5, <1>6
<1>12. \A g \in Handler :
          \/ phase'[g] = phase[g] /\ req'[g] = req[g]
          \/ HandlerGood(customersMade', ordersMade', outbox', phase'[g], req'[g])
  <2>1. HandlerGood(customersMade', ordersMade', outbox', phase'[h], req'[h])
    BY <1>6 DEF HandlerGood, OrderPhase, CustomerPhase
  <2> QED
    BY <1>6, <2>1
<1> QED
  BY <1>2, <1>6, <1>7, <1>8, <1>9, <1>10, <1>11, <1>12, StepKeeps

-----------------------------------------------------------------------------
(* The browser uses the intake as it is *)

\* The key a row is posted under and the customer it is posted for are such as
\* the intake expects: what the browser sends is a request of the intake.
LEMMA PostArrives ==
  ASSUME OInv, NEW t \in Tab, NEW k \in RowKey, NEW h \in Handler, Post(t, k, h)
  PROVE  Next
<1>1. /\ TaskGood(customersMade, ordersMade, k, outbox[k], task[t][k]) /\ outbox[k] \in Row
      /\ task[t][k].phase = "posting"
  BY KnownOfTask DEF Post, In
<1>2. k \in Key \cup {None} /\ outbox[k].phone \in Phone \cup {None}
  BY <1>1, KeysAreKeys DEF Row
<1>3. CASE k \in OrderKey
  <2>1. PICK c \in Customer : c = task[t][k].customer
    BY <1>1, <1>3 DEF TaskGood, Right
  <2>2. ArriveOrder(h, k, c)
    BY <1>3, <2>1 DEF Post
  <2> QED
    BY <1>2, <2>2 DEF Next
<1>4. CASE k \notin OrderKey
  <2>1. PICK p \in Phone \cup {None} : p = outbox[k].phone
    BY <1>2
  <2>2. ArriveCustomer(h, k, p)
    BY <1>4, <2>1 DEF Post
  <2> QED
    BY <1>2, <2>2 DEF Next
<1> QED
  BY <1>3, <1>4

\* An answer is taken from a handler that is done.
LEMMA ReceiveFinishes ==
  ASSUME OInv, NEW t \in Tab, NEW k \in RowKey, Receive(t, k)
  PROVE  Next
<1>1. PICK h \in Handler : h = task[t][k].handler
  BY DEF Receive, In, OInv, Awaited, Awaiting
<1>2. Finish(h)
  BY <1>1 DEF Receive
<1> QED
  BY <1>2 DEF Next

\* Every step of the browser and the API is a step of the intake, or one that
\* the API does not notice.
LEMMA StepOfIntake == OInv /\ [OutboxNext]_outboxVars => [Next]_intakeVars
<1> SUFFICES ASSUME OInv, [OutboxNext]_outboxVars PROVE Next \/ UNCHANGED intakeVars
  OBVIOUS
<1>1. CASE UNCHANGED outboxVars
  BY <1>1 DEF outboxVars
<1>2. CASE FormStep
  BY <1>2 DEF FormStep, PickWalkIn, SaveWalkIn, SaveOrder, SaveOrderOf
<1>3. CASE (\E o \in OrderKey : DeleteRow(o)) \/ \E k \in RowKey : PurgeSynced(k)
  BY <1>3 DEF DeleteRow, PurgeSynced
<1>4. ASSUME NEW t \in Tab, StartDrain(t) \/ DrainStep(t) \/ CloseTab(t)
      PROVE  UNCHANGED intakeVars
  BY <1>4 DEF StartDrain, DrainStep, StartChunk, EndPhase, CloseTab
<1>5. ASSUME NEW t \in Tab, NEW k \in RowKey,
             TaskStep(t, k) \/ LoseAnswer(t, k) \/ LoseRequest(t, k)
      PROVE  Next \/ UNCHANGED intakeVars
  <2>1. CASE Receive(t, k)
    BY <2>1, ReceiveFinishes
  <2>2. CASE \E h \in Handler : Post(t, k, h)
    BY <2>2, PostArrives
  <2> QED
    BY <1>5, <2>1, <2>2 DEF TaskStep, ResolveCustomer, MarkSyncing, SaveSynced, SaveError,
       LoseAnswer, LoseRequest
<1>6. ASSUME NEW h \in Handler, ServerStep(h)
      PROVE  Next
  BY <1>6 DEF ServerStep, Next
<1>7. CASE Elsewhere
  BY <1>7 DEF Elsewhere, Next
<1> QED
  BY <1>1, <1>2, <1>3, <1>4, <1>5, <1>6, <1>7 DEF OutboxNext, BrowserStep

-----------------------------------------------------------------------------
(* The invariant *)

\* At the start the outbox is empty and nothing is under way.
LEMMA InitOInv == OutboxInit => OInv
<1> SUFFICES ASSUME OutboxInit PROVE OInv
  OBVIOUS
<1>1. /\ outbox = [k \in RowKey |-> NoRow] /\ form = EmptyForm
      /\ tab = [t \in Tab |-> NoDrain]
      /\ task = [t \in Tab |-> [k \in RowKey |-> NoTask]]
      /\ orders = {} /\ customers = {} /\ ordersMade = {}
      /\ phase = [h \in Handler |-> "idle"]
  BY DEF OutboxInit, Init
<1>2. OutboxTypeOK /\ form.stage = "empty"
  BY <1>1, NoRowTyped, NoDrainTyped, NoTaskTyped DEF OutboxTypeOK, EmptyForm, Form
<1>3. \A k \in RowKey : RowGood(customersMade, ordersMade, k, outbox[k])
  BY <1>1, NoRowTyped DEF RowGood, Served
<1>4. \A t \in Tab : TabGood(customersMade, outbox, tab[t])
  BY <1>1, NoDrainTyped
<1>5. \A t \in Tab, k \in RowKey : task[t][k].phase = "none"
  BY <1>1, NoTaskTyped
<1>6. \A h \in Handler : phase[h] = "idle"
  BY <1>1
<1>7. \A h \in Handler : HandlerGood(customersMade, ordersMade, outbox, phase[h], req[h])
  BY <1>6 DEF HandlerGood, OrderPhase, CustomerPhase
<1>8. \A t \in Tab, k \in RowKey : TaskGood(customersMade, ordersMade, k, outbox[k], task[t][k])
  BY <1>5 DEF TaskGood
<1> QED
  BY <1>1, <1>2, <1>3, <1>4, <1>5, <1>7, <1>8 DEF OInv, Traced, Awaited, Awaiting

\* No step of the browser makes an order.
LEMMA BrowserMakesNothing ==
  ASSUME BrowserStep, Remember PROVE UNCHANGED ordersMade
<1>1. CASE FormStep
  BY <1>1, NothingMadeHere
     DEF FormStep, PickWalkIn, SaveWalkIn, SaveOrder, SaveOrderOf, intakeVars
<1>2. CASE (\E o \in OrderKey : DeleteRow(o)) \/ \E k \in RowKey : PurgeSynced(k)
  BY <1>2, NothingMadeHere DEF DeleteRow, PurgeSynced, intakeVars
<1>3. CASE \E t \in Tab : StartDrain(t) \/ DrainStep(t) \/ CloseTab(t)
  BY <1>3, NothingMadeHere
     DEF StartDrain, DrainStep, StartChunk, EndPhase, CloseTab, intakeVars
<1>4. ASSUME NEW t \in Tab, NEW k \in RowKey,
             TaskStep(t, k) \/ LoseAnswer(t, k) \/ LoseRequest(t, k)
      PROVE  UNCHANGED orders
  <2>1. CASE \E h \in Handler : Post(t, k, h)
    BY <2>1 DEF Post, ArriveOrder, ArriveCustomer
  <2>2. CASE Receive(t, k)
    BY <2>2 DEF Receive, Finish
  <2> QED
    BY <1>4, <2>1, <2>2 DEF TaskStep, ResolveCustomer, MarkSyncing, SaveSynced, SaveError,
       LoseAnswer, LoseRequest, intakeVars
<1> QED
  BY <1>1, <1>2, <1>3, <1>4, NothingMadeHere DEF BrowserStep

\* Every step keeps the invariant.
LEMMA StepOInv == OInv /\ IInv /\ [OutboxNext]_outboxVars => OInv'
<1> SUFFICES ASSUME OInv, IInv, [OutboxNext]_outboxVars PROVE OInv'
  OBVIOUS
<1>1. IntakeTypeOK
  BY DEF IInv
<1>2. CASE UNCHANGED outboxVars
  BY <1>2 DEF outboxVars, intakeVars, clientVars, OInv, OutboxTypeOK, Traced, Awaited, Awaiting
<1>3. CASE BrowserStep /\ Remember
  <2>1. UNCHANGED ordersMade
    BY <1>3, BrowserMakesNothing
  <2>2. CASE FormStep
    BY <2>1, <2>2, FormStepKeeps
  <2>3. CASE (\E o \in OrderKey : DeleteRow(o)) \/ \E k \in RowKey : PurgeSynced(k)
    BY <2>1, <2>3, RowGoneKeeps
  <2>4. ASSUME NEW t \in Tab, StartDrain(t) \/ DrainStep(t) \/ CloseTab(t)
        PROVE  OInv'
    BY <2>1, <2>4, StartDrainKeeps, StartChunkKeeps, EndPhaseKeeps, CloseTabKeeps DEF DrainStep
  <2>5. ASSUME NEW t \in Tab, NEW k \in RowKey,
               TaskStep(t, k) \/ LoseAnswer(t, k) \/ LoseRequest(t, k)
        PROVE  OInv'
    BY <1>1, <2>1, <2>5, ResolveCustomerKeeps, MarkSyncingKeeps, ReceiveKeeps, SaveSyncedKeeps,
       SaveErrorKeeps, PostKeeps, LossKeeps DEF TaskStep
  <2> QED
    BY <1>3, <2>2, <2>3, <2>4, <2>5 DEF BrowserStep
<1>4. CASE Elsewhere /\ Remember
  BY <1>1, <1>4, ElsewhereKeeps
<1>5. ASSUME NEW h \in Handler, ServerStep(h), Remember
      PROVE  OInv'
  BY <1>5, ServerStepKeeps
<1> QED
  BY <1>2, <1>3, <1>4, <1>5 DEF OutboxNext

-----------------------------------------------------------------------------
(* Theorems *)

\* Both invariants hold throughout.
LEMMA OutboxInvariant == OutboxSpec => [](IInv /\ OInv)
<1>1. OutboxInit => IInv /\ OInv
  BY InitIInv, InitOInv DEF OutboxInit
<1>2. IInv /\ OInv /\ [OutboxNext]_outboxVars => (IInv /\ OInv)'
  BY StepOfIntake, StepIInv, StepOInv
<1> QED
  BY <1>1, <1>2, PTL DEF OutboxSpec

\* Whatever the tabs, the kasir and the network do, the API sees requests of the
\* intake only: what is proved of the intake holds behind the browser, too.
THEOREM BrowserUsesIntake == OutboxSpec => Spec
<1>1. OutboxInit => Init
  BY DEF OutboxInit
<1>2. IInv /\ OInv /\ [OutboxNext]_outboxVars => [Next]_intakeVars
  BY StepOfIntake
<1> QED
  BY <1>1, <1>2, OutboxInvariant, PTL DEF OutboxSpec, Spec

\* However often a row is posted, and from however many tabs, there is one order
\* of its key on the server.
THEOREM RetriesMakeOneOrder == OutboxSpec => []OneOrderPerKey
  BY OutboxInvariant, PTL DEF IInv

\* The stores, the form, the drains and their tasks keep their types; no row is
\* posted more often than postWithRetry allows.
THEOREM OutboxTypeCorrect == OutboxSpec => []OutboxTypeOK
<1>1. OInv => OutboxTypeOK
  BY DEF OInv
<1> QED
  BY <1>1, OutboxInvariant, PTL

\* A row shown as synced, or purged since, was made an order of its key, the one
\* it names, even where that order has been edited or deleted since.
THEOREM SyncedWereMade == OutboxSpec => []SyncedOrdersWereMade
<1>1. OInv => SyncedOrdersWereMade
  BY KeysAreKeys DEF OInv, SyncedOrdersWereMade, RowGood, Answers
<1> QED
  BY <1>1, OutboxInvariant, PTL

\* An order is made for the customer it was taken for, however the drains of the
\* tabs interleave and put back rows they read earlier.
THEOREM CustomersKept == OutboxSpec => []OrdersMadeForTheirCustomer
<1>1. OInv => OrdersMadeForTheirCustomer
  BY DEF OInv, OrdersMadeForTheirCustomer, OrderGood, Right, Made
<1> QED
  BY <1>1, OutboxInvariant, PTL
=============================================================================
