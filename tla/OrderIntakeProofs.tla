-------------------------- MODULE OrderIntakeProofs --------------------------
(* Proofs about the intake of orders and customers, for every instance. *)
EXTENDS OrderIntake, SumTheorems

Phases == {"idle", "done"} \cup OrderPhase \cup CustomerPhase

\* No row of S has the number of a request.
FreeIn(S, r) == \A o \in S : o.prefix = r.prefix => o.seq # r.seq

\* A request knows its customer, then its prefix, then its number.
RequestsFilled ==
    \A h \in Handler :
        /\ phase[h] \in OrderPhase => req[h].customer \in Customer
        /\ phase[h] \in {"number", "insert"} => req[h].prefix \in Prefix
        /\ phase[h] = "insert" => req[h].seq # 0 /\ FreeIn(orders, req[h])

\* The advisory lock: one transaction at a time numbers orders of a prefix.
PrefixExclusive ==
    \A g, h \in Handler :
        phase[g] \in {"number", "insert"} /\ HoldsPrefix(h, req[g].prefix) => g = h

\* The inductive invariant.
IInv ==
    /\ IntakeTypeOK /\ IsFiniteSet(orders)
    /\ RequestsFilled /\ PrefixExclusive /\ OneOrderPerKey

\* The database of rows, without the requests.
RowsOK(S, T, M) ==
    /\ S \subseteq OrderRow /\ T \subseteq CustomerRow /\ M \subseteq Making /\ IsFiniteSet(S)
    /\ \A o, p \in S : (o.clientId = p.clientId /\ o.clientId # None) => o = p

-----------------------------------------------------------------------------
(* Numbers *)

\* A finite set of rows that is not empty has a highest number.
LEMMA HighestExists ==
  ASSUME NEW S, IsFiniteSet(S), S # {}, \A o \in S : o.seq \in Nat
  PROVE  \E o \in S : \A x \in S : x.seq <= o.seq
<1> DEFINE F == {T \in SUBSET S : T = {} \/ \E o \in T : \A x \in T : x.seq <= o.seq}
<1>1. ASSUME NEW T \in SUBSET S, \A U \in SUBSET T : U # T => U \in F
      PROVE  T \in F
  <2>1. CASE T = {}
    BY <2>1
  <2>2. CASE T # {}
    <3>1. PICK y \in T : TRUE
      BY <2>2
    <3>2. T \ {y} \in F
      BY <1>1, <3>1
    <3>3. CASE T \ {y} = {}
      <4>1. T = {y}
        BY <3>1, <3>3
      <4> QED
        BY <4>1
    <3>4. CASE T \ {y} # {}
      <4>1. PICK o \in T \ {y} : \A x \in T \ {y} : x.seq <= o.seq
        BY <3>2, <3>4
      <4>2. o.seq \in Nat /\ y.seq \in Nat /\ \A x \in T : x.seq \in Nat
        BY <3>1
      <4>3. CASE y.seq <= o.seq
        BY <4>1, <4>3
      <4>4. CASE ~(y.seq <= o.seq)
        <5>1. \A x \in T : x.seq <= y.seq
          BY <4>1, <4>2, <4>4
        <5> QED
          BY <3>1, <5>1
      <4> QED
        BY <4>3, <4>4
    <3> QED
      BY <3>3, <3>4
  <2> QED
    BY <2>1, <2>2
<1> HIDE DEF F
<1>2. SUBSET S \subseteq F
  BY <1>1, SubsetInduction
<1>3. S \in F
  BY <1>2
<1> USE DEF F
<1> QED
  BY <1>3

\* The next number is positive and nobody has it.
LEMMA NextSeqIsFree ==
  ASSUME NEW p, IsFiniteSet(orders), orders \subseteq OrderRow
  PROVE  /\ NextSeq(p) \in Nat \ {0}
         /\ \A o \in orders : o.prefix = p => o.seq # NextSeq(p)
<1> DEFINE S == {x \in orders : x.prefix = p}
<1>1. IsFiniteSet(S)
  BY FS_Subset
<1>2. \A o \in S : o.seq \in Nat
  BY DEF OrderRow
<1>3. SeqsOf(p) = {o.seq : o \in S}
  BY DEF SeqsOf
<1>4. CASE S = {}
  BY <1>3, <1>4 DEF NextSeq
<1>5. CASE S # {}
  <2> HIDE DEF S
  <2>1. PICK o \in S : \A x \in S : x.seq <= o.seq
    BY <1>1, <1>2, <1>5, HighestExists
  <2>2. SeqsOf(p) # {} /\ \E n : n \in SeqsOf(p) /\ \A m \in SeqsOf(p) : m <= n
    BY <1>3, <2>1
  <2> DEFINE max == CHOOSE n \in SeqsOf(p) : \A m \in SeqsOf(p) : m <= n
  <2>3. max \in SeqsOf(p) /\ \A m \in SeqsOf(p) : m <= max
    BY Zenon, <2>2
  <2>4. NextSeq(p) = 1 + max
    BY Zenon, <2>2 DEF NextSeq
  <2> HIDE DEF max
  <2>5. max \in Nat
    BY <1>2, <1>3, <2>3
  <2>6. \A x \in S : x.seq <= max
    BY <1>3, <2>3
  <2> QED
    BY <1>2, <2>4, <2>5, <2>6 DEF S
<1> QED
  BY <1>4, <1>5

-----------------------------------------------------------------------------
(* Steps of a handler *)

\* What a handler's step may leave in its request, given the orders on file.
Filled(S, h, p, r) ==
    /\ p \in Phases /\ r \in Request
    /\ p \in OrderPhase => r.customer \in Customer
    /\ p \in {"number", "insert"} =>
          /\ r.prefix \in Prefix
          /\ \A g \in Handler \ {h} : ~HoldsPrefix(g, r.prefix)
    /\ p = "insert" => r.seq # 0 /\ FreeIn(S, r)

\* A step of one handler that leaves the rows sound, its own request filled, and
\* the numbers of the others free, keeps the invariant.
LEMMA HandlerKeeps ==
  ASSUME IInv, NEW h \in Handler, NEW p, NEW r, GoTo(h, p),
         req' = [req EXCEPT ![h] = r], RowsOK(orders', customers', customersMade'),
         Filled(orders', h, p, r),
         \A g \in Handler \ {h} : phase[g] = "insert" => FreeIn(orders', req[g])
  PROVE  IInv'
<1>1. /\ phase'[h] = p /\ req'[h] = r
      /\ \A g \in Handler \ {h} : phase'[g] = phase[g] /\ req'[g] = req[g]
      /\ phase' \in [Handler -> Phases] /\ req' \in [Handler -> Request]
  BY DEF IInv, IntakeTypeOK, GoTo, Filled, Phases
<1>2. IntakeTypeOK' /\ IsFiniteSet(orders)' /\ OneOrderPerKey'
  BY <1>1 DEF IntakeTypeOK, OneOrderPerKey, RowsOK, Phases
<1>3. RequestsFilled'
  BY <1>1 DEF IInv, RequestsFilled, Filled
<1>4. PrefixExclusive'
  BY <1>1 DEF IInv, PrefixExclusive, HoldsPrefix, Filled
<1> QED
  BY <1>2, <1>3, <1>4 DEF IInv

\* A step of one handler that touches no row.
LEMMA RequestKeeps ==
  ASSUME IInv, NEW h \in Handler, NEW p, NEW r, GoTo(h, p),
         req' = [req EXCEPT ![h] = r], UNCHANGED <<orders, customers, customersMade>>,
         Filled(orders, h, p, r)
  PROVE  IInv'
<1>1. RowsOK(orders', customers', customersMade')
  BY DEF IInv, IntakeTypeOK, OneOrderPerKey, RowsOK
<1>2. \A g \in Handler \ {h} : phase[g] = "insert" => FreeIn(orders', req[g])
  BY DEF IInv, RequestsFilled
<1>3. Filled(orders', h, p, r)
  OBVIOUS
<1> QED
  BY <1>1, <1>2, <1>3, HandlerKeeps

\* A response, by its fields.
LEMMA RespondFields ==
  ASSUME NEW h \in Handler, NEW status \in Status,
         NEW answer \in OrderRow \cup Customer \cup {None},
         req \in [Handler -> Request], Respond(h, status, answer)
  PROVE  \E r \in Request : /\ GoTo(h, "done") /\ req' = [req EXCEPT ![h] = r]
                            /\ r.status = status /\ r.answer = answer
                            /\ r.key = req[h].key
<1> DEFINE half == [req[h] EXCEPT !.status = status]
           r == [half EXCEPT !.answer = answer]
<1>1. half \in Request /\ half.status = status /\ half.key = req[h].key
  BY DEF Request
<1> HIDE DEF half
<1>2. r \in Request /\ r.status = status /\ r.answer = answer /\ r.key = req[h].key
  BY <1>1 DEF Request
<1>3. req' = [[req EXCEPT ![h].status = status] EXCEPT ![h].answer = answer]
  BY DEF Respond
<1>4. [req EXCEPT ![h].status = status] = [req EXCEPT ![h] = half]
  BY DEF half
<1>5. [req EXCEPT ![h] = half][h] = half
  OBVIOUS
<1>6. req' = [[req EXCEPT ![h] = half] EXCEPT ![h] = r]
  BY <1>3, <1>4, <1>5
<1> HIDE DEF r
<1>7. req' = [req EXCEPT ![h] = r]
  BY <1>6
<1> QED
  BY <1>2, <1>7 DEF Respond

\* A handler that responds and touches no row.
LEMMA RespondKeeps ==
  ASSUME IInv, NEW h \in Handler, NEW status \in Status,
         NEW answer \in OrderRow \cup Customer \cup {None},
         Respond(h, status, answer), UNCHANGED <<orders, customers, customersMade>>
  PROVE  IInv'
<1>1. PICK r \in Request : GoTo(h, "done") /\ req' = [req EXCEPT ![h] = r]
  BY RespondFields DEF IInv, IntakeTypeOK
<1>2. Filled(orders, h, "done", r)
  BY DEF Filled, Phases, OrderPhase
<1> QED
  BY <1>1, <1>2, RequestKeeps

\* A handler that goes on with the request as it is.
LEMMA GoOnKeeps ==
  ASSUME IInv, NEW h \in Handler, NEW p, GoTo(h, p),
         UNCHANGED <<orders, customers, customersMade, req>>, Filled(orders, h, p, req[h])
  PROVE  IInv'
<1>1. req' = [req EXCEPT ![h] = req[h]]
  BY DEF IInv, IntakeTypeOK
<1> QED
  BY <1>1, RequestKeeps

-----------------------------------------------------------------------------
(* Actions *)

\* A request for an order arrives.
LEMMA ArriveOrderKeeps ==
  ASSUME IInv, NEW h \in Handler, NEW k \in Key \cup {None}, NEW c \in Customer,
         ArriveOrder(h, k, c)
  PROVE  IInv'
<1> DEFINE half == [NoRequest EXCEPT !.key = k]
           r == [half EXCEPT !.customer = c]
<1>1. half \in Request
  BY DEF NoRequest, Request
<1>2. req' = [req EXCEPT ![h] = r]
  BY DEF ArriveOrder
<1> HIDE DEF half
<1>3. r \in Request /\ r.customer = c
  BY <1>1 DEF Request
<1> HIDE DEF r
<1>4. Filled(orders, h, "limit", r)
  BY <1>3 DEF Filled, Phases, OrderPhase
<1> QED
  BY <1>2, <1>4, RequestKeeps DEF ArriveOrder

\* A request for a customer arrives.
LEMMA ArriveCustomerKeeps ==
  ASSUME IInv, NEW h \in Handler, NEW k \in Key \cup {None},
         NEW n \in Phone \cup {None}, ArriveCustomer(h, k, n)
  PROVE  IInv'
<1> DEFINE half == [NoRequest EXCEPT !.key = k]
           r == [half EXCEPT !.phone = n]
<1>1. half \in Request
  BY DEF NoRequest, Request
<1>2. req' = [req EXCEPT ![h] = r]
  BY DEF ArriveCustomer
<1> HIDE DEF half
<1>3. r \in Request
  BY <1>1 DEF Request
<1> HIDE DEF r
<1>4. Filled(orders, h, "phone", r)
  BY <1>3 DEF Filled, Phases, OrderPhase, CustomerPhase
<1> QED
  BY <1>2, <1>4, RequestKeeps DEF ArriveCustomer

\* The lookups.
LEMMA LookupsKeep ==
  ASSUME IInv, NEW h \in Handler,
         CheckLimit(h) \/ FindByClientID(h) \/ RejectCustomer(h) \/ FindCustomer(h)
  PROVE  IInv'
<1>1. \A p : p \in Phases /\ p \notin {"number", "insert"}
              /\ (p \in OrderPhase => req[h].customer \in Customer)
           => Filled(orders, h, p, req[h])
  BY DEF Filled, IInv, IntakeTypeOK
<1>2. CASE CheckLimit(h)
  <2>1. Filled(orders, h, "lookup", req[h])
    BY <1>1, <1>2 DEF CheckLimit, At, Phases, OrderPhase, IInv, RequestsFilled
  <2>2. (GoTo(h, "lookup") /\ UNCHANGED req) \/ Respond(h, 403, None)
    BY <1>2 DEF CheckLimit
  <2>3. UNCHANGED <<orders, customers, customersMade>> /\ 403 \in Status
    BY <1>2 DEF CheckLimit, Status
  <2>4. CASE GoTo(h, "lookup") /\ UNCHANGED req
    BY <2>1, <2>3, <2>4, GoOnKeeps
  <2>5. CASE Respond(h, 403, None)
    BY <2>3, <2>5, RespondKeeps
  <2> QED
    BY <2>2, <2>4, <2>5
<1>3. CASE FindByClientID(h)
  <2>1. Filled(orders, h, "lock", req[h])
    BY <1>1, <1>3 DEF FindByClientID, At, Phases, OrderPhase, IInv, RequestsFilled
  <2>2. \/ GoTo(h, "lock") /\ UNCHANGED req
        \/ \E o \in OrdersWithKey(req[h].key) : Respond(h, 201, o)
    BY <1>3 DEF FindByClientID
  <2>3. UNCHANGED <<orders, customers, customersMade>> /\ 201 \in Status
    BY <1>3 DEF FindByClientID, Status
  <2>4. CASE GoTo(h, "lock") /\ UNCHANGED req
    BY <2>1, <2>3, <2>4, GoOnKeeps
  <2>5. CASE \E o \in OrdersWithKey(req[h].key) : Respond(h, 201, o)
    <3>1. PICK o \in OrdersWithKey(req[h].key) : Respond(h, 201, o)
      BY <2>5
    <3>2. o \in OrderRow
      BY DEF OrdersWithKey, IInv, IntakeTypeOK
    <3> QED
      BY <2>3, <3>1, <3>2, RespondKeeps
  <2> QED
    BY <2>2, <2>4, <2>5
<1>4. CASE RejectCustomer(h)
  <2>1. 400 \in Status
    BY DEF Status
  <2> QED
    BY <1>4, <2>1, RespondKeeps DEF RejectCustomer
<1>5. CASE FindCustomer(h)
  <2>1. Filled(orders, h, "newcustomer", req[h])
    BY <1>1 DEF Phases, OrderPhase, CustomerPhase
  <2>2. \/ GoTo(h, "newcustomer") /\ UNCHANGED req
        \/ Respond(h, 409, None)
        \/ \E c \in CustomersWithKey(req[h].key) : Respond(h, 201, c.id)
    BY <1>5 DEF FindCustomer
  <2>3. UNCHANGED <<orders, customers, customersMade>> /\ 201 \in Status /\ 409 \in Status
    BY <1>5 DEF FindCustomer, Status
  <2>4. CASE GoTo(h, "newcustomer") /\ UNCHANGED req
    BY <2>1, <2>3, <2>4, GoOnKeeps
  <2>5. CASE Respond(h, 409, None)
    BY <2>3, <2>5, RespondKeeps
  <2>6. CASE \E c \in CustomersWithKey(req[h].key) : Respond(h, 201, c.id)
    <3>1. PICK c \in CustomersWithKey(req[h].key) : Respond(h, 201, c.id)
      BY <2>6
    <3>2. c.id \in Customer
      BY DEF CustomersWithKey, IInv, IntakeTypeOK, CustomerRow
    <3> QED
      BY <2>3, <3>1, <3>2, RespondKeeps
  <2> QED
    BY <2>2, <2>4, <2>5, <2>6
<1> QED
  BY <1>2, <1>3, <1>4, <1>5

\* The prefix is locked.
LEMMA LockPrefixKeeps ==
  ASSUME IInv, NEW h \in Handler, NEW p \in Prefix, LockPrefix(h, p)
  PROVE  IInv'
<1> DEFINE r == [req[h] EXCEPT !.prefix = p]
<1>1. req' = [req EXCEPT ![h] = r]
  BY DEF LockPrefix
<1>2. req[h] \in Request /\ req[h].customer \in Customer
  BY DEF LockPrefix, At, OrderPhase, IInv, IntakeTypeOK, RequestsFilled
<1>3. r \in Request /\ r.prefix = p /\ r.customer = req[h].customer
  BY <1>2 DEF Request
<1> HIDE DEF r
<1>4. Filled(orders, h, "number", r)
  BY <1>2, <1>3 DEF Filled, Phases, OrderPhase, LockPrefix, PrefixFree
<1> QED
  BY <1>1, <1>4, RequestKeeps DEF LockPrefix

\* The number is read.
LEMMA AllocateNumberKeeps ==
  ASSUME IInv, NEW h \in Handler, AllocateNumber(h) PROVE IInv'
<1> DEFINE r == [req[h] EXCEPT !.seq = NextSeq(req[h].prefix)]
<1>1. req' = [req EXCEPT ![h] = r]
  BY DEF AllocateNumber
<1>2. /\ phase[h] = "number" /\ req[h] \in Request
      /\ req[h].customer \in Customer /\ req[h].prefix \in Prefix
  BY DEF AllocateNumber, At, OrderPhase, IInv, IntakeTypeOK, RequestsFilled
<1>3. /\ NextSeq(req[h].prefix) \in Nat \ {0}
      /\ \A o \in orders : o.prefix = req[h].prefix => o.seq # NextSeq(req[h].prefix)
  BY NextSeqIsFree DEF IInv, IntakeTypeOK
<1>4. /\ r \in Request /\ r.prefix = req[h].prefix /\ r.customer = req[h].customer
      /\ r.seq = NextSeq(req[h].prefix)
  BY <1>2, <1>3 DEF Request
<1> HIDE DEF r
<1>5. \A g \in Handler \ {h} : ~HoldsPrefix(g, r.prefix)
  BY <1>2, <1>4 DEF IInv, PrefixExclusive
<1>6. Filled(orders, h, "insert", r)
  BY <1>2, <1>3, <1>4, <1>5 DEF Filled, FreeIn, Phases, OrderPhase
<1> QED
  BY <1>1, <1>6, RequestKeeps DEF AllocateNumber

\* The row a request inserts.
LEMMA NewOrderTyped ==
  ASSUME IInv, NEW h \in Handler, phase[h] = "insert"
  PROVE  /\ NewOrder(h) \in OrderRow
         /\ NewOrder(h).clientId = req[h].key /\ NewOrder(h).prefix = req[h].prefix
<1>1. req[h] \in Request /\ req[h].customer \in Customer /\ req[h].prefix \in Prefix
      /\ req[h].seq # 0
  BY DEF OrderPhase, IInv, IntakeTypeOK, RequestsFilled
<1> QED
  BY <1>1 DEF NewOrder, OrderRow, Request

\* The order is inserted, unless an index refuses it.
LEMMA InsertOrderKeeps ==
  ASSUME IInv, NEW h \in Handler, InsertOrder(h) PROVE IInv'
<1>1. phase[h] = "insert" /\ 201 \in Status /\ 400 \in Status
  BY DEF InsertOrder, At, Status
<1>2. CASE Refused(h)
  BY <1>1, <1>2, RespondKeeps DEF InsertOrder
<1>3. CASE ~Refused(h)
  <2> DEFINE new == NewOrder(h)
  <2>1. /\ new \in OrderRow
        /\ new.clientId = req[h].key /\ new.prefix = req[h].prefix
    BY <1>1, NewOrderTyped
  <2>2. orders' = orders \cup {new} /\ Respond(h, 201, new) /\ UNCHANGED <<customers, customersMade>>
    BY <1>3 DEF InsertOrder
  <2> HIDE DEF new
  <2>3. PICK r \in Request : GoTo(h, "done") /\ req' = [req EXCEPT ![h] = r]
    BY <1>1, <2>1, <2>2, RespondFields DEF IInv, IntakeTypeOK
  <2>4. \A o \in orders : o.clientId # None => o.clientId # new.clientId
    BY <1>3, <2>1 DEF Refused, Duplicate, OrdersWithKey
  <2>5. RowsOK(orders', customers', customersMade')
    <3>1. IsFiniteSet(orders \cup {new})
      BY FS_AddElement DEF IInv
    <3> QED
      BY <2>1, <2>2, <2>4, <3>1 DEF RowsOK, IInv, IntakeTypeOK, OneOrderPerKey
  <2>6. Filled(orders', h, "done", r)
    BY DEF Filled, Phases, OrderPhase
  <2>7. ASSUME NEW g \in Handler \ {h}, phase[g] = "insert"
        PROVE  FreeIn(orders', req[g])
    <3>1. req[h].prefix # req[g].prefix
      BY <1>1, <2>7 DEF IInv, PrefixExclusive, HoldsPrefix
    <3> QED
      BY <2>1, <2>2, <2>7, <3>1 DEF FreeIn, IInv, RequestsFilled
  <2> QED
    BY <2>3, <2>5, <2>6, <2>7, HandlerKeeps
<1> QED
  BY <1>2, <1>3

\* The customer is inserted, unless an index refuses it.
LEMMA InsertCustomerKeeps ==
  ASSUME IInv, NEW h \in Handler, NEW id \in Customer, InsertCustomer(h, id)
  PROVE  IInv'
<1>1. 201 \in Status /\ 500 \in Status
  BY DEF Status
<1>2. CASE CustomersWithPhone(req[h].phone) # {}
  BY <1>1, <1>2, RespondKeeps DEF InsertCustomer
<1>3. CASE CustomersWithPhone(req[h].phone) = {}
  <2> DEFINE new == [id |-> id, phone |-> req[h].phone, clientId |-> None]
             making == [id |-> id, origin |-> req[h].key]
  <2>1. new \in CustomerRow /\ making \in Making
    BY DEF CustomerRow, Making, IInv, IntakeTypeOK, Request
  <2>2. /\ UNCHANGED orders /\ Respond(h, 201, id) /\ customers' = customers \cup {new}
        /\ customersMade' = customersMade \cup {making}
    BY <1>3 DEF InsertCustomer
  <2> HIDE DEF new, making
  <2>3. PICK r \in Request : GoTo(h, "done") /\ req' = [req EXCEPT ![h] = r]
    BY <1>1, <2>2, RespondFields DEF IInv, IntakeTypeOK
  <2>4. RowsOK(orders', customers', customersMade')
    BY <2>1, <2>2 DEF RowsOK, IInv, IntakeTypeOK, OneOrderPerKey
  <2>5. Filled(orders', h, "done", r)
    BY DEF Filled, Phases, OrderPhase
  <2>6. \A g \in Handler \ {h} : phase[g] = "insert" => FreeIn(orders', req[g])
    BY <2>2 DEF IInv, RequestsFilled
  <2> QED
    BY <2>3, <2>4, <2>5, <2>6, HandlerKeeps
<1> QED
  BY <1>2, <1>3

\* A query fails.
LEMMA DatabaseErrorKeeps ==
  ASSUME IInv, NEW h \in Handler, DatabaseError(h) PROVE IInv'
<1>1. 400 \in Status /\ 500 \in Status
  BY DEF Status
<1>2. CASE CreateFails(h)
  BY <1>1, <1>2, RespondKeeps DEF CreateFails
<1>3. CASE CreateCustomerFails(h)
  BY <1>1, <1>3, RespondKeeps DEF CreateCustomerFails
<1>4. CASE LookupFails(h)
  <2>1. PICK p \in {"lookup", "lock", "newcustomer"} :
           GoTo(h, p) /\ (p \in OrderPhase => phase[h] \in OrderPhase)
    BY <1>4 DEF LookupFails, At, OrderPhase
  <2>2. Filled(orders, h, p, req[h])
    BY <2>1 DEF Filled, Phases, OrderPhase, CustomerPhase, IInv, IntakeTypeOK, RequestsFilled
  <2> QED
    BY <1>4, <2>1, <2>2, GoOnKeeps DEF LookupFails
<1> QED
  BY <1>2, <1>3, <1>4 DEF DatabaseError

\* A handler is free again.
LEMMA FinishKeeps ==
  ASSUME IInv, NEW h \in Handler, Finish(h) PROVE IInv'
<1>1. NoRequest \in Request
  BY DEF NoRequest, Request
<1>2. Filled(orders, h, "idle", NoRequest)
  BY <1>1 DEF Filled, Phases, OrderPhase
<1> QED
  BY <1>2, RequestKeeps DEF Finish

\* An order as EditOrder leaves it.
LEMMA EditedTyped ==
  ASSUME NEW o \in OrderRow, NEW id \in Customer
  PROVE  LET new == [o EXCEPT !.customer = id] IN
         /\ new \in OrderRow
         /\ new.clientId = o.clientId /\ new.prefix = o.prefix /\ new.seq = o.seq
  BY DEF OrderRow

\* Another request edits or deletes a row.
LEMMA OtherStepKeeps ==
  ASSUME IInv, OtherStep PROVE IInv'
<1>1. UNCHANGED <<customersMade, phase, req>>
  BY DEF OtherStep, EditOrder, DeleteOrder, EditCustomer, DeleteCustomer
<1>2. ASSUME RowsOK(orders', customers', customersMade'),
             \A r : FreeIn(orders, r) => FreeIn(orders', r)
      PROVE  IInv'
  <2>1. RequestsFilled' /\ PrefixExclusive'
    BY <1>1, <1>2 DEF IInv, RequestsFilled, PrefixExclusive, HoldsPrefix
  <2>2. IntakeTypeOK' /\ OneOrderPerKey' /\ IsFiniteSet(orders)'
    BY <1>1, <1>2 DEF IInv, IntakeTypeOK, OneOrderPerKey, RowsOK
  <2> QED
    BY <2>1, <2>2 DEF IInv
<1>3. ASSUME NEW o \in orders, DeleteOrder(o) PROVE IInv'
  <2>1. orders' = orders \ {o} /\ UNCHANGED customers
    BY <1>3 DEF DeleteOrder
  <2>2. IsFiniteSet(orders')
    BY <2>1, FS_RemoveElement DEF IInv
  <2>3. RowsOK(orders', customers', customersMade')
    BY <1>1, <2>1, <2>2 DEF RowsOK, IInv, IntakeTypeOK, OneOrderPerKey
  <2> QED
    BY <1>2, <2>1, <2>3 DEF FreeIn
<1>4. ASSUME NEW o \in orders, NEW id \in Customer, EditOrder(o, id) PROVE IInv'
  <2> DEFINE new == [o EXCEPT !.customer = id]
  <2>1. orders' = (orders \ {o}) \cup {new} /\ UNCHANGED customers
    BY <1>4 DEF EditOrder
  <2>2. /\ new \in OrderRow
        /\ new.clientId = o.clientId /\ new.prefix = o.prefix /\ new.seq = o.seq
    BY EditedTyped DEF IInv, IntakeTypeOK
  <2> HIDE DEF new
  <2>3. IsFiniteSet(orders')
    BY <2>1, FS_RemoveElement, FS_AddElement DEF IInv
  <2>4. RowsOK(orders', customers', customersMade')
    BY <1>1, <2>1, <2>2, <2>3 DEF RowsOK, IInv, IntakeTypeOK, OneOrderPerKey
  <2>5. ASSUME NEW r, FreeIn(orders, r) PROVE FreeIn(orders', r)
    BY <2>1, <2>2, <2>5 DEF FreeIn
  <2> QED
    BY <1>2, <2>4, <2>5
<1>5. ASSUME UNCHANGED orders, customers' \subseteq CustomerRow PROVE IInv'
  <2>1. RowsOK(orders', customers', customersMade')
    BY <1>1, <1>5 DEF RowsOK, IInv, IntakeTypeOK, OneOrderPerKey
  <2> QED
    BY <1>2, <1>5, <2>1
<1>6. ASSUME NEW c \in customers, DeleteCustomer(c) PROVE IInv'
  BY <1>5, <1>6 DEF DeleteCustomer, IInv, IntakeTypeOK
<1>7. ASSUME NEW c \in customers, NEW p \in Phone \cup {None}, EditCustomer(c, p) PROVE IInv'
  <2>1. [c EXCEPT !.phone = p] \in CustomerRow
    BY DEF CustomerRow, IInv, IntakeTypeOK
  <2> QED
    BY <1>5, <1>7, <2>1 DEF EditCustomer, IInv, IntakeTypeOK
<1> QED
  BY <1>3, <1>4, <1>6, <1>7 DEF OtherStep

-----------------------------------------------------------------------------
(* The invariant *)

\* The invariant holds at the start.
LEMMA InitIInv == Init => IInv
<1>1. NoRequest \in Request
  BY DEF NoRequest, Request
<1>2. IsFiniteSet({})
  BY FS_EmptySet
<1> QED
  BY <1>1, <1>2 DEF Init, IInv, IntakeTypeOK, RequestsFilled, PrefixExclusive,
     OneOrderPerKey, OrderPhase

\* ... and every step keeps it.
LEMMA StepIInv == IInv /\ [Next]_intakeVars => IInv'
<1> SUFFICES ASSUME IInv, [Next]_intakeVars PROVE IInv'
  OBVIOUS
<1>1. ASSUME NEW h \in Handler, HandlerStep(h) PROVE IInv'
  BY <1>1, LookupsKeep, LockPrefixKeeps, AllocateNumberKeeps, InsertOrderKeeps,
     InsertCustomerKeeps DEF HandlerStep, OrderStep, CustomerStep
<1>2. ASSUME NEW h \in Handler, DatabaseError(h) \/ Finish(h) PROVE IInv'
  BY <1>2, DatabaseErrorKeeps, FinishKeeps
<1>3. ASSUME NEW h \in Handler, NEW k \in Key \cup {None},
             \/ \E c \in Customer : ArriveOrder(h, k, c)
             \/ \E n \in Phone \cup {None} : ArriveCustomer(h, k, n)
      PROVE  IInv'
  BY <1>3, ArriveOrderKeeps, ArriveCustomerKeeps
<1>4. CASE OtherStep
  BY <1>4, OtherStepKeeps
<1>5. CASE UNCHANGED intakeVars
  BY <1>5 DEF intakeVars, IInv, IntakeTypeOK, RequestsFilled, PrefixExclusive,
     HoldsPrefix, OneOrderPerKey
<1> QED
  BY <1>1, <1>2, <1>3, <1>4, <1>5 DEF Next

-----------------------------------------------------------------------------
(* The limit *)

Past == {"lookup", "lock", "number", "insert"}

\* The sets that are counted are finite.
LEMMA Counted ==
  ASSUME IInv
  PROVE  /\ IsFiniteSet(orders) /\ IsFiniteSet(PastLimit) /\ IsFiniteSet(Handler)
         /\ PastLimit \subseteq Handler
         /\ Cardinality(orders) \in Nat /\ Cardinality(PastLimit) \in Nat
         /\ Cardinality(Handler) \in Nat /\ MaxOrders \in Nat
<1>1. PastLimit \subseteq Handler /\ IsFiniteSet(orders) /\ IsFiniteSet(Handler)
  BY IntakeAssumption DEF PastLimit, IInv
<1>2. IsFiniteSet(PastLimit)
  BY <1>1, FS_Subset
<1> QED
  BY <1>1, <1>2, FS_CardinalityType, IntakeAssumption

\* A step of a handler that was not let past the limit by it, and inserts nothing.
LEMMA NoMorePast ==
  ASSUME IInv, OvershootBounded, NEW h \in Handler, NEW p, GoTo(h, p),
         p \in Past => phase[h] \in Past, UNCHANGED orders
  PROVE  OvershootBounded'
<1>1. PastLimit' \subseteq PastLimit
  BY DEF PastLimit, Past, GoTo, IInv, IntakeTypeOK
<1>2. Cardinality(PastLimit') \in Nat /\ Cardinality(PastLimit') <= Cardinality(PastLimit)
  <2>1. IsFiniteSet(PastLimit')
    BY <1>1, Counted, FS_Subset
  <2> QED
    BY <1>1, <2>1, Counted, FS_Subset, FS_CardinalityType
<1> QED
  BY <1>2, Counted DEF OvershootBounded

\* A request is let past only while fewer orders than the limit are on file.
LEMMA CheckLimitBounded ==
  ASSUME IInv, OvershootBounded, NEW h \in Handler, CheckLimit(h)
  PROVE  OvershootBounded'
<1>1. phase[h] = "limit" /\ UNCHANGED orders
  BY DEF CheckLimit, At
<1>2. CASE Allowed
  <2>1. GoTo(h, "lookup")
    BY <1>2 DEF CheckLimit
  <2>2. PastLimit' \subseteq Handler
    BY DEF PastLimit
  <2>3. Cardinality(PastLimit') \in Nat /\ Cardinality(PastLimit') <= Cardinality(Handler)
    <3>1. IsFiniteSet(PastLimit')
      BY <2>2, Counted, FS_Subset
    <3> QED
      BY <2>2, <3>1, Counted, FS_Subset, FS_CardinalityType
  <2> QED
    BY <1>1, <1>2, <2>3, Counted DEF OvershootBounded, Allowed
<1>3. CASE ~Allowed
  BY <1>1, <1>3, NoMorePast DEF CheckLimit, Respond, Past
<1> QED
  BY <1>2, <1>3

\* An insert turns a request past the limit into an order.
LEMMA InsertBounded ==
  ASSUME IInv, OvershootBounded, NEW h \in Handler, InsertOrder(h)
  PROVE  OvershootBounded'
<1>1. phase[h] = "insert" /\ h \in PastLimit
  BY DEF InsertOrder, At, PastLimit
<1>2. GoTo(h, "done")
  BY DEF InsertOrder, Respond
<1>3. CASE Refused(h)
  BY <1>2, <1>3, NoMorePast DEF InsertOrder, Past
<1>4. CASE ~Refused(h)
  <2>1. orders' = orders \cup {NewOrder(h)}
    BY <1>4 DEF InsertOrder
  <2>2. PastLimit' = PastLimit \ {h}
    BY <1>2 DEF PastLimit, GoTo, IInv, IntakeTypeOK
  <2>3. Cardinality(PastLimit') = Cardinality(PastLimit) - 1
    BY <1>1, <2>2, Counted, FS_RemoveElement
  <2>4. Cardinality(orders') \in {Cardinality(orders), Cardinality(orders) + 1}
    BY <2>1, Counted, FS_AddElement
  <2> QED
    BY <2>3, <2>4, Counted DEF OvershootBounded
<1> QED
  BY <1>3, <1>4

\* No other request adds an order.
LEMMA OtherStepBounded ==
  ASSUME IInv, OvershootBounded, OtherStep PROVE OvershootBounded'
<1>1. UNCHANGED phase /\ PastLimit' = PastLimit
  BY DEF OtherStep, EditOrder, DeleteOrder, EditCustomer, DeleteCustomer, PastLimit
<1>2. Cardinality(orders') \in Nat /\ Cardinality(orders') <= Cardinality(orders)
  <2>1. ASSUME NEW o \in orders, NEW new, orders' = (orders \ {o}) \cup {new}
        PROVE  Cardinality(orders') \in Nat /\ Cardinality(orders') <= Cardinality(orders)
    <3>1. /\ IsFiniteSet(orders \ {o})
          /\ Cardinality(orders \ {o}) = Cardinality(orders) - 1
      BY Counted, FS_RemoveElement
    <3> DEFINE rest == orders \ {o}
    <3> HIDE DEF rest
    <3>2. IsFiniteSet(rest) /\ orders' = rest \cup {new}
      BY <2>1, <3>1 DEF rest
    <3>3. Cardinality(rest \cup {new}) \in {Cardinality(rest), Cardinality(rest) + 1}
      BY <3>2, FS_AddElement
    <3>4. Cardinality(rest) \in Nat /\ Cardinality(rest) = Cardinality(orders) - 1
      BY <3>1, <3>2, FS_CardinalityType DEF rest
    <3> QED
      BY <3>2, <3>3, <3>4, Counted
  <2>2. ASSUME orders' \subseteq orders
        PROVE  Cardinality(orders') \in Nat /\ Cardinality(orders') <= Cardinality(orders)
    BY <2>2, Counted, FS_Subset, FS_CardinalityType
  <2> QED
    BY <2>1, <2>2 DEF OtherStep, EditOrder, DeleteOrder, EditCustomer, DeleteCustomer
<1> QED
  BY <1>1, <1>2, Counted DEF OvershootBounded

\* Every step keeps the bound, if the check itself does not fail.
LEMMA StepBounded ==
  ASSUME "limit" \notin FailsAt, IInv, OvershootBounded, [Next]_intakeVars
  PROVE  OvershootBounded'
<1>1. ASSUME NEW h \in Handler, HandlerStep(h) PROVE OvershootBounded'
  <2>1. CASE FindByClientID(h)
    BY <2>1, NoMorePast DEF FindByClientID, At, Respond, Past
  <2>2. CASE RejectCustomer(h)
    BY <2>2, NoMorePast DEF RejectCustomer, Respond, Past
  <2>3. CASE \E p \in Prefix : LockPrefix(h, p)
    BY <2>3, NoMorePast DEF LockPrefix, At, Past
  <2>4. CASE AllocateNumber(h)
    BY <2>4, NoMorePast DEF AllocateNumber, At, Past
  <2>5. CASE CustomerStep(h)
    <3>1. UNCHANGED orders /\ (GoTo(h, "done") \/ GoTo(h, "newcustomer"))
      BY <2>5 DEF CustomerStep, FindCustomer, InsertCustomer, Respond
    <3> QED
      BY <3>1, NoMorePast DEF Past
  <2> QED
    BY <1>1, <2>1, <2>2, <2>3, <2>4, <2>5, CheckLimitBounded, InsertBounded
       DEF HandlerStep, OrderStep
<1>2. ASSUME NEW h \in Handler, DatabaseError(h) \/ Finish(h) PROVE OvershootBounded'
  <2>1. \E p : /\ GoTo(h, p) /\ UNCHANGED orders
               /\ p \in Past => phase[h] \in Past
    BY <1>2 DEF DatabaseError, CreateFails, LookupFails, CreateCustomerFails, Finish,
                Respond, At, Past
  <2> QED
    BY <2>1, NoMorePast
<1>3. ASSUME NEW h \in Handler, NEW k \in Key \cup {None},
             \/ \E c \in Customer : ArriveOrder(h, k, c)
             \/ \E n \in Phone \cup {None} : ArriveCustomer(h, k, n)
      PROVE  OvershootBounded'
  BY <1>3, NoMorePast DEF ArriveOrder, ArriveCustomer, Past
<1>4. CASE OtherStep
  BY <1>4, OtherStepBounded
<1>5. CASE UNCHANGED intakeVars
  BY <1>5 DEF intakeVars, OvershootBounded, PastLimit
<1> QED
  BY <1>1, <1>2, <1>3, <1>4, <1>5 DEF Next

\* Nothing is on file and nobody past the limit at the start.
LEMMA InitBounded == Init => OvershootBounded
<1> SUFFICES ASSUME Init PROVE OvershootBounded
  OBVIOUS
<1>1. orders = {} /\ PastLimit = {}
  BY DEF Init, PastLimit
<1>2. Cardinality(Handler) \in Nat /\ Cardinality(Handler) # 0 /\ MaxOrders \in Nat
  BY IntakeAssumption, FS_EmptySet, FS_CardinalityType
<1>3. Cardinality({}) = 0
  BY FS_EmptySet
<1> QED
  BY <1>1, <1>2, <1>3 DEF OvershootBounded

-----------------------------------------------------------------------------
(* Answers *)

\* A request for an order is answered 201 with an order made under its key.
LEMMA StepAnswers ==
  ASSUME IInv, [Next]_intakeVars, NEW h \in Handler,
         phase[h] \in OrderPhase, phase'[h] = "done", req'[h].status = 201
  PROVE  req'[h].answer \in orders' /\ req'[h].answer.clientId = req[h].key
<1>1. phase'[h] # phase[h] /\ phase[h] \notin {"idle", "done"} \cup CustomerPhase
  BY DEF OrderPhase, CustomerPhase
<1>2. HandlerStep(h) \/ DatabaseError(h)
  <2>1. \A g \in Handler \ {h} : \A p : ~GoTo(g, p)
    BY <1>1 DEF GoTo, IInv, IntakeTypeOK
  <2>2. PICK g \in Handler :
           \/ HandlerStep(g) \/ DatabaseError(g) \/ Finish(g)
           \/ \E k \in Key \cup {None}, c \in Customer : ArriveOrder(g, k, c)
           \/ \E k \in Key \cup {None}, n \in Phone \cup {None} : ArriveCustomer(g, k, n)
    <3>1. ~OtherStep
      BY <1>1 DEF OtherStep, EditOrder, DeleteOrder, EditCustomer, DeleteCustomer
    <3> QED
      BY <1>1, <3>1 DEF Next, intakeVars
  <2>3. \E p : GoTo(g, p)
    BY <2>2 DEF HandlerStep, OrderStep, CustomerStep, CheckLimit, FindByClientID,
       RejectCustomer, LockPrefix, AllocateNumber, InsertOrder, FindCustomer,
       InsertCustomer, DatabaseError, CreateFails, LookupFails, CreateCustomerFails,
       Finish, ArriveOrder, ArriveCustomer, Respond
  <2>4. g = h
    BY <2>1, <2>3
  <2>5. ~Finish(h) /\ \A k, x : ~ArriveOrder(h, k, x) /\ ~ArriveCustomer(h, k, x)
    BY <1>1 DEF Finish, ArriveOrder, ArriveCustomer, At
  <2> QED
    BY <2>2, <2>4, <2>5
<1>3. ASSUME NEW status \in Status, NEW answer \in OrderRow \cup Customer \cup {None},
             Respond(h, status, answer)
      PROVE  status = 201 /\ req'[h].answer = answer
  <2>1. PICK r \in Request : /\ req' = [req EXCEPT ![h] = r]
                             /\ r.status = status /\ r.answer = answer
    BY <1>3, RespondFields DEF IInv, IntakeTypeOK
  <2> QED
    BY <2>1 DEF IInv, IntakeTypeOK
<1>4. {201, 400, 403} \subseteq Status
  BY DEF Status
<1>5. \A p : GoTo(h, p) => p = "done"
  BY DEF GoTo, IInv, IntakeTypeOK
<1>6. CASE FindByClientID(h)
  <2>1. PICK o \in OrdersWithKey(req[h].key) : Respond(h, 201, o)
    BY <1>5, <1>6 DEF FindByClientID
  <2>2. o \in orders /\ o.clientId = req[h].key /\ o \in OrderRow
    BY DEF OrdersWithKey, IInv, IntakeTypeOK
  <2>3. req'[h].answer = o
    BY <1>3, <1>4, <2>1, <2>2
  <2> QED
    BY <1>6, <2>2, <2>3 DEF FindByClientID
<1>7. CASE InsertOrder(h)
  <2>1. ~Refused(h)
    BY <1>3, <1>4, <1>7 DEF InsertOrder
  <2>2. NewOrder(h) \in OrderRow /\ NewOrder(h).clientId = req[h].key
    BY <1>7, NewOrderTyped DEF InsertOrder, At
  <2>3. Respond(h, 201, NewOrder(h)) /\ orders' = orders \cup {NewOrder(h)}
    BY <1>7, <2>1 DEF InsertOrder
  <2>4. req'[h].answer = NewOrder(h)
    BY <1>3, <1>4, <2>2, <2>3
  <2> QED
    BY <2>2, <2>3, <2>4
<1>8. ~CheckLimit(h) /\ ~RejectCustomer(h) /\ ~CreateFails(h)
  BY <1>3, <1>4, <1>5 DEF CheckLimit, RejectCustomer, CreateFails
<1>9. ~AllocateNumber(h) /\ ~LookupFails(h) /\ \A p \in Prefix : ~LockPrefix(h, p)
  BY <1>5 DEF AllocateNumber, LookupFails, LockPrefix
<1>10. ~CustomerStep(h) /\ ~CreateCustomerFails(h)
  BY <1>1 DEF CustomerStep, FindCustomer, InsertCustomer, CreateCustomerFails, At,
     CustomerPhase
<1> QED
  BY <1>2, <1>6, <1>7, <1>8, <1>9, <1>10 DEF HandlerStep, OrderStep, DatabaseError

-----------------------------------------------------------------------------
(* Theorems *)

\* The inductive invariant holds throughout.
THEOREM IntakeInvariant == Spec => []IInv
  BY InitIInv, StepIInv, PTL DEF Spec

\* Rows and requests keep their types.
THEOREM IntakeTypeCorrect == Spec => []IntakeTypeOK
  BY IntakeInvariant, PTL DEF IInv

\* However many copies of a request run side by side, one order is on file.
THEOREM KeysUnique == Spec => []OneOrderPerKey
  BY IntakeInvariant, PTL DEF IInv

\* A number that was allocated is free until its order is inserted.
THEOREM NumbersFree == Spec => []AllocatedNumbersFree
<1>1. IInv => AllocatedNumbersFree
  BY DEF IInv, RequestsFilled, AllocatedNumbersFree, FreeIn, SeqsOf, At
<1> QED
  BY <1>1, IntakeInvariant, PTL

\* The limit is overshot by fewer orders than there are requests in service.
THEOREM OvershootIsBounded ==
  ASSUME "limit" \notin FailsAt
  PROVE  Spec => []OvershootBounded
<1>1. IInv /\ OvershootBounded /\ [Next]_intakeVars => OvershootBounded'
  BY StepBounded
<1> QED
  BY <1>1, InitBounded, IntakeInvariant, PTL DEF Spec

\* A 201 is about an order on file that was made under the request's key.
THEOREM AnswersCorrect == Spec => AnswersAreOrders
<1>1. IInv /\ [Next]_intakeVars =>
         [\A h \in Handler :
             (phase[h] \in OrderPhase /\ phase'[h] = "done" /\ req'[h].status = 201)
                 => req'[h].answer \in orders' /\ req'[h].answer.clientId = req[h].key
         ]_intakeVars
  BY StepAnswers
<1> QED
  BY <1>1, IntakeInvariant, PTL DEF Spec, AnswersAreOrders
=============================================================================
