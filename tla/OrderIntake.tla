----------------------------- MODULE OrderIntake -----------------------------
(***************************************************************************)
(* How the API creates an order or a customer: what POST /api/orders and   *)
(* POST /api/customers read and write, query by query.  The plan limit and *)
(* the idempotency key are looked up before the transaction that inserts,  *)
(* so requests of the same tenant, or two copies of one request, meet      *)
(* between these steps.  Only the order number is allocated under a lock,  *)
(* an advisory lock on its prefix that the transaction keeps to its end.   *)
(***************************************************************************)
EXTENDS Integers, FiniteSets

CONSTANTS
    Handler,        \* requests the API serves at once
    Key,            \* X-Client-Id values
    Customer,       \* ids a "Customer" row may get
    Phone,          \* phone numbers customers give
    Prefix,         \* "{tenant code}-{date}-" of an order number
    MaxOrders,      \* the plan's monthly order limit
    MaxSeq,         \* bound: no order request arrives while a number this high is in use
    FailsAt,        \* the phases in which a query may fail
    Others,         \* the other requests that meanwhile change orders and customers
    None            \* no key, no phone, no customer, no prefix, no answer

OrderPhase == {"limit", "lookup", "lock", "number", "insert"}

CustomerPhase == {"phone", "newcustomer"}

OtherRequest == {"edit order", "delete order", "edit customer", "delete customer"}

ASSUME IntakeAssumption ==
    /\ IsFiniteSet(Handler) /\ Handler # {}
    /\ MaxOrders \in Nat /\ MaxSeq \in Nat
    /\ FailsAt \subseteq OrderPhase \cup CustomerPhase
    /\ Others \subseteq OtherRequest
    /\ None \notin Key \cup Customer \cup Phone \cup Prefix

VARIABLES
    orders,     \* committed "Order" rows of the month
    customers,  \* committed "Customer" rows
    customersMade,  \* history: every customer made, with the key of the request
    phase,      \* the query each handler is at
    req         \* its request, what it has read, and its answer

intakeVars == <<orders, customers, customersMade, phase, req>>

-----------------------------------------------------------------------------
OrderRow ==
    [clientId: Key \cup {None}, customer: Customer, prefix: Prefix, seq: Nat \ {0}]

CustomerRow ==
    [id: Customer, phone: Phone \cup {None}, clientId: Key \cup {None}]

Making == [id: Customer, origin: Key \cup {None}]

Status == {201, 400, 403, 409, 500}

Request ==
    [key: Key \cup {None}, customer: Customer \cup {None}, phone: Phone \cup {None},
     prefix: Prefix \cup {None}, seq: Nat,
     status: Status \cup {0}, answer: OrderRow \cup Customer \cup {None}]

NoRequest ==
    [key |-> None, customer |-> None, phone |-> None, prefix |-> None, seq |-> 0,
     status |-> 0, answer |-> None]

OrdersWithKey(k) == {o \in orders : o.clientId = k /\ k # None}

CustomersWithPhone(p) == {c \in customers : c.phone = p /\ p # None}

CustomersWithKey(k) == {c \in customers : c.clientId = k /\ k # None}

SeqsOf(p) == {o.seq : o \in {x \in orders : x.prefix = p}}

\* Mutant: the + 1 is forgotten.
HighestSeq(p) ==
    IF SeqsOf(p) = {} THEN 0 ELSE CHOOSE n \in SeqsOf(p) : \A m \in SeqsOf(p) : m <= n

\* COALESCE(MAX(seq), 0) + 1
NextSeq(p) ==
    IF SeqsOf(p) = {} THEN 1
    ELSE 1 + CHOOSE n \in SeqsOf(p) : \A m \in SeqsOf(p) : m <= n

Init ==
    /\ orders = {}
    /\ customers = {}
    /\ customersMade = {}
    /\ phase = [h \in Handler |-> "idle"]
    /\ req = [h \in Handler |-> NoRequest]

At(h, p) == phase[h] = p

GoTo(h, p) == phase' = [phase EXCEPT ![h] = p]

Respond(h, status, answer) ==
    /\ GoTo(h, "done")
    /\ req' = [req EXCEPT ![h].status = status, ![h].answer = answer]

-----------------------------------------------------------------------------
(* POST /api/orders *)

ArriveOrder(h, k, c) ==
    /\ At(h, "idle")
    /\ \A o \in orders : o.seq < MaxSeq
    /\ \A g \in Handler : req[g].seq < MaxSeq
    /\ GoTo(h, "limit")
    /\ req' = [req EXCEPT ![h] = [NoRequest EXCEPT !.key = k, !.customer = c]]
    /\ UNCHANGED <<orders, customers, customersMade>>

\* Mutant: the limit is compared with <=.
AllowedOneMore == Cardinality(orders) <= MaxOrders

Allowed == Cardinality(orders) < MaxOrders

CheckLimit(h) ==
    /\ At(h, "limit")
    /\ IF Allowed THEN GoTo(h, "lookup") /\ UNCHANGED req ELSE Respond(h, 403, None)
    /\ UNCHANGED <<orders, customers, customersMade>>

FindByClientID(h) ==
    /\ At(h, "lookup")
    /\ IF OrdersWithKey(req[h].key) = {}
       THEN GoTo(h, "lock") /\ UNCHANGED req
       ELSE \E o \in OrdersWithKey(req[h].key) : Respond(h, 201, o)
    /\ UNCHANGED <<orders, customers, customersMade>>

OnFile(id) == \E c \in customers : c.id = id

RejectCustomer(h) ==
    /\ At(h, "lock")
    /\ ~OnFile(req[h].customer)
    /\ Respond(h, 400, None)
    /\ UNCHANGED <<orders, customers, customersMade>>

HoldsPrefix(h, p) == phase[h] \in {"number", "insert"} /\ req[h].prefix = p

\* Mutant: no advisory lock.
PrefixIgnored(p) == TRUE

PrefixFree(p) == \A h \in Handler : ~HoldsPrefix(h, p)

\* The prefix follows receivedAt, or the day on which this statement runs.
LockPrefix(h, p) ==
    /\ At(h, "lock")
    /\ OnFile(req[h].customer)
    /\ PrefixFree(p)
    /\ GoTo(h, "number")
    /\ req' = [req EXCEPT ![h].prefix = p]
    /\ UNCHANGED <<orders, customers, customersMade>>

AllocateNumber(h) ==
    /\ At(h, "number")
    /\ GoTo(h, "insert")
    /\ req' = [req EXCEPT ![h].seq = NextSeq(req[h].prefix)]
    /\ UNCHANGED <<orders, customers, customersMade>>

NewOrder(h) ==
    [clientId |-> req[h].key, customer |-> req[h].customer,
     prefix |-> req[h].prefix, seq |-> req[h].seq]

\* Mutant: the unique index on clientId is missing.
DuplicateNumber(h) == req[h].seq \in SeqsOf(req[h].prefix)

\* Order_clientId_key, Order_orderNumber_key
Duplicate(h) ==
    \/ OrdersWithKey(req[h].key) # {}
    \/ req[h].seq \in SeqsOf(req[h].prefix)

\* ... or Order_customerId_fkey, when the customer has been deleted meanwhile.
Refused(h) == Duplicate(h) \/ ~OnFile(req[h].customer)

\* Mutant: the transaction of a rejected insert is not rolled back.
InsertLeftOpen(h) ==
    /\ At(h, "insert")
    /\ ~Refused(h)
    /\ orders' = orders \cup {NewOrder(h)}
    /\ Respond(h, 201, NewOrder(h))
    /\ UNCHANGED <<customers, customersMade>>

\* Mutant: INSERT ... ON CONFLICT DO NOTHING, and the order is returned anyway.
InsertOrIgnore(h) ==
    /\ At(h, "insert")
    /\ orders' = IF Refused(h) THEN orders ELSE orders \cup {NewOrder(h)}
    /\ Respond(h, 201, NewOrder(h))
    /\ UNCHANGED <<customers, customersMade>>

InsertOrder(h) ==
    /\ At(h, "insert")
    /\ IF Refused(h)
       THEN Respond(h, 400, None) /\ UNCHANGED orders
       ELSE /\ orders' = orders \cup {NewOrder(h)}
            /\ Respond(h, 201, NewOrder(h))
    /\ UNCHANGED <<customers, customersMade>>

\* Any error of Create is answered as a validation error.
CreateFails(h) ==
    /\ phase[h] \in FailsAt \cap {"lock", "number", "insert"}
    /\ Respond(h, 400, None)
    /\ UNCHANGED <<orders, customers, customersMade>>

\* An error of the lookups is ignored, as if nothing had been found.
LookupFails(h) ==
    /\ phase[h] \in FailsAt
    /\ \/ At(h, "limit") /\ GoTo(h, "lookup")
       \/ At(h, "lookup") /\ GoTo(h, "lock")
       \/ At(h, "phone") /\ GoTo(h, "newcustomer")
    /\ UNCHANGED <<orders, customers, customersMade, req>>

-----------------------------------------------------------------------------
(* POST /api/customers *)

\* Bound: a request arrives only while there is an id left for it to insert.
\* An id is given once.
FreeIds == {id \in Customer : \A c \in customersMade : c.id # id}

InsertsPending == {h \in Handler : phase[h] \in CustomerPhase}

ArriveCustomer(h, k, p) ==
    /\ At(h, "idle")
    /\ Cardinality(FreeIds) > Cardinality(InsertsPending)
    /\ GoTo(h, "phone")
    /\ req' = [req EXCEPT ![h] = [NoRequest EXCEPT !.key = k, !.phone = p]]
    /\ UNCHANGED <<orders, customers, customersMade>>

\* Both lookups at once: no row carries a key, so the second finds nothing.
FindCustomer(h) ==
    /\ At(h, "phone")
    /\ IF CustomersWithPhone(req[h].phone) # {}
       THEN Respond(h, 409, None)
       ELSE IF CustomersWithKey(req[h].key) # {}
            THEN \E c \in CustomersWithKey(req[h].key) : Respond(h, 201, c.id)
            ELSE GoTo(h, "newcustomer") /\ UNCHANGED req
    /\ UNCHANGED <<orders, customers, customersMade>>

\* The INSERT names no clientId column; Customer_branchId_phone_key may refuse it.
InsertCustomer(h, id) ==
    /\ At(h, "newcustomer")
    /\ id \in FreeIds
    /\ IF CustomersWithPhone(req[h].phone) # {}
       THEN Respond(h, 500, None) /\ UNCHANGED <<customers, customersMade>>
       ELSE /\ customers' = customers \cup
                   {[id |-> id, phone |-> req[h].phone, clientId |-> None]}
            /\ customersMade' = customersMade \cup {[id |-> id, origin |-> req[h].key]}
            /\ Respond(h, 201, id)
    /\ UNCHANGED orders

CreateCustomerFails(h) ==
    /\ phase[h] \in FailsAt
    /\ At(h, "newcustomer")
    /\ Respond(h, 500, None)
    /\ UNCHANGED <<orders, customers, customersMade>>

\* The response is written; whether it reaches the browser is not known here.
Finish(h) ==
    /\ At(h, "done")
    /\ GoTo(h, "idle")
    /\ req' = [req EXCEPT ![h] = NoRequest]
    /\ UNCHANGED <<orders, customers, customersMade>>

-----------------------------------------------------------------------------
(* What other requests do to the rows, each in one statement or transaction. *)

\* PUT /api/orders/{id} may name any customer; number and key stay.
EditOrder(o, id) ==
    /\ "edit order" \in Others
    /\ OnFile(id)
    /\ orders' = (orders \ {o}) \cup {[o EXCEPT !.customer = id]}
    /\ UNCHANGED <<customers, customersMade, phase, req>>

DeleteOrder(o) ==
    /\ "delete order" \in Others
    /\ orders' = orders \ {o}
    /\ UNCHANGED <<customers, customersMade, phase, req>>

EditCustomer(c, p) ==
    /\ "edit customer" \in Others
    /\ CustomersWithPhone(p) \subseteq {c}
    /\ customers' = (customers \ {c}) \cup {[c EXCEPT !.phone = p]}
    /\ UNCHANGED <<orders, customersMade, phase, req>>

\* A customer with orders stays.
DeleteCustomer(c) ==
    /\ "delete customer" \in Others
    /\ \A o \in orders : o.customer # c.id
    /\ customers' = customers \ {c}
    /\ UNCHANGED <<orders, customersMade, phase, req>>

-----------------------------------------------------------------------------
OrderStep(h) ==
    \/ CheckLimit(h) \/ FindByClientID(h) \/ RejectCustomer(h)
    \/ \E p \in Prefix : LockPrefix(h, p)
    \/ AllocateNumber(h) \/ InsertOrder(h)

CustomerStep(h) == FindCustomer(h) \/ \E id \in Customer : InsertCustomer(h, id)

HandlerStep(h) == OrderStep(h) \/ CustomerStep(h)

DatabaseError(h) == CreateFails(h) \/ LookupFails(h) \/ CreateCustomerFails(h)

OtherStep ==
    \/ \E o \in orders : DeleteOrder(o) \/ \E id \in Customer : EditOrder(o, id)
    \/ \E c \in customers : DeleteCustomer(c) \/ \E p \in Phone \cup {None} : EditCustomer(c, p)

\* Any customer of the tenant may be named, known or not.
Next ==
    \/ \E h \in Handler, k \in Key \cup {None} :
          \/ \E c \in Customer : ArriveOrder(h, k, c)
          \/ \E p \in Phone \cup {None} : ArriveCustomer(h, k, p)
    \/ \E h \in Handler : HandlerStep(h) \/ DatabaseError(h) \/ Finish(h)
    \/ OtherStep

Spec == Init /\ [][Next]_intakeVars

-----------------------------------------------------------------------------
(* Properties *)

\* Every row and every request in service keeps its type; in particular every
\* order that was inserted has a number and names a customer.
IntakeTypeOK ==
    /\ orders \subseteq OrderRow
    /\ customers \subseteq CustomerRow
    /\ customersMade \subseteq Making
    /\ phase \in [Handler -> {"idle", "done"} \cup OrderPhase \cup CustomerPhase]
    /\ req \in [Handler -> Request]

\* "The server has exactly one order for that clientId": copies of one request
\* that run side by side never leave two orders.
OneOrderPerKey ==
    \A o, p \in orders : (o.clientId = p.clientId /\ o.clientId # None) => o = p

\* The number a transaction has allocated stays free until it inserts its order,
\* so that concurrent cashiers do not fail on Order_orderNumber_key.
AllocatedNumbersFree ==
    \A h \in Handler : At(h, "insert") => req[h].seq \notin SeqsOf(req[h].prefix)

\* Requests that passed the limit check and have not inserted yet.
PastLimit == {h \in Handler : phase[h] \in {"lookup", "lock", "number", "insert"}}

\* The limit is checked before the insert, so it can be passed, but only by fewer
\* orders than there are requests in service, as long as the check itself works.
OvershootBounded ==
    Cardinality(orders) + Cardinality(PastLimit) < MaxOrders + Cardinality(Handler)

\* A 201 to a request with a key is about an order that exists at that moment
\* and was made under that key.
AnswersAreOrders ==
    [][\A h \in Handler :
          (phase[h] \in OrderPhase /\ phase'[h] = "done" /\ req'[h].status = 201)
              => req'[h].answer \in orders' /\ req'[h].answer.clientId = req[h].key]_intakeVars

\* Every request is answered: no transaction keeps the prefix lock for ever.
RequestsAnswered == \A h \in Handler : ~At(h, "idle") ~> At(h, "idle")
=============================================================================
