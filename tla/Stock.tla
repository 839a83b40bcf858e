-------------------------------- MODULE Stock --------------------------------
(***************************************************************************)
(* The inventory module: stock items with a running quantity, and the      *)
(* movements that are supposed to explain it.  A movement is a transaction *)
(* of three statements; an edit reads the item in one request step and     *)
(* writes the whole row back in another; a deletion is one statement and   *)
(* cascades to the movements.  What serialises them is the lock of the     *)
(* item's row, held from the first statement that asks for it to the end   *)
(* of the transaction.                                                     *)
(*                                                                         *)
(* Quantities are counted in the grain of their columns, numeric(12,3).    *)
(***************************************************************************)
EXTENDS Integers, FiniteSets, Functions

CONSTANTS
    Item,      \* ids a "StockItem" row may get (uuids: never reused)
    Movement,  \* ids a "StockMovement" row may get
    Session,
    Quantity,  \* quantities a body may name, of any sign
    Limit,     \* bound: no edit or IN takes an item beyond this quantity
    None

ASSUME StockAssumption ==
    /\ Quantity \subseteq Int /\ Limit \in Nat
    /\ None \notin Item \cup Movement
    /\ None \notin [item: Item, type: {"IN", "OUT", "ADJUSTMENT"}, quantity: Int]
    /\ IsFiniteSet(Movement)

VARIABLES
    item,      \* the "StockItem" table
    movement,  \* the "StockMovement" table, None for ids not in use
    issued,    \* movement ids generated so far
    pc,
    req        \* what each session's request was asked for and has read

vars == <<item, movement, issued, pc, req>>

-----------------------------------------------------------------------------
(* Rows *)

Type == {"IN", "OUT", "ADJUSTMENT"}

\* base is not a column: what the movements on file are counted from.
ItemRow == [stage: {"unborn", "live", "deleted"}, quantity: Int, base: Int]

MovementRow == [item: Item, type: Type, quantity: Int]

Phase == {"idle", "begun", "locked", "updated", "editing"}

Request == [item: Item \cup {None}, type: Type, quantity: Int, seen: Int]

NoRequest == [item |-> None, type |-> "IN", quantity |-> 0, seen |-> 0]

Exists(i) == item[i].stage = "live"

Delta(m) == IF m.type = "OUT" THEN -m.quantity ELSE m.quantity

MovementsOf(i) == {m \in Movement : movement[m] # None /\ movement[m].item = i}

Moved(i) == SumFunction([m \in MovementsOf(i) |-> Delta(movement[m])])

\* A statement that found no row locks none.
HoldsRow(s, i) == pc[s] \in {"locked", "updated"} /\ req[s].item = i /\ Exists(i)

RowFree(i, s) == \A t \in Session \ {s} : ~HoldsRow(t, i)

Enter(s, phase, r) == pc' = [pc EXCEPT ![s] = phase] /\ req' = [req EXCEPT ![s] = r]

Done(s) == Enter(s, "idle", NoRequest)

Init ==
    /\ item = [i \in Item |-> [stage |-> "unborn", quantity |-> 0, base |-> 0]]
    /\ movement = [m \in Movement |-> None]
    /\ issued = {}
    /\ pc = [s \in Session |-> "idle"]
    /\ req = [s \in Session |-> NoRequest]

-----------------------------------------------------------------------------
(* Items *)

CreateItem(i, n) ==
    /\ item[i].stage = "unborn"
    /\ item' = [item EXCEPT ![i] = [stage |-> "live", quantity |-> n, base |-> n]]
    /\ UNCHANGED <<movement, issued, pc, req>>

\* The handler gets the item and decodes the body over it: the quantity it will
\* write is the body's, or the one it read.
BeginEdit(s, i) ==
    /\ pc[s] = "idle" /\ Exists(i)
    /\ \E n \in Quantity \cup {item[i].quantity} :
          Enter(s, "editing", [item |-> i, type |-> "IN", quantity |-> n, seen |-> 0])
    /\ UNCHANGED <<item, movement, issued>>

CommitEdit(s) ==
    LET i == req[s].item  n == req[s].quantity IN
    /\ pc[s] = "editing" /\ RowFree(i, s)
    /\ item' = IF Exists(i)
               THEN [item EXCEPT ![i].quantity = n, ![i].base = n - Moved(i)]
               ELSE item
    /\ Done(s)
    /\ UNCHANGED <<movement, issued>>

\* Mutant: the foreign key does not cascade.
DeleteItemOnly(i) ==
    /\ Exists(i) /\ \A s \in Session : RowFree(i, s)
    /\ item' = [item EXCEPT ![i].stage = "deleted"]
    /\ UNCHANGED <<movement, issued, pc, req>>

DeleteItem(i) ==
    /\ Exists(i) /\ \A s \in Session : ~HoldsRow(s, i)
    /\ item' = [item EXCEPT ![i].stage = "deleted"]
    /\ movement' = [m \in Movement |-> IF m \in MovementsOf(i) THEN None ELSE movement[m]]
    /\ UNCHANGED <<issued, pc, req>>

-----------------------------------------------------------------------------
(* Movements *)

\* Mutant: the service takes a magnitude of either sign.
NonZero(type, n) == n # 0

Valid(type, n) == n # 0 /\ (n > 0 \/ type = "ADJUSTMENT")

\* Get finds the item, the service validates, BEGIN.
BeginMovement(s, i, type, n) ==
    /\ pc[s] = "idle" /\ Exists(i) /\ Valid(type, n)
    /\ item[i].quantity + n <= Limit
    /\ Enter(s, "begun", [item |-> i, type |-> type, quantity |-> n,
                          seen |-> item[i].quantity])
    /\ UNCHANGED <<item, movement, issued>>

Enough(s) == item[req[s].item].quantity >= req[s].quantity

\* Mutant: the quantity is read without FOR UPDATE.
ReadUnlocked(s) == TRUE

Lockable(s) == RowFree(req[s].item, s)

\* Only an OUT reads the quantity again, under the lock.
LockItem(s) ==
    /\ pc[s] = "begun" /\ req[s].type = "OUT"
    /\ Exists(req[s].item) /\ Lockable(s) /\ Enough(s)
    /\ Enter(s, "locked", req[s])
    /\ UNCHANGED <<item, movement, issued>>

\* Mutant: an OUT that finds too little waits for stock, the row locked.
WaitForStock(s) == FALSE

\* The row is gone, or holds too little: rolled back.
RefuseOut(s) ==
    /\ pc[s] = "begun" /\ req[s].type = "OUT"
    /\ Lockable(s)
    /\ ~Exists(req[s].item) \/ ~Enough(s)
    /\ Done(s)
    /\ UNCHANGED <<item, movement, issued>>

\* The UPDATE: it adds to the row as it is now, and is seen at the commit.
UpdateQuantity(s) ==
    /\ pc[s] = IF req[s].type = "OUT" THEN "locked" ELSE "begun"
    /\ RowFree(req[s].item, s)
    /\ Enter(s, "updated", req[s])
    /\ UNCHANGED <<item, movement, issued>>

\* Mutant: the sum is made in Go, from the quantity the handler read.
SumOfSeen(s) == req[s].seen + Delta(req[s])

NewQuantity(s) == item[req[s].item].quantity + Delta(req[s])

\* The INSERT, whose foreign key finds the item, and COMMIT.
CommitMovement(s) ==
    LET i == req[s].item  m == CHOOSE k \in Movement \ issued : TRUE IN
    /\ pc[s] = "updated" /\ Exists(i)
    /\ issued # Movement /\ issued' = issued \cup {m}
    /\ item' = [item EXCEPT ![i].quantity = NewQuantity(s)]
    /\ movement' = [movement EXCEPT ![m] =
          [item |-> i, type |-> req[s].type, quantity |-> req[s].quantity]]
    /\ Done(s)

\* The foreign key finds no item, the date does not parse, a statement fails,
\* or the caller has gone.
Rollback(s) ==
    /\ pc[s] \in {"begun", "locked", "updated"}
    /\ Done(s)
    /\ UNCHANGED <<item, movement, issued>>

-----------------------------------------------------------------------------
\* What a request does when nothing fails; ids run out only here.
Proceed(s) ==
    \/ CommitEdit(s) \/ LockItem(s) \/ RefuseOut(s) \/ UpdateQuantity(s)
    \/ CommitMovement(s)
    \/ /\ pc[s] = "updated" /\ (~Exists(req[s].item) \/ issued = Movement)
       /\ Rollback(s)

Next ==
    \/ \E i \in Item :
          \/ \E n \in Quantity : CreateItem(i, n)
          \/ DeleteItem(i)
          \/ \E s \in Session :
                \/ BeginEdit(s, i)
                \/ \E type \in Type, n \in Quantity : BeginMovement(s, i, type, n)
    \/ \E s \in Session : Proceed(s) \/ Rollback(s)

Spec == Init /\ [][Next]_vars

\* Postgres serves the waiters of a row lock in turn.
FairSpec == Spec /\ \A s \in Session : SF_vars(Proceed(s))

-----------------------------------------------------------------------------
(* Properties *)

\* The tables keep their types, and a magnitude on file is positive: an IN that
\* takes stock away, or an OUT that brings some, never gets past the service.
StockTypeOK ==
    /\ item \in [Item -> ItemRow]
    /\ movement \in [Movement -> MovementRow \cup {None}]
    /\ issued \subseteq Movement
    /\ pc \in [Session -> Phase]
    /\ req \in [Session -> Request]
    /\ \A m \in Movement :
          movement[m] # None /\ movement[m].type # "ADJUSTMENT" => movement[m].quantity > 0

\* A movement on file belongs to an item that is there, also when the item was
\* deleted while the movement was under way.
MovementsHaveItems ==
    \A m \in Movement : movement[m] # None => Exists(movement[m].item)

\* The quantity of an item is what it was created with or last edited to, plus
\* what the movements on file since then have moved: concurrent movements are
\* neither lost nor counted twice, and none that failed half-way is counted.
MovementsExplainQuantity ==
    \A i \in Item : Exists(i) => item[i].quantity = item[i].base + Moved(i)

\* Movements out never take more than there is, however many overlap: a
\* quantity that falls below zero fell by an adjustment or an edit.
OutsAreCovered ==
    [][\A i \in Item, s \in Session :
          pc[s] = "updated" /\ req[s].item = i /\ req[s].type = "OUT"
             /\ item'[i].quantity # item[i].quantity /\ pc'[s] = "idle"
          => item'[i].quantity >= 0]_vars

\* Every request ends: no movement keeps an item locked for good.
StockRequestsEnd == \A s \in Session : pc[s] # "idle" ~> pc[s] = "idle"
=============================================================================
