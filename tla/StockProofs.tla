----------------------------- MODULE StockProofs -----------------------------
(* Proofs about the inventory, for every instance of Stock. *)
EXTENDS Stock, SumTheorems

\* What a request has read of its body, and that a magnitude is positive.
RequestsValid ==
    \A s \in Session :
        /\ pc[s] # "idle" => req[s].item \in Item /\ item[req[s].item].stage # "unborn"
        /\ pc[s] \in {"begun", "locked", "updated"} =>
              req[s].type = "ADJUSTMENT" \/ req[s].quantity > 0
        /\ pc[s] = "locked" => req[s].type = "OUT"

\* At most one transaction holds the row of an item.
RowsExclusive ==
    \A i \in Item, s, t \in Session : HoldsRow(s, i) /\ HoldsRow(t, i) => s = t

\* An OUT that holds the row of its item still finds what it found there.
OutsHaveEnough ==
    \A s \in Session :
        pc[s] \in {"locked", "updated"} /\ req[s].type = "OUT" /\ Exists(req[s].item)
            => item[req[s].item].quantity >= req[s].quantity

\* The id of a movement on file has been issued.
IdsIssued == \A m \in Movement : movement[m] # None => m \in issued

\* The inductive invariant.
IInv ==
    /\ StockTypeOK /\ RequestsValid /\ RowsExclusive /\ OutsHaveEnough /\ IdsIssued
    /\ MovementsHaveItems /\ MovementsExplainQuantity

-----------------------------------------------------------------------------
(* Requests *)

\* A request record, by its fields.
LEMMA EnterFields ==
  ASSUME NEW s \in Session, NEW phase, NEW r, StockTypeOK, Enter(s, phase, r)
  PROVE  /\ pc'[s] = phase /\ req'[s] = r
         /\ \A t \in Session \ {s} : pc'[t] = pc[t] /\ req'[t] = req[t]
         /\ phase \in Phase /\ r \in Request =>
               pc' \in [Session -> Phase] /\ req' \in [Session -> Request]
  BY DEF Enter, StockTypeOK

\* The record of a session without a request.
LEMMA NoRequestTyped == NoRequest \in Request
  BY DEF NoRequest, Request, Type

-----------------------------------------------------------------------------
(* Sums of movements *)

\* Movements that are the same add up to the same.
LEMMA MovedSame ==
  ASSUME NEW i \in Item, MovementsOf(i)' = MovementsOf(i),
         \A m \in MovementsOf(i) : movement'[m] = movement[m]
  PROVE  Moved(i)' = Moved(i)
<1>1. [m \in MovementsOf(i)' |-> Delta(movement'[m])]
      = [m \in MovementsOf(i) |-> Delta(movement[m])]
  OBVIOUS
<1> QED
  BY <1>1 DEF Moved

\* What the movements of an item have moved is an integer.
LEMMA MovedInt ==
  ASSUME NEW i \in Item, StockTypeOK
  PROVE  /\ IsFiniteSet(MovementsOf(i)) /\ Moved(i) \in Int
         /\ \A m \in MovementsOf(i) : Delta(movement[m]) \in Int
<1>1. MovementsOf(i) \subseteq Movement /\ IsFiniteSet(Movement)
  BY StockAssumption DEF MovementsOf
<1>2. IsFiniteSet(MovementsOf(i))
  BY <1>1, FS_Subset
<1>3. \A m \in MovementsOf(i) : Delta(movement[m]) \in Int
  BY DEF MovementsOf, StockTypeOK, MovementRow, Delta
<1> DEFINE f == [m \in MovementsOf(i) |-> Delta(movement[m])]
<1>4. SumFunctionOnSet(f, MovementsOf(i)) \in Int
  <2>1. \A m \in MovementsOf(i) : f[m] \in Int
    BY <1>3
  <2> HIDE DEF f
  <2> QED
    BY <1>2, <2>1, SumInt
<1> QED
  BY <1>2, <1>3, <1>4 DEF Moved, SumFunction

\* No movements have moved nothing.
LEMMA MovedNothing ==
  ASSUME NEW i \in Item, MovementsOf(i) = {} PROVE Moved(i) = 0
<1> DEFINE f == [m \in MovementsOf(i) |-> Delta(movement[m])]
<1>1. SumFunctionOnSet(f, {}) = 0
  BY SumEmpty
<1> QED
  BY <1>1 DEF Moved, SumFunction

\* A new movement moves what it says.
LEMMA MovedMore ==
  ASSUME NEW i \in Item, NEW m \in Movement, StockTypeOK, movement[m] = None,
         NEW row \in MovementRow, row.item = i,
         movement' = [movement EXCEPT ![m] = row], StockTypeOK'
  PROVE  /\ Moved(i)' = Moved(i) + Delta(row)
         /\ \A j \in Item \ {i} : Moved(j)' = Moved(j)
<1>1. row # None /\ Delta(row) \in Int
  BY StockAssumption DEF MovementRow, Type, Delta
<1>2. movement'[m] = row /\ \A k \in Movement \ {m} : movement'[k] = movement[k]
  BY DEF StockTypeOK
<1>3. m \notin MovementsOf(i) /\ MovementsOf(i)' = MovementsOf(i) \cup {m}
  BY <1>1, <1>2 DEF MovementsOf
<1>4. \A j \in Item \ {i} : MovementsOf(j)' = MovementsOf(j) /\ m \notin MovementsOf(j)
  BY <1>1, <1>2 DEF MovementsOf
<1>5. ASSUME NEW j \in Item \ {i} PROVE Moved(j)' = Moved(j)
  <2>1. \A k \in MovementsOf(j) : movement'[k] = movement[k]
    BY <1>2, <1>4 DEF MovementsOf
  <2> QED
    BY <1>4, <2>1, MovedSame
<1> DEFINE f == [k \in MovementsOf(i) |-> Delta(movement[k])]
           g == [k \in MovementsOf(i) \cup {m} |-> Delta(movement'[k])]
<1>6. /\ IsFiniteSet(MovementsOf(i))
      /\ \A k \in MovementsOf(i) : f[k] \in Int /\ g[k] = f[k]
      /\ g[m] = Delta(row)
  <2>1. \A k \in MovementsOf(i) : movement'[k] = movement[k]
    BY <1>2, <1>3 DEF MovementsOf
  <2> QED
    BY <2>1, <1>2, MovedInt
<1>7. Moved(i) = SumFunctionOnSet(f, MovementsOf(i))
  BY DEF Moved, SumFunction
<1>8. Moved(i)' = SumFunctionOnSet(g, MovementsOf(i) \cup {m})
  BY <1>3 DEF Moved, SumFunction
<1> HIDE DEF f, g
<1>9. SumFunctionOnSet(g, MovementsOf(i) \cup {m})
      = g[m] + SumFunctionOnSet(g, MovementsOf(i))
  BY <1>1, <1>3, <1>6, SumAddInt
<1>10. SumFunctionOnSet(g, MovementsOf(i)) = SumFunctionOnSet(f, MovementsOf(i))
  BY <1>6, SumCongruence
<1>11. Moved(i) \in Int
  BY MovedInt
<1> QED
  BY <1>1, <1>5, <1>6, <1>7, <1>8, <1>9, <1>10, <1>11

-----------------------------------------------------------------------------
(* Steps of a session *)

\* What a step of a session may leave in its request.
Sound(s, phase, r) ==
    /\ phase \in Phase /\ r \in Request
    /\ phase # "idle" => r.item \in Item /\ item[r.item].stage # "unborn"
    /\ phase \in {"begun", "locked", "updated"} =>
          r.type = "ADJUSTMENT" \/ r.quantity > 0
    /\ phase = "locked" => r.type = "OUT"
    /\ phase \in {"locked", "updated"} /\ Exists(r.item) =>
          /\ RowFree(r.item, s)
          /\ r.type = "OUT" => item[r.item].quantity >= r.quantity

\* A step of a session that changes no quantity under another's lock, and no
\* item's stage, keeps what the locks are for.
LEMMA SessionStep ==
  ASSUME StockTypeOK, RequestsValid, RowsExclusive, OutsHaveEnough,
         NEW s \in Session, NEW phase, NEW r, Enter(s, phase, r), Sound(s, phase, r),
         item' \in [Item -> ItemRow],
         \A i \in Item : item'[i].stage = item[i].stage,
         \A i \in Item : item'[i].quantity # item[i].quantity =>
             RowFree(i, s) /\ phase = "idle"
  PROVE  RequestsValid' /\ RowsExclusive' /\ OutsHaveEnough'
<1>1. /\ pc'[s] = phase /\ req'[s] = r
      /\ \A t \in Session \ {s} : pc'[t] = pc[t] /\ req'[t] = req[t]
  BY EnterFields
<1>2. \A i \in Item : Exists(i)' <=> Exists(i)
  BY DEF Exists
<1>3. RequestsValid'
  BY <1>1 DEF RequestsValid, Sound
<1>4. \A i \in Item, t \in Session \ {s} : HoldsRow(t, i)' <=> HoldsRow(t, i)
  BY <1>1, <1>2 DEF HoldsRow
<1>5. \A i \in Item : HoldsRow(s, i)' => RowFree(i, s)
  BY <1>1, <1>2 DEF HoldsRow, Sound
<1>6. RowsExclusive'
  <2> SUFFICES ASSUME NEW i \in Item, NEW t \in Session, NEW u \in Session,
                      HoldsRow(t, i)', HoldsRow(u, i)'
               PROVE  t = u
    BY DEF RowsExclusive
  <2>1. CASE t = s \/ u = s
    BY <2>1, <1>4, <1>5 DEF RowFree
  <2>2. CASE t # s /\ u # s
    BY <2>2, <1>4 DEF RowsExclusive
  <2> QED
    BY <2>1, <2>2
<1>7. OutsHaveEnough'
  <2> SUFFICES ASSUME NEW t \in Session, (pc[t] \in {"locked", "updated"})',
                      (req[t].type = "OUT")', Exists(req[t].item)'
               PROVE  (item[req[t].item].quantity >= req[t].quantity)'
    BY DEF OutsHaveEnough
  <2>1. CASE t = s
    <3>1. r.item \in Item /\ phase # "idle"
      BY <2>1, <1>1 DEF Sound
    <3>2. item'[r.item].quantity = item[r.item].quantity
      BY <3>1
    <3> QED
      BY <2>1, <3>1, <3>2, <1>1, <1>2 DEF Sound
  <2>2. CASE t # s
    <3>1. pc'[t] = pc[t] /\ req'[t] = req[t] /\ req[t].item \in Item
      BY <2>2, <1>1 DEF RequestsValid
    <3>2. HoldsRow(t, req[t].item)
      BY <3>1, <1>2 DEF HoldsRow
    <3>3. item'[req[t].item].quantity = item[req[t].item].quantity
      BY <2>2, <3>1, <3>2 DEF RowFree
    <3> QED
      BY <3>1, <3>2, <3>3, <1>2 DEF OutsHaveEnough, HoldsRow
  <2> QED
    BY <2>1, <2>2
<1> QED
  BY <1>3, <1>6, <1>7

\* A step of a session that leaves the tables alone keeps the invariant.
LEMMA RequestStep ==
  ASSUME IInv, NEW s \in Session, NEW phase, NEW r,
         Enter(s, phase, r), Sound(s, phase, r),
         UNCHANGED <<item, movement, issued>>
  PROVE  IInv'
<1> USE DEF IInv
<1>1. StockTypeOK'
  BY EnterFields DEF StockTypeOK, Sound
<1>2. RequestsValid' /\ RowsExclusive' /\ OutsHaveEnough'
  <2>1. item' \in [Item -> ItemRow]
    BY DEF StockTypeOK
  <2> QED
    BY <2>1, SessionStep
<1>3. IdsIssued' /\ MovementsHaveItems'
  BY DEF IdsIssued, MovementsHaveItems, Exists
<1>4. MovementsExplainQuantity'
  BY DEF MovementsExplainQuantity, Moved, MovementsOf, Exists
<1> QED
  BY <1>1, <1>2, <1>3, <1>4

\* A request that is done leaves nothing to be sound.
LEMMA IdleSound == \A s \in Session : Sound(s, "idle", NoRequest)
  BY NoRequestTyped DEF Sound, Phase

-----------------------------------------------------------------------------
(* Actions *)

\* An edit begins.
LEMMA BeginEditKeeps ==
  ASSUME IInv, NEW s \in Session, NEW i \in Item, BeginEdit(s, i) PROVE IInv'
<1>1. PICK n \in Quantity \cup {item[i].quantity} :
         Enter(s, "editing", [item |-> i, type |-> "IN", quantity |-> n, seen |-> 0])
  BY DEF BeginEdit
<1> DEFINE r == [item |-> i, type |-> "IN", quantity |-> n, seen |-> 0]
<1>2. n \in Int
  BY StockAssumption DEF IInv, StockTypeOK, ItemRow
<1>3. Sound(s, "editing", r)
  BY <1>2 DEF Sound, Request, Phase, Type, BeginEdit, Exists
<1> HIDE DEF r
<1> QED
  BY <1>1, <1>3, RequestStep DEF BeginEdit, r

\* A movement begins.
LEMMA BeginMovementKeeps ==
  ASSUME IInv, NEW s \in Session, NEW i \in Item, NEW type \in Type,
         NEW n \in Quantity, BeginMovement(s, i, type, n)
  PROVE  IInv'
<1> DEFINE r == [item |-> i, type |-> type, quantity |-> n, seen |-> item[i].quantity]
<1>1. r \in Request /\ item[i].stage = "live"
  BY StockAssumption DEF BeginMovement, Exists, Request, IInv, StockTypeOK, ItemRow
<1>2. n > 0 \/ type = "ADJUSTMENT"
  BY StockAssumption DEF BeginMovement, Valid
<1>3. Sound(s, "begun", r)
  BY <1>1, <1>2 DEF Sound, Phase
<1> HIDE DEF r
<1> QED
  BY <1>3, RequestStep DEF BeginMovement, r

\* A movement out takes the lock of its item.
LEMMA LockItemKeeps ==
  ASSUME IInv, NEW s \in Session, LockItem(s) PROVE IInv'
<1>1. req[s] \in Request
  BY DEF IInv, StockTypeOK
<1>2. Sound(s, "locked", req[s])
  BY <1>1 DEF Sound, Phase, LockItem, Lockable, Enough, IInv, RequestsValid
<1> QED
  BY <1>2, RequestStep DEF LockItem

\* A movement updates the quantity of its item.
LEMMA UpdateQuantityKeeps ==
  ASSUME IInv, NEW s \in Session, UpdateQuantity(s) PROVE IInv'
<1>1. req[s] \in Request
  BY DEF IInv, StockTypeOK
<1>2. Sound(s, "updated", req[s])
  BY <1>1 DEF Sound, Phase, UpdateQuantity, IInv, RequestsValid, OutsHaveEnough
<1> QED
  BY <1>2, RequestStep DEF UpdateQuantity

\* A movement is refused or rolled back.
LEMMA GiveUpKeeps ==
  ASSUME IInv, NEW s \in Session, RefuseOut(s) \/ Rollback(s) PROVE IInv'
<1>1. Enter(s, "idle", NoRequest) /\ UNCHANGED <<item, movement, issued>>
  BY DEF RefuseOut, Rollback, Done
<1> QED
  BY <1>1, IdleSound, RequestStep

\* An item is created: it has no movements yet.
LEMMA CreateItemKeeps ==
  ASSUME IInv, NEW i \in Item, NEW n \in Quantity, CreateItem(i, n) PROVE IInv'
<1> USE DEF IInv
<1> DEFINE row == [stage |-> "live", quantity |-> n, base |-> n]
<1>1. row \in ItemRow
  BY StockAssumption DEF ItemRow
<1> HIDE DEF row
<1>2. /\ item'[i] = row /\ \A j \in Item \ {i} : item'[j] = item[j]
      /\ item' \in [Item -> ItemRow]
  BY <1>1 DEF CreateItem, StockTypeOK, row
<1>3. item[i].stage = "unborn" /\ UNCHANGED <<movement, issued, pc, req>>
  BY DEF CreateItem
<1>4. row.stage = "live" /\ row.quantity = n /\ row.base = n
  BY DEF row
<1>5. StockTypeOK'
  BY <1>2, <1>3 DEF StockTypeOK
<1>6. \A s \in Session : pc[s] # "idle" =>
          /\ req[s].item \in Item \ {i}
          /\ item'[req[s].item] = item[req[s].item]
  BY <1>2, <1>3 DEF RequestsValid
<1>7. RequestsValid' /\ OutsHaveEnough'
  BY <1>3, <1>6 DEF RequestsValid, OutsHaveEnough, Exists
<1>8. RowsExclusive'
  BY <1>3, <1>6 DEF RowsExclusive, HoldsRow, Exists
<1>9. IdsIssued' /\ MovementsHaveItems'
  BY <1>2, <1>3 DEF IdsIssued, MovementsHaveItems, Exists, StockTypeOK, MovementRow
<1>10. \A j \in Item : Moved(j)' = Moved(j)
  BY <1>3 DEF Moved, MovementsOf
<1>11. Moved(i) = 0
  BY <1>3, MovedNothing DEF MovementsOf, MovementsHaveItems, Exists
<1>12. MovementsExplainQuantity'
  <2> SUFFICES ASSUME NEW j \in Item, Exists(j)'
               PROVE  item'[j].quantity = item'[j].base + Moved(j)'
    BY DEF MovementsExplainQuantity
  <2>1. CASE j = i
    BY <2>1, <1>2, <1>4, <1>10, <1>11, StockAssumption
  <2>2. CASE j # i
    BY <2>2, <1>2, <1>10 DEF MovementsExplainQuantity, Exists
  <2> QED
    BY <2>1, <2>2
<1> QED
  BY <1>5, <1>7, <1>8, <1>9, <1>12

\* An item is deleted with its movements.
LEMMA DeleteItemKeeps ==
  ASSUME IInv, NEW i \in Item, DeleteItem(i) PROVE IInv'
<1> USE DEF IInv
<1>1. /\ item'[i].stage = "deleted" /\ \A j \in Item \ {i} : item'[j] = item[j]
      /\ item' \in [Item -> ItemRow]
  BY DEF DeleteItem, StockTypeOK, ItemRow
<1>2. \A m \in Movement :
         movement'[m] = IF m \in MovementsOf(i) THEN None ELSE movement[m]
  BY DEF DeleteItem
<1>3. UNCHANGED <<issued, pc, req>>
  BY DEF DeleteItem
<1>4. movement' \in [Movement -> MovementRow \cup {None}]
  BY DEF DeleteItem, StockTypeOK
<1>5. StockTypeOK'
  BY <1>1, <1>2, <1>3, <1>4 DEF StockTypeOK
<1>6. \A j \in Item : Exists(j)' => j # i /\ item'[j] = item[j] /\ Exists(j)
  BY <1>1 DEF Exists
<1>7. RequestsValid'
  <2>1. \A j \in Item : item[j].stage # "unborn" => item'[j].stage # "unborn"
    BY <1>1
  <2> QED
    BY <2>1, <1>3 DEF RequestsValid
<1>8. RowsExclusive'
  BY <1>3, <1>6 DEF RowsExclusive, HoldsRow
<1>9. OutsHaveEnough'
  BY <1>3, <1>6 DEF OutsHaveEnough, RequestsValid
<1>10. IdsIssued'
  BY <1>2, <1>3 DEF IdsIssued
<1>11. MovementsHaveItems'
  <2> SUFFICES ASSUME NEW m \in Movement, movement'[m] # None
               PROVE  item'[movement'[m].item].stage = "live"
    BY DEF MovementsHaveItems, Exists
  <2>1. movement'[m] = movement[m] /\ m \notin MovementsOf(i)
    BY <1>2
  <2>2. movement[m].item \in Item \ {i}
    BY <2>1 DEF MovementsOf, StockTypeOK, MovementRow
  <2> QED
    BY <2>1, <2>2, <1>1 DEF MovementsHaveItems, Exists
<1>12. MovementsExplainQuantity'
  <2> SUFFICES ASSUME NEW j \in Item, Exists(j)'
               PROVE  item'[j].quantity = item'[j].base + Moved(j)'
    BY DEF MovementsExplainQuantity
  <2>1. j # i /\ item'[j] = item[j] /\ Exists(j)
    BY <1>6
  <2>2. \A m \in MovementsOf(j) : m \notin MovementsOf(i)
    BY <2>1 DEF MovementsOf
  <2>3. /\ \A m \in MovementsOf(j) : movement'[m] = movement[m]
        /\ MovementsOf(j)' = MovementsOf(j)
    BY <2>2, <1>2 DEF MovementsOf
  <2>4. Moved(j)' = Moved(j)
    BY <2>3, MovedSame
  <2> QED
    BY <2>1, <2>4 DEF MovementsExplainQuantity
<1> QED
  BY <1>5, <1>7, <1>8, <1>9, <1>10, <1>11, <1>12

\* An edit writes the row back; what it counts from makes up for what has moved.
LEMMA CommitEditKeeps ==
  ASSUME IInv, NEW s \in Session, CommitEdit(s) PROVE IInv'
<1> USE DEF IInv
<1> DEFINE i == req[s].item  n == req[s].quantity
           row == [item[i] EXCEPT !.quantity = n, !.base = n - Moved(i)]
<1>1. i \in Item /\ n \in Int /\ Moved(i) \in Int
  BY MovedInt DEF RequestsValid, CommitEdit, StockTypeOK, Request
<1>2. /\ Enter(s, "idle", NoRequest) /\ RowFree(i, s) /\ Sound(s, "idle", NoRequest)
      /\ UNCHANGED <<movement, issued>>
  BY IdleSound DEF CommitEdit, Done
<1>3. \A j \in Item : Moved(j)' = Moved(j)
  BY <1>2 DEF Moved, MovementsOf
<1>4. CASE ~Exists(i)
  BY <1>2, <1>4, RequestStep DEF CommitEdit
<1>5. CASE Exists(i)
  <2>1. item' = [item EXCEPT ![i] = row]
    BY <1>5 DEF CommitEdit
  <2>2. row.stage = item[i].stage /\ row.quantity = n /\ row.base = n - Moved(i)
    BY <1>1 DEF StockTypeOK, ItemRow
  <2>3. row \in ItemRow
    <3> DEFINE half == [item[i] EXCEPT !.quantity = n]
    <3>1. half \in ItemRow
      BY <1>1 DEF StockTypeOK, ItemRow
    <3>2. row = [half EXCEPT !.base = n - Moved(i)]
      OBVIOUS
    <3> HIDE DEF half, row
    <3> QED
      BY <1>1, <3>1, <3>2 DEF ItemRow
  <2> HIDE DEF row
  <2>4. /\ item'[i] = row /\ \A j \in Item \ {i} : item'[j] = item[j]
        /\ item' \in [Item -> ItemRow]
    BY <1>1, <2>1, <2>3 DEF StockTypeOK
  <2>5. \A j \in Item : item'[j].stage = item[j].stage
    BY <2>2, <2>4
  <2> HIDE DEF i, n
  <2>6. RequestsValid' /\ RowsExclusive' /\ OutsHaveEnough'
    BY <1>2, <2>4, <2>5, SessionStep
  <2>7. StockTypeOK'
    <3>1. pc' \in [Session -> Phase] /\ req' \in [Session -> Request]
      BY <1>2, EnterFields DEF Sound
    <3> QED
      BY <1>2, <2>4, <3>1 DEF StockTypeOK
  <2>8. IdsIssued' /\ MovementsHaveItems'
    BY <1>2, <2>5 DEF IdsIssued, MovementsHaveItems, Exists, StockTypeOK, MovementRow
  <2>9. MovementsExplainQuantity'
    <3> SUFFICES ASSUME NEW j \in Item, Exists(j)'
                 PROVE  item'[j].quantity = item'[j].base + Moved(j)'
      BY DEF MovementsExplainQuantity
    <3>1. CASE j = i
      BY <3>1, <1>1, <1>3, <2>2, <2>4
    <3>2. CASE j # i
      BY <3>2, <1>3, <2>4 DEF MovementsExplainQuantity, Exists
    <3> QED
      BY <3>1, <3>2
  <2> QED
    BY <2>6, <2>7, <2>8, <2>9
<1> QED
  BY <1>4, <1>5

\* What a committed movement does, with the record and the id named.
LEMMA CommitMovementFields ==
  ASSUME IInv, NEW s \in Session, CommitMovement(s)
  PROVE  \E m \in Movement \ issued, row \in MovementRow :
            /\ issued' = issued \cup {m}
            /\ movement' = [movement EXCEPT ![m] = row]
            /\ row.item = req[s].item
            /\ row.type = req[s].type /\ row.quantity = req[s].quantity
            /\ Delta(row) = Delta(req[s]) /\ Delta(row) \in Int
            /\ row.type # "ADJUSTMENT" => row.quantity > 0
<1> DEFINE m == CHOOSE k \in Movement \ issued : TRUE
           row == [item |-> req[s].item, type |-> req[s].type,
                   quantity |-> req[s].quantity]
<1>1. m \in Movement \ issued
  <2>1. \E k : k \in Movement \ issued
    BY DEF CommitMovement, IInv, StockTypeOK
  <2> QED
    BY Zenon, <2>1
<1>2. issued' = issued \cup {m} /\ movement' = [movement EXCEPT ![m] = row]
  BY DEF CommitMovement
<1>3. /\ pc[s] = "updated" /\ req[s] \in Request /\ req[s].item \in Item
      /\ req[s].type = "ADJUSTMENT" \/ req[s].quantity > 0
  BY DEF CommitMovement, IInv, StockTypeOK, RequestsValid
<1>4. row \in MovementRow
  BY <1>3 DEF MovementRow, Request
<1>5. /\ row.item = req[s].item
      /\ row.type = req[s].type /\ row.quantity = req[s].quantity
      /\ Delta(row) = Delta(req[s]) /\ Delta(row) \in Int
      /\ row.type # "ADJUSTMENT" => row.quantity > 0
  BY <1>3 DEF Delta, Request
<1> HIDE DEF m, row
<1> QED
  BY <1>1, <1>2, <1>4, <1>5

\* A movement commits: the quantity and the movements grow by the same.
LEMMA CommitMovementKeeps ==
  ASSUME IInv, NEW s \in Session, CommitMovement(s) PROVE IInv'
<1> USE DEF IInv
<1>0. PICK i \in Item : i = req[s].item
  BY DEF CommitMovement, RequestsValid
<1> DEFINE row == [item[i] EXCEPT !.quantity = NewQuantity(s)]
<1>1. PICK m \in Movement \ issued, new \in MovementRow :
         /\ issued' = issued \cup {m}
         /\ movement' = [movement EXCEPT ![m] = new]
         /\ new.item = i /\ Delta(new) = Delta(req[s]) /\ Delta(new) \in Int
         /\ new.type # "ADJUSTMENT" => new.quantity > 0
  BY <1>0, CommitMovementFields
<1>2. /\ pc[s] = "updated" /\ Exists(i)
      /\ item' = [item EXCEPT ![i] = row]
      /\ Enter(s, "idle", NoRequest) /\ Sound(s, "idle", NoRequest)
  BY <1>0, IdleSound DEF CommitMovement, Done
<1>3. NewQuantity(s) = item[i].quantity + Delta(new) /\ NewQuantity(s) \in Int
  BY <1>0, <1>1, <1>2 DEF NewQuantity, StockTypeOK, ItemRow
<1>4. /\ row.stage = "live" /\ row.quantity = NewQuantity(s)
      /\ row.base = item[i].base /\ row \in ItemRow
  BY <1>2, <1>3 DEF StockTypeOK, ItemRow, Exists
<1>5. RowFree(i, s)
  BY <1>0, <1>2 DEF RowFree, HoldsRow, RowsExclusive
<1> HIDE DEF row
<1>6. /\ item'[i] = row /\ \A j \in Item \ {i} : item'[j] = item[j]
      /\ item' \in [Item -> ItemRow]
  BY <1>2, <1>4 DEF StockTypeOK
<1>7. \A j \in Item : item'[j].stage = item[j].stage
  BY <1>2, <1>4, <1>6 DEF Exists
<1>8. RequestsValid' /\ RowsExclusive' /\ OutsHaveEnough'
  BY <1>2, <1>5, <1>6, <1>7, SessionStep
<1>9. movement[m] = None
  BY <1>1 DEF IdsIssued
<1>10. movement'[m] = new /\ \A k \in Movement \ {m} : movement'[k] = movement[k]
  BY <1>1 DEF StockTypeOK
<1>11. StockTypeOK'
  <2>1. movement' \in [Movement -> MovementRow \cup {None}]
    BY <1>1 DEF StockTypeOK
  <2>2. pc' \in [Session -> Phase] /\ req' \in [Session -> Request]
    BY <1>2, EnterFields DEF Sound
  <2>3. issued' \subseteq Movement
    BY <1>1 DEF StockTypeOK
  <2> QED
    BY <1>1, <1>6, <1>10, <2>1, <2>2, <2>3 DEF StockTypeOK
<1>12. IdsIssued'
  BY <1>1, <1>10 DEF IdsIssued
<1>13. MovementsHaveItems'
  <2> SUFFICES ASSUME NEW k \in Movement, movement'[k] # None
               PROVE  item'[movement'[k].item].stage = "live"
    BY DEF MovementsHaveItems, Exists
  <2>1. CASE k = m
    BY <2>1, <1>1, <1>4, <1>6, <1>10
  <2>2. CASE k # m
    <3>1. movement'[k] = movement[k] /\ movement[k].item \in Item
      BY <2>2, <1>10 DEF StockTypeOK, MovementRow
    <3> QED
      BY <3>1, <1>7 DEF MovementsHaveItems, Exists
  <2> QED
    BY <2>1, <2>2
<1>14. MovementsExplainQuantity'
  <2>1. /\ Moved(i)' = Moved(i) + Delta(new)
        /\ \A j \in Item \ {i} : Moved(j)' = Moved(j)
    BY <1>1, <1>2, <1>9, <1>11, MovedMore
  <2>2. Moved(i) \in Int
    BY <1>2, MovedInt
  <2>3. item[i].quantity = item[i].base + Moved(i)
    BY <1>2 DEF MovementsExplainQuantity
  <2>4. item[i].base \in Int
    BY <1>2 DEF StockTypeOK, ItemRow
  <2>5. item'[i].quantity = item'[i].base + Moved(i)'
    BY <1>1, <1>3, <1>4, <1>6, <2>1, <2>2, <2>3, <2>4
  <2>6. \A j \in Item \ {i} : Exists(j)' => item'[j].quantity = item'[j].base + Moved(j)'
    BY <1>6, <2>1 DEF MovementsExplainQuantity, Exists
  <2> QED
    BY <2>5, <2>6 DEF MovementsExplainQuantity
<1> QED
  BY <1>8, <1>11, <1>12, <1>13, <1>14

-----------------------------------------------------------------------------
(* The invariant *)

\* The invariant holds at the start.
LEMMA InitIInv == Init => IInv
<1> SUFFICES ASSUME Init PROVE IInv
  OBVIOUS
<1>1. StockTypeOK
  BY NoRequestTyped DEF Init, StockTypeOK, ItemRow, Phase
<1>2. /\ RequestsValid /\ RowsExclusive /\ OutsHaveEnough /\ IdsIssued
      /\ MovementsHaveItems /\ MovementsExplainQuantity
  BY DEF Init, RequestsValid, RowsExclusive, HoldsRow, OutsHaveEnough, IdsIssued,
         MovementsHaveItems, MovementsExplainQuantity, Exists
<1> QED
  BY <1>1, <1>2 DEF IInv

\* ... and every step keeps it.
LEMMA StepIInv == IInv /\ [Next]_vars => IInv'
<1> SUFFICES ASSUME IInv, [Next]_vars PROVE IInv'
  OBVIOUS
<1>1. ASSUME NEW i \in Item, NEW n \in Quantity, CreateItem(i, n) PROVE IInv'
  BY <1>1, CreateItemKeeps
<1>2. ASSUME NEW i \in Item, DeleteItem(i) PROVE IInv'
  BY <1>2, DeleteItemKeeps
<1>3. ASSUME NEW i \in Item, NEW s \in Session, BeginEdit(s, i) PROVE IInv'
  BY <1>3, BeginEditKeeps
<1>4. ASSUME NEW i \in Item, NEW s \in Session, NEW type \in Type, NEW n \in Quantity,
             BeginMovement(s, i, type, n)
      PROVE  IInv'
  BY <1>4, BeginMovementKeeps
<1>5. ASSUME NEW s \in Session, Proceed(s) \/ Rollback(s) PROVE IInv'
  BY <1>5, CommitEditKeeps, LockItemKeeps, GiveUpKeeps, UpdateQuantityKeeps,
     CommitMovementKeeps DEF Proceed
<1>6. CASE UNCHANGED vars
  BY <1>6 DEF vars, IInv, StockTypeOK, RequestsValid, RowsExclusive, HoldsRow,
     OutsHaveEnough, IdsIssued, MovementsHaveItems, MovementsExplainQuantity,
     Moved, MovementsOf, Exists
<1> QED
  BY <1>1, <1>2, <1>3, <1>4, <1>5, <1>6 DEF Next

\* An OUT that commits finds what it was checked against.
LEMMA StepCovered ==
  ASSUME IInv, [Next]_vars, NEW i \in Item, NEW s \in Session,
         pc[s] = "updated", req[s].item = i, req[s].type = "OUT",
         item'[i].quantity # item[i].quantity, pc'[s] = "idle"
  PROVE  item'[i].quantity >= 0
<1> USE DEF IInv
<1>1. PICK t \in Session : CommitEdit(t) \/ CommitMovement(t)
  BY DEF Next, Proceed, CreateItem, DeleteItem, BeginEdit, BeginMovement, LockItem,
         RefuseOut, UpdateQuantity, Rollback, vars
<1>2. t = s
  <2>1. Enter(t, "idle", NoRequest)
    BY <1>1 DEF CommitEdit, CommitMovement, Done
  <2> QED
    BY <2>1, EnterFields
<1>3. CommitMovement(s)
  BY <1>1, <1>2 DEF CommitEdit
<1>4. /\ item[i].quantity >= req[s].quantity /\ item[i] \in ItemRow
      /\ item[i].quantity \in Int /\ req[s].quantity \in Int
  BY <1>3 DEF OutsHaveEnough, CommitMovement, StockTypeOK, ItemRow, Request
<1>5. NewQuantity(s) = item[i].quantity - req[s].quantity
  BY <1>4 DEF NewQuantity, Delta
<1>6. item'[i].quantity = NewQuantity(s)
  BY <1>3, <1>4 DEF CommitMovement, StockTypeOK, ItemRow
<1> QED
  BY <1>4, <1>5, <1>6

-----------------------------------------------------------------------------
(* Theorems *)

\* The inductive invariant holds throughout.
THEOREM StockInvariant == Spec => []IInv
  BY InitIInv, StepIInv, PTL DEF Spec

\* The tables keep their types, and only adjustments are negative.
THEOREM StockTypeCorrect == Spec => []StockTypeOK
  BY StockInvariant, PTL DEF IInv

\* No movement outlives its item, whichever commits first.
THEOREM MovementsKeepItems == Spec => []MovementsHaveItems
  BY StockInvariant, PTL DEF IInv

\* The movements on file explain the quantity of every item.
THEOREM QuantityExplained == Spec => []MovementsExplainQuantity
  BY StockInvariant, PTL DEF IInv

\* No movement out takes more than there is.
THEOREM OutsCovered == Spec => OutsAreCovered
<1>1. IInv /\ [Next]_vars =>
         [\A i \in Item, s \in Session :
             pc[s] = "updated" /\ req[s].item = i /\ req[s].type = "OUT"
                /\ item'[i].quantity # item[i].quantity /\ pc'[s] = "idle"
             => item'[i].quantity >= 0]_vars
  BY StepCovered
<1> QED
  BY <1>1, StockInvariant, PTL DEF Spec, OutsAreCovered
=============================================================================
