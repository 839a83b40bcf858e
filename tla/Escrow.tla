-------------------------------- MODULE Escrow --------------------------------
(***************************************************************************)
(* What the prepaid deposits promise, without payments, sessions or locks: *)
(* money is put into a wallet, moved in one step from a wallet to an open  *)
(* order that it covers, and moved in one step from an order back to a     *)
(* wallet.  Deleting an order empties and closes it in the same step.      *)
(***************************************************************************)
EXTENDS Integers

CONSTANTS Customer, Order, Amount

VARIABLES
    wallet,  \* what each customer may still spend
    held,    \* the deposit money in each order
    closed,  \* the orders deleted so far
    put      \* everything ever put into the wallets

Init ==
    /\ wallet = [c \in Customer |-> 0]
    /\ held = [o \in Order |-> 0]
    /\ closed = {}
    /\ put = 0

TopUp(c, a) ==
    /\ wallet' = [wallet EXCEPT ![c] = @ + a]
    /\ put' = put + a
    /\ UNCHANGED <<held, closed>>

Hold(c, o, a) ==
    /\ o \notin closed
    /\ wallet' = [wallet EXCEPT ![c] = @ - a]
    /\ held' = [held EXCEPT ![o] = @ + a]
    /\ UNCHANGED <<closed, put>>

\* An order may be given another customer, so a refund names its wallet.
Return(c, o, a) ==
    /\ o \notin closed
    /\ wallet' = [wallet EXCEPT ![c] = @ + a]
    /\ held' = [held EXCEPT ![o] = @ - a]
    /\ UNCHANGED <<closed, put>>

Close(c, o) ==
    /\ o \notin closed
    /\ wallet' = [wallet EXCEPT ![c] = @ + held[o]]
    /\ held' = [held EXCEPT ![o] = 0]
    /\ closed' = closed \cup {o}
    /\ UNCHANGED put

Next ==
    \E c \in Customer :
        \/ \E a \in Amount : TopUp(c, a)
        \/ \E o \in Order :
              \/ \E a \in 0 .. wallet[c] : Hold(c, o, a)
              \/ \E a \in 0 .. held[o] : Return(c, o, a)
              \/ Close(c, o)

Spec == Init /\ [][Next]_<<wallet, held, closed, put>>
=============================================================================
