----------------------------- MODULE OrderEscrow -----------------------------
(***************************************************************************)
(* The order ledger implements Escrow: what an order holds is the sum of   *)
(* its DEPOSIT payments, and everything a request does before its commit   *)
(* is invisible.                                                           *)
(***************************************************************************)
EXTENDS OrderLedger

Deleted == {o \in Order : order[o].stage = "deleted"}

Held == [o \in Order |-> SumAmounts(DepositsOf(o))]

Promise == INSTANCE Escrow
    WITH wallet <- balance, held <- Held, closed <- Deleted, put <- toppedUp

\* Whatever RecordPayment, VoidPayment, Delete and TopUpDeposit interleave, and
\* wherever one of them is rolled back, wallets and orders change as if each
\* had moved its money in one step: a charge the wallet covers, a refund of
\* what the order holds, a deletion that returns all of it, and nothing else.
ImplementsEscrow == Promise!Spec
=============================================================================
