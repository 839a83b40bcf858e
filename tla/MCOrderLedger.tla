---------------------------- MODULE MCOrderLedger ----------------------------
(* Instances of the order ledger for TLC. *)
EXTENDS OrderEscrow, TLC

\* Every order at the first branch, every customer registered there.
OneBranch == CHOOSE b \in Branch : TRUE
AllAtOneBranch == [o \in Order |-> OneBranch]
AllFromOneBranch == [c \in Customer |-> OneBranch]

\* Each order at a branch of its own.
EachAtOwnBranch ==
    CHOOSE f \in [Order -> Branch] : \A x, y \in Order : x # y => f[x] # f[y]

Symmetry == Permutations(Payment) \cup Permutations(Session)
=============================================================================
