--------------------------- MODULE MCOfflineOutbox ---------------------------
(* Instances of OfflineOutbox for TLC. *)
EXTENDS OfflineOutbox, TLC

Symmetry == Permutations(Handler) \cup Permutations(Tab)
            \cup Permutations(CustomerKey) \cup Permutations(Customer)
=============================================================================
