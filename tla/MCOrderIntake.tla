---------------------------- MODULE MCOrderIntake ----------------------------
(* Instances of OrderIntake for TLC. *)
EXTENDS OrderIntake, TLC

Symmetry == Permutations(Handler) \cup Permutations(Key)
=============================================================================
