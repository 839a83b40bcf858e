------------------------------- MODULE MCStock -------------------------------
(* Instance of Stock for TLC. *)
EXTENDS Stock

\* Quantities of both signs.
SmallQuantities == {-1, 1, 2}
=============================================================================
