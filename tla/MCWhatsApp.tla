------------------------------ MODULE MCWhatsApp ------------------------------
(* Instance of WhatsApp for TLC: the configuration gives every constant. *)
EXTENDS WhatsApp
=============================================================================
