------------------------------ MODULE MCBilling ------------------------------
(* Instances of Billing for TLC. *)
EXTENDS Billing, TLC

\* All payments are one tenant's; promos have no limit.
OneTenant == CHOOSE t \in Tenant : TRUE
AllOfOneTenant == [p \in Payment |-> OneTenant]
NoLimits == [c \in Promo |-> 0]

=============================================================================
