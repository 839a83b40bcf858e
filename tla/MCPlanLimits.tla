----------------------------- MODULE MCPlanLimits -----------------------------
(* Instance of PlanLimits for TLC. *)
EXTENDS PlanLimits

\* The free plan allows nothing more, any other plan one of the resource.
SmallPlans == [p \in Plan |-> IF p = Free THEN 0 ELSE 1]
=============================================================================
