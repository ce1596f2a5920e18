---------------------------- MODULE MCPlanQuota ----------------------------
(***************************************************************************)
(* Two requests at a time, three rows of a name two of whose slugs fit, a  *)
(* plan of one and a plan without limit, and a subscription that ends and  *)
(* may come back.                                                          *)
(***************************************************************************)
EXTENDS PlanQuota, TLC

CONSTANTS small, large

Event(type, status, cancelling) ==
    [type |-> type, status |-> status, cancelling |-> cancelling]

BodiesMC == {Event("subscription.updated", "active", FALSE),
             Event("subscription.deleted", "canceled", FALSE)}

LimitMC == small :> 1 @@ large :> Unlimited

Symmetry == Permutations(Items) \cup Permutations(Creators)
              \cup Permutations(Servers) \cup Permutations(Events)
=============================================================================
