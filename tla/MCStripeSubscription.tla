------------------------ MODULE MCStripeSubscription ------------------------
(***************************************************************************)
(* Two server processes, three events of any of seven kinds, two plans.    *)
(***************************************************************************)
EXTENDS StripeSubscription, TLC

Event(type, status, cancelling) ==
    [type |-> type, status |-> status, cancelling |-> cancelling]

BodiesMC ==
    {Event("subscription.updated", "active", TRUE),
     Event("subscription.updated", "past_due", FALSE),
     Event("subscription.updated", "incomplete", FALSE),
     Event("subscription.deleted", "canceled", FALSE)}
      \cup {Event(type, "active", FALSE) :
              type \in {"invoice", "unhandled", "malformed"}}

Symmetry == Permutations(Servers) \cup Permutations(Events)
=============================================================================
