------------------------- MODULE MCCampaignActions -------------------------
(* Symmetry for the model checking of CampaignActions. *)
EXTENDS CampaignActions, TLC

\* Actions are interchangeable, and so are requests.
Symmetry == Permutations(Actions) \cup Permutations(Sessions)
=============================================================================
