---------------------- MODULE MCRecommendationDialogs ----------------------
(* Symmetry for the model checking of RecommendationDialogs. *)
EXTENDS RecommendationDialogs, TLC

\* Tabs and rows are interchangeable.
Symmetry == Permutations(Dialogs) \cup Permutations(Rows)
=============================================================================
