--------------------------- MODULE MCContentJobs ---------------------------
(* Symmetry for the model checking of ContentJobs, and the outputs of two packs. *)
EXTENDS ContentJobs, ContentDocument, TLC

\* Requests, workers, operators and the jobs of the pool are interchangeable.
Symmetry == Permutations(Requests) \cup Permutations(Workers) \cup Permutations(Operators)
              \cup Permutations(Jobs)

\* seeds.py: the packs and the catalogue the product starts with are such that every output
\* is given back its template (the hypotheses of TemplatesSurvive, evaluated by TLC).
ASSUME SeedsKeepTemplates ==
    /\ TemplateKeys \cap DOMAIN SeededTemplates = {}
    /\ \A pack \in SeededPacks :
         /\ ExpectedOutputs(pack, SeededTemplates) # {}
         /\ \A l \in pack.links : l.output_type # ""
         /\ \A k, l \in pack.links : k.output_type = l.output_type => k = l

SeededPack(type) == CHOOSE pack \in SeededPacks : pack.type = type

\* The weekly pack, whose story an administrator has made optional: two outputs.
WeeklyPack ==
    [SeededPack("weekly_growth_pack") EXCEPT
        !.links = {[l EXCEPT !.required = l.output_type = "post"] : l \in @}]
WeeklyResult == Result(Payload(WeeklyPack, SeededTemplates, {"track", "smart_link"}))
WeeklyOutputs == DOMAIN WeeklyResult
WeeklyRequired == RequiredPlaces(WeeklyResult)
WeeklyLinked == LinkedPlaces(WeeklyResult, WeeklyPack, SeededTemplates)

\* The release pack when every template of it is archived: one output, by default.
ArchivedTemplates == [t \in DOMAIN SeededTemplates |-> "archived"]
ReleaseResult == Result(Payload(SeededPack("release_pack"), ArchivedTemplates, {}))
ReleaseOutputs == DOMAIN ReleaseResult
ReleaseRequired == RequiredPlaces(ReleaseResult)
ReleaseLinked == LinkedPlaces(ReleaseResult, SeededPack("release_pack"), ArchivedTemplates)
=============================================================================
