---------------------------- MODULE MCReportJobs ----------------------------
(* A small instance of ReportJobs. *)
EXTENDS ReportJobs, TLC

\* Jobs, workers and users are only ever compared for equality.
Symmetry == Permutations(Jobs) \cup Permutations(Workers) \cup Permutations(Users)
=============================================================================
