------------------------------ MODULE MCJobRuns ------------------------------
(* Small instances of JobRuns for TLC. *)
EXTENDS JobRuns

\* Every job resumes the one session
OneSession == [j \in Jobs |-> "s1"]
==============================================================================
