------------------------------ MODULE MCJobList ------------------------------
(* Small instances of JobList for TLC.                                      *)
EXTENDS JobList

CONSTANTS n1, n2

MCRoleOf == [n \in Names |-> CASE n = n1 -> "core" [] n = n2 -> "user" [] OTHER -> "base"]

=============================================================================
