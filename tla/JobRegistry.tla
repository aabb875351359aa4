----------------------------- MODULE JobRegistry -----------------------------
(***************************************************************************)
(* What the job list promises: a set of names.  A name is added at most    *)
(* once and stays until it is removed.  JobList is shown to implement it   *)
(* when one task does the registering and unregistering at a time.         *)
(***************************************************************************)
CONSTANT Names

VARIABLE names

Init == names = {}

Add(n) == n \notin names /\ names' = names \cup {n}

Remove(n) == n \in names /\ names' = names \ {n}

Next == \E n \in Names : Add(n) \/ Remove(n)

Spec == Init /\ [][Next]_names

==============================================================================
