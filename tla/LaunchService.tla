---------------------------- MODULE LaunchService ----------------------------
(***************************************************************************)
(* What the launch pipeline of jescore promises to whoever asks for a job: *)
(* an accepted request waits its turn, is answered exactly once and in the *)
(* order of acceptance, and the answer is either one run of the job's      *)
(* function or a refusal.  Dispatch is shown to implement this module.     *)
(***************************************************************************)
EXTENDS Sequences

CONSTANT Requests       \* every request that can ever be made

VARIABLES
    queue,      \* requests accepted and not yet answered, oldest first
    running,    \* requests whose job function has been granted and has not returned
    finished,   \* requests whose job function has returned
    refused     \* requests answered with a fault

vars == <<queue, running, finished, refused>>

Queued == {queue[i] : i \in DOMAIN queue}

Init ==
    /\ queue = <<>>
    /\ running = {}
    /\ finished = {}
    /\ refused = {}

(* A request is accepted at most once.                                     *)
Accept(r) ==
    /\ queue' = Append(queue, r)
    /\ UNCHANGED <<running, finished, refused>>
    /\ r \notin Queued \cup running \cup finished \cup refused

(* The oldest request is answered with a run of its job.                   *)
Grant ==
    /\ queue # <<>>
    /\ queue' = Tail(queue)
    /\ running' = running \cup {Head(queue)}
    /\ UNCHANGED <<finished, refused>>

(* The oldest request is answered with a fault.                            *)
Refuse ==
    /\ queue # <<>>
    /\ queue' = Tail(queue)
    /\ refused' = refused \cup {Head(queue)}
    /\ UNCHANGED <<running, finished>>

(* The function run for r returns.                                         *)
Finish(r) ==
    /\ r \in running
    /\ running' = running \ {r}
    /\ finished' = finished \cup {r}
    /\ UNCHANGED <<queue, refused>>

Answer == Grant \/ Refuse

Next ==
    \/ \E r \in Requests : Accept(r) \/ Finish(r)
    \/ Answer

Spec == Init /\ [][Next]_vars

==============================================================================
