----------------------------- MODULE MCDispatch -----------------------------
(* Small instances of Dispatch for TLC.                                    *)
EXTENDS Dispatch, TLC

CONSTANTS c1, c2, u1, u2

(* Environments differ in their names only. *)
EnvSymmetry == Permutations(Envs)

(* One client that also asks for the core job. *)
OwnsUserAndCore == [c \in Clients |-> {u1, CoreJob}]
(* Each client has a job of its own. *)
OwnsOneEach == [c \in Clients |-> IF c = c1 THEN {u1} ELSE {u2}]
(* Everyone launches the same job. *)
OwnsShared == [c \in Clients |-> {u1}]
(* One request per client, as many as MaxReq at the command line. *)
QuotaOneCall == [t \in Issuers |-> IF t \in Clients THEN 1 ELSE MaxReq]
(* Nobody types a command; c1 has a second launch, after its job may have  *)
(* thrown, run or gone.                                                    *)
QuotaTwoAndOne == [t \in Issuers |-> IF t = c1 THEN 2 ELSE IF t = c2 THEN 1 ELSE 0]
QuotaAll == [t \in Issuers |-> MaxReq]

=============================================================================
