-------------------------- MODULE DispatchPacedProofs --------------------------
(***************************************************************************)
(* What an application may rely on when its clients wait for each launch   *)
(* to take effect: proofs about Dispatch for every number of clients,      *)
(* jobs, environments and requests.                                        *)
(***************************************************************************)
EXTENDS DispatchProofs

(* The discipline of dispatch_paced: every client waits until its last     *)
(* launch took effect, launches singletons, shares no job with another     *)
(* client, and no command is typed at the terminal.                        *)
Disciplined ==
    /\ Clients \subseteq Paced
    /\ \A c \in Clients : Owns[c] \subseteq Singletons
    /\ \A c, d \in Clients : c # d => Owns[c] \cap Owns[d] = {}
    /\ \A s \in CliServers : Quota[s] = 0

(* A client of dispatch_paced launches one job only.                       *)
OneJobEach == \A c \in Clients : \A i, j \in Owns[c] : i = j

(* Every client can have a task at the same time.                          *)
EnoughMemory ==
    /\ IsFiniteSet(Clients)
    /\ IsFiniteSet(Envs)
    /\ Cardinality(Clients) <= Cardinality(Envs)

-----------------------------------------------------------------------------
(* Requests that were sent and whose function has not begun; the           *)
(* environments instances should count; the requests whose function has    *)
(* begun and whose task is not gone.                                       *)
Entering(e) == env_pc[e] \in {"start", "header", "enter", "count"}

Waiting ==
    {notif_queue[i] : i \in 1..Len(notif_queue)}
    \cup {r \in {core_req} : core_pc = "launch"}
    \cup {env_req[e] : e \in {d \in Envs : Entering(d)}}

Counted(e) == env_pc[e] \in {"run", "return"}

Past(e) == env_pc[e] \in {"run", "return", "done", "close", "exit"}

Begun == {env_req[e] : e \in {d \in Envs : Past(d)}}

SilentCli == \A s \in CliServers : pc[s] = "idle"

(* A client has at most one request waiting, its last one, and nothing     *)
(* else to do meanwhile.                                                   *)
OneAtATime ==
    \A r \in Waiting :
        /\ r.by \in Clients
        /\ r.job \in Owns[r.by] \cap UserJobs
        /\ pc[r.by] = "idle"
        /\ r.n = sent[r.by]
        /\ \A s \in Waiting : s.by = r.by => s = r
        /\ \A s \in refused \cup finished \cup Begun : s.by = r.by => s.n # r.n

(* While a job is counted, nobody asks for it and nobody else runs it.     *)
Alone ==
    \A e \in Envs : Counted(e) =>
        /\ EnvJob(e) \in UserJobs
        /\ \A r \in Waiting : r.job # EnvJob(e)
        /\ \A c \in Clients : pc[c] # "idle" => req[c].job # EnvJob(e)
        /\ \A d \in Envs : Counted(d) /\ EnvJob(d) = EnvJob(e) => d = e

(* instances is 1 or 0, and so is every register copy of it.               *)
CountIsOne ==
    /\ \A j \in UserJobs :
         instances[j] = IF \E e \in Envs : Counted(e) /\ EnvJob(e) = j THEN 1 ELSE 0
    /\ \A e \in Envs : env_pc[e] = "count" => env_count[e] = 0
    /\ \A e \in Envs : env_pc[e] = "return" => env_count[e] = 1

OwnJob ==
    \A c \in Clients : pc[c] # "idle" => req[c].job \in Owns[c] \cap UserJobs

(* A job that is not in the list is asked for by nobody and does not run.  *)
FreedIsUnused ==
    \A j \in Jobs : ~registered[j] =>
        /\ \A r \in Waiting : r.job # j
        /\ \A c \in Clients : pc[c] # "idle" => req[c].job # j
        /\ \A e \in Envs : Counted(e) => EnvJob(e) # j

(* The arguments of a request stay in its job until its function returns.  *)
ArgsStay ==
    /\ \A c \in Clients : pc[c] = "send" /\ req[c].args # NULL => args[req[c].job] = req[c].args
    /\ \A r \in Waiting : r.args # NULL => args[r.job] = r.args
    /\ \A e \in Envs : env_pc[e] = "run" /\ env_req[e].args # NULL => args[EnvJob(e)] = env_req[e].args

PacedInv ==
    SilentCli /\ OneAtATime /\ Alone /\ CountIsOne /\ OwnJob /\ FreedIsUnused /\ ArgsStay

Context == TypeInv /\ CoreInv /\ PipelineInv /\ PacedInv /\ Disciplined

-----------------------------------------------------------------------------
LEMMA InitPacedInv == Init => PacedInv
<1> SUFFICES ASSUME Init PROVE PacedInv
  OBVIOUS
<1> USE DispatchAssumption
<1>1. Waiting = {}
  BY DEF Init, Waiting, Entering
<1>2. \A e \in Envs : env_pc[e] = "free"
  BY DEF Init
<1>3. \A t \in Issuers : pc[t] = "idle"
  BY DEF Init
<1>4. CountIsOne
  BY <1>2 DEF Init, CountIsOne, Counted, Jobs
<1>5. FreedIsUnused
  BY DEF Init, FreedIsUnused
<1> QED
  BY <1>1, <1>2, <1>3, <1>4, <1>5
  DEF PacedInv, SilentCli, OneAtATime, Alone, OwnJob, ArgsStay, Counted, Issuers

(* What a waiting request is made of. *)
LEMMA WaitingTyped ==
    ASSUME TypeInv
    PROVE  /\ \A r \in Waiting : r \in Requests /\ r.n \in Nat \ {0}
           /\ \A e \in Envs : Entering(e) => env_req[e] \in Waiting
           /\ \A e \in Envs : Past(e) => env_req[e] \in Begun
           /\ core_pc = "launch" => core_req \in Waiting
<1>1. \A i \in 1..Len(notif_queue) : notif_queue[i] \in Requests
  BY DEF TypeInv, TypeOK
<1>2. core_pc = "launch" => core_req \in Requests
  BY DEF TypeInv, TypeOK, Working
<1>3. \A e \in Envs : Entering(e) => env_req[e] \in Requests
  BY DEF TypeInv, TypeOK, Working, Busy, Entering
<1>4. \A r \in Requests : r.n \in Nat \ {0}
  BY DispatchAssumption DEF Requests
<1> QED
  BY <1>1, <1>2, <1>3, <1>4 DEF Waiting, Begun

(* A client that has settled has no request waiting. *)
LEMMA SettledIsNotWaiting ==
    ASSUME TypeInv, OneAtATime, NEW c \in Clients, Settled(c)
    PROVE  \A r \in Waiting : r.by # c
<1> SUFFICES ASSUME NEW r \in Waiting, r.by = c PROVE FALSE
  OBVIOUS
<1>1. /\ r.n = sent[c] /\ sent[c] # 0
      /\ \A s \in refused \cup finished \cup Begun : s.by = c => s.n # sent[c]
  BY WaitingTyped DEF OneAtATime
<1>2. \A e \in Envs : env_pc[e] = "run" => env_req[e] \in Begun
  BY WaitingTyped DEF Past
<1> QED
  BY <1>1, <1>2 DEF Settled

(* Two askers for one job are the same client. *)
LEMMA OneOwner ==
    ASSUME Disciplined, NEW c \in Clients, NEW d \in Clients, Owns[c] \cap Owns[d] # {}
    PROVE  c = d
BY DEF Disciplined

-----------------------------------------------------------------------------
(* How the waiting requests change. *)
LEMMA WaitingKept ==
    ASSUME UNCHANGED <<notif_queue, core_pc, core_req, env_pc, env_req>>
    PROVE  Waiting' = Waiting /\ Begun' = Begun
BY DEF Waiting, Begun, Entering, Past

LEMMA WaitingNotify ==
    ASSUME TypeInv, NEW t \in Issuers, CoreNotify(t)
    PROVE  Waiting' = Waiting \cup {req[t]} /\ Begun' = Begun
<1>1. /\ req[t] \in Requests
      /\ notif_queue \in Seq(Requests)
      /\ notif_queue' = Append(notif_queue, req[t])
      /\ UNCHANGED <<core_pc, core_req, env_pc, env_req>>
  BY DEF CoreNotify, Enqueue, TypeInv, TypeOK, Working, coreVars, envVars
<1>2. /\ Len(notif_queue') = Len(notif_queue) + 1
      /\ Len(notif_queue) \in Nat
      /\ \A i \in 1..Len(notif_queue) : notif_queue'[i] = notif_queue[i]
      /\ notif_queue'[Len(notif_queue) + 1] = req[t]
  BY <1>1, AppendProperties
<1>3. {notif_queue'[i] : i \in 1..Len(notif_queue')}
        = {notif_queue[i] : i \in 1..Len(notif_queue)} \cup {req[t]}
  <2>1. 1..Len(notif_queue') = 1..Len(notif_queue) \cup {Len(notif_queue) + 1}
    BY <1>2
  <2> QED
    BY <1>2, <2>1
<1> QED
  BY <1>1, <1>3 DEF Waiting, Begun, Entering, Past

LEMMA WaitingReceive ==
    ASSUME TypeInv, CoreJobReceive
    PROVE  Waiting' = Waiting /\ Begun' = Begun
<1>1. /\ notif_queue \in Seq(Requests) /\ notif_queue # <<>>
      /\ core_pc = "wait" /\ core_pc' = "launch"
      /\ core_req' = Head(notif_queue) /\ notif_queue' = Tail(notif_queue)
      /\ UNCHANGED <<env_pc, env_req>>
  BY DEF CoreJobReceive, ReceivedQueue, TypeInv, TypeOK, envVars
<1>2. /\ Len(notif_queue) \in Nat \ {0}
      /\ Len(notif_queue') = Len(notif_queue) - 1
      /\ \A i \in 1..Len(notif_queue') : notif_queue'[i] = notif_queue[i + 1]
      /\ core_req' = notif_queue[1]
  BY <1>1, HeadTailProperties
<1>3. {notif_queue[i] : i \in 1..Len(notif_queue)}
        = {notif_queue'[i] : i \in 1..Len(notif_queue')} \cup {core_req'}
  <2>1. \A i \in 1..Len(notif_queue) : i = 1 \/ i - 1 \in 1..Len(notif_queue')
    BY <1>2
  <2>2. \A i \in 1..Len(notif_queue) : i # 1 => notif_queue'[i - 1] = notif_queue[i]
    <3> SUFFICES ASSUME NEW i \in 1..Len(notif_queue), i # 1
                 PROVE  notif_queue'[i - 1] = notif_queue[i]
      OBVIOUS
    <3>1. i - 1 \in 1..Len(notif_queue') /\ (i - 1) + 1 = i
      BY <1>2, <2>1
    <3> QED
      BY <1>2, <3>1
  <2>3. \A i \in 1..Len(notif_queue') : i + 1 \in 1..Len(notif_queue)
    BY <1>2
  <2>4. 1 \in 1..Len(notif_queue)
    BY <1>2
  <2>5. ASSUME NEW x \in {notif_queue[i] : i \in 1..Len(notif_queue)}
        PROVE  x \in {notif_queue'[i] : i \in 1..Len(notif_queue')} \cup {core_req'}
    BY <1>2, <2>1, <2>2, <2>5
  <2>6. ASSUME NEW x \in {notif_queue'[i] : i \in 1..Len(notif_queue')} \cup {core_req'}
        PROVE  x \in {notif_queue[i] : i \in 1..Len(notif_queue)}
    BY <1>2, <2>3, <2>4, <2>6
  <2> QED
    BY <2>5, <2>6
<1> QED
  BY <1>1, <1>3 DEF Waiting, Begun, Entering, Past

LEMMA WaitingAnswered ==
    ASSUME TypeInv, PipelineInv, core_pc = "launch", core_pc' # "launch",
           UNCHANGED <<notif_queue, env_pc, env_req>>
    PROVE  Waiting' = Waiting \ {core_req} /\ Begun' = Begun
<1>1. \A i \in 1..Len(notif_queue) : notif_queue[i] # core_req
  BY DEF PipelineInv, Distinct
<1>2. \A e \in Envs : Entering(e) => env_req[e] # core_req
  BY DEF PipelineInv, Distinct, Busy, Entering
<1> QED
  BY <1>1, <1>2 DEF Waiting, Begun, Entering, Past

LEMMA WaitingLaunch ==
    ASSUME TypeInv, NEW e \in Envs, CoreJobLaunch(e)
    PROVE  Waiting' = Waiting /\ Begun' = Begun
<1>1. /\ core_pc = "launch" /\ core_pc' # "launch"
      /\ UNCHANGED <<notif_queue, core_req>>
      /\ env_pc[e] = "free" /\ env_pc'[e] \in {"start", "enter"} /\ env_req'[e] = core_req
      /\ \A d \in Envs \ {e} : env_pc'[d] = env_pc[d] /\ env_req'[d] = env_req[d]
  BY DEF CoreJobLaunch, FirstStep, Busy, TypeInv, TypeOK
<1>2. \A d \in Envs : (Entering(d)' <=> Entering(d) \/ d = e) /\ ~Entering(e)
  BY <1>1 DEF Entering
<1>3. {env_req'[d] : d \in {d \in Envs : Entering(d)'}}
        = {env_req[d] : d \in {d \in Envs : Entering(d)}} \cup {core_req}
  BY <1>1, <1>2
<1>4. \A d \in Envs : (Past(d)' <=> Past(d)) /\ ~Past(e)
  BY <1>1 DEF Past
<1>5. Begun' = Begun
  <2>1. {env_req'[d] : d \in {d \in Envs : Past(d)'}} = {env_req[d] : d \in {d \in Envs : Past(d)}}
    BY <1>1, <1>4
  <2> QED
    BY <2>1 DEF Begun
<1> QED
  BY <1>1, <1>3, <1>5 DEF Waiting

LEMMA WaitingBegins ==
    ASSUME TypeInv, PipelineInv, NEW e \in Envs, RuntimeEnvCount(e)
    PROVE  Waiting' = Waiting \ {env_req[e]} /\ Begun' = Begun \cup {env_req[e]}
<1>1. /\ UNCHANGED <<notif_queue, core_pc, core_req, env_req>>
      /\ env_pc[e] = "count" /\ env_pc'[e] = "run"
      /\ \A d \in Envs \ {e} : env_pc'[d] = env_pc[d]
  BY DEF RuntimeEnvCount, Goto, TypeInv, TypeOK, coreVars
<1>2. \A i \in 1..Len(notif_queue) : notif_queue[i] # env_req[e]
  BY <1>1 DEF PipelineInv, Distinct, Busy
<1>3. core_pc = "launch" => env_req[e] # core_req
  BY <1>1 DEF PipelineInv, Distinct, Busy
<1>4. \A d \in Envs : Entering(d) /\ d # e => env_req[d] # env_req[e]
  BY <1>1 DEF PipelineInv, Distinct, Busy, Entering
<1>a. \A d \in Envs : /\ Entering(d)' <=> Entering(d) /\ d # e
                      /\ Past(d)' <=> Past(d) \/ d = e
  BY <1>1 DEF Entering, Past
<1>5. {env_req'[d] : d \in {d \in Envs : Entering(d)'}}
        = {env_req[d] : d \in {d \in Envs : Entering(d)}} \ {env_req[e]}
  BY <1>1, <1>4, <1>a
<1>6. Begun' = Begun \cup {env_req[e]}
  <2>1. {env_req'[d] : d \in {d \in Envs : Past(d)'}}
          = {env_req[d] : d \in {d \in Envs : Past(d)}} \cup {env_req[e]}
    BY <1>1, <1>a
  <2> QED
    BY <2>1 DEF Begun
<1> DEFINE Q == {notif_queue[i] : i \in 1..Len(notif_queue)}
           C == {r \in {core_req} : core_pc = "launch"}
           E == {env_req[d] : d \in {d \in Envs : Entering(d)}}
<1>7. env_req[e] \notin Q /\ env_req[e] \notin C
  BY <1>2, <1>3
<1>8. Waiting = Q \cup C \cup E
  BY DEF Waiting
<1>9. Waiting' = Q \cup C \cup (E \ {env_req[e]})
  BY <1>1, <1>5 DEF Waiting
<1> QED
  BY <1>6, <1>7, <1>8, <1>9

LEMMA WaitingRuns ==
    ASSUME TypeInv, NEW e \in Envs,
           \/ RuntimeEnvEnter(e) \/ RuntimeEnvReturn(e) \/ RuntimeEnvUncount(e)
           \/ RuntimeEnvExit(e) \/ EnvSession(e)
    PROVE  Waiting' = Waiting /\ Begun' \subseteq Begun
<1>0. env_pc \in [Envs -> Places] /\ env_req \in [Envs -> Requests \cup {NULL}]
  BY DEF TypeInv, TypeOK
<1>1. UNCHANGED <<notif_queue, core_pc, core_req>>
  BY EnvSessionStep DEF RuntimeEnvEnter, RuntimeEnvReturn, RuntimeEnvUncount, RuntimeEnvExit, coreVars
<1>2. ASSUME NEW d \in Envs
      PROVE  /\ Entering(d)' <=> Entering(d)
             /\ Past(d)' => Past(d)
             /\ Entering(d)' \/ Past(d)' => env_req'[d] = env_req[d]
  <2>1. CASE RuntimeEnvEnter(e)
    BY <1>0, <2>1 DEF RuntimeEnvEnter, Goto, Entering, Past
  <2>2. CASE RuntimeEnvReturn(e)
    BY <1>0, <2>2 DEF RuntimeEnvReturn, Goto, Entering, Past
  <2>3. CASE RuntimeEnvUncount(e)
    BY <1>0, <2>3 DEF RuntimeEnvUncount, Goto, Entering, Past
  <2>4. CASE RuntimeEnvExit(e)
    BY <1>0, <2>4 DEF RuntimeEnvExit, Goto, Entering, Past
  <2>5. CASE EnvSession(e)
    BY <2>5, EnvSessionStep DEF Entering, Past
  <2> QED
    BY <2>1, <2>2, <2>3, <2>4, <2>5
<1>3. {env_req'[d] : d \in {d \in Envs : Entering(d)'}} = {env_req[d] : d \in {d \in Envs : Entering(d)}}
  BY <1>2
<1>4. Begun' \subseteq Begun
  BY <1>2 DEF Begun
<1> QED
  BY <1>1, <1>3, <1>4 DEF Waiting

-----------------------------------------------------------------------------
(* The clients. *)

(* A client that may call finds nobody waiting for its job or running it.  *)
LEMMA CallerIsAlone ==
    ASSUME Context, NEW c \in Clients, NEW j \in UserJobs, MayCall(c, j), instances[j] = 0
    PROVE  /\ \A r \in Waiting : r.by # c /\ r.job # j
           /\ \A e \in Envs : Counted(e) => EnvJob(e) # j
           /\ \A d \in Clients \ {c} : pc[d] # "idle" => req[d].job # j
           /\ pc[c] = "idle" /\ j \in Owns[c]
<1> USE DEF Context, PacedInv
<1>1. pc[c] = "idle" /\ j \in Owns[c] /\ Settled(c)
  BY DEF MayCall, Disciplined
<1>2. \A r \in Waiting : r.by # c
  BY <1>1, SettledIsNotWaiting
<1>3. \A r \in Waiting : r.job # j
  BY <1>1, <1>2, OneOwner DEF OneAtATime
<1>4. \A e \in Envs : Counted(e) => EnvJob(e) # j
  BY DEF CountIsOne
<1>5. \A d \in Clients \ {c} : pc[d] # "idle" => req[d].job # j
  BY <1>1, OneOwner DEF OwnJob
<1> QED
  BY <1>1, <1>2, <1>3, <1>4, <1>5

LEMMA CallPacedInv ==
    ASSUME Context, NEW c \in Clients, NEW j \in UserJobs, MayCall(c, j),
           registered[j], instances[j] = 0,
           NEW r \in Requests, r.job = j,
           req' = [req EXCEPT ![c] = r],
           pc' = [pc EXCEPT ![c] = "fill"] \/ pc' = [pc EXCEPT ![c] = "free"],
           UNCHANGED <<jobVars, notif_queue, sent, coreVars, envVars, historyVars>>
    PROVE  PacedInv'
<1> USE DEF Context, PacedInv, jobVars, coreVars, envVars, historyVars
<1>1. /\ \A s \in Waiting : s.by # c /\ s.job # j
      /\ \A e \in Envs : Counted(e) => EnvJob(e) # j
      /\ \A d \in Clients \ {c} : pc[d] # "idle" => req[d].job # j
      /\ pc[c] = "idle" /\ j \in Owns[c]
  BY CallerIsAlone
<1>2. Waiting' = Waiting /\ Begun' = Begun
  BY WaitingKept
<1>3. /\ c \in Issuers /\ c \notin CliServers /\ CliServers \subseteq Issuers /\ Clients \subseteq Issuers
      /\ \A t \in Issuers \ {c} : pc'[t] = pc[t] /\ req'[t] = req[t]
      /\ pc'[c] \in {"fill", "free"} /\ req'[c].job = j
  BY DispatchAssumption DEF Issuers, TypeInv, TypeOK
<1>4. SilentCli'
  BY <1>3 DEF SilentCli
<1>5. OneAtATime'
  BY <1>1, <1>2, <1>3 DEF OneAtATime
<1>6. Alone'
  BY <1>1, <1>2, <1>3 DEF Alone, Counted, EnvJob
<1>7. CountIsOne'
  BY DEF CountIsOne, Counted, EnvJob
<1>8. OwnJob'
  BY <1>1, <1>3 DEF OwnJob
<1>9. FreedIsUnused'
  <2> SUFFICES ASSUME NEW k \in Jobs, ~registered[k]
               PROVE  /\ \A s \in Waiting : s.job # k
                      /\ \A d \in Clients : pc'[d] # "idle" => req'[d].job # k
                      /\ \A e \in Envs : Counted(e) => EnvJob(e) # k
    BY <1>2 DEF FreedIsUnused, Counted, EnvJob
  <2>1. k # j
    OBVIOUS
  <2> QED
    BY <1>3, <2>1 DEF FreedIsUnused
<1>10. ArgsStay'
  BY <1>2, <1>3 DEF ArgsStay, EnvJob
<1> QED
  BY <1>4, <1>5, <1>6, <1>7, <1>8, <1>9, <1>10

LEMMA NotifyPacedInv ==
    ASSUME Context, NEW t \in Issuers, CoreNotify(t)
    PROVE  PacedInv'
<1> USE DEF Context, PacedInv, jobVars, coreVars, envVars, historyVars
<1>1. t \in Clients /\ pc[t] = "send"
  BY DEF CoreNotify, SilentCli, Issuers
<1>2. /\ req[t] \in Requests /\ req[t].by = t /\ req[t].n = sent[t] + 1
      /\ req[t].job \in Owns[t] \cap UserJobs
      /\ req[t].args # NULL => args[req[t].job] = req[t].args
      /\ sent[t] \in Nat
  BY <1>1 DEF TypeInv, TypeOK, Working, OwnJob, ArgsStay
<1>3. Waiting' = Waiting \cup {req[t]} /\ Begun' = Begun
  BY WaitingNotify
<1>4. /\ Clients \subseteq Issuers /\ CliServers \subseteq Issuers
      /\ \A u \in Issuers \ {t} : pc'[u] = pc[u] /\ req'[u] = req[u] /\ sent'[u] = sent[u]
      /\ pc'[t] = "idle" /\ sent'[t] = sent[t] + 1
      /\ UNCHANGED <<jobVars, coreVars, envVars, historyVars>>
  BY DEF CoreNotify, TypeInv, TypeOK, Issuers
<1>5. \A r \in Waiting : r.by # t
  BY <1>1 DEF OneAtATime
<1>6. \A s \in refused \cup finished \cup Begun : s.by = t => s.n # sent[t] + 1
  <2>1. \A s \in refused \cup finished \cup Begun : s.n <= sent[s.by]
    BY DEF PipelineInv, Numbered, Begun, Past, Busy
  <2>2. \A s \in refused \cup finished \cup Begun : s \in Requests
    BY DEF TypeInv, TypeOK, Working, Busy, Begun, Past
  <2>3. \A s \in Requests : s.n \in Nat
    BY DispatchAssumption DEF Requests
  <2> QED
    BY <1>2, <2>1, <2>2, <2>3
<1>7. SilentCli'
  BY <1>4, <1>1, DispatchAssumption DEF SilentCli
<1>8. OneAtATime'
  BY <1>1, <1>2, <1>3, <1>4, <1>5, <1>6 DEF OneAtATime
<1>9. Alone'
  BY <1>1, <1>2, <1>3, <1>4 DEF Alone, Counted, EnvJob
<1>10. CountIsOne'
  BY <1>4 DEF CountIsOne, Counted, EnvJob
<1>11. OwnJob'
  BY <1>4 DEF OwnJob
<1>12. FreedIsUnused'
  BY <1>1, <1>2, <1>3, <1>4 DEF FreedIsUnused, Counted, EnvJob
<1>13. ArgsStay'
  BY <1>2, <1>3, <1>4 DEF ArgsStay, EnvJob
<1> QED
  BY <1>7, <1>8, <1>9, <1>10, <1>11, <1>12, <1>13

LEMMA FillPacedInv ==
    ASSUME Context, NEW c \in Clients, JobLaunchJobCore(c)
    PROVE  PacedInv'
<1> USE DEF Context, PacedInv, jobVars, coreVars, envVars, historyVars
<1> DEFINE j == req[c].job
<1>1. /\ pc[c] = "fill" /\ j \in Owns[c] \cap UserJobs
      /\ req[c].args \in ArgStrings \cup {NULL}
      /\ pc' = [pc EXCEPT ![c] = "send"]
      /\ args' = IF req[c].args = NULL THEN args ELSE [args EXCEPT ![j] = req[c].args]
      /\ UNCHANGED <<registered, instances, notif_queue, req, sent, coreVars, envVars, historyVars>>
  BY DEF JobLaunchJobCore, OwnJob, TypeInv, Working
<1>2. Waiting' = Waiting /\ Begun' = Begun
  BY <1>1, WaitingKept
<1>3. /\ Clients \subseteq Issuers /\ CliServers \subseteq Issuers /\ c \notin CliServers
      /\ \A u \in Issuers \ {c} : pc'[u] = pc[u]
      /\ pc'[c] = "send"
      /\ UserJobs \subseteq Jobs
      /\ args \in [Jobs -> ArgStrings \cup {NoArgs}]
  BY <1>1, DispatchAssumption DEF TypeInv, TypeOK, Issuers, Jobs
<1>4. /\ \A r \in Waiting : r.by # c /\ r.job # j
      /\ \A e \in Envs : Counted(e) => EnvJob(e) # j
      /\ \A d \in Clients \ {c} : pc[d] # "idle" => req[d].job # j
  <2>1. \A r \in Waiting : r.by # c
    BY <1>1 DEF OneAtATime
  <2>2. \A r \in Waiting : r.job # j
    BY <1>1, <2>1, OneOwner DEF OneAtATime
  <2> QED
    BY <1>1, <2>1, <2>2, OneOwner DEF OwnJob, Alone
<1>5. \A k \in Jobs \ {j} : args'[k] = args[k]
  BY <1>1, <1>3
<1>6. req[c].args # NULL => args'[j] = req[c].args
  BY <1>1, <1>3
<1> HIDE DEF j
<1>7. SilentCli'
  BY <1>3 DEF SilentCli
<1>8. OneAtATime'
  BY <1>1, <1>2, <1>3, <1>4 DEF OneAtATime
<1>9. Alone'
  BY <1>1, <1>2, <1>3 DEF Alone, Counted, EnvJob
<1>10. CountIsOne'
  BY <1>1 DEF CountIsOne, Counted, EnvJob
<1>11. OwnJob'
  BY <1>1, <1>3 DEF OwnJob
<1>12. FreedIsUnused'
  BY <1>1, <1>2, <1>3 DEF FreedIsUnused, Counted, EnvJob
<1>13. ArgsStay'
  <2>1. ASSUME NEW d \in Clients, pc'[d] = "send", req'[d].args # NULL
        PROVE  args'[req'[d].job] = req'[d].args
    <3>1. CASE d = c
      BY <1>1, <1>6, <2>1, <3>1 DEF j
    <3>2. CASE d # c
      <4>1. req[d].job \in Jobs /\ req[d].job # j
        BY <1>3, <1>4, <2>1, <3>2 DEF OwnJob
      <4> QED
        BY <1>1, <1>3, <1>5, <2>1, <3>2, <4>1 DEF ArgsStay
    <3> QED
      BY <3>1, <3>2
  <2>2. ASSUME NEW r \in Waiting, r.args # NULL
        PROVE  args'[r.job] = r.args
    BY <1>3, <1>4, <1>5, <2>2 DEF ArgsStay, OneAtATime
  <2>3. ASSUME NEW e \in Envs, env_pc[e] = "run", env_req[e].args # NULL
        PROVE  args'[EnvJob(e)] = env_req[e].args
    BY <1>3, <1>4, <1>5, <2>3 DEF ArgsStay, Alone, Counted
  <2> QED
    BY <1>1, <1>2, <2>1, <2>2, <2>3 DEF ArgsStay, EnvJob
<1> QED
  BY <1>7, <1>8, <1>9, <1>10, <1>11, <1>12, <1>13

LEMMA UnregisterPacedInv ==
    ASSUME Context, NEW c \in Clients, JobUnregisterJob(c)
    PROVE  PacedInv'
<1> USE DEF Context, PacedInv, jobVars, coreVars, envVars, historyVars
<1> DEFINE j == req[c].job
<1>1. /\ pc[c] = "free" /\ j \in Owns[c] \cap UserJobs
      /\ pc' = [pc EXCEPT ![c] = "idle"]
      /\ req' = [req EXCEPT ![c] = NULL]
      /\ registered' = [registered EXCEPT ![j] = FALSE]
      /\ UNCHANGED <<instances, args, notif_queue, sent, coreVars, envVars, historyVars>>
  BY DEF JobUnregisterJob, OwnJob
<1>2. Waiting' = Waiting /\ Begun' = Begun
  BY <1>1, WaitingKept
<1>3. /\ Clients \subseteq Issuers /\ CliServers \subseteq Issuers /\ c \notin CliServers
      /\ \A u \in Issuers \ {c} : pc'[u] = pc[u] /\ req'[u] = req[u]
      /\ pc'[c] = "idle"
      /\ \A k \in Jobs : ~registered'[k] => ~registered[k] \/ k = j
  BY <1>1, DispatchAssumption DEF TypeInv, TypeOK, Issuers, Jobs
<1>4. /\ \A r \in Waiting : r.by # c /\ r.job # j
      /\ \A e \in Envs : Counted(e) => EnvJob(e) # j
      /\ \A d \in Clients \ {c} : pc[d] # "idle" => req[d].job # j
  <2>1. \A r \in Waiting : r.by # c
    BY <1>1 DEF OneAtATime
  <2>2. \A r \in Waiting : r.job # j
    BY <1>1, <2>1, OneOwner DEF OneAtATime
  <2> QED
    BY <1>1, <2>1, <2>2, OneOwner DEF OwnJob, Alone
<1> HIDE DEF j
<1>7. SilentCli'
  BY <1>3 DEF SilentCli
<1>8. OneAtATime'
  BY <1>1, <1>2, <1>3, <1>4 DEF OneAtATime
<1>9. Alone'
  BY <1>1, <1>2, <1>3 DEF Alone, Counted, EnvJob
<1>10. CountIsOne'
  BY <1>1 DEF CountIsOne, Counted, EnvJob
<1>11. OwnJob'
  BY <1>3 DEF OwnJob
<1>12. FreedIsUnused'
  <2> SUFFICES ASSUME NEW k \in Jobs, ~registered'[k]
               PROVE  /\ \A r \in Waiting : r.job # k
                      /\ \A d \in Clients : pc'[d] # "idle" => req'[d].job # k
                      /\ \A e \in Envs : Counted(e) => EnvJob(e) # k
    BY <1>1, <1>2 DEF FreedIsUnused, Counted, EnvJob
  <2>1. CASE k = j
    BY <1>3, <1>4, <2>1
  <2>2. CASE ~registered[k]
    BY <1>3, <2>2 DEF FreedIsUnused
  <2> QED
    BY <1>3, <2>1, <2>2
<1>13. ArgsStay'
  BY <1>1, <1>2, <1>3 DEF ArgsStay, EnvJob
<1> QED
  BY <1>7, <1>8, <1>9, <1>10, <1>11, <1>12, <1>13

LEMMA RegisterPacedInv ==
    ASSUME Context, NEW c \in Clients, NEW j \in Jobs, JesRegisterJob(c, j)
    PROVE  PacedInv'
<1> USE DEF Context, PacedInv, jobVars, coreVars, envVars, historyVars, issuerVars
<1>1. /\ ~registered[j]
      /\ registered' = [registered EXCEPT ![j] = TRUE]
      /\ instances' = [instances EXCEPT ![j] = 0]
      /\ args' = [args EXCEPT ![j] = NoArgs]
      /\ UNCHANGED <<notif_queue, issuerVars, coreVars, envVars, refused, finished>>
  BY DEF JesRegisterJob
<1>2. Waiting' = Waiting /\ Begun' = Begun
  BY <1>1, WaitingKept
<1>3. /\ Clients \subseteq Issuers /\ CliServers \subseteq Issuers /\ UserJobs \subseteq Jobs
      /\ \A k \in Jobs : ~registered'[k] => ~registered[k]
      /\ \A k \in Jobs \ {j} : args'[k] = args[k] /\ instances'[k] = instances[k]
      /\ instances'[j] = 0
  BY <1>1, DispatchAssumption DEF TypeInv, TypeOK, Issuers, Jobs
<1>4. /\ \A r \in Waiting : r.job # j
      /\ \A d \in Clients : pc[d] # "idle" => req[d].job # j
      /\ \A e \in Envs : Counted(e) => EnvJob(e) # j
  BY <1>1 DEF FreedIsUnused
<1>7. SilentCli' /\ OneAtATime' /\ OwnJob'
  BY <1>1, <1>2 DEF SilentCli, OneAtATime, OwnJob
<1>8. Alone'
  BY <1>1, <1>2 DEF Alone, Counted, EnvJob
<1>9. CountIsOne'
  <2>1. \A k \in UserJobs :
           instances'[k] = IF \E e \in Envs : Counted(e) /\ EnvJob(e) = k THEN 1 ELSE 0
    BY <1>3, <1>4 DEF CountIsOne
  <2> QED
    BY <1>1, <2>1 DEF CountIsOne, Counted, EnvJob
<1>10. FreedIsUnused'
  BY <1>1, <1>2, <1>3 DEF FreedIsUnused, Counted, EnvJob
<1>11. ArgsStay'
  <2>1. \A d \in Clients : pc[d] = "send" => req[d].job \in Jobs \ {j}
    BY <1>3, <1>4 DEF OwnJob
  <2>2. \A r \in Waiting : r.job \in Jobs \ {j}
    BY <1>3, <1>4 DEF OneAtATime
  <2>3. \A e \in Envs : env_pc[e] = "run" => EnvJob(e) \in Jobs \ {j}
    BY <1>3, <1>4 DEF Alone, Counted
  <2> QED
    BY <1>1, <1>2, <1>3, <2>1, <2>2, <2>3 DEF ArgsStay, EnvJob
<1> QED
  BY <1>7, <1>8, <1>9, <1>10, <1>11

LEMMA ClientPacedInv ==
    ASSUME Context, NEW c \in Clients, Client(c)
    PROVE  PacedInv'
<1>0. TypeInv /\ TypeOK /\ CoreInv /\ Disciplined /\ c \in Issuers
  BY DEF Context, TypeInv, Issuers
<1>1. ASSUME NEW j \in Jobs, NEW a \in ArgStrings \cup {NULL}, JesLaunchJob(c, j, a)
      PROVE  PacedInv'
  <2>1. j \in UserJobs /\ MayCall(c, j) /\ registered[j]
    BY <1>1 DEF JesLaunchJob, MayLaunch, Jobs
  <2>2. instances[j] = 0
    <3>1. j \in Singletons
      BY <1>0, <2>1 DEF MayCall, Disciplined
    <3>2. ~(instances[j] > 0)
      BY <1>1, <3>1 DEF JesLaunchJob, MayLaunch, SingletonBusy
    <3>3. instances[j] \in 0..(Width - 1)
      BY <1>0, <1>1 DEF TypeOK
    <3> QED
      BY <3>2, <3>3 DEF Width
  <2>3. Request(c, j, a) \in Requests /\ Request(c, j, a).job = j
    BY <1>0, <1>1, RequestType
  <2>4. /\ req' = [req EXCEPT ![c] = Request(c, j, a)]
        /\ pc' = [pc EXCEPT ![c] = "fill"]
        /\ UNCHANGED <<jobVars, notif_queue, sent, coreVars, envVars, historyVars>>
    BY <1>1 DEF JesLaunchJob
  <2> HIDE DEF Request
  <2> QED
    BY <2>1, <2>2, <2>3, <2>4, CallPacedInv
<1>2. ASSUME NEW j \in Jobs, JesUnregisterJob(c, j)
      PROVE  PacedInv'
  <2>1. MayCall(c, j) /\ registered[j] /\ instances[j] = 0
    BY <1>2 DEF JesUnregisterJob, NoInstances
  <2>2. j \in UserJobs
    BY <1>0, <2>1 DEF CoreInv, CoreJobStaysSingle, Jobs
  <2>3. Request(c, j, NULL) \in Requests /\ Request(c, j, NULL).job = j
    BY <1>0, <1>2, RequestType
  <2>4. /\ req' = [req EXCEPT ![c] = Request(c, j, NULL)]
        /\ pc' = [pc EXCEPT ![c] = "free"]
        /\ UNCHANGED <<jobVars, notif_queue, sent, coreVars, envVars, historyVars>>
    BY <1>2 DEF JesUnregisterJob
  <2> QED
    BY <2>1, <2>2, <2>3, <2>4, CallPacedInv
<1> QED
  BY <1>0, <1>1, <1>2, RegisterPacedInv, FillPacedInv, NotifyPacedInv, UnregisterPacedInv DEF Client

(* Nobody types a command. *)
LEMMA NobodyTypes ==
    ASSUME Context, NEW s \in CliServers, CliServer(s)
    PROVE  Aside
<1>1. pc[s] = "idle" /\ sent[s] \in 0..MaxReq /\ Quota[s] = 0
  BY DEF Context, PacedInv, SilentCli, TypeInv, TypeOK, Disciplined, Issuers
<1>2. ~(sent[s] < Quota[s])
  BY <1>1, DispatchAssumption
<1> QED
  BY <1>1, <1>2, CliServerCases DEF CliServerCommand, CliServerFill, CliServerOverflow,
     CliServerTooLong, CoreNotify

-----------------------------------------------------------------------------
(* The core job and the environments. *)

(* Steps that touch neither counters nor arguments nor environments.       *)
LEMMA QuietPacedInv ==
    ASSUME Context, Begun' = Begun,
           \/ Waiting' = Waiting /\ refused' = refused
           \/ /\ core_req \in Waiting
              /\ Waiting' = Waiting \ {core_req}
              /\ refused' = refused \cup {core_req},
           UNCHANGED <<pc, req, sent, registered, instances, args, finished, envVars>>
    PROVE  PacedInv'
<1> USE DEF Context, PacedInv, envVars
<1>1. SilentCli' /\ OwnJob'
  BY DEF SilentCli, OwnJob
<1>2. OneAtATime'
  BY DEF OneAtATime
<1>3. Alone'
  BY DEF Alone, Counted, EnvJob
<1>4. CountIsOne'
  BY DEF CountIsOne, Counted, EnvJob
<1>5. FreedIsUnused'
  BY DEF FreedIsUnused, Counted, EnvJob
<1>6. ArgsStay'
  BY DEF ArgsStay, EnvJob
<1> QED
  BY <1>1, <1>2, <1>3, <1>4, <1>5, <1>6

LEMMA AsidePacedInv ==
    ASSUME Context, Aside
    PROVE  PacedInv'
BY WaitingKept, QuietPacedInv DEF Aside, jobVars, issuerVars, coreVars, envVars, historyVars

LEMMA LaunchPacedInv ==
    ASSUME Context, NEW e \in Envs, CoreJobLaunch(e)
    PROVE  PacedInv'
<1> USE DEF Context, PacedInv
<1>1. Waiting' = Waiting /\ Begun' = Begun
  BY WaitingLaunch
<1>2. /\ env_pc[e] = "free" /\ env_pc'[e] \in {"start", "enter"}
      /\ \A d \in Envs \ {e} : env_pc'[d] = env_pc[d] /\ env_req'[d] = env_req[d]
      /\ UNCHANGED <<registered, instances, args, issuerVars, env_count, historyVars>>
  BY DEF CoreJobLaunch, FirstStep, Busy, TypeInv, TypeOK
<1>3. \A d \in Envs : /\ Counted(d)' <=> Counted(d)
                      /\ Counted(d) => EnvJob(d)' = EnvJob(d)
                      /\ env_pc'[d] = "run" => env_pc[d] = "run" /\ env_req'[d] = env_req[d]
                      /\ env_pc'[d] \in {"count", "return"} => env_pc'[d] = env_pc[d]
  BY <1>2 DEF Counted, EnvJob
<1>4. SilentCli' /\ OwnJob' /\ OneAtATime'
  BY <1>1, <1>2 DEF SilentCli, OwnJob, OneAtATime, issuerVars, historyVars
<1>5. Alone'
  BY <1>1, <1>2, <1>3 DEF Alone, issuerVars
<1>6. CountIsOne'
  BY <1>2, <1>3 DEF CountIsOne
<1>7. FreedIsUnused'
  BY <1>1, <1>2, <1>3 DEF FreedIsUnused, issuerVars
<1>8. ArgsStay'
  BY <1>1, <1>2, <1>3 DEF ArgsStay, issuerVars, EnvJob
<1> QED
  BY <1>4, <1>5, <1>6, <1>7, <1>8

LEMMA CorePacedInv ==
    ASSUME Context, CoreJobLoop
    PROVE  PacedInv'
<1> USE DEF jobVars, issuerVars, envVars, historyVars
<1>0. TypeInv /\ PipelineInv
  BY DEF Context
<1>1. CASE CoreJobReceive
  BY <1>0, <1>1, WaitingReceive, QuietPacedInv DEF CoreJobReceive
<1>2. CASE CoreJobTimeout
  BY <1>2, AsidePacedInv, AsideSteps
<1>3. CASE CoreJobUnknown \/ CoreJobStoredError \/ CoreJobRefuse
  <2>1. /\ core_pc = "launch" /\ core_pc' # "launch"
        /\ refused' = refused \cup {core_req}
        /\ UNCHANGED <<notif_queue, jobVars, issuerVars, envVars, finished>>
    BY <1>3 DEF CoreJobUnknown, CoreJobStoredError, CoreJobRefuse
  <2>2. core_req \in Waiting
    BY <1>0, <2>1, WaitingTyped
  <2>3. Waiting' = Waiting \ {core_req} /\ Begun' = Begun
    BY <1>0, <2>1, WaitingAnswered
  <2> QED
    BY <2>1, <2>2, <2>3, QuietPacedInv
<1>4. ASSUME NEW e \in Envs, CoreJobLaunch(e) PROVE PacedInv'
  BY <1>4, LaunchPacedInv
<1>5. CASE CoreJobRecord \/ CoreJobReport \/ CoreCloseSess \/ CoreJobClear
  <2>1. /\ core_pc # "launch" /\ core_pc' # "launch"
        /\ UNCHANGED <<notif_queue, registered, instances, args, issuerVars, envVars, historyVars>>
    BY <1>5 DEF CoreJobRecord, CoreJobReport, CoreCloseSess, CoreJobClear
  <2>2. Waiting' = Waiting /\ Begun' = Begun
    BY <2>1 DEF Waiting, Begun, Entering, Past
  <2> QED
    BY <2>1, <2>2, QuietPacedInv
<1> QED
  BY <1>1, <1>2, <1>3, <1>4, <1>5 DEF CoreJobLoop

(* The job of an environment that is about to be counted is not counted.   *)
LEMMA EnteringIsAlone ==
    ASSUME Context, NEW e \in Envs, Entering(e)
    PROVE  /\ env_req[e] \in Waiting
           /\ env_req[e].by \in Clients
           /\ EnvJob(e) \in Owns[env_req[e].by] \cap UserJobs
           /\ instances[EnvJob(e)] = 0
           /\ \A d \in Envs : Counted(d) => EnvJob(d) # EnvJob(e)
           /\ \A r \in Waiting \ {env_req[e]} : r.by # env_req[e].by /\ r.job # EnvJob(e)
           /\ \A c \in Clients : pc[c] # "idle" => req[c].job # EnvJob(e)
<1> USE DEF Context, PacedInv
<1>1. env_req[e] \in Waiting
  BY WaitingTyped
<1>2. env_req[e].by \in Clients /\ EnvJob(e) \in Owns[env_req[e].by] \cap UserJobs
      /\ pc[env_req[e].by] = "idle"
  BY <1>1 DEF OneAtATime, EnvJob
<1>3. \A d \in Envs : Counted(d) => EnvJob(d) # EnvJob(e)
  BY <1>1 DEF Alone, EnvJob
<1>4. instances[EnvJob(e)] = 0
  BY <1>2, <1>3 DEF CountIsOne
<1>5. \A r \in Waiting \ {env_req[e]} : r.by # env_req[e].by
  BY <1>1 DEF OneAtATime
<1>6. \A r \in Waiting \ {env_req[e]} : r.job # EnvJob(e)
  BY <1>2, <1>5, OneOwner DEF OneAtATime
<1>7. \A c \in Clients : pc[c] # "idle" => req[c].job # EnvJob(e)
  BY <1>2, OneOwner DEF OwnJob
<1> QED
  BY <1>1, <1>2, <1>3, <1>4, <1>5, <1>6, <1>7

(* An environment that counts or uncounts changes its own job only.        *)
LEMMA EnterPacedInv ==
    ASSUME Context, NEW e \in Envs, RuntimeEnvEnter(e)
    PROVE  PacedInv'
<1> USE DEF Context, PacedInv, jobVars, issuerVars, historyVars
<1>1. Waiting' = Waiting /\ Begun' \subseteq Begun
  BY WaitingRuns
<1>2. /\ env_pc[e] = "enter" /\ env_pc'[e] = "count" /\ env_req' = env_req
      /\ \A d \in Envs \ {e} : env_pc'[d] = env_pc[d] /\ env_count'[d] = env_count[d]
      /\ env_count'[e] = instances[EnvJob(e)]
      /\ UNCHANGED <<jobVars, issuerVars, refused, finished>>
  BY DEF RuntimeEnvEnter, ReadInstances, Goto, TypeInv, TypeOK
<1>3. instances[EnvJob(e)] = 0
  BY <1>2, EnteringIsAlone DEF Entering
<1>4. \A d \in Envs : (Counted(d)' <=> Counted(d)) /\ EnvJob(d)' = EnvJob(d)
  BY <1>2 DEF Counted, EnvJob
<1>5. SilentCli' /\ OwnJob' /\ OneAtATime'
  BY <1>1, <1>2 DEF SilentCli, OwnJob, OneAtATime
<1>6. Alone'
  BY <1>1, <1>2, <1>4 DEF Alone
<1>7. CountIsOne'
  BY <1>2, <1>3, <1>4 DEF CountIsOne
<1>8. FreedIsUnused'
  BY <1>1, <1>2, <1>4 DEF FreedIsUnused
<1>9. ArgsStay'
  BY <1>1, <1>2, <1>4 DEF ArgsStay
<1> QED
  BY <1>5, <1>6, <1>7, <1>8, <1>9

LEMMA CountPacedInv ==
    ASSUME Context, NEW e \in Envs, RuntimeEnvCount(e)
    PROVE  PacedInv'
<1> USE DEF Context, PacedInv, issuerVars, historyVars
<1> DEFINE j == EnvJob(e)
<1>1. Waiting' = Waiting \ {env_req[e]} /\ Begun' = Begun \cup {env_req[e]}
  BY WaitingBegins
<1>2. /\ env_pc[e] = "count" /\ env_pc'[e] = "run"
      /\ \A d \in Envs \ {e} : env_pc'[d] = env_pc[d]
      /\ UNCHANGED <<registered, args, issuerVars, historyVars, env_req, env_count>>
      /\ instances' = [instances EXCEPT ![j] = (env_count[e] + 1) % Width]
  BY DEF RuntimeEnvCount, Goto, TypeInv, TypeOK
<1>3. /\ env_req[e] \in Waiting
      /\ env_req[e].by \in Clients
      /\ j \in Owns[env_req[e].by] \cap UserJobs
      /\ \A d \in Envs : Counted(d) => EnvJob(d) # j
      /\ \A r \in Waiting \ {env_req[e]} : r.by # env_req[e].by /\ r.job # j
      /\ \A c \in Clients : pc[c] # "idle" => req[c].job # j
  BY <1>2, EnteringIsAlone DEF Entering
<1>4. \A d \in Envs : (Counted(d)' <=> Counted(d) \/ d = e) /\ EnvJob(d)' = EnvJob(d)
  BY <1>2 DEF Counted, EnvJob
<1>5. /\ instances'[j] = 1
      /\ \A k \in Jobs \ {j} : instances'[k] = instances[k]
      /\ UserJobs \subseteq Jobs
  <2>1. env_count[e] = 0 /\ (0 + 1) % Width = 1
    BY <1>2 DEF CountIsOne, Width
  <2>2. UserJobs \subseteq Jobs /\ DOMAIN instances = Jobs
    BY DEF Jobs, TypeInv, TypeOK
  <2> QED
    BY <1>2, <1>3, <2>1, <2>2
<1> HIDE DEF j
<1>6. SilentCli' /\ OwnJob'
  BY <1>2 DEF SilentCli, OwnJob
<1>7. OneAtATime'
  BY <1>1, <1>2, <1>3 DEF OneAtATime
<1>8. Alone'
  BY <1>1, <1>2, <1>3, <1>4 DEF Alone, j
<1>9. CountIsOne'
  <2>1. \A k \in UserJobs :
           instances'[k] = IF \E d \in Envs : Counted(d)' /\ EnvJob(d)' = k THEN 1 ELSE 0
    <3> SUFFICES ASSUME NEW k \in UserJobs
                 PROVE  instances'[k] = IF \E d \in Envs : Counted(d)' /\ EnvJob(d)' = k THEN 1 ELSE 0
      OBVIOUS
    <3>1. CASE k = j
      BY <1>4, <1>5, <3>1 DEF j
    <3>2. CASE k # j
      BY <1>4, <1>5, <3>2 DEF CountIsOne, j
    <3> QED
      BY <3>1, <3>2
  <2> QED
    BY <1>2, <2>1 DEF CountIsOne
<1>10. FreedIsUnused'
  <2>1. registered[j]
    BY <1>3, <1>5 DEF FreedIsUnused, EnvJob, j
  <2> QED
    BY <1>1, <1>2, <1>4, <2>1 DEF FreedIsUnused, j
<1>11. ArgsStay'
  BY <1>1, <1>2, <1>3, <1>4 DEF ArgsStay, EnvJob, j
<1> QED
  BY <1>6, <1>7, <1>8, <1>9, <1>10, <1>11

LEMMA ReturnPacedInv ==
    ASSUME Context, NEW e \in Envs, RuntimeEnvReturn(e)
    PROVE  PacedInv'
<1> USE DEF Context, PacedInv, jobVars, issuerVars
<1>1. Waiting' = Waiting /\ Begun' \subseteq Begun
  BY WaitingRuns
<1>2. /\ env_pc[e] = "run" /\ env_pc'[e] = "return" /\ env_req' = env_req
      /\ \A d \in Envs \ {e} : env_pc'[d] = env_pc[d] /\ env_count'[d] = env_count[d]
      /\ env_count'[e] = instances[EnvJob(e)]
      /\ finished' = finished \cup {env_req[e]}
      /\ UNCHANGED <<jobVars, issuerVars, refused>>
  BY DEF RuntimeEnvReturn, ReadInstances, Goto, TypeInv, TypeOK
<1>3. instances[EnvJob(e)] = 1 /\ env_req[e] \in Begun
  BY <1>2, WaitingTyped DEF CountIsOne, Alone, Counted, Past
<1>4. \A d \in Envs : (Counted(d)' <=> Counted(d)) /\ EnvJob(d)' = EnvJob(d)
  BY <1>2 DEF Counted, EnvJob
<1>5. SilentCli' /\ OwnJob'
  BY <1>2 DEF SilentCli, OwnJob
<1>6. OneAtATime'
  BY <1>1, <1>2, <1>3 DEF OneAtATime
<1>7. Alone'
  BY <1>1, <1>2, <1>4 DEF Alone
<1>8. CountIsOne'
  BY <1>2, <1>3, <1>4 DEF CountIsOne
<1>9. FreedIsUnused'
  BY <1>1, <1>2, <1>4 DEF FreedIsUnused
<1>10. ArgsStay'
  BY <1>1, <1>2, <1>4 DEF ArgsStay
<1> QED
  BY <1>5, <1>6, <1>7, <1>8, <1>9, <1>10

LEMMA UncountPacedInv ==
    ASSUME Context, NEW e \in Envs, RuntimeEnvUncount(e)
    PROVE  PacedInv'
<1> USE DEF Context, PacedInv, issuerVars, historyVars
<1> DEFINE j == EnvJob(e)
<1>1. Waiting' = Waiting /\ Begun' \subseteq Begun
  BY WaitingRuns
<1>2. /\ env_pc[e] = "return" /\ env_pc'[e] \in {"done", "exit"}
      /\ \A d \in Envs \ {e} : env_pc'[d] = env_pc[d]
      /\ UNCHANGED <<registered, args, issuerVars, historyVars, env_req, env_count>>
      /\ instances' = [instances EXCEPT ![j] = (env_count[e] - 1) % Width]
  BY DEF RuntimeEnvUncount, Uncounted, Goto, TypeInv, TypeOK
<1>3. \A d \in Envs : (Counted(d)' <=> Counted(d) /\ d # e) /\ EnvJob(d)' = EnvJob(d)
  BY <1>2 DEF Counted, EnvJob
<1>4. j \in UserJobs /\ \A d \in Envs : Counted(d) /\ EnvJob(d) = j => d = e
  BY <1>2 DEF Alone, Counted
<1>5. /\ instances'[j] = 0
      /\ \A k \in Jobs \ {j} : instances'[k] = instances[k]
      /\ UserJobs \subseteq Jobs
  <2>1. env_count[e] = 1 /\ (1 - 1) % Width = 0
    BY <1>2 DEF CountIsOne, Width
  <2>2. UserJobs \subseteq Jobs /\ DOMAIN instances = Jobs
    BY DEF Jobs, TypeInv, TypeOK
  <2> QED
    BY <1>2, <1>4, <2>1, <2>2
<1>6. SilentCli' /\ OwnJob' /\ OneAtATime'
  BY <1>1, <1>2 DEF SilentCli, OwnJob, OneAtATime
<1>7. Alone'
  BY <1>1, <1>2, <1>3 DEF Alone
<1>8. CountIsOne'
  <2>1. \A k \in UserJobs :
           instances'[k] = IF \E d \in Envs : Counted(d)' /\ EnvJob(d)' = k THEN 1 ELSE 0
    <3> SUFFICES ASSUME NEW k \in UserJobs
                 PROVE  instances'[k] = IF \E d \in Envs : Counted(d)' /\ EnvJob(d)' = k THEN 1 ELSE 0
      OBVIOUS
    <3>1. CASE k = j
      BY <1>3, <1>4, <1>5, <3>1
    <3>2. CASE k # j
      BY <1>3, <1>5, <3>2 DEF CountIsOne
    <3> QED
      BY <3>1, <3>2
  <2> QED
    BY <1>2, <2>1 DEF CountIsOne
<1>9. FreedIsUnused'
  BY <1>1, <1>2, <1>3 DEF FreedIsUnused
<1>10. ArgsStay'
  BY <1>1, <1>2, <1>3 DEF ArgsStay
<1> QED
  BY <1>6, <1>7, <1>8, <1>9, <1>10

LEMMA ExitPacedInv ==
    ASSUME Context, NEW e \in Envs, RuntimeEnvExit(e)
    PROVE  PacedInv'
<1> USE DEF Context, PacedInv, issuerVars, historyVars
<1>1. Waiting' = Waiting /\ Begun' \subseteq Begun
  BY WaitingRuns
<1>2. /\ env_pc[e] = "exit" /\ env_pc'[e] = "free"
      /\ \A d \in Envs \ {e} : /\ env_pc'[d] = env_pc[d] /\ env_req'[d] = env_req[d]
                               /\ env_count'[d] = env_count[d]
      /\ UNCHANGED <<registered, instances, args, issuerVars, historyVars>>
  BY DEF RuntimeEnvExit, Goto, TypeInv, TypeOK
<1>3. \A d \in Envs : (Counted(d)' <=> Counted(d)) /\ (Counted(d) => EnvJob(d)' = EnvJob(d))
  BY <1>2 DEF Counted, EnvJob
<1>4. SilentCli' /\ OwnJob' /\ OneAtATime'
  BY <1>1, <1>2 DEF SilentCli, OwnJob, OneAtATime
<1>5. Alone'
  BY <1>1, <1>2, <1>3 DEF Alone
<1>6. CountIsOne'
  BY <1>2, <1>3 DEF CountIsOne
<1>7. FreedIsUnused'
  BY <1>1, <1>2, <1>3 DEF FreedIsUnused
<1>8. ArgsStay'
  BY <1>1, <1>2, <1>3 DEF ArgsStay, Counted
<1> QED
  BY <1>4, <1>5, <1>6, <1>7, <1>8

LEMMA ThrowPacedInv ==
    ASSUME Context, NEW e \in Envs, NEW j \in Jobs, JesThrowError(e, j)
    PROVE  PacedInv'
<1>1. UNCHANGED <<registered, instances, args, notif_queue, issuerVars, coreVars, envVars, historyVars>>
  BY DEF JesThrowError
<1> QED
  BY <1>1, WaitingKept, QuietPacedInv DEF issuerVars, coreVars, envVars, historyVars

LEMMA SessionPacedInv ==
    ASSUME Context, NEW e \in Envs, EnvSession(e)
    PROVE  PacedInv'
<1> USE DEF Context, PacedInv, issuerVars, historyVars
<1>1. Waiting' = Waiting /\ Begun' \subseteq Begun
  BY WaitingRuns
<1>2. /\ env_pc[e] \notin {"count", "run", "return"} /\ env_pc'[e] \notin {"count", "run", "return"}
      /\ \A d \in Envs \ {e} : env_pc'[d] = env_pc[d]
      /\ UNCHANGED <<registered, instances, args, issuerVars, historyVars, env_req, env_count>>
  BY EnvSessionStep DEF jobVars
<1>3. \A d \in Envs : (Counted(d)' <=> Counted(d)) /\ EnvJob(d)' = EnvJob(d)
  BY <1>2 DEF Counted, EnvJob
<1>4. SilentCli' /\ OwnJob' /\ OneAtATime'
  BY <1>1, <1>2 DEF SilentCli, OwnJob, OneAtATime
<1>5. Alone'
  BY <1>1, <1>2, <1>3 DEF Alone
<1>6. CountIsOne'
  BY <1>2, <1>3 DEF CountIsOne
<1>7. FreedIsUnused'
  BY <1>1, <1>2, <1>3 DEF FreedIsUnused
<1>8. ArgsStay'
  BY <1>1, <1>2, <1>3 DEF ArgsStay, Counted
<1> QED
  BY <1>4, <1>5, <1>6, <1>7, <1>8

(* Under the discipline the invariant holds. *)
LEMMA PacedInvInvariant ==
    ASSUME Disciplined
    PROVE  Spec => []PacedInv
<1>1. TypeInv /\ CoreInv /\ PipelineInv /\ PacedInv /\ [Next]_vars => PacedInv'
  <2> SUFFICES ASSUME Context, [Next]_vars PROVE PacedInv'
    BY DEF Context
  <2>2. ASSUME NEW e \in Envs, RuntimeEnv(e) PROVE PacedInv'
    BY <2>2, EnterPacedInv, CountPacedInv, ReturnPacedInv, UncountPacedInv, ExitPacedInv,
       ThrowPacedInv, SessionPacedInv, EnvCases
  <2> QED
    BY <2>2, ClientPacedInv, NobodyTypes, CorePacedInv, AsidePacedInv, AsideSteps DEF Next
<1> QED
  BY <1>1, InitPacedInv, CoreInvInvariant, TypeInvInvariant, PipelineInvInvariant, PTL DEF Spec

-----------------------------------------------------------------------------
(* A set of at most one element. *)
LEMMA AtMostOne ==
    ASSUME NEW S, \A x, y \in S : x = y
    PROVE  Cardinality(S) = IF S = {} THEN 0 ELSE 1
<1>1. CASE S = {}
  BY <1>1, FS_EmptySet
<1>2. CASE S # {}
  <2>1. PICK x \in S : TRUE
    BY <1>2
  <2>2. S = {x}
    BY <2>1
  <2> QED
    BY <2>2, FS_Singleton
<1> QED
  BY <1>1, <1>2

(* At most one function of a singleton job is about to run or runs         *)
(* (is_singleton, the tests of instances in __job_launch_job_core and      *)
(* __job_launch_job), for clients that wait for their launches.            *)
THEOREM SingletonsExclude ==
    ASSUME Disciplined
    PROVE  Spec => []SingletonExclusive
<1>1. TypeInv /\ PipelineInv /\ PacedInv => SingletonExclusive
  <2> SUFFICES ASSUME TypeInv, PipelineInv, PacedInv, NEW j \in Singletons
               PROVE  Cardinality({e \in Envs : Started(e) /\ EnvJob(e) = j}) <= 1
    BY DEF SingletonExclusive
  <2> DEFINE S == {e \in Envs : Started(e) /\ EnvJob(e) = j}
  <2>1. ASSUME NEW d \in S, NEW e \in S PROVE d = e
    <3>0. /\ d \in Envs /\ e \in Envs /\ EnvJob(d) = j /\ EnvJob(e) = j
          /\ env_pc[d] = "run" \/ Entering(d)
          /\ env_pc[e] = "run" \/ Entering(e)
      BY <2>1 DEF Started, Entering
    <3>1. CASE env_pc[d] = "run" /\ env_pc[e] = "run"
      BY <3>0, <3>1 DEF PacedInv, Alone, Counted
    <3>2. CASE env_pc[d] = "run" /\ Entering(e)
      BY <3>0, <3>2, WaitingTyped DEF PacedInv, Alone, Counted, EnvJob
    <3>3. CASE Entering(d) /\ env_pc[e] = "run"
      BY <3>0, <3>3, WaitingTyped DEF PacedInv, Alone, Counted, EnvJob
    <3>4. CASE Entering(d) /\ Entering(e)
      <4>1. env_req[d] \in Waiting /\ env_req[e] \in Waiting
        BY <3>0, <3>4, WaitingTyped
      <4>2. env_req[d] = env_req[e]
        BY <3>0, <4>1, OneOwner DEF PacedInv, OneAtATime, EnvJob
      <4>3. Busy(d) /\ Busy(e)
        BY <3>4 DEF Busy, Entering
      <4> QED
        BY <3>0, <4>2, <4>3 DEF PipelineInv, Distinct
    <3> QED
      BY <3>0, <3>1, <3>2, <3>3, <3>4
  <2> HIDE DEF S
  <2>2. Cardinality(S) = IF S = {} THEN 0 ELSE 1
    BY <2>1, AtMostOne
  <2> QED
    BY <2>2 DEF S
<1> QED
  BY <1>1, PacedInvInvariant, TypeInvInvariant, PipelineInvInvariant, PTL

(* A function that was launched with arguments finds those arguments, as   *)
(* long as it runs (jescore_api.h: a copy is stored in the args field).    *)
THEOREM ArgumentsAreKept ==
    ASSUME Disciplined
    PROVE  Spec => []ArgsAsRequested
<1>1. PacedInv => ArgsAsRequested
  BY DEF PacedInv, ArgsStay, ArgsAsRequested
<1> QED
  BY <1>1, PacedInvInvariant, PTL

(* A job is not released while its function runs (jescore_api.h, of        *)
(* jes_unregister_job), although the test of instances and the release     *)
(* are apart.                                                              *)
THEOREM RunningJobsStay ==
    ASSUME Disciplined
    PROVE  Spec => NoRunningJobUnregistered
<1> DEFINE Stays == \A j \in Jobs :
                registered[j] /\ ~registered'[j] => EnvsOf(j, {"run"}) = {}
<1>1. TypeInv /\ PacedInv /\ [Next]_vars => [Stays]_vars
  <2> SUFFICES ASSUME TypeInv, PacedInv, Next, NEW j \in Jobs, registered[j], ~registered'[j]
               PROVE  EnvsOf(j, {"run"}) = {}
    OBVIOUS
  <2>1. ASSUME NEW c \in Clients, JobUnregisterJob(c)
        PROVE  EnvsOf(j, {"run"}) = {}
    <3>1. pc[c] = "free" /\ req[c].job = j
      BY <2>1 DEF JobUnregisterJob, TypeInv, TypeOK
    <3> QED
      BY <3>1 DEF PacedInv, Alone, Counted, EnvsOf
  <2>2. ASSUME NEW c \in Clients, JesRegisterJob(c, j) PROVE FALSE
    BY <2>2 DEF JesRegisterJob
  <2>3. ASSUME NEW c \in Clients, Client(c)
        PROVE  EnvsOf(j, {"run"}) = {}
    BY <2>1, <2>3 DEF Client, JesLaunchJob, JesUnregisterJob, JesRegisterJob,
       JobLaunchJobCore, CoreNotify, jobVars, TypeInv, TypeOK
  <2>7. ASSUME Aside PROVE FALSE
    BY <2>7 DEF Aside, jobVars
  <2>4. ASSUME NEW s \in CliServers, CliServer(s) PROVE FALSE
    BY <2>4, <2>7, CliServerCases DEF CliServerCommand, CliServerFill, CliServerOverflow,
       CliServerTooLong, CoreNotify, jobVars
  <2>5. ASSUME CoreJobLoop PROVE FALSE
    BY <2>5, <2>7, AsideSteps DEF CoreJobLoop, CoreJobReceive, CoreJobUnknown, CoreJobStoredError,
       CoreJobRefuse, CoreJobLaunch, CoreJobRecord, CoreJobReport, CoreCloseSess, CoreJobClear,
       jobVars
  <2>6. ASSUME NEW e \in Envs, RuntimeEnv(e) PROVE FALSE
    BY <2>6, EnvCases, EnvSessionStep DEF RuntimeEnvEnter, RuntimeEnvCount, RuntimeEnvReturn,
       RuntimeEnvUncount, RuntimeEnvExit, JesThrowError, jobVars
  <2> QED
    BY <2>3, <2>4, <2>5, <2>6, <2>7, AsideSteps DEF Next
<1>2. NoRunningJobUnregistered <=> [][Stays]_vars
  BY DEF NoRunningJobUnregistered
<1> QED
  BY <1>1, <1>2, TypeInvInvariant, PacedInvInvariant, PTL DEF Spec

-----------------------------------------------------------------------------
(* Clients that launch one job only, and so never start a second task      *)
(* while the first is about to end.                                        *)

(* A client has at most one task; its job stays in the list and names it.  *)
OneEnvEach ==
    \A e \in Envs : Busy(e) =>
        /\ env_req[e].by \in Clients
        /\ EnvJob(e) \in Owns[env_req[e].by] \cap UserJobs
        /\ pc[env_req[e].by] = "idle"
        /\ handle[EnvJob(e)] = e
        /\ registered[EnvJob(e)]
        /\ env_req[e].n = sent[env_req[e].by]
        /\ \A r \in Waiting : r.by = env_req[e].by => r = env_req[e]
        /\ \A d \in Envs : Busy(d) /\ env_req[d].by = env_req[e].by => d = e
        /\ \A s \in refused : s.by = env_req[e].by => s.n # env_req[e].n

(* The job the core works on is one of a client that waits for it.         *)
CoreInHand ==
    core_req # NULL =>
        /\ core_req.by \in Clients
        /\ core_req.job \in Owns[core_req.by] \cap UserJobs
        /\ pc[core_req.by] = "idle"
        /\ registered[core_req.job]

OneJobInv == OneEnvEach /\ CoreInHand

OneJobContext == Context /\ OneJobEach /\ OneJobInv

LEMMA InitOneJobInv == Init => OneJobInv
BY DEF Init, OneJobInv, OneEnvEach, CoreInHand, Busy

(* A client that may call about a job nobody is counted for has no task:   *)
(* its last one would still be on its way to the end.                      *)
LEMMA CallerHasNoTask ==
    ASSUME OneJobContext, NEW c \in Clients, NEW j \in Jobs, MayCall(c, j),
           registered[j] => instances[j] = 0
    PROVE  /\ pc[c] = "idle"
           /\ core_req # NULL => core_req.by # c
           /\ \A e \in Envs : Busy(e) => env_req[e].by # c /\ EnvJob(e) # j
<1> USE DEF OneJobContext, Context, OneJobInv
<1>1. pc[c] = "idle" /\ j \in Owns[c] /\ Settled(c)
  BY DEF MayCall, Disciplined
<1>2. ASSUME NEW e \in Envs, Busy(e), env_req[e].by = c PROVE FALSE
  <2>1. EnvJob(e) = j /\ registered[j] /\ j \in UserJobs
    BY <1>1, <1>2 DEF OneEnvEach, OneJobEach
  <2>2. env_req[e].n = sent[c] /\ env_req[e].n # 0
    <3>1. env_req[e] \in Requests
      BY <1>2, EnvJobType
    <3> QED
      BY <1>2, <3>1, DispatchAssumption DEF OneEnvEach, Requests
  <2>3. \A s \in refused : ~(s.by = c /\ s.n = sent[c])
    BY <1>2, <2>2 DEF OneEnvEach
  <2>4. ASSUME NEW d \in Envs, env_pc[d] = "run", env_req[d].by = c PROVE FALSE
    <3>1. d = e
      BY <1>2, <2>4 DEF OneEnvEach, Busy
    <3>2. Counted(e) /\ instances[j] = 1
      BY <2>1, <2>4, <3>1 DEF Counted, PacedInv, CountIsOne
    <3> QED
      BY <2>1, <3>2
  <2> QED
    BY <1>1, <1>2, <2>2, <2>3, <2>4 DEF Settled
<1>3. ASSUME NEW e \in Envs, Busy(e), EnvJob(e) = j PROVE FALSE
  BY <1>1, <1>2, <1>3, OneOwner DEF OneEnvEach
<1> QED
  BY <1>1, <1>2, <1>3 DEF Settled

(* Two tasks run different jobs of different clients. *)
LEMMA TasksApart ==
    ASSUME OneJobContext, NEW d \in Envs, NEW e \in Envs, Busy(d), Busy(e), d # e
    PROVE  EnvJob(d) # EnvJob(e) /\ env_req[d].by # env_req[e].by
BY DEF OneJobContext, OneJobInv, OneEnvEach

(* Steps that start no task and leave clients, handles and the list alone. *)
LEMMA OneEnvKept ==
    ASSUME OneEnvEach, Waiting' \subseteq Waiting,
           UNCHANGED <<pc, sent, handle, registered, refused>>,
           \A e \in Envs : Busy(e)' => Busy(e) /\ env_req'[e] = env_req[e]
    PROVE  OneEnvEach'
BY DEF OneEnvEach, EnvJob

(* Clients that do not have a task may go on, as long as they leave other  *)
(* clients' jobs alone.                                                    *)
LEMMA OneClientMoves ==
    ASSUME OneJobContext, NEW c \in Clients,
           \A e \in Envs : Busy(e) => env_req[e].by # c,
           core_req # NULL => core_req.by # c,
           \A d \in Clients \ {c} : pc'[d] = pc[d] /\ sent'[d] = sent[d],
           Waiting' = Waiting \/ (Waiting' = Waiting \cup {req[c]} /\ req[c].by = c),
           \A j \in UserJobs \ Owns[c] : registered'[j] = registered[j] /\ handle'[j] = handle[j],
           UNCHANGED <<core_req, envVars, refused>>
    PROVE  OneJobInv'
<1> USE DEF OneJobContext, Context, OneJobInv
<1>1. \A e \in Envs : Busy(e) => EnvJob(e) \in UserJobs \ Owns[c]
  BY OneOwner DEF OneEnvEach
<1>2. OneEnvEach'
  <2> SUFFICES ASSUME NEW e \in Envs, Busy(e)
               PROVE  /\ env_req[e].by \in Clients
                      /\ EnvJob(e) \in Owns[env_req[e].by] \cap UserJobs
                      /\ pc'[env_req[e].by] = "idle"
                      /\ handle'[EnvJob(e)] = e
                      /\ registered'[EnvJob(e)]
                      /\ env_req[e].n = sent'[env_req[e].by]
                      /\ \A r \in Waiting' : r.by = env_req[e].by => r = env_req[e]
                      /\ \A d \in Envs : Busy(d) /\ env_req[d].by = env_req[e].by => d = e
                      /\ \A s \in refused : s.by = env_req[e].by => s.n # env_req[e].n
    BY DEF OneEnvEach, EnvJob, Busy, envVars
  <2>1. env_req[e].by \in Clients \ {c} /\ EnvJob(e) \in UserJobs \ Owns[c]
    BY <1>1 DEF OneEnvEach
  <2> QED
    BY <2>1 DEF OneEnvEach
<1>3. CoreInHand'
  <2> SUFFICES ASSUME core_req # NULL
               PROVE  /\ core_req.by \in Clients
                      /\ core_req.job \in Owns[core_req.by] \cap UserJobs
                      /\ pc'[core_req.by] = "idle"
                      /\ registered'[core_req.job]
    BY DEF CoreInHand
  <2>1. core_req.by \in Clients \ {c} /\ core_req.job \in UserJobs \ Owns[c]
    BY OneOwner DEF CoreInHand
  <2> QED
    BY <2>1 DEF CoreInHand
<1> QED
  BY <1>2, <1>3

LEMMA ClientOneJobInv ==
    ASSUME OneJobContext, NEW c \in Clients, Client(c)
    PROVE  OneJobInv'
<1> USE DEF OneJobContext, Context, jobVars, issuerVars, coreVars, envVars, historyVars
<1>0. /\ c \in Issuers /\ Clients \subseteq Issuers /\ UserJobs \subseteq Jobs
      /\ pc \in [Issuers -> {"idle", "fill", "send", "free", "overflow"}]
      /\ sent \in [Issuers -> 0..MaxReq]
      /\ registered \in [Jobs -> BOOLEAN]
      /\ handle \in [Jobs -> Envs \cup {NULL}]
  BY DEF TypeInv, TypeOK, Issuers, Jobs
(* In the middle of a call a client has no task. *)
<1>1. ASSUME pc[c] # "idle"
      PROVE  /\ \A e \in Envs : Busy(e) => env_req[e].by # c
             /\ core_req # NULL => core_req.by # c
  BY <1>1 DEF OneJobInv, OneEnvEach, CoreInHand
<1>2. ASSUME NEW j \in Jobs, NEW a \in ArgStrings \cup {NULL}, JesLaunchJob(c, j, a)
      PROVE  OneJobInv'
  <2>1. instances[j] = 0
    <3>1. j \in Singletons /\ j \in UserJobs
      BY <1>2 DEF JesLaunchJob, MayCall, MayLaunch, Disciplined, Jobs
    <3>2. ~(instances[j] > 0)
      BY <1>2, <3>1 DEF JesLaunchJob, MayLaunch, SingletonBusy
    <3> QED
      BY <3>1, <3>2 DEF PacedInv, CountIsOne
  <2>2. /\ \A e \in Envs : Busy(e) => env_req[e].by # c
        /\ core_req # NULL => core_req.by # c
    BY <1>2, <2>1, CallerHasNoTask DEF JesLaunchJob
  <2>3. Waiting' = Waiting
    BY <1>2, WaitingKept DEF JesLaunchJob
  <2>4. /\ \A d \in Clients \ {c} : pc'[d] = pc[d] /\ sent'[d] = sent[d]
        /\ UNCHANGED <<registered, handle, core_req, envVars, refused>>
    BY <1>0, <1>2 DEF JesLaunchJob
  <2> HIDE DEF OneJobContext, Context
  <2> QED
    BY <2>2, <2>3, <2>4, OneClientMoves
<1>3. ASSUME NEW j \in Jobs, JesUnregisterJob(c, j)
      PROVE  OneJobInv'
  <2>1. /\ \A e \in Envs : Busy(e) => env_req[e].by # c
        /\ core_req # NULL => core_req.by # c
    BY <1>3, CallerHasNoTask DEF JesUnregisterJob, NoInstances
  <2>2. Waiting' = Waiting
    BY <1>3, WaitingKept DEF JesUnregisterJob
  <2>3. /\ \A d \in Clients \ {c} : pc'[d] = pc[d] /\ sent'[d] = sent[d]
        /\ UNCHANGED <<registered, handle, core_req, envVars, refused>>
    BY <1>0, <1>3 DEF JesUnregisterJob
  <2> HIDE DEF OneJobContext, Context
  <2> QED
    BY <2>1, <2>2, <2>3, OneClientMoves
<1>4. ASSUME NEW j \in Jobs, JesRegisterJob(c, j)
      PROVE  OneJobInv'
  <2>1. /\ \A e \in Envs : Busy(e) => env_req[e].by # c
        /\ core_req # NULL => core_req.by # c
    BY <1>4, CallerHasNoTask DEF JesRegisterJob
  <2>2. Waiting' = Waiting
    BY <1>4, WaitingKept DEF JesRegisterJob
  <2>3. /\ j \in Owns[c]
        /\ registered' = [registered EXCEPT ![j] = TRUE]
        /\ handle' = [handle EXCEPT ![j] = NULL]
        /\ UNCHANGED <<pc, sent, core_req, envVars, refused>>
    BY <1>4 DEF JesRegisterJob, MayCall
  <2>4. \A k \in UserJobs \ Owns[c] : registered'[k] = registered[k] /\ handle'[k] = handle[k]
    BY <1>0, <2>3
  <2> HIDE DEF OneJobContext, Context
  <2> QED
    BY <2>1, <2>2, <2>3, <2>4, OneClientMoves
<1>5. CASE JobLaunchJobCore(c)
  <2>1. Waiting' = Waiting /\ pc[c] # "idle"
    BY <1>5, WaitingKept DEF JobLaunchJobCore
  <2>2. /\ \A d \in Clients \ {c} : pc'[d] = pc[d] /\ sent'[d] = sent[d]
        /\ UNCHANGED <<registered, handle, core_req, envVars, refused>>
    BY <1>0, <1>5 DEF JobLaunchJobCore
  <2> HIDE DEF OneJobContext, Context
  <2> QED
    BY <1>1, <2>1, <2>2, OneClientMoves
<1>6. CASE CoreNotify(c)
  <2>1. Waiting' = Waiting \cup {req[c]} /\ pc[c] # "idle" /\ req[c].by = c
    BY <1>0, <1>6, WaitingNotify DEF CoreNotify, TypeInv, Working
  <2>2. /\ \A d \in Clients \ {c} : pc'[d] = pc[d] /\ sent'[d] = sent[d]
        /\ UNCHANGED <<registered, handle, core_req, envVars, refused>>
    BY <1>0, <1>6 DEF CoreNotify
  <2> HIDE DEF OneJobContext, Context
  <2> QED
    BY <1>1, <2>1, <2>2, OneClientMoves
<1>7. CASE JobUnregisterJob(c)
  <2>1. Waiting' = Waiting /\ pc[c] # "idle"
    BY <1>7, WaitingKept DEF JobUnregisterJob
  <2>2. req[c].job \in Owns[c]
    BY <2>1 DEF PacedInv, OwnJob
  <2>3. /\ registered' = [registered EXCEPT ![req[c].job] = FALSE]
        /\ UNCHANGED <<handle, sent, core_req, envVars, refused>>
    BY <1>7 DEF JobUnregisterJob
  <2>4. \A k \in UserJobs \ Owns[c] : registered'[k] = registered[k]
    BY <1>0, <2>2, <2>3
  <2>5. \A d \in Clients \ {c} : pc'[d] = pc[d]
    BY <1>0, <1>7 DEF JobUnregisterJob
  <2> HIDE DEF OneJobContext, Context
  <2> QED
    BY <1>1, <2>1, <2>3, <2>4, <2>5, OneClientMoves
<1> QED
  BY <1>2, <1>3, <1>4, <1>5, <1>6, <1>7 DEF Client

LEMMA LaunchOneJobInv ==
    ASSUME OneJobContext, NEW e \in Envs, CoreJobLaunch(e)
    PROVE  OneJobInv'
<1> USE DEF OneJobContext, Context, OneJobInv
<1> DEFINE j == core_req.job
           c == core_req.by
<1>1. /\ core_pc = "launch" /\ ~Busy(e)
      /\ env_pc' = [env_pc EXCEPT ![e] = FirstStep(j)]
      /\ FirstStep(j) # "free"
      /\ env_req' = [env_req EXCEPT ![e] = core_req]
      /\ handle' = [handle EXCEPT ![j] = e]
      /\ UNCHANGED <<pc, sent, registered, core_req, refused>>
  BY DEF CoreJobLaunch, FirstStep, StoredHandle, issuerVars, historyVars
<1>2. core_req \in Waiting
  BY <1>1, WaitingTyped
<1>3. /\ c \in Clients /\ j \in Owns[c] \cap UserJobs
      /\ pc[c] = "idle" /\ core_req.n = sent[c]
      /\ \A r \in Waiting : r.by = c => r = core_req
      /\ \A s \in refused : s.by = c => s.n # core_req.n
  BY <1>2 DEF PacedInv, OneAtATime
<1>4. registered[j]
  BY <1>2, <1>3 DEF PacedInv, FreedIsUnused, Jobs
<1>5. \A d \in Envs : Busy(d) => env_req[d].by # c
  BY <1>1, <1>2 DEF OneEnvEach, PipelineInv, Distinct
<1>6. \A d \in Envs : Busy(d) => EnvJob(d) # j
  BY <1>3, <1>5, OneOwner DEF OneEnvEach
<1>7. Waiting' = Waiting
  BY WaitingLaunch
<1>8. /\ Busy(e)' /\ env_req'[e] = core_req /\ handle'[j] = e
      /\ \A d \in Envs \ {e} : (Busy(d)' <=> Busy(d)) /\ env_req'[d] = env_req[d]
      /\ \A k \in UserJobs \ {j} : handle'[k] = handle[k]
  BY <1>1, <1>3 DEF TypeInv, TypeOK, Busy, Jobs
<1> HIDE DEF j, c
<1>9. OneEnvEach'
  <2> SUFFICES ASSUME NEW d \in Envs, Busy(d)'
               PROVE  /\ env_req'[d].by \in Clients
                      /\ EnvJob(d)' \in Owns[env_req'[d].by] \cap UserJobs
                      /\ pc[env_req'[d].by] = "idle"
                      /\ handle'[EnvJob(d)'] = d
                      /\ registered[EnvJob(d)']
                      /\ env_req'[d].n = sent[env_req'[d].by]
                      /\ \A r \in Waiting : r.by = env_req'[d].by => r = env_req'[d]
                      /\ \A b \in Envs : Busy(b)' /\ env_req'[b].by = env_req'[d].by => b = d
                      /\ \A s \in refused : s.by = env_req'[d].by => s.n # env_req'[d].n
    BY <1>1, <1>7 DEF OneEnvEach
  <2>1. CASE d = e
    BY <1>3, <1>4, <1>5, <1>8, <2>1 DEF EnvJob, j, c
  <2>2. CASE d # e
    <3>1. Busy(d) /\ env_req'[d] = env_req[d] /\ EnvJob(d)' = EnvJob(d)
      BY <1>8, <2>2 DEF EnvJob
    <3>2. env_req[d].by # c /\ EnvJob(d) # j
      BY <1>5, <1>6, <3>1
    <3>3. \A b \in Envs : Busy(b)' /\ env_req'[b].by = env_req[d].by => b = d
      BY <1>8, <3>1, <3>2 DEF OneEnvEach, c
    <3> QED
      BY <1>8, <3>1, <3>2, <3>3 DEF OneEnvEach
  <2> QED
    BY <2>1, <2>2
<1>10. CoreInHand'
  BY <1>1, <1>3, <1>4 DEF CoreInHand, j, c
<1> QED
  BY <1>9, <1>10

LEMMA AsideOneJobInv ==
    ASSUME OneJobContext, Aside
    PROVE  OneJobInv'
<1>1. UNCHANGED <<pc, sent, handle, registered, refused, env_pc, env_req, core_pc, core_req, notif_queue>>
  BY DEF Aside, jobVars, issuerVars, coreVars, envVars, historyVars
<1> QED
  BY <1>1, WaitingKept, OneEnvKept DEF OneJobContext, OneJobInv, CoreInHand, Busy

LEMMA CoreOneJobInv ==
    ASSUME OneJobContext, CoreJobLoop
    PROVE  OneJobInv'
<1> USE DEF OneJobContext, Context, OneJobInv, jobVars, issuerVars, envVars, historyVars
<1>1. CASE CoreJobReceive
  <2>1. Waiting' = Waiting /\ core_req' \in Waiting
    <3>1. TypeInv'
      BY CoreJobLoopTypeInv
    <3>2. core_pc' = "launch" /\ Waiting' = Waiting
      BY <1>1, WaitingReceive DEF CoreJobReceive
    <3> QED
      BY <3>2 DEF Waiting
  <2>2. UNCHANGED <<pc, sent, handle, registered, refused, env_pc, env_req>>
    BY <1>1 DEF CoreJobReceive
  <2>3. OneEnvEach'
    BY <2>1, <2>2, OneEnvKept DEF Busy
  <2>4. CoreInHand'
    BY <2>1, <2>2 DEF CoreInHand, PacedInv, OneAtATime, FreedIsUnused, Jobs
  <2> QED
    BY <2>3, <2>4
<1>2. CASE CoreJobTimeout
  BY <1>2, AsideOneJobInv, AsideSteps
<1>3. CASE CoreJobUnknown \/ CoreJobStoredError \/ CoreJobRefuse
  <2>1. /\ core_pc = "launch" /\ core_pc' # "launch"
        /\ refused' = refused \cup {core_req}
        /\ core_req' = core_req \/ core_req' = NULL
        /\ UNCHANGED <<notif_queue, jobVars, issuerVars, envVars, finished>>
    BY <1>3 DEF CoreJobUnknown, CoreJobStoredError, CoreJobRefuse
  <2>2. core_req \in Waiting
    BY <2>1, WaitingTyped
  <2>3. Waiting' = Waiting \ {core_req}
    BY <2>1, WaitingAnswered
  <2>4. \A e \in Envs : Busy(e) => env_req[e].by # core_req.by
    BY <2>1, <2>2 DEF OneEnvEach, PipelineInv, Distinct
  <2>5. OneEnvEach'
    BY <2>1, <2>3, <2>4 DEF OneEnvEach, Busy, EnvJob
  <2>6. CoreInHand'
    BY <2>1 DEF CoreInHand
  <2> QED
    BY <2>5, <2>6
<1>4. ASSUME NEW e \in Envs, CoreJobLaunch(e) PROVE OneJobInv'
  BY <1>4, LaunchOneJobInv
<1>5. CASE CoreJobRecord \/ CoreJobReport \/ CoreCloseSess \/ CoreJobClear
  <2>1. /\ core_pc # "launch" /\ core_pc' # "launch"
        /\ core_req' = core_req \/ core_req' = NULL
        /\ UNCHANGED <<notif_queue, registered, handle, issuerVars, envVars, historyVars>>
    BY <1>5 DEF CoreJobRecord, CoreJobReport, CoreCloseSess, CoreJobClear
  <2>2. Waiting' = Waiting
    BY <2>1 DEF Waiting, Entering
  <2>3. OneEnvEach'
    BY <2>1, <2>2, OneEnvKept DEF Busy
  <2>4. CoreInHand'
    BY <2>1 DEF CoreInHand
  <2> QED
    BY <2>3, <2>4
<1> QED
  BY <1>1, <1>2, <1>3, <1>4, <1>5 DEF CoreJobLoop

LEMMA EnvOneJobInv ==
    ASSUME OneJobContext, NEW e \in Envs, RuntimeEnv(e)
    PROVE  OneJobInv'
<1> USE DEF OneJobContext, Context, OneJobInv, jobVars, issuerVars, coreVars, historyVars
<1>0. /\ env_pc \in [Envs -> Places]
      /\ env_req \in [Envs -> Requests \cup {NULL}]
      /\ handle \in [Jobs -> Envs \cup {NULL}]
      /\ UserJobs \subseteq Jobs
  BY DEF TypeInv, TypeOK, Jobs
<1>1. CoreInHand'
  <2>1. UNCHANGED <<pc, registered, core_req>>
    BY EnvCases, EnvSessionStep DEF RuntimeEnvEnter, RuntimeEnvCount, RuntimeEnvReturn,
       RuntimeEnvUncount, RuntimeEnvExit, JesThrowError
  <2> QED
    BY <2>1 DEF CoreInHand
<1>2. CASE RuntimeEnvEnter(e) \/ RuntimeEnvReturn(e) \/ RuntimeEnvUncount(e) \/ EnvSession(e)
  <2>1. Waiting' = Waiting
    BY <1>2, WaitingRuns
  <2>2. /\ env_pc[e] # "free"
        /\ \A d \in Envs \ {e} : env_pc'[d] = env_pc[d]
        /\ UNCHANGED <<pc, sent, handle, registered, refused, env_req>>
    BY <1>0, <1>2, EnvSessionStep DEF RuntimeEnvEnter, RuntimeEnvReturn, RuntimeEnvUncount, Goto
  <2>3. OneEnvEach'
    BY <2>1, <2>2, OneEnvKept DEF Busy
  <2> QED
    BY <1>1, <2>3
<1>3. CASE RuntimeEnvCount(e)
  <2>1. Waiting' \subseteq Waiting
    BY <1>3, WaitingBegins
  <2>2. /\ env_pc[e] # "free"
        /\ \A d \in Envs \ {e} : env_pc'[d] = env_pc[d]
        /\ UNCHANGED <<pc, sent, handle, registered, refused, env_req>>
    BY <1>0, <1>3 DEF RuntimeEnvCount, Goto
  <2>3. OneEnvEach'
    BY <2>1, <2>2, OneEnvKept DEF Busy
  <2> QED
    BY <1>1, <2>3
<1>4. CASE RuntimeEnvExit(e)
  <2>1. Waiting' = Waiting
    BY <1>4, WaitingRuns
  <2>2. /\ Busy(e) /\ ~Busy(e)'
        /\ \A d \in Envs \ {e} : env_pc'[d] = env_pc[d] /\ env_req'[d] = env_req[d]
        /\ handle' = [handle EXCEPT ![EnvJob(e)] = NULL]
        /\ UNCHANGED <<pc, sent, registered, refused>>
    BY <1>0, <1>4 DEF RuntimeEnvExit, Goto, ClearedHandle, Busy
  <2>3. \A d \in Envs \ {e} : Busy(d) => handle'[EnvJob(d)] = d
    BY <1>0, <2>2, TasksApart DEF OneEnvEach
  <2>4. OneEnvEach'
    BY <2>1, <2>2, <2>3 DEF OneEnvEach, EnvJob, Busy
  <2> QED
    BY <1>1, <2>4
<1>5. ASSUME NEW j \in Jobs, JesThrowError(e, j) PROVE OneJobInv'
  <2>1. UNCHANGED <<pc, sent, handle, registered, refused, env_pc, env_req, core_pc, core_req, notif_queue>>
    BY <1>5 DEF JesThrowError, envVars
  <2> QED
    BY <1>1, <2>1, WaitingKept, OneEnvKept DEF Busy
<1> QED
  BY <1>2, <1>3, <1>4, <1>5, EnvCases

LEMMA OneJobInvInvariant ==
    ASSUME Disciplined, OneJobEach
    PROVE  Spec => []OneJobInv
<1>1. Context /\ OneJobInv /\ [Next]_vars => OneJobInv'
  <2> SUFFICES ASSUME OneJobContext, [Next]_vars PROVE OneJobInv'
    BY DEF OneJobContext
  <2>1. \A s \in CliServers : CliServer(s) => Aside
    BY NobodyTypes DEF OneJobContext
  <2> QED
    BY <2>1, ClientOneJobInv, CoreOneJobInv, EnvOneJobInv, AsideOneJobInv, AsideSteps DEF Next
<1>2. Spec => []Context
  BY TypeInvInvariant, CoreInvInvariant, PipelineInvInvariant, PacedInvInvariant, PTL DEF Context
<1> QED
  BY <1>1, <1>2, InitOneJobInv, PTL DEF Spec

(* While a job's function runs, its job is found by the task's handle      *)
(* (job_driver.h: looking up by handle works if the job is running).       *)
THEOREM HandlesFound ==
    ASSUME Disciplined, OneJobEach
    PROVE  Spec => []RunningJobHasHandle
<1>1. OneJobInv => RunningJobHasHandle
  BY DEF OneJobInv, OneEnvEach, RunningJobHasHandle, Busy
<1> QED
  BY <1>1, OneJobInvInvariant, PTL

(* Released memory is used by nobody (__job_unregister_job): no request    *)
(* for the job waits or is being made, and no environment of it is left,   *)
(* not even one that has uncounted itself.                                 *)
THEOREM FreedJobsUnused ==
    ASSUME Disciplined, OneJobEach
    PROVE  Spec => []NoFreedJobInUse
<1>1. TypeInv /\ PacedInv /\ OneJobInv => NoFreedJobInUse
  <2> SUFFICES ASSUME TypeInv, PacedInv, OneJobInv, NEW j \in Jobs, ~registered[j]
               PROVE  /\ \A i \in DOMAIN notif_queue : notif_queue[i].job # j
                      /\ core_req # NULL => core_req.job # j
                      /\ \A t \in Issuers : pc[t] \in {"fill", "send"} => req[t].job # j
                      /\ \A e \in Envs : Busy(e) => EnvJob(e) # j
    BY DEF NoFreedJobInUse
  <2>1. \A i \in DOMAIN notif_queue : notif_queue[i].job # j
    <3>1. DOMAIN notif_queue = 1..Len(notif_queue)
      BY LenProperties DEF TypeInv, TypeOK
    <3> QED
      BY <3>1 DEF PacedInv, FreedIsUnused, Waiting
  <2>2. \A t \in Issuers : pc[t] \in {"fill", "send"} => req[t].job # j
    BY DEF PacedInv, FreedIsUnused, SilentCli, Issuers
  <2> QED
    BY <2>1, <2>2 DEF OneJobInv, OneEnvEach, CoreInHand
<1> QED
  BY <1>1, TypeInvInvariant, PacedInvInvariant, OneJobInvInvariant, PTL

-----------------------------------------------------------------------------
(* With memory for a task of every client the core refuses nothing but     *)
(* jobs that threw.                                                        *)
NoError ==
    /\ core_pc = "record" => launch_error = "no_err"
    /\ \A j \in Jobs \ Throwers : error[j] = "no_err"
    /\ AcceptedIsLaunched

LEMMA InitNoError == Init => NoError
BY DEF Init, NoError, AcceptedIsLaunched

(* A waiting client has no task, so there is room for one more.            *)
LEMMA RoomForOne ==
    ASSUME OneEnvEach, EnoughMemory, NEW c \in Clients,
           \A e \in Envs : Busy(e) => env_req[e].by # c
    PROVE  \E e \in Envs : ~Busy(e)
<1> SUFFICES ASSUME \A e \in Envs : Busy(e) PROVE FALSE
  OBVIOUS
<1> DEFINE S == Clients \ {c}
           f == [e \in Envs |-> env_req[e].by]
<1>1. f \in [Envs -> S]
  BY DEF OneEnvEach
<1>2. \A d, e \in Envs : f[d] = f[e] => d = e
  BY DEF OneEnvEach
<1>3. IsFiniteSet(S) /\ Cardinality(S) = Cardinality(Clients) - 1
  BY FS_RemoveElement DEF EnoughMemory
<1>4. Cardinality(Clients) \in Nat /\ Cardinality(Envs) \in Nat
  BY FS_CardinalityType DEF EnoughMemory
<1>5. IsFiniteSet(Envs) /\ Cardinality(S) < Cardinality(Envs)
  BY <1>3, <1>4 DEF EnoughMemory
<1> HIDE DEF f, S
<1>6. \E d, e \in Envs : d # e /\ f[d] = f[e]
  BY <1>1, <1>3, <1>5, FS_PigeonHole
<1> QED
  BY <1>2, <1>6

(* What the core has in hand passes every test of __job_launch_job.        *)
LEMMA NothingToRefuse ==
    ASSUME OneJobContext, EnoughMemory, core_pc = "launch"
    PROVE  /\ core_req.by \in Clients
           /\ core_req.job \in UserJobs
           /\ LaunchError(core_req.job) = "no_err"
<1> USE DEF OneJobContext, Context, OneJobInv
<1>1. core_req \in Waiting
  BY WaitingTyped
<1>2. core_req.by \in Clients /\ core_req.job \in UserJobs
  BY <1>1 DEF PacedInv, OneAtATime
<1>3. core_req.job \notin CoreJobs
  BY <1>2, DispatchAssumption
<1>4. instances[core_req.job] = 0
  BY <1>1, <1>2 DEF PacedInv, Alone, CountIsOne
<1>5. \A e \in Envs : Busy(e) => env_req[e].by # core_req.by
  BY <1>1 DEF OneEnvEach, PipelineInv, Distinct
<1>6. \E e \in Envs : ~Busy(e)
  BY <1>2, <1>5, RoomForOne
<1> QED
  BY <1>2, <1>3, <1>4, <1>6 DEF LaunchError, SingletonBusy

LEMMA NoErrorStep ==
    ASSUME OneJobContext, EnoughMemory, HandleNeverDangles, NoError, [Next]_vars
    PROVE  NoError'
<1> USE DEF jobVars, coreVars, historyVars
<1>0. /\ TypeInv /\ Context
      /\ error \in [Jobs -> Errors]
  BY DEF OneJobContext, Context, TypeInv, TypeOK
<1>1. ASSUME Aside PROVE NoError'
  BY <1>1 DEF Aside, NoError, AcceptedIsLaunched
<1>2. ASSUME NEW c \in Clients, Client(c) PROVE NoError'
  <2>1. /\ UNCHANGED <<core_pc, launch_error, refused>>
        /\ \/ error' = error
           \/ \E j \in Jobs : error' = [error EXCEPT ![j] = "no_err"]
    BY <1>2 DEF Client, JesLaunchJob, JesUnregisterJob, JesRegisterJob, JobLaunchJobCore,
       CoreNotify, JobUnregisterJob
  <2> QED
    BY <1>0, <2>1 DEF NoError, AcceptedIsLaunched
<1>3. \A s \in CliServers : CliServer(s) => Aside
  BY <1>0, NobodyTypes
<1>4. CASE CoreJobLoop
  <2>1. CASE CoreJobReceive \/ CoreJobTimeout
    BY <1>1, <2>1, AsideSteps DEF CoreJobReceive, NoError, AcceptedIsLaunched
  <2>2. CASE CoreJobUnknown
    BY <2>2, NothingToRefuse, DispatchAssumption DEF CoreJobUnknown, Jobs
  <2>3. CASE CoreJobStoredError
    <3>1. core_req.job \in Throwers
      BY <2>3, NothingToRefuse DEF CoreJobStoredError, NoError, Jobs
    <3> QED
      BY <2>3, <3>1 DEF CoreJobStoredError, NoError, AcceptedIsLaunched
  <2>4. CASE CoreJobRefuse
    BY <2>4, NothingToRefuse DEF CoreJobRefuse
  <2>5. ASSUME NEW e \in Envs, CoreJobLaunch(e) PROVE NoError'
    BY <2>5 DEF CoreJobLaunch, NoError, AcceptedIsLaunched
  <2>6. CASE CoreJobRecord
    BY <1>0, <2>6 DEF CoreJobRecord, NoError, AcceptedIsLaunched
  <2>7. CASE CoreJobReport \/ CoreCloseSess
    BY <2>7 DEF CoreJobReport, CoreCloseSess, NoError, AcceptedIsLaunched
  <2>8. CASE CoreJobClear
    BY <1>0, <2>8 DEF CoreJobClear, NoError, AcceptedIsLaunched
  <2> QED
    BY <1>4, <2>1, <2>2, <2>3, <2>4, <2>5, <2>6, <2>7, <2>8 DEF CoreJobLoop
<1>5. ASSUME NEW e \in Envs, RuntimeEnv(e) PROVE NoError'
  <2>1. ASSUME NEW j \in Jobs, JesThrowError(e, j) PROVE NoError'
    <3>1. EnvJob(e) = j
      BY <2>1, DispatchAssumption DEF JesThrowError, HandleNeverDangles
    <3> QED
      BY <1>0, <2>1, <3>1 DEF JesThrowError, NoError, AcceptedIsLaunched
  <2>2. CASE EnvSession(e)
    BY <1>0, <2>2, EnvSessionStep DEF NoError, AcceptedIsLaunched
  <2>3. CASE \/ RuntimeEnvEnter(e) \/ RuntimeEnvCount(e) \/ RuntimeEnvReturn(e)
             \/ RuntimeEnvUncount(e) \/ RuntimeEnvExit(e)
    BY <2>3 DEF RuntimeEnvEnter, RuntimeEnvCount, RuntimeEnvReturn,
       RuntimeEnvUncount, RuntimeEnvExit, NoError, AcceptedIsLaunched
  <2> QED
    BY <1>5, <2>1, <2>2, <2>3, EnvCases
<1> QED
  BY <1>1, <1>2, <1>3, <1>4, <1>5, AsideSteps DEF Next

(* A launch the API answered with "no error" takes place (jescore_api.h),  *)
(* unless the job is one that throws: neither the singleton test, nor the  *)
(* role test, nor xTaskCreate, nor an error left by an earlier launch      *)
(* stands in its way.                                                      *)
THEOREM AcceptedLaunchesHappen ==
    ASSUME Disciplined, OneJobEach, EnoughMemory
    PROVE  Spec => []AcceptedIsLaunched
<1>1. Context /\ OneJobInv /\ HandleNeverDangles /\ NoError /\ [Next]_vars => NoError'
  BY NoErrorStep DEF OneJobContext
<1>2. Spec => []Context
  BY TypeInvInvariant, CoreInvInvariant, PipelineInvInvariant, PacedInvInvariant, PTL DEF Context
<1>3. NoError => AcceptedIsLaunched
  BY DEF NoError
<1> QED
  BY <1>1, <1>2, <1>3, InitNoError, OneJobInvInvariant, HandlesSound, PTL DEF Spec

=============================================================================
