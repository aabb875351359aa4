--------------------------- MODULE DispatchProofs ---------------------------
(* Proofs about Dispatch for every value of its constants: its types,      *)
(* handles, core jobs and counters, and that it implements LaunchService.  *)
EXTENDS Dispatch, SequenceTheorems, FiniteSetTheorems, TLAPS

(* Where a task is in its operation determines what it holds. *)
Working ==
    /\ \A t \in Issuers :
        /\ pc[t] # "idle" => req[t] # NULL /\ req[t].by = t /\ req[t].n = sent[t] + 1
        /\ pc[t] \in {"fill", "send", "overflow"} => sent[t] < Quota[t]
    /\ \A c \in Clients : pc[c] # "idle" =>
        req[c].job \in Jobs /\ req[c].args \in ArgStrings \cup {NULL}
    /\ \A s \in CliServers : pc[s] = "fill" => req[s].args # NULL
    /\ core_pc # "wait" => core_req # NULL
    /\ core_pc \in {"record", "report", "clear"} => core_req.job # NULL
    /\ \A e \in Envs : Busy(e) => env_req[e] # NULL /\ EnvJob(e) # NULL

TypeInv == TypeOK /\ Working

LEMMA InitTypeInv == Init => TypeInv
BY DispatchAssumption
DEF Init, TypeInv, TypeOK, Working, Busy, Jobs, CoreJobs, Issuers, Origins, Errors, Places, Width

USE DispatchAssumption

(* queue_uart keeps its type and its size whoever sends and whoever         *)
(* receives.                                                               *)
LEMMA UartType ==
    ASSUME TypeOK
    PROVE  /\ CliCloseSess => /\ queue_uart' \in Seq({"line", "close"})
                              /\ Len(queue_uart') <= UartSize
                              /\ typed' = typed
           /\ RxEventCallback => /\ queue_uart' \in Seq({"line", "close"})
                                 /\ Len(queue_uart') <= UartSize
                                 /\ typed' \in 0..MaxTyped
           /\ queue_uart # <<>> => /\ Tail(queue_uart) \in Seq({"line", "close"})
                                   /\ Len(Tail(queue_uart)) <= UartSize
           /\ <<>> \in Seq({"line", "close"}) /\ Len(<<>>) <= UartSize
<1>1. queue_uart \in Seq({"line", "close"}) /\ Len(queue_uart) <= UartSize
  BY DEF TypeOK
<1>2. ASSUME CliCloseSess
      PROVE  queue_uart' \in Seq({"line", "close"}) /\ Len(queue_uart') <= UartSize /\ typed' = typed
  BY <1>1, <1>2 DEF CliCloseSess
<1>3. ASSUME RxEventCallback
      PROVE  queue_uart' \in Seq({"line", "close"}) /\ Len(queue_uart') <= UartSize /\ typed' \in 0..MaxTyped
  BY <1>1, <1>3 DEF RxEventCallback, TypeOK
<1>4. ASSUME queue_uart # <<>>
      PROVE  Tail(queue_uart) \in Seq({"line", "close"}) /\ Len(Tail(queue_uart)) <= UartSize
  BY <1>1, <1>4, HeadTailProperties
<1> QED
  BY <1>2, <1>3, <1>4

(* A task that starts an operation holds a request of its own, the next    *)
(* one.                                                                    *)
LEMMA RequestType ==
    ASSUME TypeOK, NEW t \in Issuers, NEW j \in Jobs \cup {NULL},
           NEW a \in ArgStrings \cup {NoArgs, NULL}
    PROVE  /\ Request(t, j, a) \in Requests
           /\ Request(t, j, a) # NULL
           /\ Request(t, j, a).job = j
           /\ Request(t, j, a).args = a
           /\ Request(t, j, a).by = t
           /\ Request(t, j, a).n = sent[t] + 1
<1>1. sent[t] + 1 \in 1..(MaxReq + 1)
  BY DEF TypeOK
<1>2. Request(t, j, a) \in Requests
  BY <1>1 DEF Request, Requests
<1>3. Request(t, j, a) # NULL
  BY <1>2, NullAssumption
<1> QED
  BY <1>2, <1>3 DEF Request

(* A step of one issuer keeps Working when what it holds afterwards fits   *)
(* the place it has reached.                                               *)
LEMMA OneIssuerMoves ==
    ASSUME Working, NEW t \in Issuers,
           \A u \in Issuers \ {t} :
               pc'[u] = pc[u] /\ req'[u] = req[u] /\ sent'[u] = sent[u],
           pc'[t] # "idle" =>
               req'[t] # NULL /\ req'[t].by = t /\ req'[t].n = sent'[t] + 1,
           pc'[t] \in {"fill", "send", "overflow"} => sent'[t] < Quota[t],
           t \in Clients /\ pc'[t] # "idle" =>
               req'[t].job \in Jobs /\ req'[t].args \in ArgStrings \cup {NULL},
           t \in CliServers /\ pc'[t] = "fill" => req'[t].args # NULL,
           UNCHANGED <<core_pc, core_req, env_pc, env_req>>
    PROVE  Working'
<1>1. Clients \subseteq Issuers /\ CliServers \subseteq Issuers
  BY DEF Issuers
<1>2. ASSUME NEW u \in Issuers
      PROVE  /\ pc'[u] # "idle" =>
                    req'[u] # NULL /\ req'[u].by = u /\ req'[u].n = sent'[u] + 1
             /\ pc'[u] \in {"fill", "send", "overflow"} => sent'[u] < Quota[u]
  <2>1. CASE u = t
    BY <2>1
  <2>2. CASE u # t
    BY <2>2 DEF Working
  <2> QED
    BY <2>1, <2>2
<1>3. ASSUME NEW c \in Clients, pc'[c] # "idle"
      PROVE  req'[c].job \in Jobs /\ req'[c].args \in ArgStrings \cup {NULL}
  <2>1. CASE c = t
    BY <1>3, <2>1
  <2>2. CASE c # t
    BY <1>1, <1>3, <2>2 DEF Working
  <2> QED
    BY <2>1, <2>2
<1>4. ASSUME NEW s \in CliServers, pc'[s] = "fill" PROVE req'[s].args # NULL
  <2>1. CASE s = t
    BY <1>4, <2>1
  <2>2. CASE s # t
    BY <1>1, <1>4, <2>2 DEF Working
  <2> QED
    BY <2>1, <2>2
<1> QED
  BY <1>2, <1>3, <1>4 DEF Working, Busy, EnvJob

(* __core_notify takes the request over into the queue and frees its      *)
(* sender.                                                                 *)
LEMMA CoreNotifyTypeInv ==
    ASSUME TypeInv, NEW t \in Issuers, CoreNotify(t)
    PROVE TypeInv'
<1> USE DEF TypeInv, TypeOK, Working, Busy, EnvJob, coreVars, envVars, historyVars, jobVars, issuerVars, uartVars
<1>1. /\ req[t] \in Requests
      /\ sent[t] + 1 \in 0..MaxReq
  <2>1. pc[t] = "send" /\ Quota[t] \in 0..MaxReq /\ sent[t] \in 0..MaxReq
    BY DEF CoreNotify
  <2>2. req[t] # NULL /\ sent[t] < Quota[t]
    BY <2>1
  <2> QED
    BY <2>1, <2>2
<1>2. /\ notif_queue' \in Seq(Requests)
      /\ Len(notif_queue') <= QSize
  BY <1>1 DEF CoreNotify, Enqueue
<1>3. /\ sent' = [sent EXCEPT ![t] = sent[t] + 1]
      /\ req' = [req EXCEPT ![t] = NULL]
      /\ pc' = [pc EXCEPT ![t] = "idle"]
      /\ UNCHANGED <<jobVars, coreVars, envVars, historyVars, uartVars>>
  BY DEF CoreNotify
<1>4. TypeOK'
  BY <1>1, <1>2, <1>3
<1>5. Working'
  <2>1. \A u \in Issuers : u # t => req'[u] = req[u] /\ pc'[u] = pc[u] /\ sent'[u] = sent[u]
    BY <1>3
  <2>2. pc'[t] = "idle"
    BY <1>3
  <2>3. UNCHANGED <<core_pc, core_req, env_pc, env_req>>
    BY <1>3
  <2> HIDE DEF Working, TypeOK
  <2> QED
    BY <1>1, <1>3, <2>1, <2>2, <2>3, OneIssuerMoves
<1> QED
  BY <1>4, <1>5

LEMMA ClientTypeInv ==
    ASSUME TypeInv, NEW c \in Clients, Client(c)
    PROVE TypeInv'
<1> USE DEF TypeInv, TypeOK, Working, Busy, EnvJob, Issuers, coreVars, envVars, historyVars, jobVars, issuerVars, uartVars
<1>1. ASSUME NEW j \in Jobs, NEW a \in ArgStrings \cup {NULL}, JesLaunchJob(c, j, a)
      PROVE TypeInv'
  <2> DEFINE r == Request(c, j, a)
  <2>1. /\ r \in Requests /\ r # NULL
        /\ r.job = j /\ r.args = a
        /\ r.by = c /\ r.n = sent[c] + 1
    BY RequestType DEF TypeInv
  <2>2. /\ req' = [req EXCEPT ![c] = r]
        /\ pc' = [pc EXCEPT ![c] = "fill"]
        /\ sent[c] < Quota[c]
        /\ UNCHANGED <<jobVars, notif_queue, sent, coreVars, envVars, historyVars, uartVars>>
    BY <1>1 DEF JesLaunchJob
  <2> HIDE DEF r
  <2>3. TypeOK'
    BY <2>1, <2>2
  <2>4. Working'
    <3>1. j \in Jobs
      BY <1>1 DEF JesLaunchJob
    <3>2. \A t \in Issuers : t # c => req'[t] = req[t] /\ pc'[t] = pc[t]
      BY <2>2
    <3>3. req'[c] = r /\ pc'[c] = "fill"
      BY <2>2
    <3>4. c \notin CliServers
      OBVIOUS
    <3>5. UNCHANGED <<sent, core_pc, core_req, env_pc, env_req>>
      BY <2>2
    <3> HIDE DEF Working, TypeOK
    <3> QED
      BY <2>1, <2>2, <3>1, <3>2, <3>3, <3>4, <3>5, OneIssuerMoves
  <2> QED
    BY <2>3, <2>4
<1>2. ASSUME NEW j \in Jobs, JesUnregisterJob(c, j)
      PROVE TypeInv'
  <2> DEFINE r == Request(c, j, NULL)
  <2>1. /\ r \in Requests /\ r # NULL
        /\ r.job = j /\ r.args = NULL
        /\ r.by = c /\ r.n = sent[c] + 1
    BY RequestType DEF TypeInv
  <2>2. /\ req' = [req EXCEPT ![c] = r]
        /\ pc' = [pc EXCEPT ![c] = "free"]
        /\ UNCHANGED <<jobVars, notif_queue, sent, coreVars, envVars, historyVars, uartVars>>
    BY <1>2 DEF JesUnregisterJob
  <2> HIDE DEF r
  <2>3. TypeOK'
    BY <2>1, <2>2
  <2>4. Working'
    <3>1. \A t \in Issuers : t # c => req'[t] = req[t] /\ pc'[t] = pc[t]
      BY <2>2
    <3>2. req'[c] = r /\ pc'[c] = "free"
      BY <2>2
    <3>3. c \notin CliServers
      OBVIOUS
    <3>4. UNCHANGED <<sent, core_pc, core_req, env_pc, env_req>>
      BY <2>2
    <3> HIDE DEF Working, TypeOK
    <3> QED
      BY <2>1, <2>2, <3>1, <3>2, <3>3, <3>4, OneIssuerMoves
  <2> QED
    BY <2>3, <2>4
<1>3. ASSUME NEW j \in Jobs, JesRegisterJob(c, j)
      PROVE TypeInv'
  <2>1. TypeOK'
    <3>1. "undefined" \in Origins /\ "no_err" \in Errors /\ 0 \in 0..(Width - 1)
      BY DEF Origins, Errors, Width
    <3> QED
      BY <1>3, <3>1, SMTT(30) DEF JesRegisterJob
  <2>2. Working'
    BY <1>3 DEF JesRegisterJob
  <2> QED
    BY <2>1, <2>2
<1>4. CASE JobLaunchJobCore(c)
  <2>1. TypeOK'
    BY <1>4 DEF JobLaunchJobCore, Origins
  <2>2. Working'
    BY <1>4 DEF JobLaunchJobCore
  <2> QED
    BY <2>1, <2>2
<1>5. CASE CoreNotify(c)
  BY <1>5, CoreNotifyTypeInv
<1>6. CASE JobUnregisterJob(c)
  BY <1>6 DEF JobUnregisterJob, Requests
<1> QED
  BY <1>1, <1>2, <1>3, <1>4, <1>5, <1>6 DEF Client

LEMMA CliServerTypeInv ==
    ASSUME TypeInv, NEW s \in CliServers, CliServer(s)
    PROVE TypeInv'
<1> USE DEF TypeInv, TypeOK, Working, Busy, EnvJob, Issuers, coreVars, envVars, historyVars, jobVars, issuerVars, uartVars
<1>1. ASSUME NEW j \in Jobs \cup {NULL}, NEW a \in ArgStrings \cup {NoArgs},
             CliServerCommand(s, j, a)
      PROVE TypeInv'
  <2> DEFINE r == Request(s, j, a)
  <2>1. /\ r \in Requests /\ r # NULL
        /\ r.job = j /\ r.args = a
        /\ r.by = s /\ r.n = sent[s] + 1
    BY RequestType, SMTT(30) DEF TypeInv
  <2>2. /\ req' = [req EXCEPT ![s] = r]
        /\ pc' = [pc EXCEPT ![s] = "fill"]
        /\ sent[s] < Quota[s]
        /\ queue_uart # <<>> /\ queue_uart' = Tail(queue_uart)
        /\ UNCHANGED <<jobVars, notif_queue, sent, coreVars, envVars, historyVars, typed>>
    BY <1>1 DEF CliServerCommand, CliServerReceives
  <2> HIDE DEF r
  <2>3. TypeOK'
    BY <2>1, <2>2, UartType
  <2>4. Working'
    <3>1. a # NULL
      OBVIOUS
    <3>2. \A t \in Issuers : t # s => req'[t] = req[t] /\ pc'[t] = pc[t]
      BY <2>2
    <3>3. req'[s] = r /\ pc'[s] = "fill"
      BY <2>2
    <3>4. s \notin Clients
      OBVIOUS
    <3>5. UNCHANGED <<sent, core_pc, core_req, env_pc, env_req>>
      BY <2>2
    <3> HIDE DEF Working, TypeOK
    <3> QED
      BY <2>1, <2>2, <3>1, <3>2, <3>3, <3>4, <3>5, OneIssuerMoves
  <2> QED
    BY <2>3, <2>4
<1>2. CASE CliServerFill(s)
  <2>0. req[s] \in Requests /\ req[s].args # NULL
    BY <1>2 DEF CliServerFill
  <2>1. req[s].args \in ArgStrings \cup {NoArgs}
    BY <2>0 DEF Requests
  <2>2. req[s].job \in Jobs \cup {NULL}
    BY <2>0 DEF Requests
  <2>3. TypeOK'
    <3>1. /\ caller' \in [Jobs -> Origins]
          /\ error' \in [Jobs -> Errors]
          /\ args' \in [Jobs -> ArgStrings \cup {NoArgs}]
      <4>1. CASE req[s].job = NULL
        BY <1>2, <4>1 DEF CliServerFill
      <4>2. CASE req[s].job # NULL
        <5> DEFINE j == req[s].job
        <5>1. /\ caller' = [caller EXCEPT ![j] = "cli"]
              /\ error' = error \/ error' = [error EXCEPT ![j] = "no_err"]
              /\ args' = [args EXCEPT ![j] = req[s].args]
          BY <1>2, <4>2 DEF CliServerFill
        <5>2. j \in Jobs /\ req[s].args \in ArgStrings \cup {NoArgs}
          BY <2>1, <2>2, <4>2
        <5> HIDE DEF j
        <5>3. caller' \in [Jobs -> Origins]
          BY <5>1, <5>2 DEF Origins
        <5>4. error' \in [Jobs -> Errors]
          <6>1. "no_err" \in Errors /\ error \in [Jobs -> Errors]
            BY DEF Errors
          <6> QED
            BY ONLY <5>1, <6>1
        <5>5. args' \in [Jobs -> ArgStrings \cup {NoArgs}]
          BY <5>1, <5>2
        <5> QED
          BY <5>3, <5>4, <5>5
      <4> QED
        BY <4>1, <4>2
    <3> QED
      BY <1>2, <3>1 DEF CliServerFill
  <2>4. Working'
    BY <1>2 DEF CliServerFill
  <2> QED
    BY <2>3, <2>4
<1>3. CASE CliServerOverflow(s)
  <2>1. s \in Jobs \cup {NULL}
    BY DEF Jobs, CoreJobs
  <2>2. Request(s, s, NULL) \in Requests \ {NULL}
    BY <2>1, RequestType
  <2>3. TypeOK'
    BY <1>3, <2>2, UartType DEF CliServerOverflow, Origins
  <2>4. Working'
    <3> DEFINE r == Request(s, s, NULL)
    <3>1. r # NULL /\ r.by = s /\ r.n = sent[s] + 1
      BY <2>1, RequestType DEF TypeInv
    <3>2. req' = [req EXCEPT ![s] = r] /\ pc' = [pc EXCEPT ![s] = "overflow"]
      BY <1>3 DEF CliServerOverflow
    <3>3. sent[s] < Quota[s] /\ UNCHANGED <<sent, core_pc, core_req, env_pc, env_req>>
      BY <1>3 DEF CliServerOverflow
    <3> HIDE DEF r
    <3>4. \A t \in Issuers : t # s => req'[t] = req[t] /\ pc'[t] = pc[t]
      BY <3>2
    <3>5. req'[s] = r /\ pc'[s] = "overflow" /\ s \notin Clients
      BY <3>2
    <3> HIDE DEF Working, TypeOK
    <3> QED
      BY <3>1, <3>3, <3>4, <3>5, OneIssuerMoves
  <2> QED
    BY <2>3, <2>4
<1>4. CASE CliServerTooLong(s)
  BY <1>4 DEF CliServerTooLong, Errors
<1>5. CASE CoreNotify(s)
  BY <1>5, CoreNotifyTypeInv
<1>6. ASSUME NEW event \in {"line", "close"}, CliServerHeader(s, event)
      PROVE TypeInv'
  <2>1. TypeOK'
    BY <1>6, UartType DEF CliServerHeader, CliServerReceives
  <2>2. Working'
    BY <1>6 DEF CliServerHeader
  <2> QED
    BY <2>1, <2>2
<1> HIDE DEF TypeInv, TypeOK, Working, Busy, EnvJob, Issuers, coreVars, envVars, historyVars, jobVars, issuerVars, uartVars
<1> QED
  BY <1>1, <1>2, <1>3, <1>4, <1>5, <1>6 DEF CliServer

LEMMA CoreJobLoopTypeInv ==
    ASSUME TypeInv, CoreJobLoop
    PROVE TypeInv'
<1> USE DEF TypeInv, TypeOK, Working, Busy, EnvJob, coreVars, envVars, historyVars, jobVars, issuerVars, uartVars
<1>1. CASE CoreJobReceive
  <2>1. /\ Head(notif_queue) \in Requests
        /\ Tail(notif_queue) \in Seq(Requests)
        /\ Len(Tail(notif_queue)) <= QSize
    BY <1>1, HeadTailProperties DEF CoreJobReceive
  <2>2. TypeOK'
    BY <1>1, <2>1 DEF CoreJobReceive, ReceivedQueue
  <2>3. Working'
    BY <1>1, <2>1, NullAssumption DEF CoreJobReceive
  <2> QED
    BY <2>2, <2>3
<1>2. CASE CoreJobTimeout
  BY <1>2 DEF CoreJobTimeout, vars
<1>3. CASE CoreJobUnknown
  BY <1>3 DEF CoreJobUnknown
<1>4. CASE CoreJobStoredError
  BY <1>4 DEF CoreJobStoredError
<1>5. CASE CoreJobRefuse
  BY <1>5 DEF CoreJobRefuse, LaunchError, Errors
<1>6. ASSUME NEW e \in Envs, CoreJobLaunch(e)
      PROVE TypeInv'
  <2>1. TypeOK'
    BY <1>6 DEF CoreJobLaunch, StoredHandle, Errors, FirstStep, Places
  <2>2. Working'
    BY <1>6 DEF CoreJobLaunch, FirstStep
  <2> QED
    BY <2>1, <2>2
<1>7. CASE CoreJobRecord
  BY <1>7 DEF CoreJobRecord
<1>8. CASE CoreJobReport
  BY <1>8 DEF CoreJobReport
<1>9. CASE CoreCloseSess
  <2>1. TypeOK'
    BY <1>9, UartType DEF CoreCloseSess
  <2>2. Working'
    BY <1>9 DEF CoreCloseSess
  <2> QED
    BY <2>1, <2>2
<1>10. CASE CoreJobClear
  BY <1>10 DEF CoreJobClear, Errors
<1> QED
  BY <1>1, <1>2, <1>3, <1>4, <1>5, <1>6, <1>7, <1>8, <1>9, <1>10 DEF CoreJobLoop

LEMMA EnvJobType ==
    ASSUME TypeInv, NEW e \in Envs, Busy(e)
    PROVE  EnvJob(e) \in Jobs /\ env_req[e] \in Requests
BY DEF TypeInv, TypeOK, Working, EnvJob, Requests

LEMMA RuntimeEnvTypeInv ==
    ASSUME TypeInv, NEW e \in Envs, RuntimeEnv(e)
    PROVE TypeInv'
<1> USE DEF TypeInv, TypeOK, Working, Busy, EnvJob, Width, Goto, coreVars, envVars, historyVars, jobVars, issuerVars, uartVars
<1>0. Busy(e) => EnvJob(e) \in Jobs /\ env_req[e] \in Requests
  BY EnvJobType
<1> HIDE DEF Width
<1>a. ASSUME NEW i \in Int PROVE i % Width \in 0..(Width - 1)
  BY DEF Width
<1>c. {"free", "start", "header", "enter", "count", "run", "return", "done", "close", "exit"}
        \subseteq Places
  BY DEF Places
<1>b. 0 \in 0..(Width - 1) /\ \A i \in 0..(Width - 1) : i \in Int
  BY DEF Width
<1>1. CASE RuntimeEnvEnter(e)
  <2>1. torn' \subseteq Jobs /\ env_count' \in [Envs -> 0..(Width - 1)]
    BY <1>0, <1>1 DEF RuntimeEnvEnter, ReadInstances
  <2>2. TypeOK'
    BY <1>1, <1>c, <2>1 DEF RuntimeEnvEnter
  <2>3. Working'
    BY <1>0, <1>1 DEF RuntimeEnvEnter
  <2> QED
    BY <2>2, <2>3
<1>2. CASE RuntimeEnvCount(e)
  <2>1. TypeOK'
    <3>1. (env_count[e] + 1) % Width \in 0..(Width - 1)
      <4>1. env_count[e] + 1 \in Int
        BY <1>b
      <4> QED
        BY <1>a, <4>1
    <3> QED
      BY <1>0, <1>2, <1>c, <3>1 DEF RuntimeEnvCount
  <2>2. Working'
    BY <1>0, <1>2 DEF RuntimeEnvCount
  <2> QED
    BY <2>1, <2>2
<1>3. CASE RuntimeEnvUncount(e)
  <2>1. TypeOK'
    <3>1. (env_count[e] - 1) % Width \in 0..(Width - 1)
      <4>1. env_count[e] - 1 \in Int
        BY <1>b
      <4> QED
        BY <1>a, <4>1
    <3> QED
      BY <1>0, <1>3, <1>c, <3>1 DEF RuntimeEnvUncount, Uncounted
  <2>2. Working'
    BY <1>0, <1>3 DEF RuntimeEnvUncount, Uncounted
  <2> QED
    BY <2>1, <2>2
<1>4. CASE RuntimeEnvExit(e)
  <2>1. TypeOK'
    BY <1>0, <1>b, <1>c, <1>4 DEF RuntimeEnvExit, ClearedHandle
  <2>2. Working'
    BY <1>0, <1>4 DEF RuntimeEnvExit, ClearedHandle
  <2> QED
    BY <2>1, <2>2
<1>5. CASE RuntimeEnvReturn(e)
  <2>1. /\ torn' \subseteq Jobs
        /\ env_count' \in [Envs -> 0..(Width - 1)]
        /\ finished \cup {env_req[e]} \in SUBSET Requests
    BY <1>0, <1>5 DEF RuntimeEnvReturn, ReadInstances
  <2>2. TypeOK'
    BY <1>5, <1>c, <2>1 DEF RuntimeEnvReturn
  <2>3. Working'
    BY <1>5 DEF RuntimeEnvReturn
  <2> QED
    BY <2>2, <2>3
<1>6. ASSUME NEW j \in Jobs, JesThrowError(e, j)
      PROVE TypeInv'
  BY <1>6 DEF JesThrowError, Errors
<1>7. ASSUME NEW here \in Places, NEW close \in Places, NEW next \in Places, here # "free",
             close # "free", next # "free", RuntimeEnvTestsCaller(e, here, close, next)
      PROVE TypeInv'
  BY <1>7 DEF RuntimeEnvTestsCaller
<1>8. ASSUME NEW here \in Places, NEW next \in Places, here # "free",
             next # "free", RuntimeEnvCloseSess(e, here, next)
      PROVE TypeInv'
  <2>1. TypeOK'
    BY <1>8, UartType DEF RuntimeEnvCloseSess
  <2>2. Working'
    BY <1>8 DEF RuntimeEnvCloseSess
  <2> QED
    BY <2>1, <2>2
<1>9. CASE RuntimeEnvOwnStep(e)
  BY <1>1, <1>2, <1>3, <1>4, <1>7, <1>8, <1>9, <1>c DEF RuntimeEnvOwnStep
<1> QED
  BY <1>5, <1>6, <1>9 DEF RuntimeEnv

(* Every reachable state is well typed: the queue keeps within its size    *)
(* and instances within its byte, whatever the number of clients, jobs and *)
(* environments.                                                           *)
LEMMA TypeInvInvariant == Spec => []TypeInv
<1>1. TypeInv /\ [Next]_vars => TypeInv'
  <2> SUFFICES ASSUME TypeInv, [Next]_vars PROVE TypeInv'
    OBVIOUS
  <2>1. CASE UNCHANGED vars
    BY <2>1 DEF TypeInv, TypeOK, Working, Busy, EnvJob, vars, coreVars, envVars, historyVars, jobVars, issuerVars, uartVars
  <2>2. CASE RxEventCallback
    <3>1. TypeOK'
      BY <2>2, UartType DEF RxEventCallback, TypeInv, TypeOK, coreVars, envVars, historyVars, jobVars, issuerVars
    <3>2. Working'
      BY <2>2 DEF RxEventCallback, TypeInv, Working, Busy, EnvJob, coreVars, envVars, issuerVars
    <3> QED
      BY <3>1, <3>2 DEF TypeInv
  <2> QED
    BY <2>1, <2>2, ClientTypeInv, CliServerTypeInv, CoreJobLoopTypeInv, RuntimeEnvTypeInv DEF Next
<1> QED
  BY <1>1, InitTypeInv, PTL DEF Spec

THEOREM TypeCorrect == Spec => []TypeOK
BY TypeInvInvariant, PTL DEF TypeInv

-----------------------------------------------------------------------------
(* Steps that only work on queue_uart.                                     *)
Aside == UNCHANGED <<jobVars, notif_queue, issuerVars, coreVars, envVars, historyVars>>

LEMMA AsideSteps ==
    /\ RxEventCallback => Aside
    /\ \A s \in CliServers, event \in {"line", "close"} : CliServerHeader(s, event) => Aside
    /\ CoreJobTimeout => Aside
    /\ UNCHANGED vars => Aside
BY DEF Aside, RxEventCallback, CliServerHeader, CoreJobTimeout, vars

(* An environment gives the terminal back, or finds that it need not.      *)
EnvSession(e) ==
    \/ RuntimeEnvTestsCaller(e, "start", "header", "enter")
    \/ RuntimeEnvCloseSess(e, "header", "enter")
    \/ RuntimeEnvTestsCaller(e, "done", "close", "exit")
    \/ RuntimeEnvCloseSess(e, "close", "exit")

LEMMA EnvSessionStep ==
    ASSUME TypeInv, NEW e \in Envs, EnvSession(e)
    PROVE  /\ \/ env_pc[e] \in {"start", "header"} /\ env_pc'[e] \in {"header", "enter"}
              \/ env_pc[e] \in {"done", "close"} /\ env_pc'[e] \in {"close", "exit"}
           /\ \A d \in Envs \ {e} : env_pc'[d] = env_pc[d]
           /\ UNCHANGED <<jobVars, notif_queue, issuerVars, coreVars, env_req, env_count, historyVars>>
<1>1. env_pc \in [Envs -> Places]
  BY DEF TypeInv, TypeOK
<1>2. CASE \/ RuntimeEnvTestsCaller(e, "start", "header", "enter")
           \/ RuntimeEnvTestsCaller(e, "done", "close", "exit")
  BY <1>1, <1>2 DEF RuntimeEnvTestsCaller, Goto
<1>3. CASE \/ RuntimeEnvCloseSess(e, "header", "enter")
           \/ RuntimeEnvCloseSess(e, "close", "exit")
  BY <1>1, <1>3 DEF RuntimeEnvCloseSess, Goto
<1> QED
  BY <1>2, <1>3 DEF EnvSession

LEMMA EnvCases ==
    ASSUME NEW e \in Envs, RuntimeEnv(e)
    PROVE  \/ RuntimeEnvEnter(e) \/ RuntimeEnvCount(e) \/ RuntimeEnvReturn(e)
           \/ RuntimeEnvUncount(e) \/ RuntimeEnvExit(e) \/ EnvSession(e)
           \/ \E j \in Jobs : JesThrowError(e, j)
BY DEF RuntimeEnv, RuntimeEnvOwnStep, EnvSession

LEMMA CliServerCases ==
    ASSUME NEW s \in CliServers, CliServer(s)
    PROVE  \/ Aside
           \/ \E j \in Jobs \cup {NULL}, a \in ArgStrings \cup {NoArgs} : CliServerCommand(s, j, a)
           \/ CliServerFill(s) \/ CliServerOverflow(s) \/ CliServerTooLong(s) \/ CoreNotify(s)
BY AsideSteps DEF CliServer

-----------------------------------------------------------------------------
(* No step lets a handle outlive the task it names.                        *)
LEMMA HandleStep ==
    ASSUME TypeInv, HandleNeverDangles, [Next]_vars
    PROVE  HandleNeverDangles'
<1> USE DEF TypeInv, TypeOK, HandleNeverDangles, Busy, EnvJob, coreVars, envVars, historyVars, jobVars, issuerVars, uartVars
<1>1. ASSUME NEW c \in Clients, Client(c) PROVE HandleNeverDangles'
  BY <1>1 DEF Client, JesLaunchJob, JesUnregisterJob, JesRegisterJob, JobLaunchJobCore,
              CoreNotify, JobUnregisterJob
<1>0. ASSUME Aside PROVE HandleNeverDangles'
  BY <1>0 DEF Aside
<1>2. ASSUME NEW s \in CliServers, CliServer(s) PROVE HandleNeverDangles'
  BY <1>0, <1>2, CliServerCases DEF CliServerCommand, CliServerFill, CliServerOverflow,
              CliServerTooLong, CoreNotify
<1>3. ASSUME NEW e \in Envs, CoreJobLaunch(e) PROVE HandleNeverDangles'
  <2>1. core_req.job \in Jobs
    BY <1>3 DEF CoreJobLaunch, Working, Requests
  <2>2. env_pc'[e] # "free" /\ \A d \in Envs \ {e} : env_pc'[d] = env_pc[d]
    BY <1>3 DEF CoreJobLaunch, FirstStep
  <2> QED
    BY <1>3, <2>1, <2>2 DEF CoreJobLaunch, StoredHandle
<1>4. CASE CoreJobLoop
  BY <1>0, <1>3, <1>4, AsideSteps DEF CoreJobLoop, CoreJobReceive, CoreJobUnknown,
     CoreJobStoredError, CoreJobRefuse, CoreJobRecord, CoreJobReport, CoreCloseSess, CoreJobClear
<1>5. ASSUME NEW e \in Envs, RuntimeEnvExit(e) PROVE HandleNeverDangles'
  <2>1. EnvJob(e) \in Jobs
    BY <1>5, EnvJobType DEF RuntimeEnvExit
  <2> QED
    BY <1>5, <2>1 DEF RuntimeEnvExit, ClearedHandle, Goto
<1>6. ASSUME NEW e \in Envs, RuntimeEnv(e) PROVE HandleNeverDangles'
  <2>1. CASE EnvSession(e)
    <3>1. /\ \A d \in Envs : Busy(d)' <=> Busy(d)
          /\ UNCHANGED <<env_req, handle>>
      BY <2>1, EnvSessionStep DEF TypeInv, jobVars
    <3> QED
      BY <3>1
  <2>2. CASE RuntimeEnvEnter(e) \/ RuntimeEnvCount(e) \/ RuntimeEnvUncount(e)
             \/ RuntimeEnvReturn(e) \/ \E j \in Jobs : JesThrowError(e, j)
    BY <2>2 DEF RuntimeEnvEnter, RuntimeEnvCount, RuntimeEnvUncount, RuntimeEnvReturn,
       JesThrowError, Goto
  <2> QED
    BY <1>5, <1>6, <2>1, <2>2, EnvCases
<1>7. CASE RxEventCallback \/ UNCHANGED vars
  BY <1>0, <1>7, AsideSteps
<1> QED
  BY <1>1, <1>2, <1>4, <1>6, <1>7 DEF Next

THEOREM HandlesSound == Spec => []HandleNeverDangles
<1>1. Init => HandleNeverDangles
  BY DEF Init, HandleNeverDangles
<1>2. TypeInv /\ HandleNeverDangles /\ [Next]_vars => HandleNeverDangles'
  BY HandleStep
<1> QED
  BY <1>1, <1>2, TypeInvInvariant, PTL DEF Spec

-----------------------------------------------------------------------------
(* An unregistration in progress is not one of a core job.                 *)
NoCoreJobFreed ==
    \A c \in Clients : pc[c] = "free" => req[c].job \notin CoreJobs

CoreInv == CoreJobStaysSingle /\ NoCoreJobFreed

LEMMA CoreStep ==
    ASSUME TypeInv, CoreInv, [Next]_vars
    PROVE  CoreInv'
<1> USE DEF TypeInv, TypeOK, CoreInv, CoreJobStaysSingle, NoCoreJobFreed, Busy, EnvJob,
            coreVars, envVars, historyVars, jobVars, issuerVars, uartVars
<1>0. CoreJobs \subseteq Jobs /\ Clients \subseteq Issuers
  BY DEF Jobs, Issuers
<1>1. ASSUME NEW c \in Clients, Client(c) PROVE CoreInv'
  <2>1. ASSUME NEW j \in Jobs, NEW a \in ArgStrings \cup {NULL}, JesLaunchJob(c, j, a)
        PROVE CoreInv'
    BY <1>0, <2>1 DEF JesLaunchJob
  <2>2. ASSUME NEW j \in Jobs, JesUnregisterJob(c, j) PROVE CoreInv'
    <3>1. j \notin CoreJobs
      BY <2>2 DEF JesUnregisterJob, NoInstances
    <3>2. Request(c, j, NULL).job = j
      BY DEF Request
    <3>3. /\ req' = [req EXCEPT ![c] = Request(c, j, NULL)]
          /\ pc' = [pc EXCEPT ![c] = "free"]
          /\ UNCHANGED <<jobVars, notif_queue, sent, coreVars, envVars, historyVars, uartVars>>
      BY <2>2 DEF JesUnregisterJob
    <3> QED
      BY <1>0, <3>1, <3>2, <3>3
  <2>3. ASSUME NEW j \in Jobs, JesRegisterJob(c, j) PROVE CoreInv'
    BY <1>0, <2>3 DEF JesRegisterJob
  <2>4. CASE JobLaunchJobCore(c)
    BY <1>0, <2>4 DEF JobLaunchJobCore
  <2>5. CASE CoreNotify(c)
    BY <1>0, <2>5 DEF CoreNotify
  <2>6. CASE JobUnregisterJob(c)
    BY <1>0, <2>6 DEF JobUnregisterJob
  <2> QED
    BY <1>1, <2>1, <2>2, <2>3, <2>4, <2>5, <2>6 DEF Client
<1>a. ASSUME Aside PROVE CoreInv'
  BY <1>a DEF Aside
<1>2. ASSUME NEW s \in CliServers, CliServer(s) PROVE CoreInv'
  BY <1>0, <1>2, <1>a, CliServerCases, SMTT(30) DEF CliServerCommand, CliServerFill, CliServerOverflow,
                    CliServerTooLong, CoreNotify, Issuers
<1>3. ASSUME NEW e \in Envs, CoreJobLaunch(e) PROVE CoreInv'
  <2>1. core_req.job \notin CoreJobs
    BY <1>3 DEF CoreJobLaunch, LaunchError, SingletonBusy
  <2> QED
    BY <1>3, <2>1 DEF CoreJobLaunch
<1>4. CASE CoreJobLoop
  BY <1>3, <1>4, <1>a, AsideSteps DEF CoreJobLoop, CoreJobReceive, CoreJobUnknown,
     CoreJobStoredError, CoreJobRefuse, CoreJobRecord, CoreJobReport, CoreCloseSess, CoreJobClear
<1>5. ASSUME NEW e \in Envs, RuntimeEnv(e) PROVE CoreInv'
  <2>1. Busy(e) => EnvJob(e) \notin CoreJobs
    OBVIOUS
  <2>2. CASE RuntimeEnvEnter(e)
    BY <1>0, <2>1, <2>2 DEF RuntimeEnvEnter, Goto
  <2>3. CASE RuntimeEnvCount(e)
    BY <1>0, <2>1, <2>3 DEF RuntimeEnvCount, Goto
  <2>4. CASE RuntimeEnvUncount(e)
    BY <1>0, <2>1, <2>4 DEF RuntimeEnvUncount, Uncounted, Goto
  <2>5. CASE RuntimeEnvReturn(e)
    BY <1>0, <2>1, <2>5 DEF RuntimeEnvReturn, Goto
  <2>6. CASE RuntimeEnvExit(e)
    BY <1>0, <2>1, <2>6 DEF RuntimeEnvExit, Goto
  <2>7. ASSUME NEW j \in Jobs, JesThrowError(e, j) PROVE CoreInv'
    BY <2>7 DEF JesThrowError
  <2>8. CASE EnvSession(e)
    <3>1. /\ \A d \in Envs : Busy(d)' <=> Busy(d)
          /\ UNCHANGED <<env_req, registered, instances, pc, req>>
      BY <2>8, EnvSessionStep DEF TypeInv, jobVars, issuerVars
    <3> QED
      BY <3>1
  <2> QED
    BY <1>5, <2>2, <2>3, <2>4, <2>5, <2>6, <2>7, <2>8, EnvCases
<1>6. CASE RxEventCallback \/ UNCHANGED vars
  BY <1>6, <1>a, AsideSteps
<1> QED
  BY <1>1, <1>2, <1>4, <1>5, <1>6 DEF Next

(* The core jobs stay as jes_init left them, because no unregistration of  *)
(* one ever begins.                                                        *)
LEMMA CoreInvInvariant == Spec => []CoreInv
<1>1. Init => CoreInv
  BY DEF Init, CoreInv, CoreJobStaysSingle, NoCoreJobFreed, Busy, Jobs, Issuers
<1>2. TypeInv /\ CoreInv /\ [Next]_vars => CoreInv'
  BY CoreStep
<1> QED
  BY <1>1, <1>2, TypeInvInvariant, PTL DEF Spec

(* Nobody starts the core job or the CLI server a second time or releases  *)
(* them, whatever is asked for and typed.                                  *)
THEOREM CoreJobsSafe == Spec => []CoreJobStaysSingle
BY CoreInvInvariant, PTL DEF CoreInv

-----------------------------------------------------------------------------
(* The pipeline implements LaunchService.                                  *)

(* Every request in the pipeline, or through it, has been counted by its   *)
(* issuer.                                                                 *)
Numbered ==
    /\ \A i \in 1..Len(notif_queue) : notif_queue[i].n <= sent[notif_queue[i].by]
    /\ core_pc # "wait" => core_req.n <= sent[core_req.by]
    /\ \A e \in Envs : Busy(e) => env_req[e].n <= sent[env_req[e].by]
    /\ \A r \in refused \cup finished : r.n <= sent[r.by]

(* No request is in two places of the pipeline.                            *)
Distinct ==
    /\ \A i, k \in 1..Len(notif_queue) : notif_queue[i] = notif_queue[k] => i = k
    /\ core_pc = "launch" => \A i \in 1..Len(notif_queue) : notif_queue[i] # core_req
    /\ \A e \in Envs : Busy(e) =>
        /\ core_pc = "launch" => env_req[e] # core_req
        /\ \A i \in 1..Len(notif_queue) : notif_queue[i] # env_req[e]
    /\ \A d, e \in Envs : Busy(d) /\ Busy(e) /\ env_req[d] = env_req[e] => d = e

PipelineInv == Numbered /\ Distinct

-----------------------------------------------------------------------------
(* Sequences with one element in front. *)
LEMMA HeadAndTail ==
    ASSUME NEW S, NEW s \in Seq(S), s # <<>>
    PROVE  <<Head(s)>> \o Tail(s) = s
<1>1. Len(s) \in Nat \ {0}
  OBVIOUS
<1> QED
  BY <1>1, HeadTailProperties

LEMMA Cons ==
    ASSUME NEW S, NEW s \in Seq(S), NEW x \in S
    PROVE  /\ <<x>> \o s \in Seq(S)
           /\ <<x>> \o s # <<>>
           /\ Head(<<x>> \o s) = x
           /\ Tail(<<x>> \o s) = s
           /\ Len(<<x>> \o s) = Len(s) + 1
           /\ \A i \in 1..Len(s) : (<<x>> \o s)[i + 1] = s[i]
OBVIOUS

LEMMA ConsAppend ==
    ASSUME NEW S, NEW s \in Seq(S), NEW x \in S, NEW y \in S
    PROVE  <<x>> \o Append(s, y) = Append(<<x>> \o s, y)
OBVIOUS

-----------------------------------------------------------------------------
(* The pipeline's places are disjoint. *)
LEMMA InitPipelineInv == Init => PipelineInv
BY DEF Init, PipelineInv, Numbered, Distinct, Busy

LEMMA NotifyPipelineInv ==
    ASSUME TypeInv, PipelineInv, NEW t \in Issuers, CoreNotify(t)
    PROVE  PipelineInv'
<1> USE DEF PipelineInv, Busy, coreVars, envVars, historyVars
<1>1. /\ req[t] \in Requests
      /\ req[t].by = t
      /\ req[t].n = sent[t] + 1
      /\ sent[t] \in Nat
  BY DEF CoreNotify, TypeInv, TypeOK, Working
<1>2. notif_queue \in Seq(Requests) /\ notif_queue' = Append(notif_queue, req[t])
  BY DEF CoreNotify, Enqueue, TypeInv, TypeOK
<1>3. /\ Len(notif_queue') = Len(notif_queue) + 1
      /\ \A i \in 1..Len(notif_queue) : notif_queue'[i] = notif_queue[i]
      /\ notif_queue'[Len(notif_queue) + 1] = req[t]
  BY <1>1, <1>2, AppendProperties
<1>4. \A r \in Requests : r.n <= sent[r.by] => r.n <= sent'[r.by] /\ r # req[t]
  BY <1>1, SMTT(30) DEF CoreNotify, TypeInv, TypeOK, Requests
<1>5. /\ \A i \in 1..Len(notif_queue) : notif_queue[i] \in Requests
      /\ core_pc # "wait" => core_req \in Requests
      /\ \A e \in Envs : Busy(e) => env_req[e] \in Requests
      /\ \A r \in refused \cup finished : r \in Requests
  BY <1>2 DEF TypeInv, TypeOK, Working
<1>6. Numbered'
  <2>1. \A i \in 1..Len(notif_queue') : notif_queue'[i].n <= sent'[notif_queue'[i].by]
    <3>1. req[t].n <= sent'[req[t].by]
      BY <1>1 DEF CoreNotify, TypeInv, TypeOK
    <3>2. Len(notif_queue) \in Nat
      BY <1>2
    <3> QED
      BY <1>3, <1>4, <1>5, <3>1, <3>2 DEF Numbered
  <2> QED
    BY <1>4, <1>5, <2>1 DEF Numbered, CoreNotify
<1>7. Distinct'
  <2>1. \A i \in 1..Len(notif_queue) : notif_queue[i] # req[t]
    BY <1>4, <1>5 DEF Numbered
  <2>2. Len(notif_queue) \in Nat
    BY <1>2
  <2>3. \A i \in 1..Len(notif_queue') :
          \/ i \in 1..Len(notif_queue) /\ notif_queue'[i] = notif_queue[i]
          \/ i = Len(notif_queue) + 1 /\ notif_queue'[i] = req[t]
    BY <1>3, <2>2
  <2>4. core_pc = "launch" => core_req # req[t]
    BY <1>4, <1>5 DEF Numbered
  <2>5. \A e \in Envs : Busy(e) => env_req[e] # req[t]
    BY <1>4, <1>5 DEF Numbered
  <2> QED
    BY <2>1, <2>3, <2>4, <2>5, SMTT(30) DEF Distinct, CoreNotify
<1> QED
  BY <1>6, <1>7

LEMMA CorePipelineInv ==
    ASSUME TypeInv, PipelineInv, CoreJobLoop
    PROVE  PipelineInv'
<1> USE DEF PipelineInv, Numbered, Distinct, Busy, coreVars, envVars, historyVars, issuerVars
<1>1. CASE CoreJobReceive
  <2>1. /\ notif_queue # <<>>
        /\ notif_queue \in Seq(Requests)
        /\ core_req' = notif_queue[1]
        /\ notif_queue' = Tail(notif_queue)
    BY <1>1 DEF CoreJobReceive, ReceivedQueue, TypeInv, TypeOK
  <2>2. /\ Len(notif_queue) \in Nat \ {0}
        /\ Len(notif_queue') = Len(notif_queue) - 1
        /\ \A i \in 1..Len(notif_queue') : notif_queue'[i] = notif_queue[i + 1]
    BY <2>1, HeadTailProperties
  <2>3. \A i \in 1..Len(notif_queue') : i + 1 \in 1..Len(notif_queue) /\ i + 1 # 1
    BY <2>2
  <2>4. 1 \in 1..Len(notif_queue)
    BY <2>2
  <2> QED
    <3>1. Numbered'
      BY <1>1, <2>1, <2>2, <2>3, <2>4 DEF CoreJobReceive
    <3>2. \A i, k \in 1..Len(notif_queue') : notif_queue'[i] = notif_queue'[k] => i = k
      <4> SUFFICES ASSUME NEW i \in 1..Len(notif_queue'), NEW k \in 1..Len(notif_queue'),
                          notif_queue'[i] = notif_queue'[k]
                   PROVE  i = k
        OBVIOUS
      <4>1. notif_queue[i + 1] = notif_queue[k + 1]
        BY <2>2
      <4>2. i + 1 \in 1..Len(notif_queue) /\ k + 1 \in 1..Len(notif_queue)
        BY <2>3
      <4>3. i + 1 = k + 1
        BY <4>1, <4>2
      <4> QED
        BY <4>3
    <3>3. \A i \in 1..Len(notif_queue') : notif_queue'[i] # core_req'
      BY <2>1, <2>2, <2>3, <2>4
    <3> QED
      BY <1>1, <2>1, <2>2, <2>3, <2>4, <3>1, <3>2, <3>3 DEF CoreJobReceive
<1>2. CASE CoreJobTimeout
  BY <1>2 DEF CoreJobTimeout, vars
<1>3. CASE CoreJobUnknown
  BY <1>3 DEF CoreJobUnknown
<1>4. CASE CoreJobStoredError
  BY <1>4 DEF CoreJobStoredError
<1>5. CASE CoreJobRefuse
  BY <1>5 DEF CoreJobRefuse
<1>6. ASSUME NEW e \in Envs, CoreJobLaunch(e)
      PROVE PipelineInv'
  BY <1>6 DEF CoreJobLaunch, TypeInv, TypeOK
<1>7. CASE CoreJobRecord
  BY <1>7 DEF CoreJobRecord
<1>8. CASE CoreJobReport
  BY <1>8 DEF CoreJobReport
<1>9. CASE CoreCloseSess
  BY <1>9 DEF CoreCloseSess
<1>10. CASE CoreJobClear
  BY <1>10 DEF CoreJobClear
<1> QED
  BY <1>1, <1>2, <1>3, <1>4, <1>5, <1>6, <1>7, <1>8, <1>9, <1>10 DEF CoreJobLoop

LEMMA OtherPipelineInv ==
    ASSUME TypeInv, PipelineInv
    PROVE  /\ \A c \in Clients : Client(c) => PipelineInv'
           /\ \A s \in CliServers : CliServer(s) => PipelineInv'
           /\ \A e \in Envs : RuntimeEnv(e) => PipelineInv'
           /\ Aside => PipelineInv'
<1> USE DEF PipelineInv, Numbered, Distinct, Busy, coreVars, envVars, historyVars, issuerVars
<1>1. ASSUME NEW c \in Clients, Client(c) PROVE PipelineInv'
  BY <1>1, NotifyPipelineInv DEF Client, JesLaunchJob, JesUnregisterJob, JesRegisterJob,
     JobLaunchJobCore, JobUnregisterJob, Issuers
<1>4. ASSUME Aside PROVE PipelineInv'
  BY <1>4 DEF Aside
<1>2. ASSUME NEW s \in CliServers, CliServer(s) PROVE PipelineInv'
  BY <1>2, <1>4, CliServerCases, NotifyPipelineInv DEF CliServerCommand, CliServerFill,
     CliServerOverflow, CliServerTooLong, Issuers
<1>3. ASSUME NEW e \in Envs, RuntimeEnv(e) PROVE PipelineInv'
  <2>0. env_pc \in [Envs -> Places]
    BY DEF TypeInv, TypeOK
  <2>a. ASSUME \A d \in Envs : Busy(d)' <=> Busy(d),
               UNCHANGED <<notif_queue, sent, core_pc, core_req, env_req, refused, finished>>
        PROVE  PipelineInv'
    BY <2>a
  <2>1. CASE RuntimeEnvReturn(e)
    <3>1. /\ env_pc[e] = "run" /\ env_pc' = [env_pc EXCEPT ![e] = "return"]
          /\ finished' = finished \cup {env_req[e]}
          /\ UNCHANGED <<notif_queue, sent, core_pc, core_req, env_req, refused>>
      BY <2>1 DEF RuntimeEnvReturn, Goto
    <3>2. \A d \in Envs : Busy(d)' <=> Busy(d)
      BY <2>0, <3>1
    <3>3. Busy(e)
      BY <3>1
    <3>4. Numbered'
      BY <3>1, <3>2, <3>3
    <3>5. Distinct'
      BY <3>1, <3>2
    <3> QED
      BY <3>4, <3>5
  <2>2. CASE RuntimeEnvExit(e)
    BY <2>0, <2>2 DEF RuntimeEnvExit, Goto
  <2>3. CASE RuntimeEnvEnter(e) \/ RuntimeEnvCount(e) \/ RuntimeEnvUncount(e)
    <3>1. \A d \in Envs : Busy(d)' <=> Busy(d)
      BY <2>0, <2>3 DEF RuntimeEnvEnter, RuntimeEnvCount, RuntimeEnvUncount, Goto
    <3>2. UNCHANGED <<notif_queue, sent, core_pc, core_req, env_req, refused, finished>>
      BY <2>3 DEF RuntimeEnvEnter, RuntimeEnvCount, RuntimeEnvUncount
    <3> QED
      BY <2>a, <3>1, <3>2
  <2>6. ASSUME NEW j \in Jobs, JesThrowError(e, j) PROVE PipelineInv'
    BY <2>6 DEF JesThrowError
  <2>7. CASE EnvSession(e)
    <3>1. \A d \in Envs : Busy(d)' <=> Busy(d)
      BY <2>7, EnvSessionStep
    <3>2. UNCHANGED <<notif_queue, sent, core_pc, core_req, env_req, refused, finished>>
      BY <2>7, EnvSessionStep
    <3> QED
      BY <2>a, <3>1, <3>2
  <2> QED
    BY <1>3, <2>1, <2>2, <2>3, <2>6, <2>7, EnvCases
<1> QED
  BY <1>1, <1>2, <1>3, <1>4

LEMMA PipelineInvInvariant == Spec => []PipelineInv
<1>1. TypeInv /\ PipelineInv /\ [Next]_vars => PipelineInv'
  BY CorePipelineInv, OtherPipelineInv, AsideSteps DEF Next
<1> QED
  BY <1>1, InitPipelineInv, TypeInvInvariant, PTL DEF Spec

-----------------------------------------------------------------------------
(* Every step of the pipeline is a step of the service or a stutter. *)
Stutter == UNCHANGED <<Pending, RunningRequests, finished, refused>>

LEMMA NotifyAccepts ==
    ASSUME TypeInv, PipelineInv, NEW t \in Issuers, CoreNotify(t)
    PROVE  Service!Accept(req[t])
<1>1. /\ req[t] \in Requests
      /\ req[t].by = t
      /\ req[t].n = sent[t] + 1
      /\ sent[t] \in Nat
  BY DEF CoreNotify, TypeInv, TypeOK, Working
<1>2. /\ notif_queue \in Seq(Requests)
      /\ notif_queue' = Append(notif_queue, req[t])
      /\ core_pc = "launch" => core_req \in Requests
  BY DEF CoreNotify, Enqueue, TypeInv, TypeOK, Working
<1>3. \A r : r.n <= sent[r.by] => r # req[t]
  BY <1>1
<1>4. req[t] \notin Service!Queued
  <2>1. \A i \in 1..Len(notif_queue) : notif_queue[i] # req[t]
    BY <1>3 DEF PipelineInv, Numbered
  <2>2. CASE core_pc = "launch"
    <3>1. core_req # req[t]
      BY <1>3, <2>2 DEF PipelineInv, Numbered
    <3>2. \A i \in DOMAIN (<<core_req>> \o notif_queue) :
             (<<core_req>> \o notif_queue)[i] # req[t]
      <4>1. Len(notif_queue) \in Nat
        BY <1>2
      <4>2. DOMAIN (<<core_req>> \o notif_queue) = 1..(Len(notif_queue) + 1)
        BY <1>2, <2>2
      <4>3. (<<core_req>> \o notif_queue)[1] = core_req
        BY <1>2, <2>2
      <4>4. \A i \in 1..Len(notif_queue) : (<<core_req>> \o notif_queue)[i + 1] = notif_queue[i]
        BY <1>2, <2>2, Cons
      <4>5. ASSUME NEW i \in 1..(Len(notif_queue) + 1), i # 1
            PROVE  (<<core_req>> \o notif_queue)[i] # req[t]
        <5>1. i - 1 \in 1..Len(notif_queue) /\ (i - 1) + 1 = i
          BY <4>1, <4>5
        <5> QED
          BY <5>1, <4>4, <2>1
      <4> QED
        BY <4>2, <4>3, <4>5, <3>1
    <3> QED
      BY <2>2, <3>2 DEF Service!Queued, Pending
  <2>3. CASE core_pc # "launch"
    <3>1. Service!Queued = {notif_queue[i] : i \in DOMAIN notif_queue}
      BY <2>3 DEF Service!Queued, Pending
    <3>2. DOMAIN notif_queue = 1..Len(notif_queue)
      BY <1>2
    <3> QED
      BY ONLY <2>1, <3>1, <3>2
  <2> QED
    BY <2>2, <2>3
<1>5. req[t] \notin RunningRequests \cup finished \cup refused
  BY <1>3 DEF PipelineInv, Numbered, RunningRequests, Started, Busy
<1>6. Pending' = Append(Pending, req[t])
  BY <1>1, <1>2, ConsAppend DEF Pending, CoreNotify, coreVars
<1>7. UNCHANGED <<RunningRequests, finished, refused>>
  BY DEF CoreNotify, RunningRequests, Started, envVars, historyVars
<1> QED
  BY <1>4, <1>5, <1>6, <1>7 DEF Service!Accept

LEMMA CoreAnswers ==
    ASSUME TypeInv, PipelineInv, CoreJobLoop
    PROVE  Service!Next \/ Stutter
<1> USE DEF coreVars, envVars, historyVars
<1>0. /\ notif_queue \in Seq(Requests)
      /\ core_pc = "launch" => core_req \in Requests
  BY DEF TypeInv, TypeOK, Working
<1>a. core_pc = "launch" =>
        /\ Pending # <<>>
        /\ Head(Pending) = core_req
        /\ Tail(Pending) = notif_queue
  BY <1>0, Cons DEF Pending
<1>1. CASE CoreJobReceive
  <2>1. Pending = notif_queue /\ Pending' = <<Head(notif_queue)>> \o Tail(notif_queue)
    BY <1>1 DEF CoreJobReceive, ReceivedQueue, Pending
  <2>2. Pending' = Pending
    BY <1>0, <1>1, <2>1, HeadAndTail DEF CoreJobReceive
  <2> QED
    BY <1>1, <2>2 DEF CoreJobReceive, Stutter, RunningRequests, Started
<1>2. CASE CoreJobTimeout
  BY <1>2 DEF CoreJobTimeout, vars, Stutter, Pending, RunningRequests, Started
<1>3. CASE CoreJobUnknown \/ CoreJobStoredError \/ CoreJobRefuse
  <2>1. /\ core_pc = "launch"
        /\ Pending' = notif_queue
        /\ refused' = refused \cup {core_req}
        /\ UNCHANGED <<RunningRequests, finished>>
    BY <1>3 DEF CoreJobUnknown, CoreJobStoredError, CoreJobRefuse, Pending,
                RunningRequests, Started
  <2> QED
    BY <1>a, <2>1 DEF Service!Next, Service!Answer, Service!Refuse
<1>4. ASSUME NEW e \in Envs, CoreJobLaunch(e)
      PROVE  Service!Next
  <2>1. /\ core_pc = "launch"
        /\ Pending' = notif_queue
        /\ UNCHANGED <<finished, refused>>
    BY <1>4 DEF CoreJobLaunch, Pending
  <2>2. RunningRequests' = RunningRequests \cup {core_req}
    <3>1. env_pc'[e] \in {"start", "enter"} /\ env_req'[e] = core_req
      BY <1>4 DEF CoreJobLaunch, FirstStep, TypeInv, TypeOK
    <3>2. \A d \in Envs \ {e} : env_pc'[d] = env_pc[d] /\ env_req'[d] = env_req[d]
      BY <1>4 DEF CoreJobLaunch
    <3>3. ~Started(e)
      BY <1>4 DEF CoreJobLaunch, Started, Busy
    <3> QED
      BY <3>1, <3>2, <3>3 DEF RunningRequests, Started
  <2> QED
    BY <1>a, <2>1, <2>2 DEF Service!Next, Service!Answer, Service!Grant
<1>5. CASE CoreJobRecord \/ CoreJobReport \/ CoreCloseSess \/ CoreJobClear
  BY <1>5 DEF CoreJobRecord, CoreJobReport, CoreCloseSess, CoreJobClear, Stutter, Pending,
              RunningRequests, Started
<1> QED
  BY <1>1, <1>2, <1>3, <1>4, <1>5 DEF CoreJobLoop

LEMMA EnvFinishes ==
    ASSUME TypeInv, PipelineInv, NEW e \in Envs, RuntimeEnv(e)
    PROVE  Service!Next \/ Stutter
<1> USE DEF coreVars, envVars, historyVars, TypeInv, TypeOK
<1>1. CASE RuntimeEnvReturn(e)
  <2>1. env_req[e] \in RunningRequests /\ env_req[e] \in Requests
    BY <1>1, EnvJobType DEF RuntimeEnvReturn, RunningRequests, Started, Busy
  <2>2. RunningRequests' = RunningRequests \ {env_req[e]}
    <3>1. \A d \in Envs : Started(d)' <=> Started(d) /\ d # e
      BY <1>1 DEF RuntimeEnvReturn, Goto, Started
    <3>2. \A d \in Envs : Started(d) /\ d # e => env_req[d] # env_req[e]
      BY <1>1 DEF RuntimeEnvReturn, Started, PipelineInv, Distinct, Busy
    <3>3. env_req' = env_req
      BY <1>1 DEF RuntimeEnvReturn
    <3> QED
      BY <3>1, <3>2, <3>3 DEF RunningRequests
  <2>3. /\ finished' = finished \cup {env_req[e]}
        /\ UNCHANGED <<Pending, refused>>
    BY <1>1 DEF RuntimeEnvReturn, Pending
  <2> QED
    BY <2>1, <2>2, <2>3 DEF Service!Next, Service!Finish
<1>2. ASSUME \A d \in Envs : Started(d)' <=> Started(d),
             \A d \in Envs : Started(d) => env_req'[d] = env_req[d],
             UNCHANGED <<notif_queue, coreVars, refused, finished>>
      PROVE  Stutter
  <2>1. {d \in Envs : Started(d)'} = {d \in Envs : Started(d)}
    BY <1>2
  <2>2. RunningRequests' = {env_req'[d] : d \in {f \in Envs : Started(f)'}}
    BY DEF RunningRequests, Started
  <2>4. {env_req'[d] : d \in {f \in Envs : Started(f)}}
          = {env_req[d] : d \in {f \in Envs : Started(f)}}
    <3>1. \A d \in {f \in Envs : Started(f)} : env_req'[d] = env_req[d]
      BY <1>2
    <3> QED
      BY ONLY <3>1
  <2>3. RunningRequests' = RunningRequests
    BY <2>1, <2>2, <2>4 DEF RunningRequests
  <2> QED
    BY <1>2, <2>3 DEF Stutter, Pending
<1>3. CASE RuntimeEnvEnter(e) \/ RuntimeEnvCount(e) \/ RuntimeEnvUncount(e)
  <2>1. \A d \in Envs : Started(d)' <=> Started(d)
    BY <1>3 DEF RuntimeEnvEnter, RuntimeEnvCount, RuntimeEnvUncount, Goto, Started
  <2> QED
    BY <1>2, <1>3, <2>1 DEF RuntimeEnvEnter, RuntimeEnvCount, RuntimeEnvUncount
<1>4. CASE EnvSession(e)
  <2>1. \A d \in Envs : Started(d)' <=> Started(d)
    BY <1>4, EnvSessionStep DEF Started
  <2> QED
    BY <1>2, <1>4, <2>1, EnvSessionStep
<1>5. CASE RuntimeEnvExit(e)
  <2>1. /\ \A d \in Envs : Started(d)' <=> Started(d)
        /\ \A d \in Envs : Started(d) => env_req'[d] = env_req[d]
    BY <1>5 DEF RuntimeEnvExit, Goto, Started
  <2> QED
    BY <1>2, <1>5, <2>1 DEF RuntimeEnvExit
<1>6. ASSUME NEW j \in Jobs, JesThrowError(e, j)
      PROVE  Stutter
  BY <1>6 DEF JesThrowError, Stutter, Pending, RunningRequests, Started
<1> QED
  BY <1>1, <1>3, <1>4, <1>5, <1>6, EnvCases

LEMMA IssuersAccept ==
    ASSUME TypeInv, PipelineInv
    PROVE  /\ \A c \in Clients : Client(c) => Service!Next \/ Stutter
           /\ \A s \in CliServers : CliServer(s) => Service!Next \/ Stutter
           /\ Aside => Stutter
<1> USE DEF coreVars, envVars, historyVars, Stutter, Pending, RunningRequests, Started
<1>1. ASSUME NEW t \in Issuers, CoreNotify(t)
      PROVE  Service!Next
  <2>1. req[t] \in Requests
    BY <1>1 DEF CoreNotify, TypeInv, TypeOK, Working
  <2> QED
    BY <1>1, <2>1, NotifyAccepts DEF Service!Next
<1>2. ASSUME NEW c \in Clients, Client(c)
      PROVE  Service!Next \/ Stutter
  BY <1>1, <1>2 DEF Client, JesLaunchJob, JesUnregisterJob, JesRegisterJob,
     JobLaunchJobCore, JobUnregisterJob, Issuers
<1>4. ASSUME Aside PROVE Stutter
  BY <1>4 DEF Aside
<1>3. ASSUME NEW s \in CliServers, CliServer(s)
      PROVE  Service!Next \/ Stutter
  <2>1. CASE CoreNotify(s)
    BY <1>1, <2>1 DEF Issuers
  <2>2. ASSUME NEW j \in Jobs \cup {NULL}, NEW a \in ArgStrings \cup {NoArgs},
               CliServerCommand(s, j, a)
        PROVE  Stutter
    BY <2>2 DEF CliServerCommand
  <2>3. CASE CliServerFill(s)
    BY <2>3 DEF CliServerFill
  <2>4. CASE CliServerOverflow(s) \/ CliServerTooLong(s)
    BY <2>4 DEF CliServerOverflow, CliServerTooLong
  <2> HIDE DEF Stutter
  <2> QED
    BY <1>3, <1>4, <2>1, <2>2, <2>3, <2>4, CliServerCases
<1> QED
  BY <1>2, <1>3, <1>4

(* The launch pipeline implements LaunchService for every number of        *)
(* clients, jobs and environments and every queue size: no accepted        *)
(* request is lost, none is answered twice, and the answers come in the    *)
(* order in which __core_notify put the requests into the queue.           *)
THEOREM PipelineImplementsService == Spec => ImplementsService
<1>1. Init => Service!Init
  BY DEF Init, Service!Init, Pending, RunningRequests, Started
<1>2. TypeInv /\ PipelineInv /\ [Next]_vars => [Service!Next]_(Service!vars)
  <2> SUFFICES ASSUME TypeInv, PipelineInv, [Next]_vars
               PROVE  Service!Next \/ Stutter
    BY DEF Stutter, Service!vars
  <2> QED
    BY AsideSteps, IssuersAccept, CoreAnswers, EnvFinishes DEF Next
<1> QED
  BY <1>1, <1>2, TypeInvInvariant, PipelineInvInvariant, PTL
  DEF Spec, ImplementsService, Service!Spec

-----------------------------------------------------------------------------
(* The counters.                                                           *)

(* What the counter of a job is worth, and the copy an environment has of  *)
(* it between its read and its write.                                      *)
Exact(j) ==
    /\ \A d, e \in InHand(j) : d = e
    /\ \A e \in InHand(j) : env_count[e] = instances[j]
    /\ instances[j] = Cardinality(EnvsOf(j, {"run", "return"})) % Width

CountInv == \A j \in UserJobs \ torn : Exact(j)

LEMMA InitCountInv == Init => CountInv
<1> SUFFICES ASSUME Init, NEW j \in UserJobs PROVE Exact(j)
  BY DEF CountInv
<1>1. InHand(j) = {} /\ EnvsOf(j, {"run", "return"}) = {}
  BY DEF Init, InHand, EnvsOf
<1>2. instances[j] = 0 /\ 0 % Width = 0
  BY DEF Init, Jobs, Width
<1> QED
  BY <1>1, <1>2, FS_EmptySet DEF Exact

(* A job whose counter and environments between read and write, or between *)
(* ++ and --, are left alone.                                              *)
LEMMA ExactKept ==
    ASSUME NEW j \in Jobs, Exact(j), instances'[j] = instances[j],
           \A d \in Envs :
               \/ /\ env_pc'[d] = env_pc[d]
                  /\ env_req'[d] = env_req[d]
                  /\ env_count'[d] = env_count[d]
               \/ env_pc[d] \notin {"count", "run", "return"} /\ env_pc'[d] \notin {"count", "run", "return"}
               \/ EnvJob(d) # j /\ env_req'[d] = env_req[d]
    PROVE  Exact(j)'
<1>1. InHand(j)' = InHand(j)
  BY DEF InHand, EnvsOf, EnvJob
<1>2. EnvsOf(j, {"run", "return"})' = EnvsOf(j, {"run", "return"})
  BY DEF EnvsOf, EnvJob
<1>3. \A d \in InHand(j) : env_count'[d] = env_count[d]
  BY DEF InHand, EnvsOf
<1> QED
  BY <1>1, <1>2, <1>3 DEF Exact

LEMMA AllKept ==
    ASSUME CountInv, torn' = torn, \A j \in UserJobs : instances'[j] = instances[j],
           \A d \in Envs :
               \/ /\ env_pc'[d] = env_pc[d]
                  /\ env_req'[d] = env_req[d]
                  /\ env_count'[d] = env_count[d]
               \/ env_pc[d] \notin {"count", "run", "return"} /\ env_pc'[d] \notin {"count", "run", "return"}
    PROVE  CountInv'
<1> SUFFICES ASSUME NEW j \in UserJobs \ torn PROVE Exact(j)'
  BY DEF CountInv
<1>1. Exact(j) /\ j \in Jobs
  BY DEF CountInv, Jobs
<1> QED
  BY <1>1, ExactKept

(* The two reads of the counter.                                           *)
LEMMA ReadKeepsCount ==
    ASSUME TypeInv, CountInv, NEW e \in Envs, ReadInstances(e),
           \/ env_pc[e] = "enter" /\ Goto(e, "count")
           \/ env_pc[e] = "run" /\ Goto(e, "return"),
           UNCHANGED <<instances, env_req>>
    PROVE  CountInv'
<1> SUFFICES ASSUME NEW j \in UserJobs, j \notin torn' PROVE Exact(j)'
  BY DEF CountInv
<1>1. /\ \A d \in Envs \ {e} : env_pc'[d] = env_pc[d] /\ env_count'[d] = env_count[d]
      /\ env_count'[e] = instances[EnvJob(e)]
      /\ \/ env_pc[e] = "enter" /\ env_pc'[e] = "count"
         \/ env_pc[e] = "run" /\ env_pc'[e] = "return"
  BY DEF ReadInstances, Goto, TypeInv, TypeOK
<1>2. j \notin torn /\ Exact(j) /\ j \in Jobs
  BY DEF ReadInstances, CountInv, Jobs
<1>3. CASE EnvJob(e) # j
  BY <1>1, <1>2, <1>3, ExactKept
<1>4. CASE EnvJob(e) = j
  <2>1. InHand(j) = {}
    BY <1>4 DEF ReadInstances
  <2>2. InHand(j)' = {e}
    BY <1>1, <1>4, <2>1 DEF InHand, EnvsOf, EnvJob
  <2>3. EnvsOf(j, {"run", "return"})' = EnvsOf(j, {"run", "return"})
    BY <1>1 DEF EnvsOf, EnvJob
  <2>4. env_count'[e] = instances'[j]
    BY <1>1, <1>4
  <2> QED
    BY <1>2, <2>2, <2>3, <2>4 DEF Exact
<1> QED
  BY <1>3, <1>4

(* The two writes.                                                         *)
LEMMA WriteKeepsCount ==
    ASSUME TypeInv, CountInv, IsFiniteSet(Envs), NEW e \in Envs,
           UNCHANGED <<env_req, env_count, torn>>,
           \/ /\ env_pc[e] = "count"
              /\ instances' = [instances EXCEPT ![EnvJob(e)] = (env_count[e] + 1) % Width]
              /\ Goto(e, "run")
           \/ /\ env_pc[e] = "return"
              /\ instances' = [instances EXCEPT ![EnvJob(e)] = (env_count[e] - 1) % Width]
              /\ \E place \in {"done", "exit"} : Goto(e, place)
    PROVE  CountInv'
<1> SUFFICES ASSUME NEW j \in UserJobs \ torn PROVE Exact(j)'
  BY DEF CountInv
<1>1. Exact(j) /\ j \in Jobs /\ instances \in [Jobs -> 0..(Width - 1)] /\ env_pc \in [Envs -> Places]
  BY DEF CountInv, Jobs, TypeInv, TypeOK
<1>2. \A d \in Envs \ {e} : env_pc'[d] = env_pc[d]
  BY <1>1 DEF Goto
<1>3. CASE EnvJob(e) # j
  <2>1. instances'[j] = instances[j]
    BY <1>1, <1>3
  <2>2. \A d \in Envs : \/ /\ env_pc'[d] = env_pc[d]
                           /\ env_req'[d] = env_req[d]
                           /\ env_count'[d] = env_count[d]
                        \/ EnvJob(d) # j /\ env_req'[d] = env_req[d]
    BY <1>2, <1>3
  <2> QED
    BY <1>1, <2>1, <2>2, ExactKept
<1>4. CASE EnvJob(e) = j
  <2> DEFINE S == EnvsOf(j, {"run", "return"})
  <2>1. S \subseteq Envs /\ IsFiniteSet(S) /\ Cardinality(S) \in Nat
    BY FS_Subset, FS_CardinalityType DEF EnvsOf
  <2>2. instances[j] = Cardinality(S) % Width /\ env_count[e] = instances[j]
        /\ InHand(j) = {e}
    BY <1>1, <1>4 DEF Exact, InHand, EnvsOf
  <2>3. InHand(j)' = {}
    <3>1. \A d \in Envs \ {e} : ~(env_pc[d] \in {"count", "return"} /\ EnvJob(d) = j)
      BY <2>2 DEF InHand, EnvsOf
    <3>2. env_pc'[e] \notin {"count", "return"}
      BY <1>1 DEF Goto
    <3> QED
      BY <1>2, <3>1, <3>2 DEF InHand, EnvsOf, EnvJob
  <2>4. CASE env_pc[e] = "count"
    <3>1. /\ instances'[j] = (env_count[e] + 1) % Width /\ env_pc'[e] = "run"
      BY <1>1, <1>4, <2>4 DEF Goto
    <3>2. S' = S \cup {e} /\ e \notin S
      BY <1>2, <1>4, <2>4, <3>1 DEF EnvsOf, EnvJob
    <3>3. Cardinality(S') = Cardinality(S) + 1
      BY <2>1, <3>2, FS_AddElement
    <3>4. instances'[j] = Cardinality(S') % Width
      <4> HIDE DEF S
      <4> QED
        BY <2>1, <2>2, <3>1, <3>3 DEF Width
    <3> QED
      BY <2>3, <3>4 DEF Exact
  <2>5. CASE env_pc[e] = "return"
    <3>1. instances'[j] = (env_count[e] - 1) % Width /\ env_pc'[e] \notin {"run", "return"}
      BY <1>1, <1>4, <2>5 DEF Goto
    <3>2. S' = S \ {e} /\ e \in S
      BY <1>2, <1>4, <2>5, <3>1 DEF EnvsOf, EnvJob
    <3>3. Cardinality(S') = Cardinality(S) - 1
      BY <2>1, <3>2, FS_RemoveElement
    <3>4. instances'[j] = Cardinality(S') % Width
      <4> HIDE DEF S
      <4> QED
        BY <2>1, <2>2, <3>1, <3>3 DEF Width
    <3> QED
      BY <2>3, <3>4 DEF Exact
  <2> QED
    BY <2>4, <2>5
<1> QED
  BY <1>3, <1>4

LEMMA CountStep ==
    ASSUME IsFiniteSet(Envs), TypeInv, CountInv, [Next]_vars
    PROVE  CountInv'
<1> USE DEF jobVars, envVars, historyVars
<1>1. ASSUME UNCHANGED <<instances, env_pc, env_req, env_count, torn>> PROVE CountInv'
  BY <1>1, AllKept
<1>2. ASSUME NEW c \in Clients, NEW j \in Jobs, JesRegisterJob(c, j) PROVE CountInv'
  <2>1. /\ instances' = [instances EXCEPT ![j] = 0]
        /\ UNCHANGED <<env_pc, env_req, env_count>>
        /\ torn' = IF \E e \in Envs : Busy(e) /\ EnvJob(e) = j THEN torn \cup {j} ELSE torn \ {j}
    BY <1>2 DEF JesRegisterJob
  <2> SUFFICES ASSUME NEW k \in UserJobs, k \notin torn' PROVE Exact(k)'
    BY DEF CountInv
  <2>2. CASE k # j
    <3>1. Exact(k) /\ k \in Jobs /\ instances'[k] = instances[k]
      BY <2>1, <2>2 DEF CountInv, Jobs, TypeInv, TypeOK
    <3> QED
      BY <2>1, <3>1, ExactKept
  <2>3. CASE k = j
    <3>1. \A e \in Envs : env_pc'[e] # "free" => env_req'[e].job # k
      BY <2>1, <2>3 DEF Busy, EnvJob
    <3>2. InHand(k)' = {} /\ EnvsOf(k, {"run", "return"})' = {}
      BY <3>1 DEF InHand, EnvsOf, EnvJob
    <3>3. instances'[k] = 0 /\ 0 % Width = 0
      BY <2>1, <2>3 DEF TypeInv, TypeOK, Width
    <3> QED
      BY <3>2, <3>3, FS_EmptySet DEF Exact
  <2> QED
    BY <2>2, <2>3
<1>3. ASSUME NEW c \in Clients, Client(c) PROVE CountInv'
  BY <1>1, <1>2, <1>3 DEF Client, JesLaunchJob, JesUnregisterJob, JobLaunchJobCore, CoreNotify,
     JobUnregisterJob
<1>4. ASSUME Aside PROVE CountInv'
  BY <1>1, <1>4 DEF Aside
<1>5. ASSUME NEW s \in CliServers, CliServer(s) PROVE CountInv'
  BY <1>1, <1>4, <1>5, CliServerCases DEF CliServerCommand, CliServerFill, CliServerOverflow,
     CliServerTooLong, CoreNotify
<1>6. ASSUME NEW e \in Envs, CoreJobLaunch(e) PROVE CountInv'
  <2>1. /\ env_pc[e] = "free" /\ env_pc'[e] \in {"start", "enter"}
        /\ \A d \in Envs \ {e} : env_pc'[d] = env_pc[d] /\ env_req'[d] = env_req[d]
        /\ UNCHANGED <<instances, env_count, torn>>
    BY <1>6 DEF CoreJobLaunch, FirstStep, Busy, TypeInv, TypeOK
  <2> QED
    BY <2>1, AllKept
<1>7. CASE CoreJobLoop
  BY <1>1, <1>4, <1>6, <1>7, AsideSteps DEF CoreJobLoop, CoreJobReceive, CoreJobUnknown,
     CoreJobStoredError, CoreJobRefuse, CoreJobRecord, CoreJobReport, CoreCloseSess, CoreJobClear
<1>8. ASSUME NEW e \in Envs, RuntimeEnv(e) PROVE CountInv'
  <2>1. CASE RuntimeEnvEnter(e)
    BY <2>1, ReadKeepsCount DEF RuntimeEnvEnter
  <2>2. CASE RuntimeEnvReturn(e)
    BY <2>2, ReadKeepsCount DEF RuntimeEnvReturn
  <2>3. CASE RuntimeEnvCount(e)
    BY <2>3, WriteKeepsCount DEF RuntimeEnvCount
  <2>4. CASE RuntimeEnvUncount(e)
    BY <2>4, WriteKeepsCount DEF RuntimeEnvUncount, Uncounted
  <2>5. CASE RuntimeEnvExit(e)
    <3>1. /\ env_pc[e] = "exit" /\ env_pc'[e] = "free"
          /\ \A d \in Envs \ {e} : /\ env_pc'[d] = env_pc[d] /\ env_req'[d] = env_req[d]
                                   /\ env_count'[d] = env_count[d]
          /\ UNCHANGED <<instances, torn>>
      BY <2>5 DEF RuntimeEnvExit, Goto, TypeInv, TypeOK
    <3> QED
      BY <3>1, AllKept
  <2>6. CASE EnvSession(e)
    <3>1. /\ env_pc[e] \notin {"count", "run", "return"} /\ env_pc'[e] \notin {"count", "run", "return"}
          /\ \A d \in Envs \ {e} : env_pc'[d] = env_pc[d]
          /\ UNCHANGED <<instances, env_req, env_count, torn>>
      BY <2>6, EnvSessionStep
    <3> QED
      BY <3>1, AllKept
  <2>7. ASSUME NEW j \in Jobs, JesThrowError(e, j) PROVE CountInv'
    BY <1>1, <2>7 DEF JesThrowError
  <2> QED
    BY <1>8, <2>1, <2>2, <2>3, <2>4, <2>5, <2>6, <2>7, EnvCases
<1> QED
  BY <1>3, <1>4, <1>5, <1>7, <1>8, AsideSteps DEF Next

(* instances is the number of environments between ++ and -- (job_driver.h: *)
(* "number of active instances of same job type"), up to the width of its  *)
(* byte, for any clients and however many tasks of a job run, until two of *)
(* them have the counter in hand at once.                                  *)
THEOREM CountsAreExact ==
    ASSUME IsFiniteSet(Envs)
    PROVE  Spec => []CountExact
<1>1. CountInv => CountExact
  BY DEF CountInv, Exact, CountExact
<1>2. TypeInv /\ CountInv /\ [Next]_vars => CountInv'
  BY CountStep
<1> QED
  BY <1>1, <1>2, InitCountInv, TypeInvInvariant, PTL DEF Spec

=============================================================================
