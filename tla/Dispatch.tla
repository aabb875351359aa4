------------------------------ MODULE Dispatch ------------------------------
(***************************************************************************)
(* The launch pipeline of jescore: clients (application tasks calling      *)
(* jes_launch_job and jes_launch_job_args) and the CLI server put jobs     *)
(* into the notification queue of the core job; the core job takes them    *)
(* out one at a time and creates a task, the runtime environment, for each *)
(* one; the runtime environment counts itself, calls the job's function,   *)
(* uncounts itself and deletes its task.  Jobs can be registered and       *)
(* unregistered meanwhile.                                                 *)
(*                                                                         *)
(* A refusal by the core, and the end of a job the CLI launched, close the *)
(* terminal's session: a blocking send to queue_uart, which the UART       *)
(* interrupt fills too and only the CLI server empties.  What the server   *)
(* prints is left to CliSession.                                           *)
(*                                                                         *)
(* The tasks are preempted at any point (and run in parallel on a          *)
(* two-core ESP32), so every unsynchronised access to a field of a job     *)
(* that another task may touch is a step of its own: the read and the      *)
(* write of instances++ and instances--, the launch of a task and the      *)
(* store of its result, the test of instances and the release of memory.   *)
(*                                                                         *)
(* A request carries history (args, by, n) the code does not have: its     *)
(* queue holds pointers to jobs only.  No guard reads the history, except  *)
(* Settled, which is an assumption about the clients in Paced.             *)
(***************************************************************************)
EXTENDS Integers, Sequences, FiniteSets

CONSTANTS
    Clients,        \* application tasks that call the API
    CliServers,     \* the CLI server's job and task; empty with JES_DISABLE_CLI
    CoreJob,        \* the job "core"
    UserJobs,       \* jobs of role user or base
    Singletons,     \* jobs registered with is_singleton
    Loops,          \* jobs registered with is_loop: their function need not return
    Throwers,       \* jobs whose function may call jes_throw_error
    Owns,           \* Owns[c]: the jobs client c launches, unregisters, registers
    Paced,          \* clients that wait until their last launch took effect
    Unregisterers,  \* clients that also unregister and register
    Envs,           \* the task control blocks the heap has room for
    ArgStrings,     \* argument strings
    NoArgs,         \* the zeroed argument buffer
    QSize,          \* __MAX_JOB_NOTIF_QUEUE_SIZE
    UartSize,       \* the length queue_uart is created with
    Quota,          \* bound: Quota[t], how many requests t makes
    MaxReq,         \* bound: the largest quota
    MaxTyped,       \* bound: lines typed at the terminal
    NULL            \* the null pointer

CoreJobs == {CoreJob} \cup CliServers
Jobs == UserJobs \cup CoreJobs
Issuers == Clients \cup CliServers

ASSUME DispatchAssumption ==
    /\ CoreJobs \cap UserJobs = {}
    /\ CoreJob \notin CliServers
    /\ \A s, t \in CliServers : s = t
    /\ Clients \cap CliServers = {}
    /\ CoreJobs \subseteq Singletons
    /\ Owns \in [Clients -> SUBSET Jobs]
    /\ NULL \notin Jobs \cup Envs \cup ArgStrings \cup {NoArgs}
    /\ QSize \in Nat \ {0}
    /\ UartSize \in Nat \ {0}
    /\ {MaxReq, MaxTyped} \subseteq Nat
    /\ Quota \in [Issuers -> 0..MaxReq]

VARIABLES
    registered,     \* the job is in the list
    instances,      \* pj->instances, a uint8_t
    handle,         \* pj->handle
    caller,         \* pj->caller
    error,          \* pj->error
    args,           \* pj->args
    notif_queue,    \* the core job's notification queue
    queue_uart,     \* the events the CLI server waits for
    typed,          \* how many lines the terminal has typed
    pc,             \* where each client and CLI server is
    req,            \* the request it works on
    sent,           \* how many requests it has put into the queue
    core_pc,        \* where the core job is in its loop
    core_req,       \* the request it works on, pj in __core_job
    launch_error,   \* what __job_launch_job returned
    env_pc,         \* where each runtime environment is; "free": no such task
    env_req,        \* the request it was created for
    env_count,      \* its register copy of pj->instances
    refused,        \* history: requests the core has decided not to launch
    finished,       \* history: requests whose function has returned
    torn            \* history: jobs whose instances two environments had in hand at once

jobVars == <<registered, instances, handle, caller, error, args>>
issuerVars == <<pc, req, sent>>
coreVars == <<core_pc, core_req, launch_error>>
envVars == <<env_pc, env_req, env_count>>
historyVars == <<refused, finished, torn>>
uartVars == <<queue_uart, typed>>
vars == <<jobVars, notif_queue, issuerVars, coreVars, envVars, historyVars, uartVars>>

Origins == {"undefined", "core", "cli", "api"}
Places == {"free", "start", "header", "enter", "count", "run", "return", "done", "close", "exit"}
Errors == {"no_err", "prohibited", "duplicate", "mem_null", "too_long", "thrown"}
Width == 256            \* instances is a uint8_t

Requests ==
    [job : Jobs \cup {NULL},
     args : ArgStrings \cup {NoArgs, NULL},     \* NULL: leave pj->args alone
     by : Issuers,
     n : 1..(MaxReq + 1)]       \* MaxReq + 1: an unregistration after the last launch

ASSUME NullAssumption == NULL \notin Requests

Request(t, j, a) == [job |-> j, args |-> a, by |-> t, n |-> sent[t] + 1]

Busy(e) == env_pc[e] # "free"
EnvJob(e) == env_req[e].job
EnvsOf(j, places) == {e \in Envs : env_pc[e] \in places /\ EnvJob(e) = j}
Started(e) == env_pc[e] \in {"start", "header", "enter", "count", "run"}
RunningRequests == {env_req[e] : e \in {d \in Envs : Started(d)}}

-----------------------------------------------------------------------------
(* After jes_init and the registration of the application's jobs: the core *)
(* job and the CLI server run and have counted themselves.  Their tasks    *)
(* are CoreJobLoop and CliServer, not members of Envs, and no handle is    *)
(* kept for them.                                                          *)
Init ==
    /\ registered = [j \in Jobs |-> TRUE]
    /\ instances = [j \in Jobs |-> IF j \in CoreJobs THEN 1 ELSE 0]
    /\ handle = [j \in Jobs |-> NULL]
    /\ caller = [j \in Jobs |-> IF j \in CoreJobs THEN "core" ELSE "undefined"]
    /\ error = [j \in Jobs |-> "no_err"]
    /\ args = [j \in Jobs |-> NoArgs]
    /\ notif_queue = <<>>
    /\ queue_uart = <<>>
    /\ typed = 0
    /\ pc = [t \in Issuers |-> "idle"]
    /\ req = [t \in Issuers |-> NULL]
    /\ sent = [t \in Issuers |-> 0]
    /\ core_pc = "wait"
    /\ core_req = NULL
    /\ launch_error = "no_err"
    /\ env_pc = [e \in Envs |-> "free"]
    /\ env_req = [e \in Envs |-> NULL]
    /\ env_count = [e \in Envs |-> 0]
    /\ refused = {}
    /\ finished = {}
    /\ torn = {}

-----------------------------------------------------------------------------
(* queue_uart.                                                             *)

(* HAL_UARTEx_RxEventCallback: xQueueSendFromISR drops the event of a line *)
(* that finds the queue full.                                              *)
RxEventCallback ==
    /\ CliServers # {}
    /\ typed < MaxTyped
    /\ typed' = typed + 1
    /\ queue_uart' = IF Len(queue_uart) < UartSize THEN Append(queue_uart, "line") ELSE queue_uart
    /\ UNCHANGED <<jobVars, notif_queue, issuerVars, coreVars, envVars, historyVars>>

(* __cli_close_sess blocks while the queue is full.  With JES_DISABLE_CLI  *)
(* the queue was never created and the caller does not get past the send.  *)
CliCloseSess ==
    /\ CliServers # {}
    /\ Len(queue_uart) < UartSize
    /\ queue_uart' = Append(queue_uart, "close")
    /\ UNCHANGED typed

-----------------------------------------------------------------------------
(* Clients.                                                                *)

(* A singleton that has counted an instance.                               *)
SingletonBusyOffByOne(j) == j \in Singletons /\ instances[j] > 1
NeverBusy(j) == FALSE
SingletonBusy(j) == j \in Singletons /\ instances[j] > 0

(* The tests a launch through the API has to pass.                         *)
MayLaunchNoSingletonTest(j) == j \notin CoreJobs
MayLaunch(j) == j \notin CoreJobs /\ ~SingletonBusy(j)

(* What a client in Paced waits for, as the delays between the calls of    *)
(* the repository's tests do: its last request was refused, or its         *)
(* function runs, or its task is gone; and the core is done with it.       *)
Settled(c) ==
    LET Last(r) == r.by = c /\ r.n = sent[c] IN
    /\ core_req # NULL => core_req.by # c
    /\ \/ sent[c] = 0
       \/ \E r \in refused : Last(r)
       \/ \E e \in Envs : env_pc[e] = "run" /\ Last(env_req[e])
       \/ /\ \E r \in finished : Last(r)
          /\ \A e \in Envs : Busy(e) => ~Last(env_req[e])

MayCall(c, j) ==
    /\ pc[c] = "idle"
    /\ j \in Owns[c]
    /\ c \in Paced => Settled(c)

(* jes_launch_job (a = NULL) and jes_launch_job_args up to the singleton   *)
(* test of __job_launch_job_core.  A call that fails a test returns an     *)
(* error and changes nothing.                                              *)
JesLaunchJob(c, j, a) ==
    /\ MayCall(c, j)
    /\ sent[c] < Quota[c]
    /\ registered[j]
    /\ MayLaunch(j)
    /\ req' = [req EXCEPT ![c] = Request(c, j, a)]
    /\ pc' = [pc EXCEPT ![c] = "fill"]
    /\ UNCHANGED <<jobVars, notif_queue, sent, coreVars, envVars, historyVars, uartVars>>

(* The rest of __job_launch_job_core before the core is notified: the      *)
(* arguments and the caller are fields of the job, not of the request.     *)
JobLaunchJobCore(c) ==
    /\ c \in Clients
    /\ pc[c] = "fill"
    /\ LET j == req[c].job IN
       /\ args' = IF req[c].args = NULL THEN args ELSE [args EXCEPT ![j] = req[c].args]
       /\ caller' = [caller EXCEPT ![j] = "api"]
    /\ pc' = [pc EXCEPT ![c] = "send"]
    /\ UNCHANGED <<registered, instances, handle, error, notif_queue, req, sent,
                   coreVars, envVars, historyVars, uartVars>>

(* xQueueSend with portMAX_DELAY blocks while the queue is full.           *)
EnqueueOffByOne(t) ==
    Len(notif_queue) <= QSize /\ notif_queue' = Append(notif_queue, req[t])
EnqueueOrDrop(t) ==
    notif_queue' = IF Len(notif_queue) < QSize THEN Append(notif_queue, req[t]) ELSE notif_queue
Enqueue(t) ==
    Len(notif_queue) < QSize /\ notif_queue' = Append(notif_queue, req[t])

(* __core_notify.                                                          *)
CoreNotify(t) ==
    /\ pc[t] = "send"
    /\ Enqueue(t)
    /\ sent' = [sent EXCEPT ![t] = @ + 1]
    /\ req' = [req EXCEPT ![t] = NULL]
    /\ pc' = [pc EXCEPT ![t] = "idle"]
    /\ UNCHANGED <<jobVars, coreVars, envVars, historyVars, uartVars>>

(* __job_unregister_job up to the test of instances.                       *)
NotTested(j) == TRUE
NoInstances(j) == instances[j] = 0

JesUnregisterJob(c, j) ==
    /\ c \in Unregisterers
    /\ MayCall(c, j)
    /\ registered[j]
    /\ NoInstances(j)
    /\ req' = [req EXCEPT ![c] = Request(c, j, NULL)]
    /\ pc' = [pc EXCEPT ![c] = "free"]
    /\ UNCHANGED <<jobVars, notif_queue, sent, coreVars, envVars, historyVars, uartVars>>

(* The rest of it: the job leaves the list and its memory is released.     *)
(* The fields of a released job keep their last values here; NoFreedJobInUse *)
(* is about who still reads them.                                          *)
JobUnregisterJob(c) ==
    /\ c \in Clients
    /\ pc[c] = "free"
    /\ registered' = [registered EXCEPT ![req[c].job] = FALSE]
    /\ req' = [req EXCEPT ![c] = NULL]
    /\ pc' = [pc EXCEPT ![c] = "idle"]
    /\ UNCHANGED <<instances, handle, caller, error, args, notif_queue, sent,
                   coreVars, envVars, historyVars, uartVars>>

(* jes_register_job of a name that is not in the list; JobList has the     *)
(* other case and the list itself.                                         *)
JesRegisterJob(c, j) ==
    /\ c \in Unregisterers
    /\ MayCall(c, j)
    /\ ~registered[j]
    /\ registered' = [registered EXCEPT ![j] = TRUE]
    /\ instances' = [instances EXCEPT ![j] = 0]
    /\ handle' = [handle EXCEPT ![j] = NULL]
    /\ caller' = [caller EXCEPT ![j] = "undefined"]
    /\ error' = [error EXCEPT ![j] = "no_err"]
    /\ args' = [args EXCEPT ![j] = NoArgs]
    /\ torn' = IF \E e \in Envs : Busy(e) /\ EnvJob(e) = j THEN torn \cup {j} ELSE torn \ {j}
    /\ UNCHANGED <<notif_queue, issuerVars, coreVars, envVars, refused, finished, uartVars>>

-----------------------------------------------------------------------------
(* The CLI server.                                                         *)

(* xQueueReceive waits for an event.                                       *)
CliServerReceives(s, event) ==
    /\ pc[s] = "idle"
    /\ queue_uart # <<>>
    /\ Head(queue_uart) = event

(* A close-session event and an empty line print the header.               *)
CliServerHeader(s, event) ==
    /\ CliServerReceives(s, event)
    /\ queue_uart' = Tail(queue_uart)
    /\ UNCHANGED <<jobVars, notif_queue, issuerVars, coreVars, envVars, historyVars, typed>>

(* A command line was read and its first word looked up.  Any registered   *)
(* job will do, and a name that is not registered is passed on as NULL.    *)
CliServerCommand(s, j, a) ==
    /\ CliServerReceives(s, "line")
    /\ sent[s] < Quota[s]
    /\ j = NULL \/ (j # NULL /\ registered[j])
    /\ queue_uart' = Tail(queue_uart)
    /\ req' = [req EXCEPT ![s] = Request(s, j, a)]
    /\ pc' = [pc EXCEPT ![s] = "fill"]
    /\ UNCHANGED <<jobVars, notif_queue, sent, coreVars, envVars, historyVars, typed>>

(* Arguments on the line clear the job's error, no arguments zero the      *)
(* argument buffer and leave the error.                                    *)
CliServerFill(s) ==
    /\ s \in CliServers
    /\ pc[s] = "fill"
    /\ LET j == req[s].job IN
       IF j = NULL
       THEN UNCHANGED <<caller, error, args>>
       ELSE /\ caller' = [caller EXCEPT ![j] = "cli"]
            /\ error' = IF req[s].args = NoArgs THEN error
                        ELSE [error EXCEPT ![j] = "no_err"]
            /\ args' = [args EXCEPT ![j] = req[s].args]
    /\ pc' = [pc EXCEPT ![s] = "send"]
    /\ UNCHANGED <<registered, instances, handle, notif_queue, req, sent,
                   coreVars, envVars, historyVars, uartVars>>

(* The line is too long: the CLI server drops every waiting event and asks *)
(* the core for itself, with an error the core will print.  Two fields,    *)
(* two steps.                                                              *)
CliServerOverflow(s) ==
    /\ s \in CliServers
    /\ CliServerReceives(s, "line")
    /\ sent[s] < Quota[s]
    /\ queue_uart' = <<>>
    /\ caller' = [caller EXCEPT ![s] = "core"]
    /\ req' = [req EXCEPT ![s] = Request(s, s, NULL)]
    /\ pc' = [pc EXCEPT ![s] = "overflow"]
    /\ UNCHANGED <<registered, instances, handle, error, args, notif_queue, sent,
                   coreVars, envVars, historyVars, typed>>

CliServerTooLong(s) ==
    /\ s \in CliServers
    /\ pc[s] = "overflow"
    /\ error' = [error EXCEPT ![s] = "too_long"]
    /\ pc' = [pc EXCEPT ![s] = "send"]
    /\ UNCHANGED <<registered, instances, handle, caller, args, notif_queue, req, sent,
                   coreVars, envVars, historyVars, uartVars>>

-----------------------------------------------------------------------------
(* The core job.                                                           *)

(* xQueueReceive; when it times out the loop starts over (core.state, which *)
(* only jes_init reads, is left to the start-up of the system).            *)
PeekedQueue == notif_queue
ReceivedQueue == Tail(notif_queue)

CoreJobReceive ==
    /\ core_pc = "wait"
    /\ notif_queue # <<>>
    /\ core_req' = Head(notif_queue)
    /\ notif_queue' = ReceivedQueue
    /\ core_pc' = "launch"
    /\ UNCHANGED <<jobVars, issuerVars, launch_error, envVars, historyVars, uartVars>>

CoreJobTimeout ==
    /\ core_pc = "wait"
    /\ notif_queue = <<>>
    /\ UNCHANGED vars

(* A NULL job is an unknown name: a fault.                                 *)
CoreJobUnknown ==
    /\ core_pc = "launch"
    /\ core_req.job = NULL
    /\ refused' = refused \cup {core_req}
    /\ core_pc' = "close"
    /\ UNCHANGED <<jobVars, notif_queue, issuerVars, core_req, launch_error, envVars,
                   finished, torn, uartVars>>

(* The tests of __job_launch_job, in its order.  xTaskCreate fails when    *)
(* the heap has no room for one more task.                                 *)
LaunchError(j) ==
    IF caller[j] \in {"cli", "api"} /\ j \in CoreJobs THEN "prohibited"
    ELSE IF SingletonBusy(j) THEN "duplicate"
    ELSE IF \A e \in Envs : Busy(e) THEN "mem_null"
    ELSE "no_err"

(* A job with a stored error is not launched.                              *)
CoreJobStoredError ==
    /\ core_pc = "launch"
    /\ core_req.job # NULL
    /\ error[core_req.job] # "no_err"
    /\ refused' = refused \cup {core_req}
    /\ core_pc' = "report"
    /\ UNCHANGED <<jobVars, notif_queue, issuerVars, core_req, launch_error,
                   envVars, finished, torn, uartVars>>

(* __job_launch_job returns an error.                                      *)
CoreJobRefuse ==
    /\ core_pc = "launch"
    /\ core_req.job # NULL
    /\ error[core_req.job] = "no_err"
    /\ LaunchError(core_req.job) # "no_err"
    /\ launch_error' = LaunchError(core_req.job)
    /\ refused' = refused \cup {core_req}
    /\ core_pc' = "record"
    /\ UNCHANGED <<jobVars, notif_queue, issuerVars, core_req, envVars, finished, torn, uartVars>>

(* __job_launch_job creates the task; xTaskCreate stores its handle.  A    *)
(* loop starts with the test whether the CLI has launched it.              *)
FirstStep(j) == IF j \in Loops THEN "start" ELSE "enter"

NoStoredHandle(e) == handle
StoredHandle(e) == [handle EXCEPT ![core_req.job] = e]

CoreJobLaunch(e) ==
    /\ core_pc = "launch"
    /\ core_req.job # NULL
    /\ error[core_req.job] = "no_err"
    /\ LaunchError(core_req.job) = "no_err"
    /\ ~Busy(e)
    /\ env_pc' = [env_pc EXCEPT ![e] = FirstStep(core_req.job)]
    /\ env_req' = [env_req EXCEPT ![e] = core_req]
    /\ handle' = StoredHandle(e)
    /\ launch_error' = "no_err"
    /\ core_pc' = "record"
    /\ UNCHANGED <<registered, instances, caller, error, args, notif_queue,
                   issuerVars, core_req, env_count, historyVars, uartVars>>

(* pj->error = the result.  The new task may have run meanwhile.           *)
CoreJobRecord ==
    /\ core_pc = "record"
    /\ error' = [error EXCEPT ![core_req.job] = launch_error]
    /\ core_pc' = "report"
    /\ UNCHANGED <<registered, instances, handle, caller, args, notif_queue,
                   issuerVars, core_req, launch_error, envVars, historyVars, uartVars>>

(* pj->error is read again: what it holds by now decides whether a fault   *)
(* is printed.                                                             *)
CoreJobReport ==
    /\ core_pc = "report"
    /\ core_pc' = IF error[core_req.job] = "no_err" THEN "clear" ELSE "close"
    /\ UNCHANGED <<jobVars, notif_queue, issuerVars, core_req, launch_error, envVars,
                   historyVars, uartVars>>

(* The end of __core_err_handler_inline.  After an unknown name the next   *)
(* turn of the loop follows.                                               *)
CoreCloseSess ==
    /\ core_pc = "close"
    /\ CliCloseSess
    /\ core_pc' = IF core_req.job = NULL THEN "wait" ELSE "clear"
    /\ core_req' = IF core_req.job = NULL THEN NULL ELSE core_req
    /\ UNCHANGED <<jobVars, notif_queue, issuerVars, launch_error, envVars, historyVars>>

(* The core clears its own error and never the job's.                      *)
CoreJobClear ==
    /\ core_pc = "clear"
    /\ error' = [error EXCEPT ![CoreJob] = "no_err"]
    /\ core_req' = NULL
    /\ core_pc' = "wait"
    /\ UNCHANGED <<registered, instances, handle, caller, args, notif_queue,
                   issuerVars, launch_error, envVars, historyVars, uartVars>>

CoreJobLoop ==
    \/ CoreJobReceive
    \/ CoreJobTimeout
    \/ CoreJobUnknown
    \/ CoreJobStoredError
    \/ CoreJobRefuse
    \/ \E e \in Envs : CoreJobLaunch(e)
    \/ CoreJobRecord
    \/ CoreJobReport
    \/ CoreCloseSess
    \/ CoreJobClear

-----------------------------------------------------------------------------
(* The runtime environment, __job_runtime_env.                             *)

Goto(e, place) == env_pc' = [env_pc EXCEPT ![e] = place]

(* A loop the CLI has launched gives the terminal back at its start, any   *)
(* other job of the CLI at its end.  pj->caller is who asked last.         *)
RuntimeEnvTestsCaller(e, here, close, next) ==
    /\ env_pc[e] = here
    /\ Goto(e, IF caller[EnvJob(e)] = "cli" THEN close ELSE next)
    /\ UNCHANGED <<jobVars, notif_queue, issuerVars, coreVars, env_req, env_count,
                   historyVars, uartVars>>

RuntimeEnvCloseSess(e, here, next) ==
    /\ env_pc[e] = here
    /\ CliCloseSess
    /\ Goto(e, next)
    /\ UNCHANGED <<jobVars, notif_queue, issuerVars, coreVars, env_req, env_count, historyVars>>

(* The environments that have read j's instances and not written it back;  *)
(* a second one that reads meanwhile will lose an update.                  *)
InHand(j) == EnvsOf(j, {"count", "return"})
ReadOnce(e) ==
    /\ env_count' = [env_count EXCEPT ![e] =
                       IF env_pc[e] = "enter" THEN instances[EnvJob(e)] ELSE @ + 1]
    /\ torn' = IF InHand(EnvJob(e)) = {} THEN torn ELSE torn \cup {EnvJob(e)}
ReadInstances(e) ==
    /\ env_count' = [env_count EXCEPT ![e] = instances[EnvJob(e)]]
    /\ torn' = IF InHand(EnvJob(e)) = {} THEN torn ELSE torn \cup {EnvJob(e)}

(* pj->instances++ reads ...                                               *)
RuntimeEnvEnter(e) ==
    /\ env_pc[e] = "enter"
    /\ ReadInstances(e)
    /\ Goto(e, "count")
    /\ UNCHANGED <<jobVars, notif_queue, issuerVars, coreVars, env_req, refused, finished,
                   uartVars>>

(* ... and writes; then the function is called.                            *)
RuntimeEnvCount(e) ==
    /\ env_pc[e] = "count"
    /\ instances' = [instances EXCEPT ![EnvJob(e)] = (env_count[e] + 1) % Width]
    /\ Goto(e, "run")
    /\ UNCHANGED <<registered, handle, caller, error, args, notif_queue, issuerVars,
                   coreVars, env_req, env_count, historyVars, uartVars>>

(* The function calls jes_throw_error, which finds the job by its handle;  *)
(* a task no handle names throws into the void.                            *)
JesThrowError(e, j) ==
    /\ env_pc[e] = "run"
    /\ EnvJob(e) \in Throwers
    /\ registered[j]
    /\ handle[j] = e
    /\ error' = [error EXCEPT ![j] = "thrown"]
    /\ UNCHANGED <<registered, instances, handle, caller, args, notif_queue, issuerVars,
                   coreVars, envVars, historyVars, uartVars>>

(* The counter after the -- of e, and the handle of its job when it ends,  *)
(* whichever task that handle names.                                       *)
Uncounted(e) == [instances EXCEPT ![EnvJob(e)] = (env_count[e] - 1) % Width]
StaleHandle(e) == handle
ClearedHandle(e) == [handle EXCEPT ![EnvJob(e)] = NULL]

(* The function returns; pj->instances-- reads ...                         *)
RuntimeEnvReturn(e) ==
    /\ env_pc[e] = "run"
    /\ finished' = finished \cup {env_req[e]}
    /\ ReadInstances(e)
    /\ Goto(e, "return")
    /\ UNCHANGED <<jobVars, notif_queue, issuerVars, coreVars, env_req, refused, uartVars>>

(* ... and writes.                                                         *)
RuntimeEnvUncount(e) ==
    /\ env_pc[e] = "return"
    /\ instances' = Uncounted(e)
    /\ Goto(e, IF EnvJob(e) \in Loops THEN "exit" ELSE "done")
    /\ UNCHANGED <<registered, handle, caller, error, args, notif_queue, issuerVars,
                   coreVars, env_req, env_count, historyVars, uartVars>>

(* pj->handle = NULL; then vTaskDelete.                                    *)
RuntimeEnvExit(e) ==
    /\ env_pc[e] = "exit"
    /\ handle' = ClearedHandle(e)
    /\ Goto(e, "free")
    /\ env_req' = [env_req EXCEPT ![e] = NULL]
    /\ env_count' = [env_count EXCEPT ![e] = 0]
    /\ UNCHANGED <<registered, instances, caller, error, args, notif_queue, issuerVars,
                   coreVars, historyVars, uartVars>>

RuntimeEnvOwnStep(e) ==
    \/ RuntimeEnvTestsCaller(e, "start", "header", "enter")
    \/ RuntimeEnvCloseSess(e, "header", "enter")
    \/ RuntimeEnvEnter(e)
    \/ RuntimeEnvCount(e)
    \/ RuntimeEnvUncount(e)
    \/ RuntimeEnvTestsCaller(e, "done", "close", "exit")
    \/ RuntimeEnvCloseSess(e, "close", "exit")
    \/ RuntimeEnvExit(e)

-----------------------------------------------------------------------------
Client(c) ==
    \/ \E j \in Jobs :
         \/ \E a \in ArgStrings \cup {NULL} : JesLaunchJob(c, j, a)
         \/ JesUnregisterJob(c, j)
         \/ JesRegisterJob(c, j)
    \/ JobLaunchJobCore(c)
    \/ CoreNotify(c)
    \/ JobUnregisterJob(c)

CliServer(s) ==
    \/ \E event \in {"line", "close"} : CliServerHeader(s, event)
    \/ \E j \in Jobs \cup {NULL}, a \in ArgStrings \cup {NoArgs} : CliServerCommand(s, j, a)
    \/ CliServerFill(s)
    \/ CliServerOverflow(s)
    \/ CliServerTooLong(s)
    \/ CoreNotify(s)

RuntimeEnv(e) ==
    \/ RuntimeEnvOwnStep(e)
    \/ RuntimeEnvReturn(e)
    \/ \E j \in Jobs : JesThrowError(e, j)

Next ==
    \/ \E c \in Clients : Client(c)
    \/ \E s \in CliServers : CliServer(s)
    \/ RxEventCallback
    \/ CoreJobLoop
    \/ \E e \in Envs : RuntimeEnv(e)

Spec == Init /\ [][Next]_vars

(* Tasks of equal priority share the processor in time slices and the core *)
(* job's priority is above the default of the jobs, so a step that stays   *)
(* enabled is taken; the CLI server is a task like any other.  A client    *)
(* need not call, the user need not type, and the function of a loop need  *)
(* not return.  Who types does so MaxTyped times at most, so a sender that *)
(* waits for room in queue_uart does not lose it for ever to the interrupt. *)
Fairness ==
    /\ \A c \in Clients : WF_vars(JobLaunchJobCore(c) \/ CoreNotify(c) \/ JobUnregisterJob(c))
    /\ \A s \in CliServers : WF_vars(CliServer(s))
    /\ WF_vars(CoreJobLoop)
    /\ \A e \in Envs :
         WF_vars(RuntimeEnvOwnStep(e) \/ (RuntimeEnvReturn(e) /\ EnvJob(e) \notin Loops))

FairSpec == Spec /\ Fairness

-----------------------------------------------------------------------------
(* Properties.                                                             *)

(* The values the variables take; instances is an unsigned byte and the    *)
(* two queues never exceed the sizes they were created with (job_driver.c, *)
(* xQueueCreate and instances--; uart_unif.c).                             *)
TypeOK ==
    /\ registered \in [Jobs -> BOOLEAN]
    /\ instances \in [Jobs -> 0..(Width - 1)]
    /\ handle \in [Jobs -> Envs \cup {NULL}]
    /\ caller \in [Jobs -> Origins]
    /\ error \in [Jobs -> Errors]
    /\ args \in [Jobs -> ArgStrings \cup {NoArgs}]
    /\ notif_queue \in Seq(Requests)
    /\ Len(notif_queue) <= QSize
    /\ queue_uart \in Seq({"line", "close"})
    /\ Len(queue_uart) <= UartSize
    /\ typed \in 0..MaxTyped
    /\ pc \in [Issuers -> {"idle", "fill", "send", "free", "overflow"}]
    /\ req \in [Issuers -> Requests \cup {NULL}]
    /\ sent \in [Issuers -> 0..MaxReq]
    /\ core_pc \in {"wait", "launch", "record", "report", "close", "clear"}
    /\ core_req \in Requests \cup {NULL}
    /\ launch_error \in Errors
    /\ env_pc \in [Envs -> Places]
    /\ env_req \in [Envs -> Requests \cup {NULL}]
    /\ env_count \in [Envs -> 0..(Width - 1)]
    /\ refused \subseteq Requests
    /\ finished \subseteq Requests
    /\ torn \subseteq Jobs

(* A handle stored in a job names a task that exists and runs that job, so *)
(* a notification or a lookup by handle never reaches a deleted task or    *)
(* another job (__job_get_job_by_handle, the reset in __job_runtime_env).  *)
HandleNeverDangles ==
    \A j \in Jobs : handle[j] # NULL => Busy(handle[j]) /\ EnvJob(handle[j]) = j

(* Whatever the CLI types and the API asks for, the core job and the CLI   *)
(* server are never started a second time and never released: the role     *)
(* test, the singleton test and the test of instances together.            *)
CoreJobStaysSingle ==
    \A j \in CoreJobs :
        /\ registered[j]
        /\ instances[j] = 1
        /\ \A e \in Envs : Busy(e) => EnvJob(e) # j

(* instances is the number of environments between ++ and -- (job_driver.h: *)
(* "number of active instances of same job type"), however many run and    *)
(* whatever else happens, until an environment reads the counter while     *)
(* another holds a copy of it: that overlap is all that makes it drift.    *)
CountExact ==
    \A j \in UserJobs \ torn :
        registered[j] => instances[j] = Cardinality(EnvsOf(j, {"run", "return"})) % Width

(* The pipeline implements LaunchService: requests are answered in the     *)
(* order of the queue, each with one run or one fault.                     *)
Pending == IF core_pc = "launch" THEN <<core_req>> \o notif_queue ELSE notif_queue

Service == INSTANCE LaunchService WITH queue <- Pending, running <- RunningRequests

ImplementsService == Service!Spec


-----------------------------------------------------------------------------
(* What an application may rely on when its clients wait for each launch   *)
(* to take effect and no two of them ask for the same job, as the tests of *)
(* the repository do.  Each of these fails without that discipline.        *)

(* At most one function of a singleton job is about to run or runs         *)
(* (is_singleton, the tests of instances).                                 *)
SingletonExclusive ==
    \A j \in Singletons : Cardinality({e \in Envs : Started(e) /\ EnvJob(e) = j}) <= 1

(* While a job's function runs, its job is found by the task's handle      *)
(* (job_driver.h: looking up by handle works if the job is running).       *)
RunningJobHasHandle ==
    \A e \in Envs : env_pc[e] = "run" => handle[EnvJob(e)] = e

(* A function that was launched with arguments finds those arguments       *)
(* (jescore_api.h: a copy is stored in the args field of the job).         *)
ArgsAsRequested ==
    \A e \in Envs :
        env_pc[e] = "run" /\ env_req[e].args # NULL => args[EnvJob(e)] = env_req[e].args

(* A job is not released while its function runs (jescore_api.h: a job     *)
(* that has active instances running is not unregistered).                 *)
NoRunningJobUnregistered ==
    [][\A j \in Jobs :
        registered[j] /\ ~registered'[j] => EnvsOf(j, {"run"}) = {}]_vars

(* Released memory is used by nobody: no request for the job waits or is   *)
(* being made, and no environment of it is left (__job_unregister_job).    *)
NoFreedJobInUse ==
    \A j \in Jobs : ~registered[j] =>
        /\ \A i \in DOMAIN notif_queue : notif_queue[i].job # j
        /\ core_req # NULL => core_req.job # j
        /\ \A t \in Issuers : pc[t] \in {"fill", "send"} => req[t].job # j
        /\ \A e \in Envs : Busy(e) => EnvJob(e) # j

(* A launch the API answered with "no error" takes place (jescore_api.h),   *)
(* unless the job is one that throws: the core refuses a job whose last    *)
(* error nobody has cleared.                                               *)
AcceptedIsLaunched ==
    \A r \in refused : r.by \in Clients => r.job \in Throwers

-----------------------------------------------------------------------------
(* Liveness.                                                               *)

Answered(t, n) == \E r \in refused \cup finished \cup RunningRequests : r.by = t /\ r.n = n

(* No request is left for ever in the blocking send, in the queue or with  *)
(* the core: again and again nobody waits to send and every request made   *)
(* is answered, the clients making finitely many (Quota).  The core gets   *)
(* past every refusal at which it waits for room in queue_uart, as long as *)
(* the CLI server has no command to send.  When it has, both may wait for  *)
(* each other for ever (CliSession, CoreReturns).                          *)
RequestAnswered ==
    []<>(\A t \in Issuers : pc[t] # "send" /\ \A n \in 1..sent[t] : Answered(t, n))

=============================================================================
