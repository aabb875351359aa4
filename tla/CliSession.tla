----------------------------- MODULE CliSession ------------------------------
(***************************************************************************)
(* A terminal session: the UART interrupt, the CLI server, the core, the   *)
(* environments of the jobs it launches, and a client of the API, around   *)
(* two bounded queues.  The CLI server consumes queue_uart and produces    *)
(* for the notification queue of the core; the core consumes that one and, *)
(* like every environment, produces close-session events for queue_uart.   *)
(*                                                                         *)
(* The line is kept in one shared buffer (uart_buf_sw), not in the event.  *)
(* A line is abstracted to the job it names and to whether it carries      *)
(* arguments; a close-session event makes the CLI server print the header, *)
(* which tells the terminal that its transaction is over.                  *)
(*                                                                         *)
(* The STM32 driver is modelled, the one whose source is in src/.          *)
(***************************************************************************)
EXTENDS Naturals, Sequences, SequencesExt

CONSTANTS
    UserJobs,       \* registered jobs
    CliServer,      \* the job cli_server, of role core
    Loops,          \* user jobs with is_loop
    Singletons,     \* jobs with is_singleton
    Throwers,       \* user jobs whose function may throw an error
    Unknown,        \* a name that is not registered
    Typed,          \* names the terminal types
    ApiJobs,        \* user jobs the client launches
    Envs,           \* memory for so many environments
    UartLen,        \* length of queue_uart
    CoreLen,        \* length of the core's notification queue
    Paced,          \* assumption: the terminal waits for the header
    MaxLines,       \* bound: lines typed
    MaxLaunches,    \* bound: launches by the client
    Blank,          \* an empty line, or the cleared buffer
    Overlong,       \* a line that does not fit the buffer
    NULL

Jobs == UserJobs \cup {CliServer}

ASSUME CliSessionAssumption ==
    /\ {UartLen, CoreLen} \subseteq Nat \ {0}
    /\ Loops \cup Throwers \cup ApiJobs \subseteq UserJobs
    /\ CliServer \in Singletons \ UserJobs
    /\ Unknown \notin Jobs
    /\ NULL \notin Jobs
    /\ {MaxLines, MaxLaunches} \subseteq Nat

VARIABLES
    uartQueue,  \* queue_uart
    buffer,     \* uart_buf_sw: the line in it
    server,     \* where cli_server is: "receive" or "notify"
    toDo,       \* pj_to_do of cli_server
    coreQueue,  \* notif_queue of the core
    core,       \* where __core_job is: "receive" or "close"
    env,        \* env[e]: where an environment is and which job it runs
    caller,     \* caller[j]: pj->caller
    failed,     \* failed[j]: pj->error is not e_err_no_err
    instances,  \* instances[j]: pj->instances
    client,     \* the job the client waits to enqueue, or NULL
    launches,   \* launches by the client so far
    typed,      \* history: lines typed
    handled,    \* history: lines cli_server has worked on
    headers     \* headers printed

uartVars == <<uartQueue, buffer>>
serverVars == <<server, toDo, handled, headers>>
coreVars == <<coreQueue, core>>
jobVars == <<caller, failed, instances>>
clientVars == <<client, launches>>
vars == <<uartVars, serverVars, coreVars, env, jobVars, clientVars, typed>>

-----------------------------------------------------------------------------
Command == [job : Typed, args : BOOLEAN]
Garbled == [job |-> Unknown, args |-> FALSE]
Lines == Command \cup {Blank, Overlong}

ASSUME LinesAssumption ==
    /\ Blank # Overlong
    /\ {Blank, Overlong} \cap (Command \cup {Garbled}) = {}

DataEvent(l) == [type |-> "data", line |-> l]
FullEvent == [type |-> "full"]
CloseEvent == [type |-> "close"]

Idle == [at |-> "none", job |-> NULL]

Init ==
    /\ uartQueue = <<>>
    /\ buffer = Blank
    /\ server = "receive"
    /\ toDo = NULL
    /\ coreQueue = <<>>
    /\ core = "receive"
    /\ env = [e \in Envs |-> Idle]
    /\ caller = [j \in Jobs |-> "core"]
    /\ failed = [j \in Jobs |-> FALSE]
    /\ instances = [j \in Jobs |-> IF j = CliServer THEN 1 ELSE 0]
    /\ client = NULL
    /\ launches = 0
    /\ typed = <<>>
    /\ handled = <<>>
    /\ headers = 0

-----------------------------------------------------------------------------
(* HAL_UARTEx_RxEventCallback.                                             *)

(* xQueueSendFromISR: an event that finds the queue full is dropped.       *)
FromISR(ev) ==
    uartQueue' = IF Len(uartQueue) < UartLen THEN Append(uartQueue, ev) ELSE uartQueue

(* The line is copied to the shared buffer; a line that does not fit       *)
(* clears it.                                                              *)
BufferedNothing(l) == UNCHANGED buffer
Buffered(l) == buffer' = IF l = Overlong THEN Blank ELSE l

RxEventCallback(l) ==
    /\ Len(typed) < MaxLines
    /\ Paced => headers = Len(typed)
    /\ Buffered(l)
    /\ FromISR(IF l = Overlong THEN FullEvent ELSE DataEvent(l))
    /\ typed' = Append(typed, l)
    /\ UNCHANGED <<serverVars, coreVars, env, jobVars, clientVars>>

-----------------------------------------------------------------------------
(* cli_server.                                                             *)

ServerReceives(type) ==
    /\ server = "receive"
    /\ uartQueue # <<>>
    /\ Head(uartQueue).type = type

(* uart_unif_read copies as many bytes as the event says, from the line    *)
(* the buffer holds by now: another line comes out whole or mutilated,     *)
(* unless it starts with a carriage return or was cleared.                 *)
Read(ev) == IF buffer \in {ev.line, Blank} THEN {buffer} ELSE {buffer, Garbled}

ReprintHeader == headers' = headers + 1

(* raw_str is empty or starts with a carriage return.                      *)
ServerBlank ==
    /\ ServerReceives("data")
    /\ Blank \in Read(Head(uartQueue))
    /\ uartQueue' = Tail(uartQueue)
    /\ handled' = Append(handled, Blank)
    /\ ReprintHeader
    /\ UNCHANGED <<buffer, server, toDo, coreVars, env, jobVars, clientVars, typed>>

(* The caller is set, arguments clear the error of the job.                *)
Prepared(l) ==
    IF l.job \in Jobs
    THEN /\ caller' = [caller EXCEPT ![l.job] = "cli"]
         /\ failed' = [failed EXCEPT ![l.job] = @ /\ ~l.args]
         /\ toDo' = l.job
    ELSE /\ toDo' = NULL
         /\ UNCHANGED <<caller, failed>>

ServerCommand ==
    /\ ServerReceives("data")
    /\ \E l \in Read(Head(uartQueue)) \ {Blank} :
        /\ Prepared(l)
        /\ handled' = Append(handled, l)
    /\ uartQueue' = Tail(uartQueue)
    /\ server' = "notify"
    /\ UNCHANGED <<buffer, headers, coreVars, env, instances, clientVars, typed>>

(* UART_BUFFER_FULL: uart_unif_flush, xQueueReset, then the server asks    *)
(* the core to report the error in its own name.                           *)
ServerOverflow ==
    /\ ServerReceives("full")
    /\ buffer' = Blank
    /\ uartQueue' = <<>>
    /\ toDo' = CliServer
    /\ caller' = [caller EXCEPT ![CliServer] = "core"]
    /\ failed' = [failed EXCEPT ![CliServer] = TRUE]
    /\ handled' = Append(handled, Overlong)
    /\ server' = "notify"
    /\ UNCHANGED <<headers, coreVars, env, instances, clientVars, typed>>

ServerCloseSession ==
    /\ ServerReceives("close")
    /\ uartQueue' = Tail(uartQueue)
    /\ ReprintHeader
    /\ UNCHANGED <<buffer, server, toDo, handled, coreVars, env, jobVars, clientVars, typed>>

(* __core_notify: xQueueSend, blocking.                                    *)
EnqueueOffByOne(j) ==
    /\ Len(coreQueue) <= CoreLen
    /\ coreQueue' = Append(coreQueue, j)
Enqueue(j) ==
    /\ Len(coreQueue) < CoreLen
    /\ coreQueue' = Append(coreQueue, j)

ServerNotify ==
    /\ server = "notify"
    /\ Enqueue(toDo)
    /\ server' = "receive"
    /\ toDo' = NULL
    /\ UNCHANGED <<uartVars, handled, headers, core, env, jobVars, clientVars, typed>>

Server ==
    \/ ServerBlank
    \/ ServerCommand
    \/ ServerOverflow
    \/ ServerCloseSession
    \/ ServerNotify

-----------------------------------------------------------------------------
(* __core_job.                                                             *)

(* __cli_close_sess: xQueueSend, blocking.                                 *)
CliCloseSess ==
    /\ Len(uartQueue) < UartLen
    /\ uartQueue' = Append(uartQueue, CloseEvent)

(* The branches of __job_launch_job that refuse; no memory is left when    *)
(* every environment is in use.                                            *)
Refused(j) ==
    \/ caller[j] \in {"cli", "api"} /\ j = CliServer
    \/ j \in Singletons /\ instances[j] > 0
    \/ \A e \in Envs : env[e] # Idle

CoreReceive ==
    /\ core = "receive"
    /\ coreQueue # <<>>
    /\ coreQueue' = Tail(coreQueue)

(* __core_err_handler_inline ends by closing the session.                  *)
ErrHandlerSilent == UNCHANGED core
ErrHandlerInline == core' = "close"

(* A job that is not registered, one whose error is still set, or one that *)
(* cannot be launched.                                                     *)
Faulty(j) == j \in Jobs => failed[j] \/ Refused(j)

CoreFault ==
    /\ CoreReceive
    /\ LET j == Head(coreQueue) IN
        /\ Faulty(j)
        /\ failed' = [k \in Jobs |-> failed[k] \/ k = j]
    /\ ErrHandlerInline
    /\ UNCHANGED <<uartVars, serverVars, env, caller, instances, clientVars, typed>>

CoreLaunch ==
    /\ CoreReceive
    /\ LET j == Head(coreQueue) IN
        /\ ~Faulty(j)
        /\ \E e \in Envs :
            /\ env[e] = Idle
            /\ env' = [env EXCEPT ![e] = [at |-> "enter", job |-> j]]
    /\ UNCHANGED <<core, uartVars, serverVars, jobVars, clientVars, typed>>

CoreCloseSess ==
    /\ core = "close"
    /\ CliCloseSess
    /\ core' = "receive"
    /\ UNCHANGED <<buffer, serverVars, coreQueue, env, jobVars, clientVars, typed>>

(* xQueueReceive runs into JES_CORE_NOTIFY_TIMEOUT_MS and the loop goes on.*)
CoreTimeout ==
    /\ core = "receive"
    /\ coreQueue = <<>>
    /\ UNCHANGED vars

CoreJob == CoreFault \/ CoreLaunch \/ CoreCloseSess

-----------------------------------------------------------------------------
(* __job_runtime_env.                                                      *)

At(e, l) == env[e].at = l
Goto(e, l) == env' = [env EXCEPT ![e].at = l]

(* A loop started from the CLI closes the session before it runs.          *)
ClosesAnyFirst(j) == caller[j] = "cli"
ClosesFirst(j) == j \in Loops /\ caller[j] = "cli"

EnvEnter(e) ==
    /\ At(e, "enter")
    /\ Goto(e, IF ClosesFirst(env[e].job) THEN "closeFirst" ELSE "count")
    /\ UNCHANGED <<uartVars, serverVars, coreVars, jobVars, clientVars, typed>>

EnvCloseFirst(e) ==
    /\ At(e, "closeFirst")
    /\ CliCloseSess
    /\ Goto(e, "count")
    /\ UNCHANGED <<buffer, serverVars, coreVars, jobVars, clientVars, typed>>

EnvCount(e) ==
    /\ At(e, "count")
    /\ instances' = [instances EXCEPT ![env[e].job] = @ + 1]
    /\ Goto(e, "run")
    /\ UNCHANGED <<uartVars, serverVars, coreVars, caller, failed, clientVars, typed>>

(* The function of a job that is not a loop returns; it may have thrown.   *)
EnvReturn(e) ==
    LET j == env[e].job IN
    /\ At(e, "run")
    /\ j \notin Loops
    /\ instances' = [instances EXCEPT ![j] = @ - 1]
    /\ \E throws \in IF j \in Throwers THEN BOOLEAN ELSE {FALSE} :
        failed' = [failed EXCEPT ![j] = @ \/ throws]
    /\ Goto(e, "leave")
    /\ UNCHANGED <<uartVars, serverVars, coreVars, caller, clientVars, typed>>

(* Any other job started from the CLI closes the session when it is done.  *)
ClosesLast(j) == j \notin Loops /\ caller[j] = "cli"

EnvLeave(e) ==
    /\ At(e, "leave")
    /\ env' = [env EXCEPT ![e] = IF ClosesLast(@.job) THEN [@ EXCEPT !.at = "close"] ELSE Idle]
    /\ UNCHANGED <<uartVars, serverVars, coreVars, jobVars, clientVars, typed>>

EnvClose(e) ==
    /\ At(e, "close")
    /\ CliCloseSess
    /\ env' = [env EXCEPT ![e] = Idle]
    /\ UNCHANGED <<buffer, serverVars, coreVars, jobVars, clientVars, typed>>

RuntimeEnv(e) ==
    \/ EnvEnter(e)
    \/ EnvCloseFirst(e)
    \/ EnvCount(e)
    \/ EnvReturn(e)
    \/ EnvLeave(e)
    \/ EnvClose(e)

-----------------------------------------------------------------------------
(* jes_launch_job by a client task: __job_launch_job_core up to the send.  *)
JesLaunchJob(j) ==
    /\ client = NULL
    /\ launches < MaxLaunches
    /\ ~(j \in Singletons /\ instances[j] > 0)
    /\ caller' = [caller EXCEPT ![j] = "api"]
    /\ client' = j
    /\ launches' = launches + 1
    /\ UNCHANGED <<uartVars, serverVars, coreVars, env, failed, instances, typed>>

ClientNotify ==
    /\ client # NULL
    /\ Enqueue(client)
    /\ client' = NULL
    /\ UNCHANGED <<uartVars, serverVars, core, env, jobVars, launches, typed>>

-----------------------------------------------------------------------------
Next ==
    \/ \E l \in Lines : RxEventCallback(l)
    \/ Server
    \/ CoreJob
    \/ CoreTimeout
    \/ \E e \in Envs : RuntimeEnv(e)
    \/ \E j \in ApiJobs : JesLaunchJob(j)
    \/ ClientNotify

Spec == Init /\ [][Next]_vars

(* Every task that can go on does, and job functions that are not loops    *)
(* return.  Nobody has to type or to launch.                               *)
Fairness ==
    /\ WF_vars(Server)
    /\ WF_vars(CoreJob)
    /\ \A e \in Envs : WF_vars(RuntimeEnv(e))
    /\ WF_vars(ClientNotify)

FairSpec == Spec /\ Fairness

-----------------------------------------------------------------------------
(* Properties.                                                             *)

(* Every variable has its type, and both queues stay within their length.  *)
TypeOK ==
    /\ uartQueue \in Seq({DataEvent(l) : l \in Lines} \cup {FullEvent, CloseEvent})
    /\ Len(uartQueue) <= UartLen
    /\ buffer \in Lines \ {Overlong}
    /\ server \in {"receive", "notify"}
    /\ toDo \in Jobs \cup {NULL}
    /\ coreQueue \in Seq(Jobs \cup {NULL})
    /\ Len(coreQueue) <= CoreLen
    /\ core \in {"receive", "close"}
    /\ env \in [Envs -> [at : {"none", "enter", "closeFirst", "count", "run", "leave", "close"},
                         job : UserJobs \cup {NULL}]]
    /\ caller \in [Jobs -> {"core", "cli", "api"}]
    /\ failed \in [Jobs -> BOOLEAN]
    /\ instances \in [Jobs -> Nat]
    /\ client \in ApiJobs \cup {NULL}
    /\ launches \in 0..MaxLaunches
    /\ typed \in Seq(Lines)
    /\ handled \in Seq(Lines \cup {Garbled})
    /\ headers \in Nat

(* A header is never printed for a line that was not typed: the terminal   *)
(* takes it for the end of its transaction (__cli_reprint_header).         *)
HeadersEarned == headers <= Len(typed)

(* Every transaction ends: a line that was typed, whatever it asks for, is *)
(* in the end answered by a header (__cli_close_sess).                     *)
SessionCloses == headers < Len(typed) ~> headers >= Len(typed)

(* The CLI server works on the lines as they were typed, in that order and *)
(* each once, although they share a buffer.                                *)
LinesInOrder == IsPrefix(handled, typed)

(* The core gets back to its queue (core.h: dispatch cannot starve).       *)
CoreReturns == core = "close" ~> core = "receive"

=============================================================================
