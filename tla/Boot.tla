-------------------------------- MODULE Boot ---------------------------------
(***************************************************************************)
(* Start-up: jes_init with every failure of __core_init, a repeated        *)
(* jes_init, the jobs an application registers and launches, and, on       *)
(* STM32, jes_dispatch, which starts the scheduler.                        *)
(*                                                                         *)
(* __core_init is a script of steps, each of which may fail and ends the   *)
(* call.  On ESP32 the scheduler runs before jes_init is called, so the    *)
(* core job works while the script goes on; on STM32 no task runs before   *)
(* jes_dispatch.  Launches before the scheduler runs start the task        *)
(* directly, later ones ask the core (Dispatch has that queue).            *)
(*                                                                         *)
(* There may be no memory for a task.  A direct launch then returns the    *)
(* error; the core has nobody left to tell, prints a fault and closes the  *)
(* terminal's session, a send to queue_uart that waits for room.  The core *)
(* stops there if the queue was never created or nobody empties it.  What  *)
(* the terminal types is left to Dispatch and CliSession.                  *)
(*                                                                         *)
(* Of core.state only e_state_init differs to anybody: the states of the   *)
(* core's loop, e_state_fault included, are "idle" here.                   *)
(***************************************************************************)
EXTENDS Naturals, Sequences

CONSTANTS
    Builds,         \* the builds: records of cli (no JES_DISABLE_CLI), esp32
    UserJobs,       \* jobs of the application
    UartSize,       \* the length queue_uart is created with
    MaxInits        \* bound: calls of jes_init

SystemJobs == {"core", "clisrv", "logp", "help", "stats", "bench", "echo"}
Jobs == SystemJobs \cup UserJobs

ASSUME BootAssumption ==
    /\ Builds \subseteq [cli : BOOLEAN, esp32 : BOOLEAN]
    /\ SystemJobs \cap UserJobs = {}
    /\ UartSize \in Nat \ {0}
    /\ MaxInits \in Nat

VARIABLES
    build,          \* the build that runs
    core_state,     \* core.state
    lock,           \* core.lock: "none", "free", or "taken" for ever
    mutexes,        \* mutexes created for core.lock so far
    registered,     \* the jobs in the list
    tasks,          \* tasks[j]: tasks created for job j
    is_init,        \* is_init of the CLI
    uart_queue,     \* queue_uart is not NULL
    api_initialized,
    sched_run,
    pc,             \* the step of __core_init jes_init is at; 0: no call
    inits,          \* calls of jes_init so far
    retried,        \* history: jes_init was repeated after one that failed
                    \* and left registered jobs behind
    asked,          \* user jobs the core has been notified of
    core_pc,        \* "loop", or "close": the core waits to close the session
    events,         \* how many events wait in queue_uart
    refused,        \* history: user jobs the core had no memory to launch
    launched,       \* history: user jobs whose launch returned no error
    entered         \* history: user jobs whose function has been called

coreVars == <<core_state, lock, mutexes, registered>>
cliVars == <<is_init, uart_queue>>
apiVars == <<api_initialized, sched_run>>
callVars == <<pc, inits, retried>>
faultVars == <<core_pc, events, refused>>
userVars == <<asked, faultVars, launched, entered>>
vars == <<build, coreVars, tasks, cliVars, apiVars, callVars, userVars>>

-----------------------------------------------------------------------------
(* The steps of __core_init, in its order.                                 *)
CoreScript ==
    << [op |-> "lock", job |-> "core"],
       [op |-> "register", job |-> "core"],
       [op |-> "launch", job |-> "core"] >>

FullScript ==
    << [op |-> "lock", job |-> "core"],
       [op |-> "register", job |-> "core"],
       [op |-> "launch", job |-> "core"],
       [op |-> "cli_init", job |-> "clisrv"],
       [op |-> "register", job |-> "clisrv"],
       [op |-> "register", job |-> "logp"],
       [op |-> "register", job |-> "help"],
       [op |-> "register", job |-> "stats"],
       [op |-> "register", job |-> "bench"],
       [op |-> "register", job |-> "echo"],
       [op |-> "launch", job |-> "clisrv"] >>

Script == IF build.cli THEN FullScript ELSE CoreScript

At(op) == pc \in DOMAIN Script /\ Script[pc].op = op
Job == Script[pc].job

CoreStates == {"init", "idle"}

Init ==
    /\ build \in Builds
    /\ core_state = "init"
    /\ lock = "none"
    /\ mutexes = 0
    /\ registered = {}
    /\ tasks = [j \in Jobs |-> 0]
    /\ is_init = FALSE
    /\ uart_queue = FALSE
    /\ api_initialized = FALSE
    /\ sched_run = FALSE
    /\ pc = 0
    /\ inits = 0
    /\ retried = FALSE
    /\ asked = {}
    /\ core_pc = "loop"
    /\ events = 0
    /\ refused = {}
    /\ launched = {}
    /\ entered = {}

(* Arduino calls setup() from a task; main() calls jes_dispatch.           *)
SchedulerRuns == build.esp32 \/ sched_run

-----------------------------------------------------------------------------
(* jes_init.                                                               *)

NeverInitialized == FALSE
AlreadyInitialized == core_state # "init"

Initialized ==
    /\ api_initialized' = TRUE
    /\ sched_run' = (sched_run \/ build.esp32)

JesInit ==
    /\ pc = 0
    /\ inits < MaxInits
    /\ inits' = inits + 1
    /\ retried' = (retried \/ (registered # {} /\ ~api_initialized))
    /\ IF AlreadyInitialized
       THEN pc' = 0 /\ Initialized
       ELSE pc' = 1 /\ UNCHANGED apiVars
    /\ UNCHANGED <<build, coreVars, tasks, cliVars, userVars>>

Proceed == pc' = pc + 1 /\ UNCHANGED <<inits, retried>>
Fail == pc' = 0 /\ UNCHANGED <<inits, retried>>

(* core.lock = xSemaphoreCreateMutex().                                    *)
CreateLock ==
    /\ At("lock")
    /\ \/ lock' = "free" /\ mutexes' = mutexes + 1 /\ Proceed
       \/ lock' = "none" /\ UNCHANGED mutexes /\ Fail
    /\ UNCHANGED <<build, core_state, registered, tasks, cliVars, apiVars, userVars>>

(* The result of registering logp is overwritten by the next one.          *)
AlwaysIgnored(j) == TRUE
Ignored(j) == j = "logp"
FailUnlessIgnored == IF Ignored(Job) THEN Proceed ELSE Fail

(* __job_register_job: a new job, one there is no memory for, or one that  *)
(* is known already, which returns with the lock kept.                     *)
LockLeaked == "taken"
LockGiven == "free"

RegisterNew ==
    /\ At("register")
    /\ lock = "free"
    /\ Job \notin registered
    /\ registered' = registered \cup {Job}
    /\ lock' = LockGiven
    /\ Proceed
    /\ UNCHANGED <<build, core_state, mutexes, tasks, cliVars, apiVars, userVars>>

RegisterNoMemory ==
    /\ At("register")
    /\ FailUnlessIgnored
    /\ UNCHANGED <<build, coreVars, tasks, cliVars, apiVars, userVars>>

RegisterDuplicate ==
    /\ At("register")
    /\ lock = "free"
    /\ Job \in registered
    /\ lock' = "taken"
    /\ FailUnlessIgnored
    /\ UNCHANGED <<build, core_state, mutexes, registered, tasks, cliVars, apiVars, userVars>>

(* __job_launch_job_by_name: the lookup takes the lock, then the task of a *)
(* known job is created, or there is no memory for it.                     *)
LaunchByName ==
    /\ At("launch")
    /\ lock = "free"
    /\ \/ Job \in registered /\ tasks' = [tasks EXCEPT ![Job] = @ + 1] /\ Proceed
       \/ UNCHANGED tasks /\ Fail
    /\ UNCHANGED <<build, coreVars, cliVars, apiVars, userVars>>

(* uart_unif_init on ESP32: the vendor's driver makes the queue or reports *)
(* an error.  On STM32 the queue is created first and nobody looks whether *)
(* there was memory for it.                                                *)
InstalledEsp32(ok) == build.esp32 /\ (ok => uart_queue')
InstalledStm32 == ~build.esp32

CliInit ==
    /\ At("cli_init")
    /\ \/ is_init /\ Proceed /\ UNCHANGED cliVars
       \/ ~is_init /\ Fail /\ UNCHANGED cliVars         \* no memory for cli_lock
       \/ /\ ~is_init
          /\ uart_queue' \in BOOLEAN
          /\ \/ InstalledEsp32(TRUE) /\ is_init' = TRUE /\ Proceed
             \/ InstalledEsp32(FALSE) /\ is_init' = FALSE /\ Fail
             \/ InstalledStm32 /\ is_init' = TRUE /\ Proceed
             \/ InstalledStm32 /\ is_init' = FALSE /\ Fail
    /\ UNCHANGED <<build, coreVars, tasks, apiVars, userVars>>

(* The end of __core_init and of jes_init.                                 *)
InitDone ==
    /\ pc = Len(Script) + 1
    /\ core_state' = "idle"
    /\ Initialized
    /\ pc' = 0
    /\ UNCHANGED <<build, lock, mutexes, registered, tasks, cliVars, inits, retried, userVars>>

InitStep ==
    \/ CreateLock
    \/ RegisterNew
    \/ RegisterNoMemory
    \/ RegisterDuplicate
    \/ LaunchByName
    \/ CliInit
    \/ InitDone

-----------------------------------------------------------------------------
(* The application, in setup() or main(), and the tasks.                   *)

JesDispatch ==
    /\ ~build.esp32
    /\ pc = 0
    /\ ~sched_run
    /\ sched_run' = TRUE
    /\ UNCHANGED <<build, coreVars, tasks, cliVars, api_initialized, callVars, userVars>>

(* Calls before jes_init has succeeded return e_err_uninitialized.         *)
Guarded == api_initialized

JesRegisterJob(j) ==
    /\ pc = 0
    /\ Guarded
    /\ lock = "free"
    /\ j \notin registered
    /\ registered' = registered \cup {j}
    /\ UNCHANGED <<build, core_state, lock, mutexes, tasks, cliVars, apiVars, callVars, userVars>>

(* Each user job is launched once.  A direct launch there is no memory for *)
(* returns the error and changes nothing; it may be repeated.              *)
NotStarted(j) == UNCHANGED <<tasks, asked>>
Started(j) ==
    IF sched_run
    THEN asked' = asked \cup {j} /\ UNCHANGED tasks
    ELSE tasks' = [tasks EXCEPT ![j] = @ + 1] /\ UNCHANGED asked

JesLaunchJob(j) ==
    /\ pc = 0
    /\ Guarded
    /\ lock = "free"
    /\ j \in registered \ launched
    /\ Started(j)
    /\ launched' = launched \cup {j}
    /\ UNCHANGED <<build, coreVars, cliVars, apiVars, callVars, faultVars, entered>>

CoreRuns == SchedulerRuns /\ tasks["core"] > 0

(* The core takes a request.                                               *)
CoreReceive(j) ==
    /\ CoreRuns
    /\ core_pc = "loop"
    /\ j \in asked
    /\ asked' = asked \ {j}
    /\ core_state' = "idle"
    /\ UNCHANGED <<build, lock, mutexes, registered, cliVars, apiVars, callVars, events,
                   launched, entered>>

(* __job_launch_job creates the task ...                                   *)
CoreLaunch(j) ==
    /\ CoreReceive(j)
    /\ tasks' = [tasks EXCEPT ![j] = @ + 1]
    /\ UNCHANGED <<core_pc, refused>>

(* ... or returns e_err_mem_null, and the core handles the error.          *)
CoreRefuse(j) ==
    /\ CoreReceive(j)
    /\ refused' = refused \cup {j}
    /\ core_pc' = "close"
    /\ UNCHANGED tasks

(* __cli_close_sess; a send to a queue that was never created is the end.  *)
Room == uart_queue /\ events < UartSize

CoreCloseSess ==
    /\ CoreRuns
    /\ core_pc = "close"
    /\ Room
    /\ events' = events + 1
    /\ core_pc' = "loop"
    /\ UNCHANGED <<build, coreVars, tasks, cliVars, apiVars, callVars, asked, refused,
                   launched, entered>>

(* The CLI server takes an event and prints the header.                    *)
CliServer ==
    /\ SchedulerRuns
    /\ tasks["clisrv"] > 0
    /\ events > 0
    /\ events' = events - 1
    /\ UNCHANGED <<build, coreVars, tasks, cliVars, apiVars, callVars, asked, core_pc, refused,
                   launched, entered>>

(* The core waits in vain for JES_CORE_NOTIFY_TIMEOUT_MS, whether or not   *)
(* __core_init is through.                                                 *)
CoreTimeout ==
    /\ CoreRuns
    /\ core_pc = "loop"
    /\ asked = {}
    /\ core_state' = "idle"
    /\ UNCHANGED <<build, lock, mutexes, registered, tasks, cliVars, apiVars, callVars, userVars>>

(* The environment of a user job calls its function.                       *)
RuntimeEnv(j) ==
    /\ SchedulerRuns
    /\ tasks[j] > 0
    /\ entered' = entered \cup {j}
    /\ UNCHANGED <<build, coreVars, tasks, cliVars, apiVars, callVars, asked, faultVars, launched>>

-----------------------------------------------------------------------------
Next ==
    \/ JesInit
    \/ InitStep
    \/ JesDispatch
    \/ \E j \in UserJobs :
        \/ JesRegisterJob(j)
        \/ JesLaunchJob(j)
        \/ CoreLaunch(j)
        \/ CoreRefuse(j)
        \/ RuntimeEnv(j)
    \/ CoreCloseSess
    \/ CliServer
    \/ CoreTimeout

Spec == Init /\ [][Next]_vars

(* A call of jes_init goes on, the core and the tasks run once the         *)
(* scheduler does.  Nobody has to call jes_init or jes_dispatch.           *)
Fairness ==
    /\ WF_vars(InitStep)
    /\ WF_vars(CoreCloseSess)
    /\ WF_vars(CliServer)
    /\ \A j \in UserJobs : WF_vars(CoreLaunch(j) \/ CoreRefuse(j)) /\ WF_vars(RuntimeEnv(j))

FairSpec == Spec /\ Fairness

-----------------------------------------------------------------------------
(* Properties.                                                             *)

(* Every variable has its type; no job gets a second task, however often   *)
(* jes_init is called and wherever it fails.                               *)
TypeOK ==
    /\ build \in Builds
    /\ core_state \in CoreStates
    /\ lock \in {"none", "free", "taken"}
    /\ mutexes \in Nat
    /\ registered \subseteq Jobs
    /\ tasks \in [Jobs -> {0, 1}]
    /\ {is_init, uart_queue, api_initialized, sched_run} \subseteq BOOLEAN
    /\ pc \in 0..(Len(Script) + 1)
    /\ inits \in Nat
    /\ retried \in BOOLEAN
    /\ asked \subseteq UserJobs
    /\ core_pc \in {"loop", "close"}
    /\ events \in 0..UartSize
    /\ refused \subseteq UserJobs
    /\ launched \subseteq UserJobs
    /\ entered \subseteq UserJobs

(* What a step of the script leaves behind for good.                       *)
Done(step) ==
    /\ step.op = "lock" => lock = "free"
    /\ step.op = "register" => step.job \in registered \/ step.job = "logp"
    /\ step.op = "launch" => tasks[step.job] = 1
    /\ step.op = "cli_init" => is_init

(* Once jes_init has returned no error, the core, the CLI server and their *)
(* jobs are all there, each running job once, and core.lock works          *)
(* (jescore_api.h: start the core and all of its abilities), unless it was *)
(* repeated after a failure that left jobs behind; logp may be missing.    *)
InitComplete ==
    api_initialized /\ ~retried => \A i \in DOMAIN Script : Done(Script[i])

(* A function of the application never finds the API uninitialised: the    *)
(* guards of jescore_api.c and the order of jes_init, jes_dispatch and the *)
(* tasks make it so.                                                       *)
FunctionsSeeApi == entered # {} => api_initialized /\ sched_run

(* A jes_init after a successful one changes nothing of the running system *)
(* (test_core_startup.c: double init), although the core has been writing  *)
(* core.state all the time.                                                *)
InitOnce ==
    [][api_initialized =>
        /\ mutexes' = mutexes
        /\ is_init' = is_init
        /\ api_initialized'
        /\ \A j \in SystemJobs : tasks'[j] = tasks[j]
                                 /\ (j \in registered' <=> j \in registered)]_vars

(* Every jes_init returns, with or without an error.                       *)
InitReturns == pc # 0 ~> pc = 0

(* A refusal the core cannot get past: it has no queue to send to, or      *)
(* nobody to make room in it.                                              *)
CoreStopped == core_pc = "close" /\ (~uart_queue \/ tasks["clisrv"] = 0)

(* A job whose launch returned no error runs once the scheduler does, no   *)
(* matter whether it was launched before (jescore_api.h: on STM32 it will  *)
(* only be handled after jes_dispatch), unless the core finds no memory    *)
(* for it (core.c, the fault branch of __core_job), or finds none for      *)
(* another job and has no terminal to tell.                                *)
LaunchedRuns ==
    \A j \in UserJobs :
        j \in launched /\ SchedulerRuns ~> j \in entered \cup refused \/ CoreStopped

=============================================================================
