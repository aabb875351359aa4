----------------------------- MODULE BootProofs ------------------------------
(***************************************************************************)
(* Proofs about Boot, for every set of builds, any jobs of the application *)
(* and any number of calls of jes_init.                                    *)
(*                                                                         *)
(* A call that goes on has done all the steps behind it (Passed), and      *)
(* nothing ahead of it has been done before (Ahead): core is registered    *)
(* first, so that a call that gets past it found an empty list.  Hence a   *)
(* repeated call that finds jobs never gets past core, and no step of the  *)
(* script is done twice.                                                   *)
(***************************************************************************)
EXTENDS Boot, TLAPS

CoreFirst == "core" \notin registered => registered = {}

TasksKnown == \A j \in Jobs : tasks[j] # 0 => j \in registered

Passed == pc # 0 => \A i \in DOMAIN Script : i < pc => Done(Script[i])

(* Nothing has been done yet of the steps at and after the call's.         *)
Ahead ==
    pc >= 3 => \A i \in DOMAIN Script : i >= pc =>
        /\ Script[i].op = "register" => Script[i].job \notin registered
        /\ Script[i].op = "launch" => tasks[Script[i].job] = 0

InitializedBy ==
    /\ api_initialized => pc = 0 /\ core_state = "idle" /\ (build.esp32 => sched_run)
    /\ core_state = "idle" => "core" \in registered

LaunchedOnce ==
    \A j \in UserJobs :
        /\ j \notin launched => j \notin asked /\ tasks[j] = 0
        /\ j \in asked => tasks[j] = 0
        /\ j \in launched => j \in registered

ApiFirst == (launched # {} => api_initialized) /\ FunctionsSeeApi

BootInv ==
    /\ TypeOK
    /\ CoreFirst
    /\ TasksKnown
    /\ Passed
    /\ Ahead
    /\ InitializedBy
    /\ LaunchedOnce
    /\ ApiFirst
    /\ InitComplete

-----------------------------------------------------------------------------
(* The script.                                                             *)

(* Both scripts create the lock first, register core second, and neither   *)
(* register nor launch a job twice; only what comes later is ignored.      *)
LEMMA ScriptShape ==
    /\ Len(Script) \in Nat /\ Len(Script) >= 3 /\ DOMAIN Script = 1..Len(Script)
    /\ \A i \in DOMAIN Script :
        /\ Script[i].op \in {"lock", "register", "launch", "cli_init"}
        /\ Script[i].job \in SystemJobs
        /\ Script[i].op = "lock" <=> i = 1
        /\ Script[i].op = "register" /\ i # 2 => Script[i].job # "core"
        /\ Script[i].op = "launch" => i >= 3
        /\ \A k \in DOMAIN Script :
            i # k /\ Script[i].op = Script[k].op => Script[i].job # Script[k].job
    /\ Script[2].op = "register" /\ Script[2].job = "core"
<1>1. CASE build.cli
  <2>1. Script = FullScript
    BY <1>1 DEF Script
  <2>2. Len(FullScript) = 11 /\ DOMAIN FullScript = 1..11
    BY DEF FullScript
  <2>. QED BY <2>1, <2>2 DEF FullScript, SystemJobs
<1>2. CASE ~build.cli
  <2>1. Script = CoreScript
    BY <1>2 DEF Script
  <2>2. Len(CoreScript) = 3 /\ DOMAIN CoreScript = 1..3
    BY DEF CoreScript
  <2>. QED BY <2>1, <2>2 DEF CoreScript, SystemJobs
<1>. QED BY <1>1, <1>2

LEMMA SameScript == ASSUME build' = build PROVE Script' = Script
BY DEF Script, FullScript, CoreScript

LEMMA UserJobsApart == \A j \in UserJobs : j \in Jobs /\ j \notin SystemJobs
BY BootAssumption DEF Jobs

LEMMA SystemJobsKnown == SystemJobs \subseteq Jobs /\ "core" \in SystemJobs
BY DEF Jobs, SystemJobs

-----------------------------------------------------------------------------
(* The parts of the invariant about the script, over the kinds of steps.   *)

LEMMA InitBoot == Init => BootInv
<1>. SUFFICES ASSUME Init PROVE BootInv
  OBVIOUS
<1>1. TypeOK
  <2>1. pc \in 0..(Len(Script) + 1)
    BY ScriptShape DEF Init
  <2>2. {is_init, uart_queue, api_initialized, sched_run} \subseteq BOOLEAN /\ retried \in BOOLEAN
    BY Zenon DEF Init
  <2>3. events \in 0..UartSize
    BY BootAssumption DEF Init
  <2>. QED BY <2>1, <2>2, <2>3 DEF Init, TypeOK, CoreStates
<1>2. CoreFirst /\ TasksKnown /\ Passed /\ Ahead /\ InitializedBy
  BY ScriptShape DEF Init, CoreFirst, TasksKnown, Passed, Ahead, InitializedBy
<1>3. LaunchedOnce /\ ApiFirst /\ InitComplete
  BY UserJobsApart DEF Init, LaunchedOnce, ApiFirst, FunctionsSeeApi, InitComplete
<1>. QED BY <1>1, <1>2, <1>3 DEF BootInv

(* What the application, the core and the tasks do between two steps of    *)
(* the script.                                                             *)
Between ==
    /\ UNCHANGED <<build, lock, is_init, pc, retried, api_initialized>>
    /\ registered \subseteq registered'
    /\ registered' \subseteq registered \cup UserJobs
    /\ \A j \in SystemJobs : tasks'[j] = tasks[j]

LEMMA BetweenKeeps ==
    ASSUME BootInv, Between
    PROVE  Passed' /\ Ahead' /\ InitComplete'
<1>1. Script' = Script
  BY SameScript DEF Between
<1>2. \A i \in DOMAIN Script : Script[i].job \in SystemJobs
  BY ScriptShape
<1>3. \A i \in DOMAIN Script : Done(Script[i]) => Done(Script[i])'
  <2>. SUFFICES ASSUME NEW i \in DOMAIN Script, Done(Script[i]) PROVE Done(Script[i])'
    OBVIOUS
  <2>1. is_init' = is_init /\ lock' = lock
    BY <1>1 DEF Between
  <2>2. tasks'[Script[i].job] = tasks[Script[i].job]
    BY <1>2 DEF Between
  <2>. QED BY <1>1, <2>1, <2>2 DEF Between, Done
<1>4. Passed' /\ InitComplete'
  BY <1>1, <1>3 DEF BootInv, Between, Passed, InitComplete
<1>5. Ahead'
  BY <1>1, <1>2, UserJobsApart DEF BootInv, Between, Ahead
<1>. QED BY <1>4, <1>5

(* A call that fails ends, and it was not initialised before.              *)
LEMMA FailKeeps ==
    ASSUME BootInv, pc # 0, Fail, api_initialized' = api_initialized
    PROVE  Passed' /\ Ahead' /\ InitComplete'
BY DEF BootInv, InitializedBy, Fail, Passed, Ahead, InitComplete

(* A call that goes on has done its step, and undone none.                 *)
LEMMA ProceedKeeps ==
    ASSUME BootInv, NEW n \in DOMAIN Script, pc = n, Proceed,
           build' = build, api_initialized' = api_initialized,
           \A i \in DOMAIN Script : i < n /\ Done(Script[i]) => Done(Script[i])',
           Done(Script[n])'
    PROVE  Passed' /\ InitComplete'
<1>1. Script' = Script
  BY SameScript
<1>2. pc \in Nat /\ pc # 0 /\ DOMAIN Script \subseteq Nat
  BY ScriptShape
<1>3. InitComplete'
  BY <1>2 DEF BootInv, InitializedBy, InitComplete
<1>4. Passed'
  <2>. SUFFICES ASSUME NEW i \in DOMAIN Script, i < pc' PROVE Done(Script[i])'
    BY <1>1 DEF Passed
  <2>1. i < n \/ i = n
    BY <1>2 DEF Proceed
  <2>2. i < n => Done(Script[i])
    BY <1>2 DEF BootInv, Passed
  <2>. QED BY <2>1, <2>2
<1>. QED BY <1>3, <1>4

LEMMA CreateLockKeeps ==
    ASSUME BootInv, CreateLock
    PROVE  Passed' /\ Ahead' /\ InitComplete'
<1>1. pc = 1 /\ 1 \in DOMAIN Script /\ build' = build /\ api_initialized' = api_initialized
  BY ScriptShape DEF CreateLock, At, apiVars
<1>2. CASE lock' = "free" /\ Proceed
  <2>1. Script' = Script
    BY <1>1, SameScript
  <2>2. Done(Script[1])'
    BY <1>1, <1>2, <2>1, ScriptShape DEF Done
  <2>3. ~ \E i \in DOMAIN Script : i < 1
    BY <1>1, ScriptShape
  <2>4. Ahead'
    BY <1>1, <1>2 DEF Proceed, Ahead
  <2>. QED BY <1>1, <1>2, <2>2, <2>3, <2>4, ProceedKeeps
<1>3. CASE Fail
  BY <1>1, <1>3, FailKeeps
<1>. QED BY <1>2, <1>3 DEF CreateLock

LEMMA RegisterKeeps ==
    ASSUME BootInv, RegisterNew \/ RegisterNoMemory \/ RegisterDuplicate
    PROVE  Passed' /\ Ahead' /\ InitComplete'
<1>. PICK n \in DOMAIN Script : pc = n /\ Script[n].op = "register"
  BY DEF RegisterNew, RegisterNoMemory, RegisterDuplicate, At
<1>1. /\ n \in Nat /\ n > 1 /\ DOMAIN Script \subseteq Nat /\ build' = build
      /\ api_initialized' = api_initialized /\ is_init' = is_init /\ tasks' = tasks
  BY ScriptShape DEF RegisterNew, RegisterNoMemory, RegisterDuplicate, apiVars, cliVars
<1>2. Script' = Script
  BY <1>1, SameScript
<1>3. n = 2 => Script[n].job = "core"
  BY ScriptShape
<1>4. CASE Fail
  BY <1>1, <1>4, FailKeeps
<1>5. CASE RegisterNew
  <2>1. registered' = registered \cup {Script[n].job} /\ lock' = "free" /\ Proceed
    BY <1>5 DEF RegisterNew, LockGiven, Job
  <2>2. Done(Script[n])'
    BY <1>2, <2>1 DEF Done
  <2>3. \A i \in DOMAIN Script : i < n /\ Done(Script[i]) => Done(Script[i])'
    BY <1>1, <1>2, <2>1 DEF Done
  <2>4. Ahead'
    <3>. SUFFICES ASSUME NEW i \in DOMAIN Script, i > n
         PROVE  /\ Script[i].op = "register" => Script[i].job \notin registered'
                /\ Script[i].op = "launch" => tasks[Script[i].job] = 0
      BY <1>1, <1>2, <2>1 DEF Ahead, Proceed
    <3>1. Script[i].op = "register" => Script[i].job # Script[n].job
      BY <1>1, ScriptShape
    <3>2. CASE n = 2
      <4>1. registered = {}
        BY <1>3, <1>5, <3>2 DEF RegisterNew, Job, BootInv, CoreFirst
      <4>2. tasks[Script[i].job] = 0
        BY <4>1, ScriptShape, SystemJobsKnown DEF BootInv, TasksKnown
      <4>. QED BY <2>1, <3>1, <4>1, <4>2
    <3>3. CASE n # 2
      BY <1>1, <2>1, <3>1, <3>3 DEF BootInv, Ahead
    <3>. QED BY <3>2, <3>3
  <2>. QED BY <1>1, <2>1, <2>2, <2>3, <2>4, ProceedKeeps
<1>6. CASE RegisterNoMemory /\ Ignored(Script[n].job) /\ Proceed
  <2>1. registered' = registered /\ lock' = lock
    BY <1>6 DEF RegisterNoMemory, coreVars
  <2>2. \A i \in DOMAIN Script : Done(Script[i]) => Done(Script[i])'
    BY <1>1, <1>2, <2>1 DEF Done
  <2>3. Done(Script[n])'
    BY <1>2, <1>6 DEF Done, Ignored
  <2>4. n # 2
    BY <1>3, <1>6 DEF Ignored
  <2>5. Ahead'
    BY <1>1, <1>2, <1>6, <2>1, <2>4 DEF BootInv, Ahead, Proceed
  <2>. QED BY <1>1, <1>6, <2>2, <2>3, <2>5, ProceedKeeps
<1>7. CASE RegisterDuplicate /\ Ignored(Script[n].job)
  <2>1. n # 2 /\ Script[n].job \in registered
    BY <1>3, <1>7 DEF Ignored, RegisterDuplicate, Job
  <2>. QED BY <1>1, <2>1 DEF BootInv, Ahead
<1>. QED BY <1>4, <1>5, <1>6, <1>7
         DEF RegisterNew, RegisterNoMemory, RegisterDuplicate, FailUnlessIgnored, Job

LEMMA LaunchByNameKeeps ==
    ASSUME BootInv, LaunchByName
    PROVE  Passed' /\ Ahead' /\ InitComplete'
<1>. PICK n \in DOMAIN Script : pc = n /\ Script[n].op = "launch"
  BY DEF LaunchByName, At
<1>1. /\ n \in Nat /\ n >= 3 /\ DOMAIN Script \subseteq Nat /\ build' = build
      /\ api_initialized' = api_initialized /\ is_init' = is_init
      /\ registered' = registered /\ lock' = lock
  BY ScriptShape DEF LaunchByName, apiVars, cliVars, coreVars
<1>2. Script' = Script
  BY <1>1, SameScript
<1>3. CASE Fail
  BY <1>1, <1>3, FailKeeps
<1>4. CASE Proceed /\ tasks' = [tasks EXCEPT ![Script[n].job] = @ + 1]
  <2>1. tasks \in [Jobs -> {0, 1}] /\ \A i \in DOMAIN Script : Script[i].job \in Jobs
    BY ScriptShape, SystemJobsKnown DEF BootInv, TypeOK
  <2>2. tasks[Script[n].job] = 0
    BY <1>1 DEF BootInv, Ahead
  <2>3. \A i \in DOMAIN Script : i # n /\ Script[i].op = "launch" =>
            tasks'[Script[i].job] = tasks[Script[i].job]
    BY <1>4, <2>1, ScriptShape
  <2>4. tasks'[Script[n].job] = 1
    BY <1>4, <2>1, <2>2
  <2>5. Done(Script[n])'
    BY <1>2, <2>4 DEF Done
  <2>6. \A i \in DOMAIN Script : i < n /\ Done(Script[i]) => Done(Script[i])'
    BY <1>1, <1>2, <2>3 DEF Done
  <2>7. Ahead'
    BY <1>1, <1>2, <1>4, <2>3 DEF BootInv, Ahead, Proceed
  <2>. QED BY <1>1, <1>4, <2>5, <2>6, <2>7, ProceedKeeps
<1>. QED BY <1>3, <1>4 DEF LaunchByName, Job

LEMMA CliInitKeeps ==
    ASSUME BootInv, CliInit
    PROVE  Passed' /\ Ahead' /\ InitComplete'
<1>. PICK n \in DOMAIN Script : pc = n /\ Script[n].op = "cli_init"
  BY DEF CliInit, At
<1>1. /\ n \in Nat /\ n > 2 /\ DOMAIN Script \subseteq Nat /\ build' = build
      /\ api_initialized' = api_initialized /\ tasks' = tasks
      /\ registered' = registered /\ lock' = lock
  BY ScriptShape DEF CliInit, apiVars, coreVars
<1>2. Script' = Script
  BY <1>1, SameScript
<1>3. CASE Fail
  BY <1>1, <1>3, FailKeeps
<1>4. CASE Proceed /\ is_init'
  <2>1. Done(Script[n])'
    BY <1>2, <1>4 DEF Done
  <2>2. \A i \in DOMAIN Script : Done(Script[i]) => Done(Script[i])'
    BY <1>1, <1>2, <1>4 DEF Done
  <2>3. Ahead'
    BY <1>1, <1>2, <1>4 DEF BootInv, Ahead, Proceed
  <2>. QED BY <1>1, <1>4, <2>1, <2>2, <2>3, ProceedKeeps
<1>5. Fail \/ (Proceed /\ is_init')
  <2>1. is_init /\ UNCHANGED cliVars => is_init'
    BY DEF cliVars
  <2>2. is_init' = TRUE => is_init'
    OBVIOUS
  <2>. QED BY <2>1, <2>2, Zenon DEF CliInit
<1>. QED BY <1>3, <1>4, <1>5

LEMMA InitDoneKeeps ==
    ASSUME BootInv, InitDone
    PROVE  Passed' /\ Ahead' /\ InitComplete'
<1>1. pc' = 0 /\ pc = Len(Script) + 1 /\ build' = build
  BY DEF InitDone
<1>2. Script' = Script /\ pc # 0 /\ \A i \in DOMAIN Script : i < pc
  BY <1>1, SameScript, ScriptShape
<1>3. \A i \in DOMAIN Script : Done(Script[i])
  BY <1>2 DEF BootInv, Passed
<1>4. \A i \in DOMAIN Script : Done(Script[i])'
  BY <1>2, <1>3 DEF InitDone, Done, cliVars
<1>. QED BY <1>1, <1>2, <1>4 DEF Passed, Ahead, InitComplete

(* A call that finds the core's state written without having been          *)
(* initialised is a repeated one.                                          *)
LEMMA JesInitKeeps ==
    ASSUME BootInv, JesInit
    PROVE  Passed' /\ Ahead' /\ InitComplete'
<1>1. /\ UNCHANGED <<build, lock, registered, is_init, tasks>>
      /\ pc = 0 /\ pc' \in {0, 1}
  BY DEF JesInit, coreVars, cliVars
<1>2. Script' = Script
  BY <1>1, SameScript
<1>3. \A i \in DOMAIN Script : Done(Script[i]) => Done(Script[i])'
  BY <1>1, <1>2 DEF Done
<1>4. Passed' /\ Ahead'
  BY <1>1, <1>2, ScriptShape DEF Passed, Ahead
<1>5. InitComplete'
  <2>. SUFFICES ASSUME api_initialized', ~retried' PROVE api_initialized /\ ~retried
    BY <1>2, <1>3 DEF BootInv, InitComplete
  <2>1. ~retried /\ (registered # {} => api_initialized)
    BY DEF JesInit
  <2>2. core_state # "init" => core_state = "idle"
    BY DEF BootInv, TypeOK, CoreStates
  <2>. QED BY <2>1, <2>2
           DEF JesInit, AlreadyInitialized, apiVars, BootInv, InitializedBy
<1>. QED BY <1>4, <1>5

-----------------------------------------------------------------------------
(* The parts of the invariant about the rest of the state.                 *)

RestInv == CoreFirst /\ TasksKnown /\ InitializedBy /\ LaunchedOnce /\ ApiFirst

(* A step of the script that is not the last only registers and launches   *)
(* jobs of the system, and leaves what the application sees alone.         *)
ScriptStep ==
    /\ pc # 0
    /\ UNCHANGED <<build, core_state, api_initialized, sched_run, asked, faultVars, launched, entered>>
    /\ registered \subseteq registered'
    /\ registered' \subseteq Jobs
    /\ \A j \in UserJobs : tasks'[j] = tasks[j]
    /\ \A j \in Jobs : tasks'[j] # 0 => tasks[j] # 0 \/ j \in registered
    /\ "core" \notin registered' => registered' = registered

LEMMA ScriptStepKeepsRest == ASSUME BootInv, ScriptStep PROVE RestInv'
<1>1. CoreFirst' /\ TasksKnown'
  BY DEF BootInv, ScriptStep, CoreFirst, TasksKnown
<1>2. InitializedBy'
  BY DEF BootInv, ScriptStep, InitializedBy
<1>3. LaunchedOnce' /\ ApiFirst'
  BY DEF BootInv, ScriptStep, LaunchedOnce, ApiFirst, FunctionsSeeApi
<1>. QED BY <1>1, <1>2, <1>3 DEF RestInv

(* Steps of the script are typed.                                          *)
ScriptTypes ==
    /\ build' = build
    /\ core_state' = core_state
    /\ lock' \in {"none", "free", "taken"}
    /\ mutexes' \in Nat
    /\ registered' \subseteq Jobs
    /\ tasks' \in [Jobs -> {0, 1}]
    /\ is_init' \in BOOLEAN
    /\ uart_queue' \in BOOLEAN
    /\ pc \in DOMAIN Script
    /\ Proceed \/ Fail
    /\ UNCHANGED <<api_initialized, sched_run, asked, faultVars, launched, entered>>

LEMMA ScriptTypesGive == ASSUME TypeOK, ScriptTypes PROVE TypeOK'
<1>1. Script' = Script
  BY SameScript DEF ScriptTypes
<1>2. pc' \in 0..(Len(Script) + 1) /\ inits' = inits /\ retried' = retried
  BY ScriptShape DEF ScriptTypes, Proceed, Fail
<1>3. {is_init', uart_queue', api_initialized', sched_run'} \subseteq BOOLEAN
  BY DEF ScriptTypes, TypeOK
<1>. QED BY <1>1, <1>2, <1>3 DEF ScriptTypes, TypeOK, CoreStates, faultVars

LEMMA CreateLockTyped == ASSUME BootInv, CreateLock PROVE TypeOK' /\ RestInv'
<1>1. ScriptTypes
  BY DEF BootInv, TypeOK, CreateLock, At, ScriptTypes, cliVars, apiVars, userVars, faultVars
<1>2. ScriptStep
  BY ScriptShape DEF BootInv, TypeOK, CreateLock, At, ScriptStep, apiVars, userVars, faultVars
<1>. QED BY <1>1, <1>2, ScriptTypesGive, ScriptStepKeepsRest DEF BootInv

LEMMA RegisterTyped ==
    ASSUME BootInv, RegisterNew \/ RegisterNoMemory \/ RegisterDuplicate
    PROVE  TypeOK' /\ RestInv'
<1>. PICK n \in DOMAIN Script : pc = n /\ Script[n].op = "register"
  BY DEF RegisterNew, RegisterNoMemory, RegisterDuplicate, At
<1>1. /\ UNCHANGED <<build, core_state, mutexes, tasks, is_init, uart_queue, api_initialized,
                     sched_run, asked, faultVars, launched, entered>>
      /\ Proceed \/ Fail
  BY DEF RegisterNew, RegisterNoMemory, RegisterDuplicate, FailUnlessIgnored,
         coreVars, cliVars, apiVars, userVars, faultVars
<1>2. registered' \in {registered, registered \cup {Script[n].job}}
      /\ lock' \in {lock, "free", "taken"}
  BY DEF RegisterNew, RegisterNoMemory, RegisterDuplicate, LockGiven, coreVars, Job
<1>3. Script[n].job \in Jobs /\ n # 0
  BY ScriptShape, SystemJobsKnown
<1>4. ScriptTypes
  BY <1>1, <1>2, <1>3 DEF BootInv, TypeOK, ScriptTypes
<1>5. "core" \notin registered' => registered' = registered
  <2>1. CASE n = 2
    BY <1>2, <2>1, ScriptShape
  <2>2. CASE n # 2
    <3>1. n >= 3
      BY <2>2, ScriptShape
    <3>2. 2 \in DOMAIN Script /\ 2 < pc /\ pc # 0
      BY <3>1, ScriptShape
    <3>3. Done(Script[2])
      BY <3>2 DEF BootInv, Passed
    <3>. QED BY <1>2, <3>3, ScriptShape DEF Done
  <2>. QED BY <2>1, <2>2
<1>6. ScriptStep
  BY <1>1, <1>2, <1>3, <1>5 DEF BootInv, TypeOK, ScriptStep
<1>. QED BY <1>4, <1>6, ScriptTypesGive, ScriptStepKeepsRest DEF BootInv

LEMMA LaunchByNameTyped == ASSUME BootInv, LaunchByName PROVE TypeOK' /\ RestInv'
<1>. PICK n \in DOMAIN Script : pc = n /\ Script[n].op = "launch"
  BY DEF LaunchByName, At
<1>1. n \in Nat /\ n >= 3 /\ Script[n].job \in SystemJobs /\ Script[n].job \in Jobs
  BY ScriptShape, SystemJobsKnown
<1>2. tasks[Script[n].job] = 0 /\ tasks \in [Jobs -> {0, 1}]
  BY <1>1 DEF BootInv, Ahead, TypeOK
<1>3. /\ UNCHANGED <<build, coreVars, cliVars, apiVars, userVars>>
      /\ \/ /\ tasks' = [tasks EXCEPT ![Script[n].job] = @ + 1]
            /\ Script[n].job \in registered
            /\ Proceed
         \/ tasks' = tasks /\ Fail
  BY DEF LaunchByName, Job
<1>4. tasks' \in [Jobs -> {0, 1}]
  BY <1>1, <1>2, <1>3
<1>5. ScriptTypes
  BY <1>3, <1>4 DEF BootInv, TypeOK, ScriptTypes, coreVars, cliVars, apiVars, userVars, faultVars
<1>6. \A j \in Jobs : tasks'[j] = tasks[j] \/ (j = Script[n].job /\ j \in registered)
  BY <1>1, <1>2, <1>3
<1>7. ScriptStep
  BY <1>1, <1>3, <1>6, UserJobsApart
     DEF BootInv, TypeOK, ScriptStep, coreVars, cliVars, apiVars, userVars, faultVars
<1>. QED BY <1>5, <1>7, ScriptTypesGive, ScriptStepKeepsRest DEF BootInv

LEMMA CliInitTyped == ASSUME BootInv, CliInit PROVE TypeOK' /\ RestInv'
<1>1. /\ UNCHANGED <<build, coreVars, tasks, apiVars, userVars>>
      /\ pc \in DOMAIN Script
  BY DEF CliInit, At
<1>2. Proceed \/ Fail
  BY Zenon DEF CliInit
<1>3. is_init' \in BOOLEAN /\ uart_queue' \in BOOLEAN
  <2>1. is_init \in BOOLEAN /\ uart_queue \in BOOLEAN
    BY DEF BootInv, TypeOK
  <2>2. UNCHANGED cliVars => is_init' = is_init /\ uart_queue' = uart_queue
    BY DEF cliVars
  <2>. QED BY <2>1, <2>2, Zenon DEF CliInit
<1>4. ScriptTypes
  BY <1>1, <1>2, <1>3 DEF BootInv, TypeOK, ScriptTypes, coreVars, apiVars, userVars, faultVars
<1>5. ScriptStep
  BY <1>1, ScriptShape DEF BootInv, TypeOK, ScriptStep, coreVars, apiVars, userVars, faultVars
<1>. QED BY <1>4, <1>5, ScriptTypesGive, ScriptStepKeepsRest DEF BootInv

LEMMA InitDoneTyped == ASSUME BootInv, InitDone PROVE TypeOK' /\ RestInv'
<1>1. /\ UNCHANGED <<build, lock, mutexes, registered, tasks, is_init, uart_queue, inits, retried,
                     asked, faultVars, launched, entered>>
      /\ core_state' = "idle" /\ pc' = 0 /\ api_initialized' = TRUE
      /\ sched_run' = (sched_run \/ build.esp32)
  BY DEF InitDone, Initialized, cliVars, userVars, faultVars
<1>2. Script' = Script
  BY <1>1, SameScript
<1>3. {is_init', uart_queue', api_initialized', sched_run'} \subseteq BOOLEAN
  BY <1>1 DEF BootInv, TypeOK
<1>4. pc' \in 0..(Len(Script) + 1)
  BY <1>1, ScriptShape
<1>5. TypeOK'
  BY <1>1, <1>2, <1>3, <1>4 DEF BootInv, TypeOK, CoreStates, faultVars
<1>6. "core" \in registered
  <2>1. 2 \in DOMAIN Script /\ 2 < pc /\ pc # 0
    BY ScriptShape DEF InitDone
  <2>2. Done(Script[2])
    BY <2>1 DEF BootInv, Passed
  <2>. QED BY <2>2, ScriptShape DEF Done
<1>7. RestInv'
  BY <1>1, <1>6 DEF BootInv, RestInv, CoreFirst, TasksKnown, InitializedBy, LaunchedOnce, ApiFirst,
              FunctionsSeeApi
<1>. QED BY <1>5, <1>7

LEMMA JesInitTyped == ASSUME BootInv, JesInit PROVE TypeOK' /\ RestInv'
<1>1. /\ UNCHANGED <<build, core_state, lock, mutexes, registered, tasks, is_init, uart_queue,
                     asked, faultVars, launched, entered>>
      /\ inits' = inits + 1
      /\ retried' \in BOOLEAN
  BY DEF JesInit, coreVars, cliVars, userVars, faultVars
<1>2. \/ /\ pc' = 0 /\ api_initialized' = TRUE /\ sched_run' = (sched_run \/ build.esp32)
         /\ core_state = "idle"
      \/ pc' = 1 /\ UNCHANGED apiVars /\ core_state = "init"
  BY DEF BootInv, TypeOK, CoreStates, JesInit, AlreadyInitialized, Initialized
<1>3. Script' = Script
  BY <1>1, SameScript
<1>4. {is_init', uart_queue', api_initialized', sched_run'} \subseteq BOOLEAN
  BY <1>1, <1>2 DEF BootInv, TypeOK, apiVars
<1>5. pc' \in 0..(Len(Script) + 1)
  BY <1>2, ScriptShape
<1>6. TypeOK'
  BY <1>1, <1>3, <1>4, <1>5 DEF BootInv, TypeOK, faultVars
<1>7. CoreFirst' /\ TasksKnown' /\ LaunchedOnce'
  BY <1>1 DEF BootInv, CoreFirst, TasksKnown, LaunchedOnce
<1>8. CASE pc' = 0
  <2>1. api_initialized' /\ sched_run' = (sched_run \/ build.esp32) /\ core_state = "idle"
    BY <1>2, <1>8
  <2>2. InitializedBy'
    BY <1>1, <1>8, <2>1 DEF BootInv, InitializedBy
  <2>3. ApiFirst'
    BY <1>1, <2>1 DEF BootInv, ApiFirst, FunctionsSeeApi
  <2>. QED BY <1>6, <1>7, <2>2, <2>3 DEF RestInv
<1>9. CASE pc' = 1
  <2>1. api_initialized' = api_initialized /\ sched_run' = sched_run /\ ~api_initialized
    BY <1>2, <1>9 DEF BootInv, InitializedBy, apiVars
  <2>2. InitializedBy'
    BY <1>1, <2>1 DEF BootInv, InitializedBy
  <2>3. ApiFirst'
    BY <1>1, <2>1 DEF BootInv, ApiFirst, FunctionsSeeApi
  <2>. QED BY <1>6, <1>7, <2>2, <2>3 DEF RestInv
<1>. QED BY <1>2, <1>8, <1>9

(* What the application and the tasks do.                                  *)
UserStep ==
    \/ JesDispatch
    \/ \E j \in UserJobs :
        \/ JesRegisterJob(j)
        \/ JesLaunchJob(j)
        \/ CoreLaunch(j)
        \/ CoreRefuse(j)
        \/ RuntimeEnv(j)
    \/ CoreCloseSess
    \/ CliServer
    \/ CoreTimeout

LEMMA UserStepTyped == ASSUME BootInv, UserStep PROVE TypeOK' /\ RestInv' /\ Between
<1>1. CASE JesDispatch
  <2>1. UNCHANGED <<build, coreVars, tasks, cliVars, api_initialized, callVars, userVars>>
        /\ sched_run' = TRUE
    BY <1>1 DEF JesDispatch
  <2>2. TypeOK'
    BY <2>1, SameScript DEF BootInv, TypeOK, coreVars, cliVars, callVars, userVars, faultVars
  <2>3. RestInv' /\ Between
    BY <2>1 DEF BootInv, RestInv, Between, CoreFirst, TasksKnown, InitializedBy, LaunchedOnce,
                ApiFirst, FunctionsSeeApi, coreVars, cliVars, callVars, userVars, faultVars
  <2>. QED BY <2>2, <2>3
<1>2. ASSUME NEW j \in UserJobs, JesRegisterJob(j)
      PROVE  TypeOK' /\ RestInv' /\ Between
  <2>1. /\ UNCHANGED <<build, core_state, lock, mutexes, tasks, is_init, uart_queue, apiVars,
                       callVars, userVars>>
        /\ registered' = registered \cup {j} /\ api_initialized /\ j \in Jobs
    BY <1>2, UserJobsApart DEF JesRegisterJob, Guarded, cliVars
  <2>2. TypeOK'
    BY <2>1, SameScript DEF BootInv, TypeOK, apiVars, callVars, userVars, faultVars
  <2>3. CoreFirst'
    <3>1. "core" \in registered
      BY <2>1 DEF BootInv, InitializedBy
    <3>. QED BY <2>1, <3>1 DEF CoreFirst
  <2>4. RestInv' /\ Between
    BY <2>1, <2>3 DEF BootInv, RestInv, Between, TasksKnown, InitializedBy, LaunchedOnce,
                      ApiFirst, FunctionsSeeApi, apiVars, callVars, userVars, faultVars
  <2>. QED BY <2>2, <2>4
<1>3. ASSUME NEW j \in UserJobs, JesLaunchJob(j)
      PROVE  TypeOK' /\ RestInv' /\ Between
  <2>1. /\ UNCHANGED <<build, coreVars, cliVars, apiVars, callVars, faultVars, entered>>
        /\ launched' = launched \cup {j} /\ j \in registered /\ j \notin launched
        /\ api_initialized /\ j \in Jobs /\ j \notin SystemJobs
    BY <1>3, UserJobsApart DEF JesLaunchJob, Guarded
  <2>2. tasks[j] = 0 /\ j \notin asked /\ tasks \in [Jobs -> {0, 1}] /\ asked \subseteq UserJobs
    BY <2>1 DEF BootInv, TypeOK, LaunchedOnce
  <2>3. \/ asked' = asked \cup {j} /\ tasks' = tasks
        \/ asked' = asked /\ tasks' = [tasks EXCEPT ![j] = 1]
    BY <1>3, <2>1, <2>2 DEF JesLaunchJob, Started
  <2>4. TypeOK'
    BY <2>1, <2>2, <2>3, SameScript
       DEF BootInv, TypeOK, coreVars, cliVars, apiVars, callVars, faultVars
  <2>5. LaunchedOnce' /\ TasksKnown'
    BY <2>1, <2>2, <2>3, UserJobsApart DEF BootInv, LaunchedOnce, TasksKnown, coreVars
  <2>6. CoreFirst' /\ InitializedBy' /\ ApiFirst'
    BY <2>1 DEF BootInv, CoreFirst, InitializedBy, ApiFirst, FunctionsSeeApi, coreVars, apiVars,
                callVars
  <2>7. Between
    BY <2>1, <2>2, <2>3, SystemJobsKnown DEF Between, coreVars, cliVars, apiVars, callVars
  <2>. QED BY <2>4, <2>5, <2>6, <2>7 DEF RestInv
<1>4. ASSUME NEW j \in UserJobs, CoreLaunch(j) \/ CoreRefuse(j)
      PROVE  TypeOK' /\ RestInv' /\ Between
  <2>1. /\ UNCHANGED <<build, lock, mutexes, registered, cliVars, apiVars, callVars, events,
                       launched, entered>>
        /\ asked' = asked \ {j} /\ core_state' = "idle" /\ j \in asked /\ tasks["core"] > 0
        /\ j \in Jobs /\ j \notin SystemJobs
    BY <1>4, UserJobsApart DEF CoreLaunch, CoreRefuse, CoreReceive, CoreRuns
  <2>2. tasks[j] = 0 /\ tasks \in [Jobs -> {0, 1}] /\ "core" \in registered /\ j \in launched
    BY <2>1, SystemJobsKnown DEF BootInv, TypeOK, LaunchedOnce, TasksKnown
  <2>3. /\ tasks' \in {tasks, [tasks EXCEPT ![j] = 1]}
        /\ core_pc' \in {core_pc, "close"}
        /\ refused' \in {refused, refused \cup {j}}
    BY <1>4, <2>1, <2>2 DEF CoreLaunch, CoreRefuse
  <2>4. TypeOK'
    BY <2>1, <2>2, <2>3, SameScript
       DEF BootInv, TypeOK, CoreStates, cliVars, apiVars, callVars
  <2>5. LaunchedOnce'
    BY <2>1, <2>2, <2>3, UserJobsApart DEF BootInv, LaunchedOnce
  <2>6. TasksKnown'
    <3>1. j \in registered
      BY <2>2 DEF BootInv, LaunchedOnce
    <3>. QED BY <2>1, <2>2, <2>3, <3>1 DEF BootInv, TasksKnown
  <2>7. CoreFirst' /\ InitializedBy' /\ ApiFirst'
    BY <2>1, <2>2 DEF BootInv, CoreFirst, InitializedBy, ApiFirst, FunctionsSeeApi, apiVars,
                      callVars
  <2>8. Between
    BY <2>1, <2>2, <2>3, SystemJobsKnown DEF Between, cliVars, apiVars, callVars
  <2>. QED BY <2>4, <2>5, <2>6, <2>7, <2>8 DEF RestInv
<1>5. ASSUME NEW j \in UserJobs, RuntimeEnv(j)
      PROVE  TypeOK' /\ RestInv' /\ Between
  <2>1. /\ UNCHANGED <<build, coreVars, tasks, cliVars, apiVars, callVars, asked, faultVars, launched>>
        /\ entered' = entered \cup {j} /\ SchedulerRuns /\ tasks[j] > 0
    BY <1>5 DEF RuntimeEnv
  <2>2. api_initialized /\ sched_run
    BY <2>1 DEF BootInv, LaunchedOnce, ApiFirst, InitializedBy, SchedulerRuns
  <2>3. TypeOK'
    BY <2>1, SameScript DEF BootInv, TypeOK, coreVars, cliVars, apiVars, callVars, faultVars
  <2>4. RestInv' /\ Between
    BY <2>1, <2>2 DEF BootInv, RestInv, Between, CoreFirst, TasksKnown, InitializedBy,
                      LaunchedOnce, ApiFirst, FunctionsSeeApi, coreVars, cliVars, apiVars, callVars
  <2>. QED BY <2>3, <2>4
<1>6. CASE CoreTimeout
  <2>1. /\ UNCHANGED <<build, lock, mutexes, registered, tasks, cliVars, apiVars, callVars, userVars>>
        /\ core_state' = "idle" /\ tasks["core"] > 0
    BY <1>6 DEF CoreTimeout, CoreRuns
  <2>2. "core" \in registered
    BY <2>1, SystemJobsKnown DEF BootInv, TasksKnown
  <2>3. TypeOK'
    BY <2>1, SameScript DEF BootInv, TypeOK, CoreStates, cliVars, apiVars, callVars, userVars, faultVars
  <2>4. CoreFirst' /\ TasksKnown' /\ InitializedBy' /\ LaunchedOnce'
    BY <2>1, <2>2 DEF BootInv, CoreFirst, TasksKnown, InitializedBy, LaunchedOnce, apiVars,
                      callVars, userVars, faultVars
  <2>5. ApiFirst' /\ Between
    BY <2>1 DEF BootInv, Between, ApiFirst, FunctionsSeeApi, cliVars, apiVars, callVars, userVars, faultVars
  <2>. QED BY <2>3, <2>4, <2>5 DEF RestInv
<1>7. CASE CoreCloseSess \/ CliServer
  <2>1. UNCHANGED <<build, coreVars, tasks, cliVars, apiVars, callVars, asked, refused, launched,
                    entered>>
    BY <1>7 DEF CoreCloseSess, CliServer
  <2>2. core_pc' \in {core_pc, "loop"} /\ events' \in 0..UartSize
    BY <1>7, BootAssumption DEF BootInv, TypeOK, CoreCloseSess, CliServer, Room
  <2>3. TypeOK'
    BY <2>1, <2>2, SameScript DEF BootInv, TypeOK, coreVars, cliVars, apiVars, callVars
  <2>4. RestInv' /\ Between
    BY <2>1 DEF BootInv, RestInv, Between, CoreFirst, TasksKnown, InitializedBy, LaunchedOnce,
                ApiFirst, FunctionsSeeApi, coreVars, cliVars, apiVars, callVars
  <2>. QED BY <2>3, <2>4
<1>. QED BY <1>1, <1>2, <1>3, <1>4, <1>5, <1>6, <1>7 DEF UserStep

-----------------------------------------------------------------------------
(* The invariant.                                                          *)

LEMMA BootInvInductive == BootInv /\ [Next]_vars => BootInv'
<1>. SUFFICES ASSUME BootInv, [Next]_vars PROVE BootInv'
  OBVIOUS
<1>1. CASE UNCHANGED vars
  <2>1. UNCHANGED <<build, core_state, lock, mutexes, registered, tasks, is_init, uart_queue,
                    api_initialized, sched_run, pc, inits, retried, asked, faultVars, launched, entered>>
    BY <1>1 DEF vars, coreVars, cliVars, apiVars, callVars, userVars, faultVars
  <2>2. TypeOK'
    BY <2>1, SameScript DEF BootInv, TypeOK, faultVars
  <2>3. CoreFirst' /\ TasksKnown' /\ InitializedBy' /\ LaunchedOnce'
    BY <2>1 DEF BootInv, CoreFirst, TasksKnown, InitializedBy, LaunchedOnce
  <2>4. ApiFirst' /\ Between
    BY <2>1 DEF BootInv, Between, ApiFirst, FunctionsSeeApi
  <2>. QED BY <2>2, <2>3, <2>4, BetweenKeeps DEF BootInv
<1>2. CASE JesInit
  BY <1>2, JesInitKeeps, JesInitTyped DEF BootInv, RestInv
<1>3. CASE CreateLock
  BY <1>3, CreateLockKeeps, CreateLockTyped DEF BootInv, RestInv
<1>4. CASE RegisterNew \/ RegisterNoMemory \/ RegisterDuplicate
  BY <1>4, RegisterKeeps, RegisterTyped DEF BootInv, RestInv
<1>5. CASE LaunchByName
  BY <1>5, LaunchByNameKeeps, LaunchByNameTyped DEF BootInv, RestInv
<1>6. CASE CliInit
  BY <1>6, CliInitKeeps, CliInitTyped DEF BootInv, RestInv
<1>7. CASE InitDone
  BY <1>7, InitDoneKeeps, InitDoneTyped DEF BootInv, RestInv
<1>8. CASE UserStep
  BY <1>8, BetweenKeeps, UserStepTyped DEF BootInv, RestInv
<1>. QED BY <1>1, <1>2, <1>3, <1>4, <1>5, <1>6, <1>7, <1>8 DEF Next, InitStep, UserStep

(* BootInv holds in every reachable state.                                 *)
THEOREM BootInvariant == Spec => []BootInv
BY InitBoot, BootInvInductive, PTL DEF Spec

(* The state is well typed, and whatever fails and however often jes_init  *)
(* is repeated, no job is ever given a second task.                        *)
THEOREM NoSecondTask == Spec => []TypeOK
<1>1. BootInv => TypeOK
  BY DEF BootInv
<1>. QED BY <1>1, BootInvariant, PTL

(* A jes_init that returned no error, and repeats none that left jobs      *)
(* behind, has left the lock, the jobs and the tasks of its build there.   *)
THEOREM InitIsComplete == Spec => []InitComplete
<1>1. BootInv => InitComplete
  BY DEF BootInv
<1>. QED BY <1>1, BootInvariant, PTL

(* No function of the application runs before the API is ready for it.     *)
THEOREM ApiReadyForFunctions == Spec => []FunctionsSeeApi
<1>1. BootInv => FunctionsSeeApi
  BY DEF BootInv, ApiFirst
<1>. QED BY <1>1, BootInvariant, PTL

(* Calling jes_init again after it has succeeded leaves the lock, the      *)
(* system's jobs and their tasks as they are.                              *)
THEOREM SecondInitHarmless == Spec => InitOnce
<1>1. BootInv /\ [Next]_vars => [api_initialized =>
        /\ mutexes' = mutexes
        /\ is_init' = is_init
        /\ api_initialized'
        /\ \A j \in SystemJobs : tasks'[j] = tasks[j]
                                 /\ (j \in registered' <=> j \in registered)]_vars
  <2>. SUFFICES ASSUME BootInv, Next, api_initialized
       PROVE  /\ mutexes' = mutexes
              /\ is_init' = is_init
              /\ api_initialized'
              /\ \A j \in SystemJobs : tasks'[j] = tasks[j]
                                       /\ (j \in registered' <=> j \in registered)
    OBVIOUS
  <2>1. pc = 0 /\ core_state = "idle"
    BY DEF BootInv, InitializedBy
  <2>2. ~InitStep
    BY <2>1, ScriptShape
       DEF InitStep, CreateLock, RegisterNew, RegisterNoMemory, RegisterDuplicate, LaunchByName,
           CliInit, InitDone, At
  <2>3. CASE JesInit
    BY <2>1, <2>3 DEF JesInit, AlreadyInitialized, Initialized, coreVars, cliVars
  <2>4. CASE UserStep
    <3>1. Between
      BY <2>4, UserStepTyped
    <3>2. mutexes' = mutexes
      BY <2>4 DEF UserStep, JesDispatch, JesRegisterJob, JesLaunchJob, CoreLaunch, CoreRefuse,
                  CoreReceive, CoreCloseSess, CliServer, RuntimeEnv, CoreTimeout, coreVars
    <3>3. is_init' = is_init /\ api_initialized'
      BY <3>1 DEF Between
    <3>4. \A j \in SystemJobs : tasks'[j] = tasks[j] /\ (j \in registered' <=> j \in registered)
      BY <3>1, UserJobsApart DEF Between
    <3>. QED BY <3>2, <3>3, <3>4
  <2>. QED BY <2>2, <2>3, <2>4 DEF Next, UserStep
<1>. QED BY <1>1, BootInvariant, PTL DEF Spec, InitOnce

=============================================================================
