------------------------------- MODULE JobRun --------------------------------
(***************************************************************************)
(* The runs of jobs as others see them: jes_notify_job and                 *)
(* jes_wait_for_notification, the parameter a job keeps for others to      *)
(* read, and the time stamps that the bench job reads.                     *)
(*                                                                         *)
(* A job has one run (task) at a time; runs that overlap are Dispatch's.   *)
(* Notifications are numbered in the order they are sent, 0 is NULL.       *)
(*                                                                         *)
(* Nothing in the code keeps a run from ending between the test of         *)
(* instances and the use of the handle, so this is an application that     *)
(* sees to it itself (Due).  Loops may be notified at any time.  A run of  *)
(* another job gets as many notifications as it makes waits, never NULL,   *)
(* and publishes each one it has taken as its parameter; the application   *)
(* counts what it still owes the run, sends the next one when the last has *)
(* been published, and lets one notifier at a time do that.                *)
(*                                                                         *)
(* A handle is the number of the run it names, 0 for NULL.                 *)
(***************************************************************************)
EXTENDS Naturals

CONSTANTS
    Jobs,
    Loops,          \* jobs whose function never returns
    Notifiers,      \* tasks and interrupt handlers that notify
    Waits,          \* waits of a run that is no loop
    Period,         \* the tick counter wraps: 2^32
    MaxRuns,        \* bound: runs of a job
    MaxSent         \* bound: notifications sent

ASSUME JobRunAssumption ==
    /\ Loops \subseteq Jobs
    /\ Waits \in Nat
    /\ Period \in Nat \ {0}
    /\ MaxRuns \in Nat
    /\ MaxSent \in Nat

VARIABLES
    pc,             \* pc[j]: where the run of j is, "idle": there is none
    run,            \* run[j]: runs of j so far, the number of its last one
    left,           \* left[j]: waits the run has to make before it returns
    instances,
    handle,
    note,           \* note[j]: notification value of the task of j
    param,
    timing_begin,
    timing_end,
    now,            \* the tick counter
    notifier,       \* the call of jes_notify_job a notifier is in
    owed,           \* owed[j]: what the application has yet to send to the run
    bench,          \* the run of the bench job
    sent,           \* notifications sent so far
    lastSent,       \* history: the last notification sent to j
    took,           \* history: the last one other than NULL j has taken
    elapsed,        \* history: ticks of the last run of j, mod Period
    wild            \* history: a notification went to no task

runVars == <<pc, run, left>>
timeVars == <<timing_begin, timing_end, now, elapsed>>
noteVars == <<note, sent, lastSent, took, wild>>
appVars == <<notifier, owed>>
vars == <<runVars, instances, handle, param, timeVars, appVars, bench, noteVars>>

Finite == Jobs \ Loops

NoCall == [pc |-> "idle"]

Init ==
    /\ pc = [j \in Jobs |-> "idle"]
    /\ run = [j \in Jobs |-> 0]
    /\ left = [j \in Jobs |-> 0]
    /\ instances = [j \in Jobs |-> 0]
    /\ handle = [j \in Jobs |-> 0]
    /\ note = [j \in Jobs |-> 0]
    /\ param = [j \in Jobs |-> 0]
    /\ timing_begin = [j \in Jobs |-> 0]
    /\ timing_end = [j \in Jobs |-> 0]
    /\ now \in 0..(Period - 1)
    /\ notifier = [n \in Notifiers |-> NoCall]
    /\ owed = [j \in Jobs |-> 0]
    /\ bench = NoCall
    /\ sent = 0
    /\ lastSent = [j \in Jobs |-> 0]
    /\ took = [j \in Jobs |-> 0]
    /\ elapsed = [j \in Jobs |-> 0]
    /\ wild = FALSE

-----------------------------------------------------------------------------
(* A run: __job_launch_job and __job_runtime_env.                          *)

To(j, next) == pc' = [pc EXCEPT ![j] = next] /\ UNCHANGED <<run, left>>

(* The task is created with no notification pending.                       *)
Launch(j) ==
    /\ pc[j] = "idle"
    /\ run[j] < MaxRuns
    /\ pc' = [pc EXCEPT ![j] = "launched"]
    /\ run' = [run EXCEPT ![j] = @ + 1]
    /\ left' = [left EXCEPT ![j] = IF j \in Loops THEN 0 ELSE Waits]
    /\ handle' = [handle EXCEPT ![j] = run'[j]]
    /\ note' = [note EXCEPT ![j] = 0]
    /\ owed' = [owed EXCEPT ![j] = left'[j]]
    /\ UNCHANGED <<instances, param, timeVars, notifier, bench, sent, lastSent, took, wild>>

(* A bench of j that is going on has been disturbed by a new run.          *)
Disturbed(j) == bench.pc # "idle" /\ bench.job = j

Count(j) ==
    /\ pc[j] = "launched"
    /\ To(j, "running")
    /\ instances' = [instances EXCEPT ![j] = @ + 1]
    /\ IF j \in Loops THEN UNCHANGED <<timing_begin, elapsed>>
       ELSE /\ timing_begin' = [timing_begin EXCEPT ![j] = now]
            /\ elapsed' = [elapsed EXCEPT ![j] = 0]
    /\ bench' = IF Disturbed(j) THEN [bench EXCEPT !.clean = FALSE] ELSE bench
    /\ UNCHANGED <<handle, param, timing_end, now, appVars, noteVars>>

(* ulTaskNotifyTake(pdTRUE, portMAX_DELAY) gives the value out and clears  *)
(* it, once it is not 0 or a notification has woken the task.              *)
Decremented(v) == IF v = 0 THEN 0 ELSE v - 1
Cleared(v) == 0
Take(j) ==
    /\ note' = [note EXCEPT ![j] = Cleared(@)]
    /\ took' = [took EXCEPT ![j] = IF note[j] = 0 THEN @ ELSE note[j]]
    /\ pc' = [pc EXCEPT ![j] = IF note[j] = 0 THEN "running" ELSE "took"]
    /\ left' = [left EXCEPT ![j] = IF @ = 0 THEN 0 ELSE @ - 1]
    /\ UNCHANGED <<run, sent, lastSent, wild>>

(* jes_wait_for_notification: a run waits as often as it has to, a loop    *)
(* for ever.                                                               *)
Wait(j) ==
    /\ pc[j] = "running"
    /\ j \in Loops \/ left[j] > 0
    /\ \/ note[j] # 0 /\ Take(j)
       \/ note[j] = 0 /\ To(j, "waiting") /\ UNCHANGED noteVars
    /\ UNCHANGED <<instances, handle, param, timeVars, appVars, bench>>

Wake(j) ==
    /\ pc[j] = "woken"
    /\ Take(j)
    /\ UNCHANGED <<instances, handle, param, timeVars, appVars, bench>>

(* jes_job_set_param with what was taken; a run whose handle is not that   *)
(* of its job gets e_err_is_zero.                                          *)
JobSetParam(j) ==
    /\ pc[j] = "took"
    /\ param' = IF handle[j] = run[j] THEN [param EXCEPT ![j] = took[j]] ELSE param
    /\ To(j, "running")
    /\ UNCHANGED <<instances, handle, timeVars, appVars, bench, noteVars>>

Return(j) ==
    /\ pc[j] = "running"
    /\ j \in Finite
    /\ left[j] = 0
    /\ timing_end' = [timing_end EXCEPT ![j] = now]
    /\ To(j, "returned")
    /\ UNCHANGED <<instances, handle, param, timing_begin, now, elapsed, appVars, bench, noteVars>>

Uncount(j) ==
    /\ pc[j] = "returned"
    /\ instances' = [instances EXCEPT ![j] = @ - 1]
    /\ To(j, "uncounted")
    /\ UNCHANGED <<handle, param, timeVars, appVars, bench, noteVars>>

Exit(j) ==
    /\ pc[j] = "uncounted"
    /\ handle' = [handle EXCEPT ![j] = 0]
    /\ To(j, "idle")
    /\ UNCHANGED <<instances, param, timeVars, appVars, bench, noteVars>>

RunStep(j) ==
    Count(j) \/ Wait(j) \/ Wake(j) \/ JobSetParam(j) \/ Return(j) \/ Uncount(j) \/ Exit(j)

-----------------------------------------------------------------------------
(* jes_notify_job and jes_notify_job_ISR.                                  *)

(* What the application asks itself before it notifies a run that is no    *)
(* loop, an assumption about the application.                              *)
Due(j) ==
    /\ owed[j] > 0
    /\ param[j] = lastSent[j]
    /\ \A n \in Notifiers : notifier[n] # NoCall => notifier[n].job # j

(* A job that does not run is not notified.                                *)
NotTested(j) == TRUE
Runs(j) == instances[j] # 0
NotifyTest(n, j, null) ==
    /\ notifier[n] = NoCall
    /\ Runs(j)
    /\ j \in Loops \/ (Due(j) /\ ~null)
    /\ notifier' = [notifier EXCEPT ![n] = [pc |-> "tested", job |-> j, null |-> null]]
    /\ owed' = IF j \in Loops THEN owed ELSE [owed EXCEPT ![j] = @ - 1]
    /\ UNCHANGED <<runVars, instances, handle, param, timeVars, bench, noteVars>>

(* xTaskNotify(handle, value, eSetValueWithOverwrite) wakes a task that    *)
(* waits, with a value of NULL too.                                        *)
NotWoken(at) == at
Woken(at) == IF at = "waiting" THEN "woken" ELSE at
NotifySend(n) ==
    /\ notifier[n] # NoCall
    /\ sent < MaxSent
    /\ notifier' = [notifier EXCEPT ![n] = NoCall]
    /\ sent' = sent + 1
    /\ LET j == notifier[n].job
           v == IF notifier[n].null THEN 0 ELSE sent + 1
       IN  IF handle[j] = run[j] /\ pc[j] # "idle"
           THEN /\ note' = [note EXCEPT ![j] = v]
                /\ lastSent' = [lastSent EXCEPT ![j] = v]
                /\ pc' = [pc EXCEPT ![j] = Woken(@)]
                /\ UNCHANGED wild
           ELSE wild' = TRUE /\ UNCHANGED <<note, lastSent, pc>>
    /\ UNCHANGED <<run, left, instances, handle, param, timeVars, owed, bench, took>>

-----------------------------------------------------------------------------
(* Time, and __base_job_bench.                                             *)

Measured(j) == j \in Finite /\ pc[j] \in {"running", "waiting", "woken", "took"}

Tick ==
    /\ now' = (now + 1) % Period
    /\ elapsed' = [j \in Jobs |-> IF Measured(j) THEN (elapsed[j] + 1) % Period ELSE elapsed[j]]
    /\ UNCHANGED <<runVars, instances, handle, param, timing_begin, timing_end, appVars, bench, noteVars>>

(* A time stamp of 0 says that the job has not yet run or is a loop.       *)
BenchTest(j) ==
    /\ bench = NoCall
    /\ timing_end[j] # 0
    /\ bench' = [pc |-> "end", job |-> j, clean |-> ~Measured(j)]
    /\ UNCHANGED <<runVars, instances, handle, param, timeVars, appVars, noteVars>>

BenchReadEnd ==
    /\ bench.pc = "end"
    /\ bench' = [pc |-> "begin", job |-> bench.job, clean |-> bench.clean,
                 end |-> timing_end[bench.job]]
    /\ UNCHANGED <<runVars, instances, handle, param, timeVars, appVars, noteVars>>

(* __job_get_timing: the difference, in 32 bits.                           *)
Saturated(end, begin) == IF end < begin THEN 0 ELSE end - begin
Difference(end, begin) == (end + Period - begin) % Period
(* The number printed is one more than that, in 32 bits again, with "<"    *)
(* before it if the difference was 0.                                      *)
OneMoreUnwrapped(timing) == timing + 1
OneMore(timing) == (timing + 1) % Period
BenchReadBegin ==
    /\ bench.pc = "begin"
    /\ LET timing == Difference(bench.end, timing_begin[bench.job]) IN
       bench' = [pc |-> "print", job |-> bench.job, clean |-> bench.clean,
                 less |-> timing = 0, ms |-> OneMore(timing)]
    /\ UNCHANGED <<runVars, instances, handle, param, timeVars, appVars, noteVars>>

BenchPrint ==
    /\ bench.pc = "print"
    /\ bench' = NoCall
    /\ UNCHANGED <<runVars, instances, handle, param, timeVars, appVars, noteVars>>

-----------------------------------------------------------------------------
Next ==
    \/ \E j \in Jobs : Launch(j) \/ RunStep(j) \/ BenchTest(j)
    \/ \E n \in Notifiers :
        (\E j \in Jobs, null \in BOOLEAN : NotifyTest(n, j, null)) \/ NotifySend(n)
    \/ Tick
    \/ BenchReadEnd \/ BenchReadBegin \/ BenchPrint

Spec == Init /\ [][Next]_vars

(* The scheduler runs every task that can run.  Nobody has to launch a job *)
(* or notify one.                                                          *)
Fairness ==
    /\ \A j \in Jobs : WF_vars(RunStep(j))
    /\ \A n \in Notifiers : WF_vars(NotifySend(n))

FairSpec == Spec /\ Fairness

-----------------------------------------------------------------------------
(* Properties.                                                             *)

RunPcs == {"idle", "launched", "running", "waiting", "woken", "took", "returned", "uncounted"}

Stamps == 0..(Period - 1)

(* Every variable has its type; time stamps stay within their width.       *)
TypeOK ==
    /\ pc \in [Jobs -> RunPcs]
    /\ run \in [Jobs -> Nat]
    /\ {left, owed} \subseteq [Jobs -> 0..Waits]
    /\ instances \in [Jobs -> {0, 1}]
    /\ handle \in [Jobs -> Nat]
    /\ {note, param, lastSent, took} \subseteq [Jobs -> 0..sent]
    /\ {timing_begin, timing_end, elapsed} \subseteq [Jobs -> Stamps]
    /\ now \in Stamps
    /\ notifier \in [Notifiers -> {NoCall} \cup [pc : {"tested"}, job : Jobs, null : BOOLEAN]]
    /\ bench \in {NoCall} \cup [pc : {"end"}, job : Jobs, clean : BOOLEAN]
                  \cup [pc : {"begin"}, job : Jobs, clean : BOOLEAN, end : Stamps]
                  \cup [pc : {"print"}, job : Jobs, clean : BOOLEAN, less : BOOLEAN, ms : Stamps]
    /\ sent \in Nat
    /\ wild \in BOOLEAN

(* A notification goes to a task that exists, although the test of         *)
(* instances and the use of the handle are apart.                          *)
NotificationReachesRun == ~wild

(* What a run takes is the last notification sent to its job, and none is  *)
(* taken twice or after a later one.                                       *)
TakesLatest ==
    [][\A j \in Jobs : took'[j] # took[j] => took'[j] = lastSent[j] /\ took'[j] > took[j]]_vars

(* A notification that nothing replaces is taken, whether it was sent      *)
(* before or during the wait.                                              *)
NotificationTaken ==
    \A j \in Jobs : \A v \in 1..MaxSent : lastSent[j] = v ~> took[j] = v \/ lastSent[j] # v

(* A bench of a job that does not run meanwhile prints a time in which the *)
(* last run was over: its stamps are rounded down, so a run of e ticks     *)
(* took less than e + 1, which is printed, and "<" says that no tick at    *)
(* all was seen.  It does so also when the counter wrapped during the run; *)
(* only a run as long as a whole round of the counter is printed as 0.     *)
BenchTrue ==
    bench.pc = "print" /\ bench.clean =>
        LET e == elapsed[bench.job] IN
        /\ bench.less <=> e = 0
        /\ e + 1 < Period => bench.ms = e + 1

=============================================================================
