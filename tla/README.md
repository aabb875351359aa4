# jescore: models and proofs

jescore is a small job dispatcher on top of FreeRTOS (STM32 and ESP32). An
application registers *jobs* (a name, a function, flags); jobs are launched
through an API or by typing their name into a serial terminal; a *core job*
takes the requests one at a time and starts a task, the *runtime environment*,
for each. This directory holds TLA+ models of that code, TLC runs on small
instances, and TLAPS proofs for every value of the constants.

Paths below are relative to the repository, `src/lib/` is abbreviated `lib/`.

## 1. Inventory of the system

| Part | State | Operations | Interacts with |
|---|---|---|---|
| Launch pipeline: `lib/core/core.c` (`__core_job`, `__core_notify`), `lib/job_driver/job_driver.c` (`__job_launch_job*`, `__job_runtime_env`), `lib/jescore_api/jescore_api.c` (`jes_launch_job*`) | notification queue of the core (4 pointers to jobs), and per job: `instances` (uint8_t), `handle`, `caller`, `error`, `args` | launch, launch with arguments, receive and start, count, run, uncount, delete the task | API clients and the CLI server produce, the core consumes; everybody shares the fields of a job without a lock |
| Job list: `job_driver.c` (`__job_register_job`, `__job_unregister_job`, `__job_get_job_by_*`) | singly linked list `core.job_list`, mutex `core.lock` | insert, find and unlink (two critical sections), look up, walk without the lock (`help`, `stats`, `__core_error_get_any`) | every other part looks jobs up |
| Core log: `core.c` (`__core_add_to_log_auto`, `__core_read_from_log_next`, `__core_log_printer`) | ring `core.log`, `log_write`, `log_read` | log an entry, print with `logp` | every registration, launch, end and fault logs |
| CLI server and terminal session: `lib/cli/cli.c` | `queue_uart` (5 events on STM32), the line buffer | receive an event, parse, ask the core, reprint the header | UART interrupt, environments and the core's error handler produce; the CLI server produces for the core |
| UART driver: `lib/unified/uart_unif.c` | `uart_buf_dma`, `uart_buf_sw` | receive callback (interrupt), read, flush | shares the buffer with the CLI server |
| Notifications: `job_driver.c` (`__job_notify_generic`, `__job_notify_generic_take`) | task notification value, `handle`, `instances` | notify, notify from an interrupt, wait | environments |
| Initialisation: `core.c` (`__core_init`), `cli.c` (`__cli_init`), `jescore_api.c` (`jes_init`) | `core.state`, `api_initialized`, `sched_run`, `is_init` | init, repeated init | the running core writes `core.state` |
| Arguments and parameters: `jescore_api.c` (`jes_job_arg_next`), `job_driver.c` (`__job_set_args`, `__job_copy_str`) | `args`, `param`, a static tokenizer position | set, get, next token | environments |
| Base jobs and timing: `lib/base_jobs/base_jobs.c` | `timing_begin`, `timing_end` | help, stats, echo, bench | walk the list, read jobs |
| The rest: delays, name and error constants, ESP32/Arduino wrappers, board configuration, build scripts, examples | none that is modelled | | |

What makes this code hard: tasks preempt each other at any point (and run in
parallel on a two-core ESP32), most fields of a job are shared without a lock,
a request is only a pointer to a job, two bounded blocking queues form a cycle,
an interrupt overwrites a buffer, and jobs are freed while others may hold
pointers to them. What should nevertheless hold, per part:

* Launch pipeline: an accepted request is answered once and in order; singletons
  run alone; `instances` counts; a handle names a live task of its job; a run
  sees the arguments it was asked for; nobody uses a freed job; nothing waits
  for ever; the core's own jobs are not launched or removed by users.
* Job list: a set of names, never broken, never holding a freed cell, no job
  lost; every call that takes the lock returns.
* Log: always the last entries; `logp` prints them in order.
* Terminal: one header per line, every line answered, lines worked on as typed.
* Reports: `help` and `stats` print every job they should, once.
* Start-up: a `jes_init` that succeeds has set everything up and a further one
  changes nothing; what was launched runs once the scheduler does, or is refused.
* Notifications: one reaches a task that exists, the last one is the one taken,
  and it is taken, whether it was sent before the wait or during it.
* Arguments: a job reads the words that were typed or given for it.
* Timing: bench prints a time the last run stayed below, also when the clock
  wrapped.

`PROJECT.json` lists every hazard at its line.

## 2. Modules

| Module | Models | Role |
|---|---|---|
| `LaunchService` | | abstract: what a launch request may expect |
| `Dispatch` | `core.c`, `job_driver.c`, `jescore_api.c`, `cli.c`, the receive interrupt of `uart_unif.c` | the launch pipeline, every unsynchronised access a step |
| `MCDispatch` | | instances for TLC |
| `DispatchProofs` | | types, handles, core jobs, counters, and that `Dispatch` implements `LaunchService`: proofs |
| `DispatchPacedProofs` | | what clients that wait for their launches may rely on: proofs |
| `JobRegistry` | | abstract: a set of names |
| `JobList`, `MCJobList` | `job_driver.c` 7-152, `core.c` 150-160, walks of `base_jobs.c` | the linked list, the lock, the heap |
| `JobListProofs` | | proofs about the list, the walks and the registry |
| `CoreLog`, `MCCoreLog` | `core.c` 169-243 | the log ring and its printer |
| `CoreLogProofs` | | proofs about the ring and the printer |
| `Boot`, `MCBoot` | `core.c` 8-65, `cli.c` 76-85, `jescore_api.c` 12-61, `uart_unif.c` 8-36 and 160-167 | start-up |
| `BootProofs` | | proofs about start-up |
| `JobRun`, `MCJobRun` | `job_driver.c` 155-174, 204-241, 256-299 and 319-344, `jescore_api.c` 182-201, `base_jobs.c` 105-128 | notifications and the time stamps of a run |
| `JobRunProofs` | | proofs about them |
| `CommandLine`, `MCCommandLine` | `cli.c` 28-73 and 113-161, `job_driver.c` 244-310, `jescore_api.c` 54-136 | from a line typed to the words a job reads |
| `CommandLineProofs` | | proofs about strings, buffers, the split and the tokenizer |
| `CliSession`, `MCCliSession` | `cli.c`, `uart_unif.c` 83-183, `core.c` 70-139 and 247-282, `job_driver.c` 204-241 | the terminal session around the two queues |
| `CliSessionProofs` | | proofs about the queues, the headers and the lines |

### Dispatch

A client call is `JesLaunchJob` (tests of the API and of
`__job_launch_job_core`), `JobLaunchJobCore` (writes `args` and `caller` of the
job) and `CoreNotify` (blocking `xQueueSend`). The CLI server is
`CliServerCommand`, `CliServerFill` and `CoreNotify`; an overlong line is
`CliServerOverflow`, `CliServerTooLong`. The core is `CoreJobReceive` /
`CoreJobTimeout`, then `CoreJobUnknown`, `CoreJobStoredError`, `CoreJobRefuse`
or `CoreJobLaunch`, then `CoreJobRecord` (`pj->error = ...`, after the new task
may have run), `CoreJobReport` (the second test of `pj->error`) and
`CoreJobClear`. A refusal and an unknown name go on to `CoreCloseSess`: the
blocking send to `queue_uart` at the end of `__core_err_handler_inline`. Its
other producers are the interrupt (`RxEventCallback`, which drops what finds no
room) and the environments of jobs the CLI has launched
(`RuntimeEnvTestsCaller`, `RuntimeEnvCloseSess`); its consumer is the CLI server,
which prints the header (`CliServerHeader`), takes a command or, on overflow,
empties it. With JES_DISABLE_CLI (`CliServers = {}`) the queue does not exist
and nobody gets past the send. An environment is `RuntimeEnvEnter` and
`RuntimeEnvCount` (the read and the write of `instances++`), `JesThrowError`
while the function runs, `RuntimeEnvReturn` and `RuntimeEnvUncount`
(`instances--`), `RuntimeEnvExit` (`handle = NULL`, `vTaskDelete`).
`JesUnregisterJob` and `JobUnregisterJob` are the two halves of unregistration.
A request in the model carries who made it, its number and its arguments; this
is history, the code's queue holds only the pointer, and no guard reads it
except `Settled`, an assumption about the application that nothing in the
program enforces. `torn` is history too: the jobs whose counter two
environments had in hand at once.

Abstracted: `core.state` (nobody but `jes_init` reads it), the contents of
arguments, what the CLI server prints and reads (that is `CliSession`), the log
(`CoreLog`), the list itself (`JobList`); a released job keeps its last values,
and `NoFreedJobInUse` says who would still read them. That `__job_launch_job`
writes back the caller it was given (`job_driver.c:158`) is one step with its
tests. A task creation fails
exactly when the heap (`Envs`) is full.

### JobList

Cells of a heap with a name and a next pointer. A critical section is one step
guarded by the lock, except that `RegisterDuplicate` leaves the section with
the lock kept, as the `return` inside `WITH_CORE_LOCK` does
(`job_driver.c:60`). Unregistration is `UnregisterFind` (first section: the
cell and the pointer to it), `UnregisterTest` or `UnregisterProhibited`
(`instances`, outside the lock and abstracted to a choice), `UnregisterUnlink`
(second section) and `UnregisterFree`. `WalkStart`, `WalkPrint`, `WalkNext` and
`WalkReturn` are the walks without the lock: `help`, `stats` with no argument,
`-a` and `-aa`, which print a row for each job whose role they show, and
`__core_error_get_any`, which stops at a job with an error (a choice here).
`Chain` is the least set of cells closed under the next pointer, which is what
the loops of the code visit when they end, and `Found` the matching cell from
which the other matches are met, the one the loop stops at. The allocation
failures of `__job_register_job` change nothing and are left out, and so are
calls before `jes_init`. `MayAllocate` and `MayRemove` are the rule that a
careful application keeps to (`Careful`): one removal at a time, of a job whose
registration has returned, and the newest job of the list is removed only while
nobody registers. Everything else may come between the two sections of a removal.

### CoreLog

`AddToLogAuto` is `__core_add_to_log_auto`; entries are numbers in the order of
logging. `logp` is its environment's launch entry, one discarded read, LogLen
rows, and the environment's finish entry, and anybody may log in between.

### CliSession

`RxEventCallback` is the receive interrupt of STM32: it copies the line into the
one shared buffer and sends an event, dropped when the queue is full. `Read`
gives the buffer's content at the time of reading: when another line has come in
since the event, the CLI server gets that line or, as the event's length is the
old one, a mutilated line, taken to name no job. `ServerOverflow` flushes and
resets the queue. `ServerNotify`, `CoreCloseSess`, `EnvCloseFirst` and
`EnvClose` are the blocking sends. The instance counter is one step here, its
race is `Dispatch`'s subject; a refusal sets the error of the job and a thrown
error stays, as in the code.

### Boot

`__core_init` is a script of steps (`CoreScript` with JES_DISABLE_CLI, else
`FullScript`), and `pc` is the step a call is at. Every step may fail: no memory
for the mutex (`CreateLock`), for a job (`RegisterNoMemory`) or a task
(`LaunchByName`), no UART (`CliInit`). A failure ends the call and undoes
nothing, and `RegisterDuplicate` keeps the lock as in `JobList`. On ESP32 the
scheduler runs already, and the core's loop writes `core.state` whenever it
likes (`CoreTimeout`, `CoreReceive`); on STM32 nothing runs before
`JesDispatch`. `JesLaunchJob` starts the task itself or asks the core.
`jes_register_and_launch_job` is the one call after the other. A job of the
application is launched once here, and launches that time out or overlap are
`Dispatch`'s. A task creation may fail at any time: the direct launch returns
the error, the core refuses (`CoreRefuse`) and then closes the session
(`CoreCloseSess`), which needs `queue_uart`. A build with JES_DISABLE_CLI has
none, nor has an STM32 that found no memory for it, and nobody empties it where
the CLI server was not started: there the core stops at its first refusal for
good (`CoreStopped`), and no later job it accepts runs.

### JobRun

A job has one run at a time, `Launch` to `Exit`. `NotifyTest` (the test of
`instances`) and `NotifySend` (`xTaskNotify` with the handle, which overwrites
the value and wakes a waiting task) are apart, for the task and the interrupt
variant alike. `Wait` and `Wake` are `ulTaskNotifyTake` with `pdTRUE`.
`JobSetParam` publishes what was taken, as the jobs in the repository's tests do.
`BenchTest`, `BenchReadEnd`, `BenchReadBegin` and `BenchPrint` are the reads of
`__base_job_bench` and `__job_get_timing`; what is printed is the difference plus
one, with a `<` if the difference is 0. `Tick` moves the clock, modulo
`Period`. Notification values are numbered in the order they are sent so that a
property can tell them apart. The application counts in `owed` what it has yet to
send to a run that is no loop, and `Due` is the question it asks itself first:
something is owed, the last notification has been published in the parameter,
and nobody else is notifying this job. It reads nothing an application could not
read, and it is an assumption: no line of the program asks it.

### CommandLine

Buffers are sequences of characters of their full length, with positions instead
of pointers. `ServerCommand` is the whole of `cli_server` for one line:
`Stripped` and `Clean` are the two halves of `__cli_sanitize_input`, `Split` is
`__cli_cmd_arg_split`, `Cut` the size given to `snprintf`. `JesJobArgNext` is
`jes_job_arg_next` with its static `input` and with `strtok` and the place it
keeps (`saved`). What a string says is defined apart from how the code finds it:
its words begin at `Starts`, and `AreWordsOf` says that a sequence holds all of
them in their order. `Saying` is the name and the argument string of a line, and
the history `given` is the string a job should find in `args`: what was typed or
given last, and after it has been read the first word of that (`Kept`), since
strtok leaves a NUL behind it. A line that says more than the field holds is cut
in the middle of a word (`FirstChars`). `CommandLineAssumption` and
`LinesAssumption` say of which characters names, arguments and lines consist.

## 3. Runs

| Run | Instance | Shows |
|---|---|---|
| `dispatch_core` | 1 client without any pacing that also asks for the core job, a job that throws and a loop, the CLI server typing every command or overflowing, 2 environments, queues of 1 | types, handles never dangle, the core jobs stay single, `instances` counts until two tasks of a job have it in hand at once, the pipeline implements `LaunchService`, in every interleaving |
| `dispatch_paced` | 2 clients with a singleton each, one throws, one is a loop, one unregisters and registers again; each waits for its launch to take effect; lines from the interrupt; queues of 1 | what an application gets under that discipline: exclusive singletons, handles, arguments, no freed job in use, no launch refused but for a thrown error; every request is answered, past every refusal at which the core waits for room in `queue_uart` |
| `joblist_admin` | 1 task registering and removing, 1 registering between the sections of its removals, 1 looking up, 3 cells, 3 names, 3 calls each | the list implements `JobRegistry`, is never broken, loses no job, every call returns |
| `joblist_register` | 2 tasks registering at once 3 names, also equal ones, 1 job of each role, 1 task doing any walk without the lock | names stay unique, reports are complete |
| `corelog_ring` | ring of 3, 2 printers, 7 entries and more | the ring holds the last entries, an undisturbed `logp` prints them all in order |
| `clisession_paced` | a terminal that waits for the header and types 3 lines (a job that throws, a singleton loop, an unknown name, blank, overlong), an API client with a job of its own, both queues of 1 | no deadlock, never more headers than lines, lines in order and each once, every line answered |
| `boot_init` | the four builds, 3 calls of `jes_init` failing anywhere, 2 jobs of the application | no job gets a second task, a `jes_init` that succeeds is complete, a further one harmless, every call returns, launched jobs run or are refused, unless the core has stopped |
| `jobrun_notify` | a loop and a job of 2 waits, 2 runs each, 2 notifiers, 3 notifications or NULL, a clock of period 3 that starts anywhere, bench at any time | notifications reach a run, the last one is taken, none that stays is left, what bench prints is right |
| `commandline_words` | every line of 6 letters and blanks, with and without its carriage return, for 2 jobs, buffers of 8 and 4; arguments of the API that fit or do not | the job named is launched, and reads its words; buffers keep their NUL |
| `dispatch_unregister_race` | launch, then unregister | **violated**: the job is freed while its function runs |
| `joblist_lock_leak` | a name registered twice | **violated**: the lock is kept and calls never return |
| `clisession_cycle` | a terminal that does not wait | **violated**: core and CLI server wait for each other |

Bounds. A queue of one is full after one send, so blocking, refilling and
reordering all occur; two environments make a newer and an older task of one
job; two commands of the CLI server and one launch, or two launches of a client,
let the second meet every stage of the first; a ring of three wraps twice in
seven entries; three cells hold a list whose removed cell is first, middle or
last; three lines let a line meet the late close-session event of the one
before, the loop of the first and the error of the second. Three calls of
`jes_init` are a failure, its repetition and a call after success; the script
itself has its full length. Three notifications are one more than a job of two
waits can be sent, so one falls into the second run or the loop takes several; a
period of 3 makes the clock wrap inside a run and a run last longer than a
round. Six characters hold two words with blanks before, between and behind, and
reach past both the field of 4 and, with the carriage return, the buffer of 8.
The real queue lengths (4, and 5 or 20) only make the cycle of
`clisession_cycle` longer: it closes when both queues are full. `MaxReq`,
`MaxTyped`, `Quota`, `MaxOps`, `MaxAdds`, `MaxLines`, `MaxLaunches`, `MaxInits`,
`MaxRuns` and `MaxSent` bound how often the outside calls; they never stop a
step of the system itself. `dispatch_core` has no argument strings, which its
properties do not tell apart, so the line with arguments that clears a stored
error (`CliServerFill`) is left to the proofs there. Five runs turn the deadlock
check off: in `corelog_ring` a system that nobody calls stops logging, in
`boot_init` a start-up that has failed for good does nothing more, in
`joblist_lock_leak` the leaked lock really stops the tasks, and in
`clisession_cycle` and `dispatch_core`, where nothing keeps the terminal from
filling the queues, the core and the CLI server may wait for each other for
good. In the other runs the core's time-out step (`CoreJobTimeout`,
`CoreTimeout`) is enabled exactly when the core waits on an empty queue, so a
deadlock reported by TLC would be one in which the core itself is stuck.

Assumptions of the passing runs about the application, each of them needed: in
`dispatch_paced` `Paced` and `Owns` (a client waits until its launch runs or is
refused, clients do not share a job) and that the CLI server sends no command of
its own while the clients are at it, `Careful` and `FreshNames` in
`joblist_admin` (the rule for removals above, and no registration of a name in
use), in `CliSession` a terminal that waits for the header, jobs launched by the
API that are not those of the terminal, and enough memory for them, in `JobRun`
that a job which is no loop is notified once for each of its waits, the next
time when it has published the last, and not with NULL (`Due`), and in
`CommandLine` that one job at a time reads its arguments, to the end (`Alone`),
that nobody launches a job which runs, and that a terminal sends the carriage
return last and not so many blanks first that the line leaves the buffer.
Section 4 says what happens without them. They are rules for applications that
the program itself neither states nor enforces, and not every application keeps
to them: `test_core_launch_burst` (`test/test_api_functions.c`) launches without
any pacing, as the client of `dispatch_core` does.

## 4. Where code and documentation differ

The three violating runs are findings in `PROJECT.json`. More counterexamples
come from the same models when an assumption is dropped:

* With `Paced = {}` in `dispatch_paced.cfg` each of its invariants fails. Two
  launches of a singleton before its environment counts itself both run
  (`SingletonExclusive`); the end of one environment clears the handle of a
  newer one (`RunningJobHasHandle`); a second launch replaces the arguments of
  the first, which live in the job (`ArgsAsRequested`, `job_driver.c:196`); a
  job is released while a request for it waits (`NoFreedJobInUse`); a singleton
  is refused after its launch was accepted (`AcceptedIsLaunched`).
* `CountExact` fails in `dispatch_core.cfg` without its exception `torn`: two
  environments of one job read `instances` before either has written it, and one
  update is lost (`job_driver.c:217`).
* `RequestAnswered` fails when the CLI server has commands to send: the core
  waits for room in `queue_uart`, the CLI server for room in the core's queue
  (`clisession_cycle`). It fails with `CliServers = {}` at the first refusal,
  which sends to a queue that was never created (`core.c:276`, `cli.c:91`).
* The core reads `pj->error` again to see whether the launch failed
  (`core.c:274`). When the CLI server has cleared it since, for a line with
  arguments, the refusal is not reported and no header printed.
* With one client that owns both jobs in `dispatch_paced.cfg`, which waits for its
  last launch only, three of its invariants fail; four requests reach all of
  them. A task that has uncounted itself still goes through its job
  (`job_driver.c:239`) when the client has long launched the other job and is
  free to launch the first again, whose new handle the old task then clears
  (`RunningJobHasHandle`), or to unregister it, so that the old task writes to
  released memory (`NoFreedJobInUse`). Such tasks also take the room of new ones
  (`AcceptedIsLaunched`). The other invariants need no such restriction.
* A job that has thrown is refused from then on (`core.c:271`), although its
  launches are accepted: `AcceptedIsLaunched` exempts `Throwers`. `stats` with an
  unknown argument stores an error too (`base_jobs.c:52`): typed without an
  argument it is refused afterwards, with one it runs again (`cli.c:153`).
* With a job in `Throwers`, a step `CoreJobRecord` after `JesThrowError`
  replaces the thrown error by `e_err_no_err` (`core.c:272`).
* `NoJobLost` fails in `joblist_admin.cfg` with `Careful = FALSE`: a removal of
  the newest job writes to `core.job_list`, which it found in an earlier critical
  section (`job_driver.c:146`), and drops a job registered in between. Two
  removals of neighbours or of the same job break the list, and a job removed
  while its registration is about to be logged (`job_driver.c:69`) is read after
  its release. So is the job a walk without the lock has reached.
* `SessionCloses` fails in `clisession_paced.cfg` when `ApiJobs` is a job the
  terminal types: the later launch overwrites `caller` (`job_driver.c:187`).
* `HeadersEarned` fails there when the API's job is in `Throwers` and launched
  twice: the error handler closes a session nobody opened (`core.c:109`).
* `InitComplete` fails without `~retried`. After a `jes_init` that failed behind
  the core's registration, the next one finds core registered, returns
  `e_err_duplicate` and leaves the new lock taken, so that no later call which
  needs it returns. On ESP32, where the core may be running, the next one finds
  `core.state` idle (`core.c:255`) and reports success without a CLI.
* `NotificationReachesRun` fails without `Due`: a job that was notified returns
  while a second notifier stands between its test and its send, which then has
  the handle of no task, or NULL. A notification of NULL replaces one that waits,
  and the waiting job cannot tell it from none.
* `WordsAsGiven` fails without `Alone`: the second job to call
  `jes_job_arg_next` gets the words of the first. It also fails when a terminal
  sends a line that begins with a carriage return, as "\raaaaa aa", and then
  "   a\r" with leading blanks (buffers of 10): such a line stays in `raw_str`
  (`cli.c:116`), the split looks at as many characters from the command on as
  the whole line has (`cli.c:148`), and the job gets "aa".
* `clisession_cycle` needs more than the two tasks: the core has the higher
  priority, so for it to find `queue_uart` full the interrupt, or an environment
  of still higher priority, must have refilled it after the CLI server took its
  event. Nothing in the code excludes that.
* `LaunchedRuns` fails without `CoreStopped`: on a build with JES_DISABLE_CLI the
  core does not return from its first refusal, and the job behind it waits for
  ever although its launch returned `e_err_no_err`.
* `BenchTrue` fails without `bench.clean`: when the job is launched again between
  the two reads, bench subtracts the beginning of one run from the end of another.

A run that ends when the clock shows 0 is one that "has not yet run once"
(`base_jobs.c:116`), and `BenchTest` refuses it as the code does.

## 5. Fairness

Weak fairness on a task means it is scheduled again and again while it can go
on. FreeRTOS time-slices tasks of equal priority, and the core runs at
`JES_CORE_TASK_PRIORITY` 2, above the base jobs' 1; the argument presumes, as
`core.h` asks, that application tasks of higher priority block now and then.
`Dispatch` assumes that the functions of jobs that are not loops return
(`RuntimeEnvReturn`), `CliSession` likewise (`EnvReturn`). `Dispatch` also
bounds the lines the terminal types, so that a sender to `queue_uart` is not
overtaken by the interrupt for ever. `Boot` assumes that a call of `jes_init`
goes on, and that the core, the CLI server and the environments run once the
scheduler does; `JobRun` that a run makes its next step and that a notifier
which has tested sends. Nobody is assumed to call, type, launch or notify. A
waiting sender is granted a slot because the calls are finite and FreeRTOS wakes
the waiter of highest priority.

## 6. Proofs

`DispatchProofs`, from `DispatchAssumption` and `NullAssumption` only:

* `TypeCorrect`: `TypeOK` alone is not inductive, since a task in the middle of
  an operation uses the request it holds; `TypeInv` adds `Working` (where a task
  is determines what it holds, and whose request it is).
* `HandlesSound`: `HandleNeverDangles`. A handle is stored with the task it
  names and every environment clears its job's handle before its task is gone,
  so it may be lost but never dangles.
* `CoreJobsSafe`: `CoreJobStaysSingle`, with the strengthening that no
  unregistration in progress is one of a core job.
* `CountsAreExact`: `CountExact`, for any clients, paced or not, and however jobs
  come and go. A job that is not `torn` has one environment at most with a copy
  of its counter, and that copy is still what the counter holds; an environment
  left over from before a registration makes the new job `torn` from the start.

In the same module `PipelineImplementsService`, `Spec => ImplementsService`.
The mapping takes the core's request in hand together with the queue as the
abstract queue. Accepting a request needs it to be new: `Numbered` (nothing in
the pipeline has a number its issuer has not used yet); granting and finishing
need `Distinct` (no request is in two places).

`CoreLogProofs`, from `LogLen` positive: `RingTypeCorrect` (both indices stay
inside the ring), `RingHoldsRecent` (`LogIsRecent`, inductive once the types
are known: one more entry moves every slot one further from `log_write`), and
`UndisturbedPrintComplete` (`PrintsHistory`, which needs `ReadInPlace`: where
`log_read` is while an undisturbed `logp` prints, and that logging or another
`logp` disturbs it).

`BootProofs`, from `BootAssumption`: `NoSecondTask` (`TypeOK`, where `tasks` is
0 or 1), `InitIsComplete` (`InitComplete`), `SecondInitHarmless` (`InitOnce`) and
`ApiReadyForFunctions` (`FunctionsSeeApi`). The invariant `BootInv` says
that a call has done all the steps behind it (`Passed`) and that nothing ahead
of it has been done (`Ahead`). The second holds because core is registered
first (`CoreFirst`): a repeated call that gets past core has found an empty
list, so an earlier one cannot have left anything.

`JobRunProofs`, from `JobRunAssumption`, for any jobs and notifiers:
`JobRunTyped` (`TypeOK`), `NotifyIsSafe` (`NotificationReachesRun`),
`LatestIsTaken` (`TakesLatest`) and `BenchIsTrue` (`BenchTrue`). `TypeOK` needs
`Counted`, that `instances` says whether the run is between its count and its
uncount. `NotificationReachesRun` needs `Owes` and `Published`: while a notifier
stands between its test and its send, the waits the run has left are those that
are owed and that one more, nothing waits to be taken, and no other notifier
aims at the run, so it cannot return; that the last notification is in the
parameter tells the application that it was taken. A loop never returns.
`TakesLatest` needs `Noted`, that what waits is the last one sent and newer than
what was taken. `BenchTrue` needs `Timed`, that the beginning of a run and its
ticks lead to the clock, or one round past it, for any `Period`, and `Benched`.

`DispatchPacedProofs` proves what `dispatch_paced` checks, for any number of
clients, jobs, environments, requests and queue places, from three conditions on
the constants, which that run's instance meets. `Disciplined`: every client
waits until its last launch took effect, launches singletons, shares no job with
another client, and the CLI server sends no command. `OneJobEach`: a client
launches one job only. `EnoughMemory`: there are no more clients than
environments. Section 4 has counterexamples for `Disciplined` and for
`OneJobEach`; the code does not enforce any of them, they are the application's
side of a contract.

* Under `Disciplined`: `SingletonsExclude` (`SingletonExclusive`),
  `ArgumentsAreKept` (`ArgsAsRequested`) and
  `RunningJobsStay` (`NoRunningJobUnregistered`, which
  `dispatch_unregister_race` shows violated without it). None of the three is
  inductive alone; they hold together in `PacedInv`. Its heart is `OneAtATime`
  (a client has one request waiting, its last one, and stands idle meanwhile)
  and `Alone` (while a job is counted, nobody asks for it and nobody else runs
  it). From these the read and the write of `instances++` always meet 0, and
  those of `instances--` always 1 (`CountIsOne`), so the race on the counter
  never bites, and the test of the API is still true when the core launches.
* Under `Disciplined` and `OneJobEach`: `HandlesFound` (`RunningJobHasHandle`)
  and `FreedJobsUnused` (`NoFreedJobInUse`). Counting is not enough here: an
  environment that has uncounted itself still clears the handle of its job
  (`job_driver.c:239`). `OneEnvEach` says that its client has no other task and
  no other request, so the handle it clears is its own.
* Under all three: `AcceptedLaunchesHappen` (`AcceptedIsLaunched`), by
  `NoError` and by counting that a waiting client leaves an environment free
  (`RoomForOne`).

`JobListProofs`, from `JobListAssumption`, for any tasks, names and cells.
`TypeCorrect` (`TypeOK`) needs nothing more. The rest holds under `Orderly`:
removals keep to the rule of `Careful`, or nobody unregisters; without it a
removal writes through a pointer that is no longer the one to its job (section
4). `ListStaysSound` (`ListSound`), `NamesAreUnique` (`NamesUnique`) and
`JobsAreKept` (`NoJobLost`) are inductive together with `Inserting` (a new cell
is in use and outside the list, and no two tasks insert the same one) and
`Removing` (a removal still knows the cell before its own, although others
register between its two sections) and `Rule` (what `Careful` asks at the
beginning of a call stays true until the removal is over), in `ListInv`.
`ReportsAreComplete` (`ReportComplete`) holds when nobody unregisters, whoever
registers during the walk: `Walking` says that the rows printed and the cells
still to come hold each name of the beginning once. `ListImplementsRegistry`:
`Spec => ImplementsRegistry`, where only `RegisterInsert` and `UnregisterUnlink`
change the set of names. Chains are least closed sets, so that inserting and
unlinking can be reasoned about without induction: the lemmas on `Chain` show a
closed set that holds the head.

`CliSessionProofs`, from `CliSessionAssumption` and `LinesAssumption`:
`SessionTyped` (`TypeOK`) for every terminal and every client, where
`instances` needs to be the number of environments that run the job (`Counted`).
`HeadersAreEarned` (`HeadersEarned`), `LinesStayInOrder` (`LinesInOrder`) and
`AnswerIsUnderWay` hold for a terminal that waits for the header (`Paced`), a
client whose jobs the terminal does not type, throw nothing and may run more
than once (`Apart`), and memory for an environment per line and launch
(`Roomy`, needed only if there is a client). The invariant follows a token: a
line that was typed is an event, or the work of the server, or an entry of the
core's queue, or a session the core closes, or an environment that will close
it, and never in two of these places (`OneToken`); headers and lines differ by
the token (`Transaction`). So the buffer still holds the line when the server
reads it (`InStep`). `Room` counts environments in use and requests under way
against lines and launches, so that the core refuses nothing the client asks
for, which would print a header nobody waits for. `AnswerIsUnderWay` is the part
of `SessionCloses` that needs no fairness.

`CommandLineProofs`, from `CommandLineAssumption` and `LinesAssumption`, for any
letters, names, lines and arguments and any lengths of the two buffers:
`StringsStayInBuffers` (`TypeOK`), `WordsArriveAsGiven` (`WordsAsGiven`) and
`TheNamedJobIsLaunched` (`NamedIsLaunched`). Every scan of the code stops at the
smallest or greatest position with some property, so the proofs need that these
exist. `LeastPosition` gets the smallest from the well-founded order on the
naturals (`NatLessThanWellFounded` and `WFMin`, which quantify over sets, so that
no operator has to be instantiated), and every induction along a string is a
choice of a smallest or greatest position (`StartBefore`, `NoStartWithin`). On
these stand the lemmas about the functions of the code: `OverProperties` and
`StrippedProperties` (every position of the buffer afterwards), `SanitizedLine`,
`SplitLine` (the split, which looks at as many characters as the whole line has,
finds the first word and what follows it), `TokenIsNext` and `TokenTaken` (one
call of strtok). The invariant `LineInv` adds to the three properties:

* `RawEmpty`: behind its first character `raw_str` is empty between two lines, so
  what the split finds behind the line is NUL; a blank line leaves its carriage
  return, the next line covers it.
* `NobodyReads`: the static `input` is NULL when nobody reads, so that the first
  call of a job begins at its own field.
* `JobOK`: the field of a job holds `given` until the job has read its first
  word, and the first word of it from then on. While it reads, the words that
  start before the saved place are those it has (`ArePartOf`), and from the
  place on the field still holds the rest of the string (`Rests`).

Only model-checked: liveness (`RequestAnswered`, `CallsReturn`,
`SessionCloses`, `InitReturns`, `LaunchedRuns`, `NotificationTaken`), since the
prover does not handle fairness and `ENABLED`.

## 7. Plan

Done: all the modules of section 2. Every invariant of the passing runs is a
theorem. What is left is the liveness properties, and ESP32's UART driver and
Arduino's, whose queues work differently from STM32's and would need a
`CliSession` of their own.

## 8. Not modelled

Formatting, colours and columns, `echo`, transmission over the UART, pin and
clock set-up, the ESP32 and Arduino wrappers (but for whether they start),
delays, board and FreeRTOS configuration headers, build scripts, workflows and
examples: no state that a property could be about, or code whose source is not in
the repository. `__core_add_to_log_index` and `__job_notify_with_job*` are called
by nobody in the repository; the latter are `__job_notify_generic` again.

Three hazards of `PROJECT.json` have no property because what happens next is
not in the code: a line of blanks only, stripped past the start of the buffer
(`cli.c:47`), a launch of an unknown name, whose role is read through NULL
(`jescore_api.c:57`), and a mutex taken in an interrupt handler
(`jescore_api.c:192`). A missing `queue_uart` on STM32 (`uart_unif.c:161`) and
the error overwritten by the core (`core.c:272`) are states that `Boot` and
`Dispatch` reach and that no discipline of the application avoids.
