--------------------------- MODULE CliSessionProofs --------------------------
(***************************************************************************)
(* Proofs about CliSession, for any jobs, lines and queue lengths.         *)
(*                                                                         *)
(* A line that is typed puts a token into the pipeline, and every task     *)
(* that takes the token either hands it on or turns it into a header: an   *)
(* event in queue_uart, the work of cli_server, an entry for the core, the *)
(* close of a session by the core, or an environment that will close it.   *)
(***************************************************************************)
EXTENDS CliSession, SequenceTheorems, FiniteSetTheorems, TLAPS

-----------------------------------------------------------------------------
(* The environments that run a job are those it counts; cli_server counts  *)
(* itself.                                                                 *)
Running(j) == {e \in Envs : env[e].at = "run" /\ env[e].job = j}

Counted ==
    /\ instances[CliServer] = 1
    /\ \A j \in UserJobs : IsFiniteSet(Running(j)) /\ instances[j] = Cardinality(Running(j))

(* An environment that is in use has a job, and one that closes the        *)
(* session before it runs has a loop.                                      *)
Occupied ==
    \A e \in Envs :
        /\ env[e].at = "none" <=> env[e].job = NULL
        /\ env[e].at = "closeFirst" => env[e].job \in Loops

TypeInv == TypeOK /\ Counted /\ Occupied

-----------------------------------------------------------------------------
(* The client launches jobs the terminal does not name, that throw no      *)
(* error and that may run more than once.                                  *)
Apart == ApiJobs \cap (Typed \cup Throwers \cup Singletons) = {}

(* There is memory for one environment per line and launch, or no client.  *)
Roomy ==
    \/ ApiJobs = {}
    \/ IsFiniteSet(Envs) /\ Cardinality(Envs) >= MaxLines + MaxLaunches

(* Who asked for what is on its way; what the client asks for is not       *)
(* refused for an error.                                                   *)
Asked(j) ==
    /\ j \in ApiJobs => caller[j] = "api"
    /\ j \in UserJobs \ ApiJobs => caller[j] = "cli"

Callers ==
    /\ Asked(toDo)
    /\ toDo \notin ApiJobs
    /\ client # NULL => Asked(client)
    /\ \A i \in DOMAIN coreQueue : Asked(coreQueue[i])
    /\ \A e \in Envs : Asked(env[e].job)
    /\ \A e \in Envs : env[e].job \in ApiJobs => env[e].at \notin {"closeFirst", "close"}
    /\ \A j \in ApiJobs : ~failed[j]

(* The event in the queue is that of a line.                               *)
Unread == uartQueue # <<>> /\ Head(uartQueue).type # "close"

(* Environments in use and requests under way were each typed or launched. *)
Busy == {e \in Envs : env[e] # Idle}
Waiting == IF client # NULL THEN 1 ELSE 0
Working == IF server = "notify" THEN 1 ELSE 0
Coming == IF Unread THEN 1 ELSE 0
OnItsWay == Len(coreQueue) + Waiting + Working + Coming
Room ==
    /\ IsFiniteSet(Busy)
    /\ Cardinality(Busy) + OnItsWay <= Len(typed) + launches
    /\ Len(typed) <= MaxLines

(* The places of the token.                                                *)
AtCore(i) == i \in DOMAIN coreQueue /\ coreQueue[i] \notin ApiJobs
Owes(e) ==
    /\ env[e].job \notin ApiJobs
    /\ \/ env[e].at \in {"enter", "closeFirst", "close"}
       \/ env[e].at \in {"count", "run", "leave"} /\ env[e].job \notin Loops

NoneAtCore == \A i \in DOMAIN coreQueue : coreQueue[i] \in ApiJobs
OneAtCore == \A i, k \in DOMAIN coreQueue : AtCore(i) /\ AtCore(k) => i = k
NoneOwes == \A e \in Envs : ~Owes(e)
OneOwes == \A e, f \in Envs : Owes(e) /\ Owes(f) => e = f

OneToken ==
    /\ Len(uartQueue) <= 1 /\ OneAtCore /\ OneOwes
    /\ uartQueue # <<>> => server = "receive" /\ NoneAtCore /\ core = "receive" /\ NoneOwes
    /\ server = "notify" => NoneAtCore /\ core = "receive" /\ NoneOwes
    /\ ~NoneAtCore => core = "receive" /\ NoneOwes
    /\ core = "close" => NoneOwes

(* Nothing is under way for the terminal.                                  *)
Answered ==
    uartQueue = <<>> /\ server = "receive" /\ NoneAtCore /\ core = "receive" /\ NoneOwes

Transaction ==
    /\ headers \in {Len(typed), Len(typed) - 1}
    /\ headers = Len(typed) <=> Answered

(* The line the server has not worked on is the last one, and it is in the *)
(* buffer unless it was too long.                                          *)
InStep ==
    /\ ~Unread => handled = typed
    /\ Unread =>
        /\ \E l \in Lines : typed = Append(handled, l)
        /\ Head(uartQueue).type = "data" =>
            typed = Append(handled, buffer) /\ Head(uartQueue).line = buffer
        /\ Head(uartQueue).type = "full" => typed = Append(handled, Overlong)

SessionInv == Callers /\ Room /\ OneToken /\ Transaction /\ InStep

-----------------------------------------------------------------------------
(* Types.                                                                  *)

LEMMA ServerIsNoUser ==
    /\ CliServer \in Jobs /\ CliServer \notin UserJobs /\ CliServer \in Singletons
    /\ UserJobs \subseteq Jobs /\ ApiJobs \subseteq UserJobs
    /\ NULL \notin Jobs /\ Unknown \notin Jobs
BY CliSessionAssumption DEF Jobs

LEMMA LinesAreDistinct ==
    /\ Blank \in Lines \ {Overlong} /\ Overlong \in Lines
    /\ \A l \in Lines \ {Blank, Overlong} : l \in Command
    /\ \A l \in Command \cup {Garbled} : l.args \in BOOLEAN
<1>1. ASSUME NEW l \in Command \cup {Garbled} PROVE l.args \in BOOLEAN
  <2>1. ASSUME l \in Command PROVE l.args \in BOOLEAN
    BY <2>1 DEF Command
  <2>2. ASSUME l = Garbled PROVE l.args \in BOOLEAN
    BY <2>2 DEF Garbled
  <2> QED
    BY <2>1, <2>2
<1> QED
  BY <1>1, LinesAssumption DEF Lines

Places == {"none", "enter", "closeFirst", "count", "run", "leave", "close"}

(* An environment moves on with the job it has.                            *)
LEMMA GotoTyped ==
    ASSUME TypeOK, NEW e \in Envs, NEW l \in Places, Goto(e, l)
    PROVE  /\ env' \in [Envs -> [at : Places, job : UserJobs \cup {NULL}]]
           /\ env'[e].at = l /\ env'[e].job = env[e].job
           /\ \A f \in Envs \ {e} : env'[f] = env[f]
<1>1. env \in [Envs -> [at : Places, job : UserJobs \cup {NULL}]]
  BY DEF TypeOK, Places
<1> QED
  BY <1>1 DEF Goto

(* An environment is given a job or becomes idle.                          *)
LEMMA SetTyped ==
    ASSUME TypeOK, NEW e \in Envs, NEW l \in Places, NEW j \in UserJobs \cup {NULL},
           env' = [env EXCEPT ![e] = [at |-> l, job |-> j]]
    PROVE  /\ env' \in [Envs -> [at : Places, job : UserJobs \cup {NULL}]]
           /\ env'[e].at = l /\ env'[e].job = j
           /\ \A f \in Envs \ {e} : env'[f] = env[f]
<1>1. env \in [Envs -> [at : Places, job : UserJobs \cup {NULL}]]
  BY DEF TypeOK, Places
<1>2. [at |-> l, job |-> j] \in [at : Places, job : UserJobs \cup {NULL}]
  OBVIOUS
<1> DEFINE r == [at |-> l, job |-> j]
<1>3. r.at = l /\ r.job = j
  OBVIOUS
<1> HIDE DEF r
<1>4. env'[e] = r /\ \A f \in Envs \ {e} : env'[f] = env[f]
  BY <1>1 DEF r
<1>5. env' \in [Envs -> [at : Places, job : UserJobs \cup {NULL}]]
  BY <1>1, <1>2
<1> QED
  BY <1>3, <1>4, <1>5

LEMMA InitTypeInv == Init => TypeInv
<1> SUFFICES ASSUME Init PROVE TypeInv
  OBVIOUS
<1>1. TypeOK
  BY CliSessionAssumption, ServerIsNoUser, LinesAreDistinct DEF Init, TypeOK, Idle
<1>2. Counted
  <2>1. \A j \in UserJobs : Running(j) = {}
    BY DEF Init, Running, Idle
  <2> QED
    BY <2>1, FS_EmptySet, ServerIsNoUser DEF Init, Counted
<1>3. Occupied
  BY DEF Init, Occupied, Idle
<1> QED
  BY <1>1, <1>2, <1>3 DEF TypeInv

(* The core launches registered jobs of the application only.              *)
LEMMA LaunchedIsUser ==
    ASSUME TypeInv, CoreLaunch
    PROVE  Head(coreQueue) \in UserJobs
<1>1. coreQueue # <<>> /\ Head(coreQueue) \in Jobs \cup {NULL}
  BY HeadTailProperties DEF CoreLaunch, CoreReceive, TypeInv, TypeOK
<1>2. Head(coreQueue) # NULL
  BY ServerIsNoUser DEF CoreLaunch, Faulty
<1>3. Head(coreQueue) # CliServer
  BY ServerIsNoUser DEF CoreLaunch, Faulty, Refused, TypeInv, Counted
<1> QED
  BY <1>1, <1>2, <1>3 DEF Jobs

(* The steps of the interrupt handler and of cli_server.                   *)
LEMMA ServerTypeOK ==
    ASSUME TypeInv, Server \/ \E l \in Lines : RxEventCallback(l)
    PROVE  TypeOK'
<1> USE CliSessionAssumption, ServerIsNoUser, LinesAreDistinct
        DEF TypeInv, TypeOK, uartVars, serverVars, coreVars, jobVars, clientVars
<1>1. ASSUME NEW l \in Lines, RxEventCallback(l) PROVE TypeOK'
  <2>1. typed' \in Seq(Lines)
    BY <1>1, AppendProperties DEF RxEventCallback
  <2>2. buffer' \in Lines \ {Overlong}
    BY <1>1 DEF RxEventCallback, Buffered
  <2> DEFINE ev == IF l = Overlong THEN FullEvent ELSE DataEvent(l)
             Events == {DataEvent(k) : k \in Lines} \cup {FullEvent, CloseEvent}
  <2>3. ev \in Events /\ uartQueue' = IF Len(uartQueue) < UartLen THEN Append(uartQueue, ev) ELSE uartQueue
    BY <1>1 DEF RxEventCallback, FromISR
  <2> HIDE DEF ev
  <2>4. uartQueue \in Seq(Events)
    OBVIOUS
  <2> HIDE DEF Events
  <2>5. uartQueue' \in Seq(Events) /\ Len(uartQueue') <= UartLen
    BY <2>3, <2>4, AppendProperties, LenProperties
  <2> QED
    BY <1>1, <2>1, <2>2, <2>5 DEF RxEventCallback, Events
<1>2. ASSUME NEW type, ServerReceives(type)
      PROVE  /\ Tail(uartQueue) \in Seq({DataEvent(l) : l \in Lines} \cup {FullEvent, CloseEvent})
             /\ Len(Tail(uartQueue)) <= UartLen
  BY <1>2, HeadTailProperties, LenProperties DEF ServerReceives
<1>3. CASE ServerBlank
  <2>1. handled' \in Seq(Lines \cup {Garbled})
    BY <1>3, AppendProperties DEF ServerBlank
  <2>2. ServerReceives("data") /\ uartQueue' = Tail(uartQueue)
    BY <1>3 DEF ServerBlank
  <2>3. headers' \in Nat
    BY <1>3 DEF ServerBlank, ReprintHeader
  <2>4. /\ uartQueue' \in Seq({DataEvent(l) : l \in Lines} \cup {FullEvent, CloseEvent})
        /\ Len(uartQueue') <= UartLen
    BY <1>2, <2>2
  <2> QED
    BY <1>3, <2>1, <2>3, <2>4 DEF ServerBlank
<1>4. CASE ServerCommand
  <2>1. PICK l \in Read(Head(uartQueue)) \ {Blank} : Prepared(l) /\ handled' = Append(handled, l)
    BY <1>4 DEF ServerCommand
  <2>2. l \in Command \cup {Garbled}
    BY <2>1 DEF Read
  <2>3. handled' \in Seq(Lines \cup {Garbled})
    BY <2>1, <2>2, AppendProperties DEF Lines
  <2>4. toDo' \in Jobs \cup {NULL} /\ caller' \in [Jobs -> {"core", "cli", "api"}]
    BY <2>1 DEF Prepared
  <2>5. failed' \in [Jobs -> BOOLEAN]
    BY <2>1, <2>2 DEF Prepared
  <2> QED
    BY <1>2, <1>4, <2>3, <2>4, <2>5 DEF ServerCommand
<1>5. CASE ServerOverflow
  <2>1. handled' \in Seq(Lines \cup {Garbled})
    BY <1>5, AppendProperties DEF ServerOverflow
  <2>2. caller' \in [Jobs -> {"core", "cli", "api"}] /\ failed' \in [Jobs -> BOOLEAN]
    BY <1>5 DEF ServerOverflow
  <2>3. /\ uartQueue' \in Seq({DataEvent(l) : l \in Lines} \cup {FullEvent, CloseEvent})
        /\ Len(uartQueue') <= UartLen
    <3>1. uartQueue' = <<>>
      BY <1>5 DEF ServerOverflow
    <3> QED
      BY <3>1
  <2>4. buffer' \in Lines \ {Overlong} /\ toDo' \in Jobs \cup {NULL}
    BY <1>5 DEF ServerOverflow
  <2> QED
    BY <1>5, <2>1, <2>2, <2>3, <2>4 DEF ServerOverflow
<1>6. CASE ServerCloseSession
  <2>1. ServerReceives("close") /\ uartQueue' = Tail(uartQueue) /\ headers' \in Nat
    BY <1>6 DEF ServerCloseSession, ReprintHeader
  <2>2. /\ uartQueue' \in Seq({DataEvent(l) : l \in Lines} \cup {FullEvent, CloseEvent})
        /\ Len(uartQueue') <= UartLen
    BY <1>2, <2>1
  <2> QED
    BY <1>6, <2>1, <2>2 DEF ServerCloseSession
<1>7. CASE ServerNotify
  <2>1. coreQueue' \in Seq(Jobs \cup {NULL}) /\ Len(coreQueue') <= CoreLen
    BY <1>7, AppendProperties DEF ServerNotify, Enqueue
  <2> QED
    BY <1>7, <2>1 DEF ServerNotify
<1> QED
  BY <1>1, <1>3, <1>4, <1>5, <1>6, <1>7 DEF Server

(* Closing a session fills an entry of queue_uart that was free.           *)
LEMMA CloseSessTyped ==
    ASSUME TypeInv, CliCloseSess
    PROVE  /\ uartQueue' \in Seq({DataEvent(l) : l \in Lines} \cup {FullEvent, CloseEvent})
           /\ Len(uartQueue') <= UartLen
<1> DEFINE Events == {DataEvent(k) : k \in Lines} \cup {FullEvent, CloseEvent}
<1>1. uartQueue \in Seq(Events) /\ CloseEvent \in Events
  BY DEF TypeInv, TypeOK
<1> HIDE DEF Events
<1>2. uartQueue' \in Seq(Events) /\ Len(uartQueue') <= UartLen
  BY <1>1, AppendProperties, LenProperties, CliSessionAssumption DEF CliCloseSess
<1> QED
  BY <1>2 DEF Events

(* The steps of the core and of the client.                                *)
LEMMA CoreTypeOK ==
    ASSUME TypeInv, CoreJob \/ ClientNotify \/ \E j \in ApiJobs : JesLaunchJob(j)
    PROVE  TypeOK'
<1> USE CliSessionAssumption, ServerIsNoUser
        DEF TypeInv, TypeOK, uartVars, serverVars, coreVars, jobVars, clientVars
<1>1. ASSUME CoreReceive
      PROVE  coreQueue' \in Seq(Jobs \cup {NULL}) /\ Len(coreQueue') <= CoreLen
  BY <1>1, HeadTailProperties, LenProperties DEF CoreReceive
<1>2. CASE CoreFault
  BY <1>1, <1>2 DEF CoreFault, ErrHandlerInline
<1>3. CASE CoreLaunch
  <2>1. PICK e \in Envs : env' = [env EXCEPT ![e] = [at |-> "enter", job |-> Head(coreQueue)]]
    BY <1>3 DEF CoreLaunch
  <2>2. env' \in [Envs -> [at : Places, job : UserJobs \cup {NULL}]]
    BY <1>3, <2>1, LaunchedIsUser, SetTyped DEF Places
  <2> QED
    BY <1>1, <1>3, <2>2 DEF CoreLaunch, Places
<1>4. CASE CoreCloseSess
  BY <1>4, CloseSessTyped DEF CoreCloseSess
<1>5. CASE ClientNotify
  BY <1>5, AppendProperties DEF ClientNotify, Enqueue
<1>6. ASSUME NEW j \in ApiJobs, JesLaunchJob(j) PROVE TypeOK'
  BY <1>6 DEF JesLaunchJob
<1> QED
  BY <1>2, <1>3, <1>4, <1>5, <1>6 DEF CoreJob

(* The steps of an environment.                                            *)
LEMMA EnvTypeOK ==
    ASSUME TypeInv, NEW e \in Envs, RuntimeEnv(e)
    PROVE  TypeOK'
<1> DEFINE Steps == [Envs -> [at : Places, job : UserJobs \cup {NULL}]]
<1>1. env \in Steps /\ [at |-> "none", job |-> NULL] \in [at : Places, job : UserJobs \cup {NULL}]
  BY DEF TypeInv, TypeOK, Places
<1>2. env' \in Steps
  <2>1. CASE \E l \in Places : Goto(e, l)
    BY <1>1, <2>1 DEF Goto
  <2>2. CASE EnvLeave(e)
    <3>1. [env[e] EXCEPT !.at = "close"] \in [at : Places, job : UserJobs \cup {NULL}]
      BY <1>1 DEF Places
    <3>2. PICK r \in [at : Places, job : UserJobs \cup {NULL}] : env' = [env EXCEPT ![e] = r]
      BY <1>1, <2>2, <3>1 DEF EnvLeave, Idle
    <3> QED
      BY <1>1, <3>2
  <2>3. CASE EnvClose(e)
    BY <1>1, <2>3 DEF EnvClose, Idle
  <2> QED
    BY <2>1, <2>2, <2>3
    DEF RuntimeEnv, EnvEnter, EnvCloseFirst, EnvCount, EnvReturn, Places
<1>3. /\ uartQueue' \in Seq({DataEvent(l) : l \in Lines} \cup {FullEvent, CloseEvent})
      /\ Len(uartQueue') <= UartLen
  <2>1. CASE CliCloseSess
    BY <2>1, CloseSessTyped
  <2>2. CASE UNCHANGED uartQueue
    BY <2>2 DEF TypeInv, TypeOK
  <2> QED
    BY <2>1, <2>2 DEF RuntimeEnv, EnvEnter, EnvCloseFirst, EnvCount, EnvReturn, EnvLeave,
       EnvClose, uartVars
<1>4. instances' \in [Jobs -> Nat]
  <2>0. instances \in [Jobs -> Nat]
    BY DEF TypeInv, TypeOK
  <2>1. CASE EnvCount(e)
    <3>1. env[e].job \in Jobs
      BY <1>1, <2>1, ServerIsNoUser DEF EnvCount, At, TypeInv, Occupied
    <3> QED
      BY <2>0, <2>1, <3>1 DEF EnvCount
  <2>2. CASE EnvReturn(e)
    <3> DEFINE j == env[e].job
    <3>1. env[e].at = "run" /\ j \in UserJobs /\ j \in Jobs
      BY <1>1, <2>2, ServerIsNoUser DEF EnvReturn, At, TypeInv, Occupied
    <3>2. e \in Running(j) /\ IsFiniteSet(Running(j)) /\ instances[j] = Cardinality(Running(j))
      BY <3>1 DEF TypeInv, Running, Counted
    <3>3. instances[j] - 1 = Cardinality(Running(j) \ {e}) /\ IsFiniteSet(Running(j) \ {e})
      BY <3>2, FS_RemoveElement
    <3>4. instances[j] - 1 \in Nat
      BY <3>3, FS_CardinalityType
    <3>5. instances' = [instances EXCEPT ![j] = instances[j] - 1]
      BY <2>2 DEF EnvReturn
    <3> QED
      BY <2>0, <3>1, <3>4, <3>5
  <2>3. CASE UNCHANGED instances
    BY <2>0, <2>3
  <2> QED
    BY <2>1, <2>2, <2>3
    DEF RuntimeEnv, EnvEnter, EnvCloseFirst, EnvLeave, EnvClose, jobVars
<1>5. failed' \in [Jobs -> BOOLEAN]
  <2>0. failed \in [Jobs -> BOOLEAN]
    BY DEF TypeInv, TypeOK
  <2>1. CASE EnvReturn(e)
    BY <2>0, <2>1 DEF EnvReturn
  <2>2. CASE UNCHANGED failed
    BY <2>0, <2>2
  <2> QED
    BY <2>1, <2>2
    DEF RuntimeEnv, EnvEnter, EnvCloseFirst, EnvCount, EnvLeave, EnvClose, jobVars
<1>6. UNCHANGED <<buffer, serverVars, coreVars, caller, clientVars, typed>>
  BY DEF RuntimeEnv, EnvEnter, EnvCloseFirst, EnvCount, EnvReturn, EnvLeave, EnvClose,
     uartVars, jobVars
<1> QED
  BY <1>2, <1>3, <1>4, <1>5, <1>6
  DEF TypeInv, TypeOK, Places, serverVars, coreVars, clientVars

(* Only environments change what is running and what they are occupied by. *)
LEMMA OthersCounted ==
    ASSUME TypeInv, UNCHANGED <<env, instances>>
    PROVE  Counted' /\ Occupied'
<1>1. \A j \in UserJobs : Running(j)' = Running(j)
  BY DEF Running
<1> QED
  BY <1>1 DEF TypeInv, Counted, Occupied

LEMMA EnvCounted ==
    ASSUME TypeInv, NEW e \in Envs, RuntimeEnv(e)
    PROVE  Counted' /\ Occupied'
<1> USE ServerIsNoUser DEF TypeInv, At
<1> PICK j : j = env[e].job
  OBVIOUS
<1>0. TypeOK /\ instances \in [Jobs -> Nat]
  BY DEF TypeOK
(* The environment moves on, and not to or from its function.              *)
<1>1. ASSUME NEW l \in Places \ {"none", "run"}, Goto(e, l), env[e].at \notin {"none", "run"},
             UNCHANGED instances, l = "closeFirst" => j \in Loops
      PROVE  Counted' /\ Occupied'
  <2>1. /\ env'[e].at = l /\ env'[e].job = j
        /\ \A f \in Envs \ {e} : env'[f] = env[f]
    BY <1>0, <1>1, GotoTyped
  <2>2. \A k \in UserJobs : Running(k)' = Running(k)
    BY <1>1, <2>1 DEF Running
  <2> QED
    BY <1>1, <2>1, <2>2 DEF Counted, Occupied
(* It is done.                                                             *)
<1>2. ASSUME env' = [env EXCEPT ![e] = Idle], env[e].at # "run", UNCHANGED instances
      PROVE  Counted' /\ Occupied'
  <2>1. /\ env'[e].at = "none" /\ env'[e].job = NULL
        /\ \A f \in Envs \ {e} : env'[f] = env[f]
    BY <1>0, <1>2, SetTyped DEF Idle, Places
  <2>2. \A k \in UserJobs : Running(k)' = Running(k)
    BY <1>2, <2>1 DEF Running
  <2> QED
    BY <1>2, <2>1, <2>2 DEF Counted, Occupied
<1>3. CASE EnvEnter(e)
  <2>1. CASE ClosesFirst(j)
    BY <1>1, <1>3, <2>1 DEF EnvEnter, ClosesFirst, Places, jobVars
  <2>2. CASE ~ClosesFirst(j)
    BY <1>1, <1>3, <2>2 DEF EnvEnter, Places, jobVars
  <2> QED
    BY <2>1, <2>2
<1>4. CASE EnvCloseFirst(e)
  BY <1>1, <1>4 DEF EnvCloseFirst, Places, jobVars
<1>5. CASE EnvCount(e)
  <2>1. j \in UserJobs /\ env[e].at = "count"
    BY <1>0, <1>5 DEF EnvCount, Occupied, TypeOK
  <2>2. /\ env'[e].at = "run" /\ env'[e].job = j
        /\ \A f \in Envs \ {e} : env'[f] = env[f]
    BY <1>0, <1>5, GotoTyped DEF EnvCount, Places
  <2>3. Running(j)' = Running(j) \cup {e} /\ e \notin Running(j)
    BY <2>1, <2>2 DEF Running
  <2>4. \A k \in UserJobs \ {j} : Running(k)' = Running(k)
    BY <2>1, <2>2 DEF Running
  <2>5. instances' = [instances EXCEPT ![j] = @ + 1]
    BY <1>5 DEF EnvCount
  <2>6. IsFiniteSet(Running(j)') /\ instances'[j] = Cardinality(Running(j)')
    BY <1>0, <2>1, <2>3, <2>5, FS_AddElement DEF Counted
  <2>7. Counted'
    <3>1. \A k \in Jobs \ {j} : instances'[k] = instances[k]
      BY <1>0, <2>5
    <3> QED
      BY <2>1, <2>4, <2>6, <3>1 DEF Counted
  <2>8. Occupied'
    BY <2>1, <2>2 DEF Occupied
  <2> QED
    BY <2>7, <2>8
<1>6. CASE EnvReturn(e)
  <2>1. j \in UserJobs /\ env[e].at = "run"
    BY <1>0, <1>6 DEF EnvReturn, Occupied, TypeOK
  <2>2. /\ env'[e].at = "leave" /\ env'[e].job = j
        /\ \A f \in Envs \ {e} : env'[f] = env[f]
    BY <1>0, <1>6, GotoTyped DEF EnvReturn, Places
  <2>3. Running(j)' = Running(j) \ {e} /\ e \in Running(j)
    BY <2>1, <2>2 DEF Running
  <2>4. \A k \in UserJobs \ {j} : Running(k)' = Running(k)
    BY <2>1, <2>2 DEF Running
  <2>5. instances' = [instances EXCEPT ![j] = @ - 1]
    BY <1>6 DEF EnvReturn
  <2>6. IsFiniteSet(Running(j)') /\ instances'[j] = Cardinality(Running(j)')
    BY <1>0, <2>1, <2>3, <2>5, FS_RemoveElement DEF Counted
  <2>7. Counted'
    <3>1. \A k \in Jobs \ {j} : instances'[k] = instances[k]
      BY <1>0, <2>5
    <3> QED
      BY <2>1, <2>4, <2>6, <3>1 DEF Counted
  <2>8. Occupied'
    BY <2>1, <2>2 DEF Occupied
  <2> QED
    BY <2>7, <2>8
<1>7. CASE EnvLeave(e)
  <2>1. CASE ClosesLast(j)
    <3>1. Goto(e, "close")
      BY <1>7, <2>1 DEF EnvLeave, Goto
    <3> QED
      BY <1>1, <1>7, <3>1 DEF EnvLeave, Places, jobVars
  <2>2. CASE ~ClosesLast(j)
    <3>1. env' = [env EXCEPT ![e] = Idle]
      BY <1>7, <2>2 DEF EnvLeave
    <3> QED
      BY <1>2, <1>7, <3>1 DEF EnvLeave, jobVars
  <2> QED
    BY <2>1, <2>2
<1>8. CASE EnvClose(e)
  BY <1>2, <1>8 DEF EnvClose, jobVars
<1> QED
  BY <1>3, <1>4, <1>5, <1>6, <1>7, <1>8 DEF RuntimeEnv

LEMMA LaunchCounted ==
    ASSUME TypeInv, CoreLaunch
    PROVE  Counted' /\ Occupied'
<1>1. PICK e \in Envs : env[e] = Idle /\ env' = [env EXCEPT ![e] = [at |-> "enter", job |-> Head(coreQueue)]]
  BY DEF CoreLaunch
<1>2. /\ env'[e].at = "enter" /\ env'[e].job = Head(coreQueue)
      /\ \A f \in Envs \ {e} : env'[f] = env[f]
  BY <1>1, LaunchedIsUser, SetTyped DEF TypeInv, Places
<1>3. env[e].at = "none" /\ Head(coreQueue) # NULL
  BY <1>1, LaunchedIsUser, ServerIsNoUser DEF Idle
<1>4. \A k \in UserJobs : Running(k)' = Running(k)
  BY <1>2, <1>3 DEF Running
<1> QED
  BY <1>2, <1>3, <1>4 DEF CoreLaunch, jobVars, TypeInv, Counted, Occupied

LEMMA TypeInvStep ==
    ASSUME TypeInv, [Next]_vars
    PROVE  TypeInv'
<1>1. CASE UNCHANGED vars
  <2>1. UNCHANGED <<env, instances>>
    BY <1>1 DEF vars, jobVars
  <2>2. TypeOK'
    BY <1>1 DEF vars, uartVars, serverVars, coreVars, jobVars, clientVars, TypeInv, TypeOK
  <2> QED
    BY <2>1, <2>2, OthersCounted DEF TypeInv
<1>2. CASE Server \/ \E l \in Lines : RxEventCallback(l)
  <2>1. UNCHANGED <<env, instances>>
    BY <1>2 DEF Server, ServerBlank, ServerCommand, ServerOverflow, ServerCloseSession,
       ServerNotify, RxEventCallback, jobVars
  <2> QED
    BY <1>2, <2>1, ServerTypeOK, OthersCounted DEF TypeInv
<1>3. CASE CoreFault \/ CoreCloseSess \/ ClientNotify \/ \E j \in ApiJobs : JesLaunchJob(j)
  <2>1. UNCHANGED <<env, instances>>
    BY <1>3 DEF CoreFault, CoreCloseSess, ClientNotify, JesLaunchJob, jobVars
  <2> QED
    BY <1>3, <2>1, CoreTypeOK, OthersCounted DEF TypeInv, CoreJob
<1>4. CASE CoreLaunch
  BY <1>4, CoreTypeOK, LaunchCounted DEF TypeInv, CoreJob
<1>5. ASSUME NEW e \in Envs, RuntimeEnv(e) PROVE TypeInv'
  BY <1>5, EnvTypeOK, EnvCounted DEF TypeInv
<1> QED
  BY <1>1, <1>2, <1>3, <1>4, <1>5 DEF Next, CoreJob, CoreTimeout

LEMMA TypeInvInvariant == Spec => []TypeInv
BY InitTypeInv, TypeInvStep, PTL DEF Spec

(* Neither queue ever holds more than it has room for, no job counts less  *)
(* than no instance, and every other variable keeps its type, for any      *)
(* lines, jobs and queue lengths.                                          *)
THEOREM SessionTyped == Spec => []TypeOK
<1>1. TypeInv => TypeOK
  BY DEF TypeInv
<1> QED
  BY <1>1, TypeInvInvariant, PTL

-----------------------------------------------------------------------------
(* The two queues and the places of the token in them.                     *)

LEMMA UartHolds ==
    ASSUME TypeInv, OneToken
    PROVE  /\ uartQueue # <<>> => Tail(uartQueue) = <<>>
           /\ \A ev : Append(<<>>, ev) # <<>> /\ Len(Append(<<>>, ev)) = 1 /\ Head(Append(<<>>, ev)) = ev
<1>1. uartQueue \in Seq({DataEvent(l) : l \in Lines} \cup {FullEvent, CloseEvent})
  BY DEF TypeInv, TypeOK
<1>2. uartQueue # <<>> => Tail(uartQueue) = <<>>
  BY <1>1, HeadTailProperties, LenProperties, EmptySeq DEF OneToken
<1> QED
  BY <1>2

(* The event of a header goes to an empty queue.                           *)
LEMMA CloseSessSent ==
    ASSUME TypeInv, OneToken, CliCloseSess, uartQueue = <<>>
    PROVE  /\ uartQueue' # <<>> /\ Len(uartQueue') = 1
           /\ Head(uartQueue').type = "close" /\ ~Unread' /\ ~Unread
<1>1. uartQueue' = Append(<<>>, CloseEvent)
  BY DEF CliCloseSess
<1>2. uartQueue' # <<>> /\ Len(uartQueue') = 1 /\ Head(uartQueue') = CloseEvent
  BY <1>1, UartHolds
<1> QED
  BY <1>2 DEF CloseEvent, Unread

LEMMA CoreQueueKept ==
    ASSUME UNCHANGED coreQueue
    PROVE  (NoneAtCore' <=> NoneAtCore) /\ (OneAtCore' <=> OneAtCore)
BY DEF NoneAtCore, OneAtCore, AtCore

LEMMA EnqueueAtCore ==
    ASSUME TypeInv, NEW j \in Jobs \cup {NULL}, Enqueue(j), OneAtCore
    PROVE  /\ Len(coreQueue') = Len(coreQueue) + 1
           /\ coreQueue'[Len(coreQueue) + 1] = j
           /\ \A i \in DOMAIN coreQueue' : i = Len(coreQueue) + 1 \/ (i \in DOMAIN coreQueue /\ coreQueue'[i] = coreQueue[i])
           /\ j \in ApiJobs => (NoneAtCore' <=> NoneAtCore) /\ OneAtCore'
           /\ j \notin ApiJobs /\ NoneAtCore => ~NoneAtCore' /\ OneAtCore'
<1>1. coreQueue \in Seq(Jobs \cup {NULL}) /\ coreQueue' = Append(coreQueue, j)
  BY DEF TypeInv, TypeOK, Enqueue
<1>2. /\ Len(coreQueue) \in Nat /\ Len(coreQueue') = Len(coreQueue) + 1
      /\ DOMAIN coreQueue = 1..Len(coreQueue) /\ DOMAIN coreQueue' = 1..(Len(coreQueue) + 1)
      /\ coreQueue'[Len(coreQueue) + 1] = j
      /\ \A i \in DOMAIN coreQueue : coreQueue'[i] = coreQueue[i]
  BY <1>1, AppendProperties, LenProperties
<1>3. /\ Len(coreQueue) + 1 \in DOMAIN coreQueue'
      /\ Len(coreQueue) + 1 \notin DOMAIN coreQueue
      /\ DOMAIN coreQueue' = DOMAIN coreQueue \cup {Len(coreQueue) + 1}
  BY <1>2
<1> DEFINE k == Len(coreQueue) + 1
<1> HIDE DEF k
<1>4. /\ k \in DOMAIN coreQueue' /\ k \notin DOMAIN coreQueue /\ coreQueue'[k] = j
      /\ DOMAIN coreQueue' = DOMAIN coreQueue \cup {k}
      /\ \A i \in DOMAIN coreQueue : coreQueue'[i] = coreQueue[i]
  BY <1>2, <1>3 DEF k
<1>5. j \in ApiJobs => (NoneAtCore' <=> NoneAtCore) /\ OneAtCore'
  BY <1>4 DEF NoneAtCore, OneAtCore, AtCore
<1>6. j \notin ApiJobs /\ NoneAtCore => ~NoneAtCore' /\ OneAtCore'
  BY <1>4 DEF NoneAtCore, OneAtCore, AtCore
<1> QED
  BY <1>2, <1>3, <1>5, <1>6

LEMMA ReceiveAtCore ==
    ASSUME TypeInv, CoreReceive, OneAtCore
    PROVE  /\ Len(coreQueue') = Len(coreQueue) - 1 /\ Len(coreQueue) \in Nat \ {0}
           /\ 1 \in DOMAIN coreQueue /\ Head(coreQueue) = coreQueue[1]
           /\ Head(coreQueue) \in Jobs \cup {NULL}
           /\ \A i \in DOMAIN coreQueue' : i + 1 \in DOMAIN coreQueue /\ coreQueue'[i] = coreQueue[i + 1]
           /\ Head(coreQueue) \in ApiJobs => (NoneAtCore' <=> NoneAtCore) /\ OneAtCore'
           /\ Head(coreQueue) \notin ApiJobs => ~NoneAtCore /\ NoneAtCore' /\ OneAtCore'
<1>1. coreQueue \in Seq(Jobs \cup {NULL}) /\ coreQueue # <<>> /\ coreQueue' = Tail(coreQueue)
  BY DEF TypeInv, TypeOK, CoreReceive
<1>2. /\ Len(coreQueue) \in Nat \ {0} /\ Len(coreQueue') = Len(coreQueue) - 1
      /\ DOMAIN coreQueue = 1..Len(coreQueue) /\ DOMAIN coreQueue' = 1..(Len(coreQueue) - 1)
      /\ Head(coreQueue) = coreQueue[1] /\ Head(coreQueue) \in Jobs \cup {NULL}
      /\ \A i \in 1..(Len(coreQueue) - 1) : coreQueue'[i] = coreQueue[i + 1]
  BY <1>1, HeadTailProperties, LenProperties, EmptySeq
<1>3. /\ 1 \in DOMAIN coreQueue
      /\ \A i \in DOMAIN coreQueue' : i \in Nat /\ i + 1 \in DOMAIN coreQueue /\ i + 1 # 1 /\ coreQueue'[i] = coreQueue[i + 1]
      /\ \A i \in DOMAIN coreQueue \ {1} : i - 1 \in DOMAIN coreQueue' /\ coreQueue'[i - 1] = coreQueue[i]
  BY <1>2
<1>4. OneAtCore'
  <2> SUFFICES ASSUME NEW i \in DOMAIN coreQueue', NEW k \in DOMAIN coreQueue', AtCore(i)', AtCore(k)'
               PROVE  i = k
    BY DEF OneAtCore
  <2>1. AtCore(i + 1) /\ AtCore(k + 1)
    BY <1>3 DEF AtCore
  <2>2. i + 1 = k + 1 /\ i \in Nat /\ k \in Nat
    BY <1>3, <2>1 DEF OneAtCore, AtCore
  <2> QED
    BY <2>2
<1>5. ASSUME Head(coreQueue) \in ApiJobs PROVE NoneAtCore' <=> NoneAtCore
  <2>1. ASSUME NoneAtCore PROVE NoneAtCore'
    BY <1>3, <2>1 DEF NoneAtCore
  <2>2. ASSUME NoneAtCore', NEW i \in DOMAIN coreQueue PROVE coreQueue[i] \in ApiJobs
    <3>1. CASE i = 1
      BY <1>2, <1>5, <3>1
    <3>2. CASE i # 1
      BY <1>3, <2>2, <3>2 DEF NoneAtCore
    <3> QED
      BY <3>1, <3>2
  <2> QED
    BY <2>1, <2>2 DEF NoneAtCore
<1>6. ASSUME Head(coreQueue) \notin ApiJobs PROVE ~NoneAtCore /\ NoneAtCore'
  <2>1. AtCore(1)
    BY <1>2, <1>3, <1>6 DEF AtCore
  <2>2. \A i \in DOMAIN coreQueue' : ~AtCore(i + 1)
    BY <1>3, <2>1 DEF OneAtCore
  <2> QED
    BY <1>3, <2>1, <2>2 DEF NoneAtCore, AtCore
<1> QED
  BY <1>2, <1>3, <1>4, <1>5, <1>6

-----------------------------------------------------------------------------
(* Who asked.                                                              *)

LEMMA InitSessionInv == Init => SessionInv
<1> SUFFICES ASSUME Init PROVE SessionInv
  OBVIOUS
<1> USE CliSessionAssumption, ServerIsNoUser DEF Init
<1>1. Busy = {} /\ Cardinality(Busy) = 0 /\ IsFiniteSet(Busy)
  BY FS_EmptySet DEF Busy
<1>2. Room
  <2>1. Len(coreQueue) = 0 /\ Waiting = 0 /\ Working = 0 /\ Coming = 0
    BY DEF Waiting, Working, Coming, Unread
  <2> QED
    BY <1>1, <2>1 DEF Room, OnItsWay
<1>3. NoneAtCore /\ OneAtCore /\ NoneOwes /\ OneOwes
  BY DEF NoneAtCore, OneAtCore, NoneOwes, OneOwes, AtCore, Owes, Idle
<1>4. OneToken /\ Transaction /\ InStep
  BY <1>3 DEF OneToken, Transaction, Answered, InStep, Unread
<1>5. Callers
  BY DEF Callers, Asked, Idle
<1> QED
  BY <1>2, <1>4, <1>5 DEF SessionInv

(* A job of the application keeps who asked for it.                        *)
LEMMA AskedKept ==
    ASSUME NEW j, Asked(j), \A k \in UserJobs : caller'[k] = caller[k]
    PROVE  Asked(j)'
BY ServerIsNoUser DEF Asked

(* A line that is read is about no job of the client.                      *)
LEMMA ReadIsTerminals ==
    ASSUME TypeInv, Apart, ServerReceives("data"), NEW l \in Read(Head(uartQueue)) \ {Blank}
    PROVE  l \in Command \cup {Garbled} /\ l.job \notin ApiJobs
<1>1. buffer \in Lines \ {Overlong}
  BY DEF TypeInv, TypeOK
<1>2. l \in Command \cup {Garbled}
  BY <1>1, LinesAreDistinct DEF Read
<1>3. l \in Command => l.job \in Typed
  BY DEF Command
<1>4. l = Garbled => l.job = Unknown
  BY DEF Garbled
<1> QED
  BY <1>2, <1>3, <1>4, ServerIsNoUser DEF Apart

(* Callers is kept by a step that hands on no request.                     *)
LEMMA CallersKept ==
    ASSUME Callers, UNCHANGED <<toDo, client, coreQueue, env>>,
           \A k \in UserJobs : caller'[k] = caller[k],
           \A k \in ApiJobs : failed'[k] = failed[k]
    PROVE  Callers'
BY AskedKept DEF Callers

LEMMA ServerCallers ==
    ASSUME TypeInv, Callers, Apart, OneAtCore, Server
    PROVE  Callers'
<1> USE ServerIsNoUser DEF serverVars, coreVars, jobVars, clientVars
<1>1. CASE ServerBlank \/ ServerCloseSession
  BY <1>1, CallersKept DEF ServerBlank, ServerCloseSession
<1>2. CASE ServerCommand
  <2>1. PICK l \in Read(Head(uartQueue)) \ {Blank} : Prepared(l)
    BY <1>2 DEF ServerCommand
  <2>2. l.job \notin ApiJobs
    BY <1>2, <2>1, ReadIsTerminals DEF ServerCommand
  <2>3. caller \in [Jobs -> {"core", "cli", "api"}] /\ failed \in [Jobs -> BOOLEAN]
    BY DEF TypeInv, TypeOK
  <2>4. toDo' \notin ApiJobs /\ Asked(toDo)'
    BY <2>1, <2>2, <2>3 DEF Prepared, Asked
  <2>5. \A j : Asked(j) => Asked(j)'
    BY <2>1, <2>2, <2>3 DEF Prepared, Asked
  <2>6. \A j \in ApiJobs : ~failed'[j]
    BY <2>1, <2>2, <2>3 DEF Prepared, Callers
  <2>7. UNCHANGED <<coreQueue, env, client>>
    BY <1>2 DEF ServerCommand
  <2> QED
    BY <2>4, <2>5, <2>6, <2>7 DEF Callers
<1>3. CASE ServerOverflow
  <2>1. caller \in [Jobs -> {"core", "cli", "api"}] /\ failed \in [Jobs -> BOOLEAN]
    BY DEF TypeInv, TypeOK
  <2>2. \A j : Asked(j) => Asked(j)'
    BY <1>3, <2>1 DEF ServerOverflow, Asked
  <2>3. toDo' = CliServer /\ \A j \in ApiJobs : failed'[j] = failed[j]
    BY <1>3, <2>1 DEF ServerOverflow
  <2>4. toDo' \notin ApiJobs /\ Asked(toDo)'
    BY <2>3 DEF Asked
  <2> QED
    BY <1>3, <2>2, <2>3, <2>4 DEF ServerOverflow, Callers
<1>4. CASE ServerNotify
  <2>1. toDo \in Jobs \cup {NULL} /\ Enqueue(toDo) /\ toDo' = NULL /\ UNCHANGED <<env, client, jobVars>>
    BY <1>4 DEF ServerNotify, TypeInv, TypeOK
  <2>2. \A j : Asked(j) => Asked(j)'
    BY <2>1 DEF Asked
  <2>3. \A i \in DOMAIN coreQueue' : Asked(coreQueue'[i])
    BY <2>1, EnqueueAtCore DEF Callers
  <2>4. Asked(toDo')
    BY <2>1 DEF Asked
  <2> QED
    BY <2>1, <2>2, <2>3, <2>4 DEF Callers
<1> QED
  BY <1>1, <1>2, <1>3, <1>4 DEF Server

(* What the client asks for is not refused.                                *)
LEMMA ClientIsServed ==
    ASSUME TypeInv, Callers, Room, OneAtCore, Apart, Roomy, CoreReceive, Head(coreQueue) \in ApiJobs
    PROVE  ~Faulty(Head(coreQueue))
<1> DEFINE j == Head(coreQueue)
<1>1. j \in ApiJobs /\ j \in Jobs /\ j \in UserJobs /\ j # CliServer /\ j \notin Singletons /\ ~failed[j]
  BY ServerIsNoUser DEF Apart, Callers
<1>2. \E e \in Envs : env[e] = Idle
  <2> SUFFICES ASSUME \A e \in Envs : env[e] # Idle PROVE FALSE
    OBVIOUS
  <2>1. Busy = Envs
    BY DEF Busy
  <2>2. IsFiniteSet(Envs) /\ Cardinality(Envs) >= MaxLines + MaxLaunches
    BY DEF Roomy
  <2>3. Len(coreQueue) \in Nat \ {0}
    BY ReceiveAtCore
  <2>6. Waiting \in Nat /\ Working \in Nat /\ Coming \in Nat
    BY DEF Waiting, Working, Coming
  <2>4. launches <= MaxLaunches /\ Len(typed) \in Nat /\ launches \in Nat /\ Len(typed) <= MaxLines
    BY CliSessionAssumption, LenProperties DEF TypeInv, TypeOK, Room
  <2>5. Cardinality(Envs) \in Nat
    BY <2>2, FS_CardinalityType
  <2> QED
    BY <2>1, <2>2, <2>3, <2>4, <2>5, <2>6, CliSessionAssumption DEF Room, OnItsWay
<1> QED
  BY <1>1, <1>2 DEF Faulty, Refused

LEMMA CoreCallers ==
    ASSUME TypeInv, Callers, Room, OneAtCore, Apart, Roomy,
           CoreJob \/ ClientNotify \/ \E j \in ApiJobs : JesLaunchJob(j)
    PROVE  Callers'
<1> USE ServerIsNoUser DEF uartVars, serverVars, coreVars, jobVars, clientVars
<1>1. ASSUME CoreReceive, UNCHANGED caller
      PROVE  /\ \A j : Asked(j) => Asked(j)'
             /\ \A i \in DOMAIN coreQueue' : Asked(coreQueue[i + 1]) /\ Asked(coreQueue[i])'
             /\ Asked(Head(coreQueue))
  <2>1. \A j : Asked(j) => Asked(j)'
    BY <1>1 DEF Asked
  <2>2. \A i \in DOMAIN coreQueue' : Asked(coreQueue[i + 1]) /\ coreQueue'[i] = coreQueue[i + 1]
    BY <1>1, ReceiveAtCore DEF Callers
  <2>3. \A i \in DOMAIN coreQueue' : Asked(coreQueue[i])'
    BY <2>1, <2>2
  <2>4. Asked(Head(coreQueue))
    BY <1>1, ReceiveAtCore DEF Callers
  <2> QED
    BY <2>1, <2>2, <2>3, <2>4
<1>2. CASE CoreFault
  <2>1. Head(coreQueue) \notin ApiJobs
    BY <1>2, ClientIsServed DEF CoreFault
  <2>2. \A j \in ApiJobs : ~failed'[j]
    BY <1>2, <2>1 DEF CoreFault, Callers
  <2>3. CoreReceive /\ UNCHANGED <<caller, toDo, client, env>>
    BY <1>2 DEF CoreFault
  <2>4. \A i \in DOMAIN coreQueue' : Asked(coreQueue[i])'
    BY <1>1, <2>3
  <2>5. \A j : Asked(j) => Asked(j)'
    BY <1>1, <2>3
  <2> QED
    BY <2>2, <2>3, <2>4, <2>5 DEF Callers
<1>3. CASE CoreLaunch
  <2>1. PICK e \in Envs : env' = [env EXCEPT ![e] = [at |-> "enter", job |-> Head(coreQueue)]]
    BY <1>3 DEF CoreLaunch
  <2>2. /\ env'[e].at = "enter" /\ env'[e].job = Head(coreQueue)
        /\ \A f \in Envs \ {e} : env'[f] = env[f]
    BY <1>3, <2>1, LaunchedIsUser, SetTyped DEF TypeInv, Places
  <2>3. CoreReceive /\ UNCHANGED <<caller, failed, toDo, client>>
    BY <1>3 DEF CoreLaunch
  <2>4. \A j : Asked(j) => Asked(j)'
    BY <1>1, <2>3
  <2>5. \A i \in DOMAIN coreQueue' : Asked(coreQueue[i])'
    BY <1>1, <2>3
  <2>6. Asked(Head(coreQueue))
    BY <1>1, <2>3
  <2>7. \A f \in Envs : Asked(env[f].job)'
    BY <2>2, <2>4, <2>6 DEF Callers
  <2>8. \A f \in Envs : env'[f].job \in ApiJobs => env'[f].at \notin {"closeFirst", "close"}
    BY <2>2 DEF Callers
  <2> QED
    BY <2>3, <2>4, <2>5, <2>7, <2>8 DEF Callers
<1>4. CASE CoreCloseSess
  BY <1>4, CallersKept DEF CoreCloseSess
<1>5. CASE ClientNotify
  <2>1. client \in Jobs /\ Enqueue(client) /\ client' = NULL /\ UNCHANGED <<env, toDo, caller, failed>>
    BY <1>5 DEF ClientNotify, TypeInv, TypeOK
  <2>2. \A j : Asked(j) => Asked(j)'
    BY <2>1 DEF Asked
  <2>3. Asked(client)
    BY <1>5 DEF ClientNotify, Callers
  <2>4. \A i \in DOMAIN coreQueue' : Asked(coreQueue'[i])
    BY <2>1, <2>3, EnqueueAtCore DEF Callers
  <2> QED
    BY <2>1, <2>2, <2>4 DEF Callers
<1>6. ASSUME NEW j \in ApiJobs, JesLaunchJob(j) PROVE Callers'
  <2>1. /\ caller' = [caller EXCEPT ![j] = "api"] /\ client' = j
        /\ UNCHANGED <<coreQueue, env, toDo, failed>>
    BY <1>6 DEF JesLaunchJob
  <2>2. caller \in [Jobs -> {"core", "cli", "api"}]
    BY DEF TypeInv, TypeOK
  <2>3. \A k : Asked(k) => Asked(k)'
    BY <2>1, <2>2 DEF Asked
  <2>4. Asked(client)'
    BY <2>1, <2>2 DEF Asked
  <2> QED
    BY <2>1, <2>3, <2>4 DEF Callers
<1> QED
  BY <1>2, <1>3, <1>4, <1>5, <1>6 DEF CoreJob

LEMMA EnvCallers ==
    ASSUME TypeInv, Callers, NEW e \in Envs, RuntimeEnv(e), Apart
    PROVE  Callers'
<1> USE ServerIsNoUser DEF At, serverVars, coreVars, jobVars, clientVars, TypeInv
<1>1. UNCHANGED <<coreQueue, toDo, client, caller>> /\ \A j : Asked(j) <=> Asked(j)'
  <2>1. UNCHANGED <<coreQueue, toDo, client, caller>>
    BY DEF RuntimeEnv, EnvEnter, EnvCloseFirst, EnvCount, EnvReturn, EnvLeave, EnvClose
  <2> QED
    BY <2>1 DEF Asked
<1>2. \A j \in ApiJobs : ~failed'[j]
  <2>1. CASE EnvReturn(e)
    <3>1. PICK throws \in IF env[e].job \in Throwers THEN BOOLEAN ELSE {FALSE} :
             failed' = [failed EXCEPT ![env[e].job] = @ \/ throws]
      BY <2>1 DEF EnvReturn
    <3>2. failed \in [Jobs -> BOOLEAN] /\ \A j \in ApiJobs : ~failed[j]
      BY DEF TypeOK, Callers
    <3>3. env[e].job \in ApiJobs => throws = FALSE
      BY <3>1 DEF Apart
    <3> QED
      BY <3>1, <3>2, <3>3
  <2>2. CASE ~EnvReturn(e)
    BY <2>2 DEF RuntimeEnv, EnvEnter, EnvCloseFirst, EnvCount, EnvLeave, EnvClose, Callers
  <2> QED
    BY <2>1, <2>2
<1>3. ASSUME NEW l \in Places, NEW j \in {env[e].job, NULL},
             env'[e].at = l, env'[e].job = j, \A f \in Envs \ {e} : env'[f] = env[f],
             j \in ApiJobs => l \notin {"closeFirst", "close"}
      PROVE  Callers'
  <2>1. \A f \in Envs : Asked(env'[f].job)
    BY <1>3 DEF Callers, Asked
  <2>2. \A f \in Envs : env'[f].job \in ApiJobs => env'[f].at \notin {"closeFirst", "close"}
    BY <1>3 DEF Callers
  <2> QED
    BY <1>1, <1>2, <2>1, <2>2 DEF Callers
<1>4. ASSUME NEW l \in Places, Goto(e, l), env[e].job \in ApiJobs => l \notin {"closeFirst", "close"}
      PROVE  Callers'
  BY <1>3, <1>4, GotoTyped
<1>5. ASSUME env' = [env EXCEPT ![e] = Idle]
      PROVE  Callers'
  <2>1. /\ env'[e].at = "none" /\ env'[e].job = NULL
        /\ \A f \in Envs \ {e} : env'[f] = env[f]
    BY <1>5, SetTyped DEF Idle, Places
  <2> QED
    BY <1>3, <2>1 DEF Places
<1>6. env[e].job \in ApiJobs => caller[env[e].job] = "api"
  BY DEF Callers, Asked
<1>7. CASE EnvEnter(e)
  <2>1. CASE ClosesFirst(env[e].job)
    BY <1>4, <1>6, <1>7, <2>1 DEF EnvEnter, ClosesFirst, Places
  <2>2. CASE ~ClosesFirst(env[e].job)
    BY <1>4, <1>7, <2>2 DEF EnvEnter, Places
  <2> QED
    BY <2>1, <2>2
<1>8. CASE EnvCloseFirst(e) \/ EnvCount(e) \/ EnvReturn(e)
  BY <1>4, <1>8 DEF EnvCloseFirst, EnvCount, EnvReturn, Places
<1>9. CASE EnvLeave(e)
  <2>1. CASE ClosesLast(env[e].job)
    <3>1. Goto(e, "close") /\ env[e].job \notin ApiJobs
      BY <1>6, <1>9, <2>1 DEF EnvLeave, Goto, ClosesLast
    <3> QED
      BY <1>4, <3>1 DEF Places
  <2>2. CASE ~ClosesLast(env[e].job)
    BY <1>5, <1>9, <2>2 DEF EnvLeave
  <2> QED
    BY <2>1, <2>2
<1>10. CASE EnvClose(e)
  BY <1>5, <1>10 DEF EnvClose
<1> QED
  BY <1>7, <1>8, <1>9, <1>10 DEF RuntimeEnv

-----------------------------------------------------------------------------
(* There is always room for what is asked.                                 *)

(* An environment that is about to close a session has the token.          *)
LEMMA ClosingOwes ==
    ASSUME TypeInv, Callers, OneToken, NEW e \in Envs, env[e].at \in {"closeFirst", "close"}
    PROVE  /\ Owes(e) /\ ~NoneOwes
           /\ uartQueue = <<>> /\ server = "receive" /\ NoneAtCore /\ core = "receive"
<1>1. Owes(e) /\ ~NoneOwes
  BY DEF Callers, Owes, NoneOwes
<1> QED
  BY <1>1 DEF OneToken, TypeInv, TypeOK

(* What the server takes from the queue is all there is.                   *)
LEMMA ServerTakes ==
    ASSUME TypeInv, OneToken, NEW type, ServerReceives(type)
    PROVE  /\ server = "receive" /\ uartQueue # <<>> /\ Tail(uartQueue) = <<>>
           /\ Unread <=> type # "close"
BY UartHolds DEF ServerReceives, Unread

LEMMA RoomNumbers ==
    ASSUME TypeInv, Room
    PROVE  /\ Cardinality(Busy) \in Nat /\ Len(coreQueue) \in Nat
           /\ Len(typed) \in Nat /\ launches \in Nat
           /\ Waiting \in Nat /\ Working \in Nat /\ Coming \in Nat /\ OnItsWay \in Nat
<1>1. /\ Len(coreQueue) \in Nat /\ Waiting \in Nat /\ Working \in Nat /\ Coming \in Nat
  BY LenProperties DEF TypeInv, TypeOK, Waiting, Working, Coming
<1>2. OnItsWay \in Nat
  BY <1>1 DEF OnItsWay
<1> QED
  BY <1>1, <1>2, FS_CardinalityType, LenProperties, CliSessionAssumption DEF Room, TypeInv, TypeOK

(* A step that lets in k requests and takes at most k more places.         *)
LEMMA RoomBalance ==
    ASSUME TypeInv, Room, Busy' = Busy, NEW k \in {-1, 0, 1},
           OnItsWay' <= OnItsWay + k, OnItsWay' \in Int,
           Len(typed') + launches' >= Len(typed) + launches + k,
           Len(typed') \in Nat, launches' \in Nat, Len(typed') <= MaxLines
    PROVE  Room'
<1>1. /\ Cardinality(Busy) \in Nat /\ OnItsWay \in Nat
      /\ Len(typed) \in Nat /\ launches \in Nat
  BY RoomNumbers
<1>2. IsFiniteSet(Busy') /\ Cardinality(Busy') = Cardinality(Busy)
  BY DEF Room
<1>3. Cardinality(Busy) + OnItsWay <= Len(typed) + launches
  BY DEF Room
<1>4. Cardinality(Busy') + OnItsWay' <= Len(typed') + launches'
  BY <1>1, <1>2, <1>3
<1> QED
  BY <1>2, <1>4 DEF Room

(* A place that is left alone.                                             *)
LEMMA PlacesKept ==
    /\ UNCHANGED env => Busy' = Busy
    /\ UNCHANGED client => Waiting' = Waiting
    /\ UNCHANGED server => Working' = Working
    /\ UNCHANGED uartQueue => Coming' = Coming /\ (Unread' <=> Unread)
    /\ uartQueue' = <<>> => Coming' = 0 /\ ~Unread'
BY DEF Busy, Waiting, Working, Coming, Unread

LEMMA ServerRoom ==
    ASSUME TypeInv, Room, OneToken, Server
    PROVE  Room'
<1>0. OneAtCore /\ UNCHANGED <<env, client, typed, launches>>
  BY DEF OneToken, Server, ServerBlank, ServerCommand, ServerOverflow, ServerCloseSession,
     ServerNotify, clientVars
<1>1. Busy' = Busy /\ Waiting' = Waiting
  BY <1>0, PlacesKept
<1>2. CASE ServerBlank \/ ServerCloseSession
  <2>1. uartQueue' = <<>> /\ UNCHANGED <<coreQueue, server>>
    BY <1>2, ServerTakes DEF ServerBlank, ServerCloseSession, coreVars
  <2>2. Coming' = 0 /\ Working' = Working
    BY <2>1, PlacesKept
  <2> QED
    BY <1>0, <1>1, <2>1, <2>2, RoomNumbers DEF Room, OnItsWay
<1>3. CASE ServerCommand \/ ServerOverflow
  <2>1. /\ uartQueue' = <<>> /\ UNCHANGED coreQueue
        /\ Unread /\ server = "receive" /\ server' = "notify"
    <3>1. PICK type \in {"data", "full"} : ServerReceives(type)
      BY <1>3 DEF ServerCommand, ServerOverflow
    <3>2. server = "receive" /\ Unread /\ Tail(uartQueue) = <<>>
      BY <3>1, ServerTakes
    <3> QED
      BY <1>3, <3>2 DEF ServerCommand, ServerOverflow, coreVars
  <2>2. Coming' = 0 /\ Coming = 1 /\ Working' = 1 /\ Working = 0
    BY <2>1, PlacesKept DEF Coming, Working
  <2> QED
    BY <1>0, <1>1, <2>1, <2>2, RoomNumbers DEF Room, OnItsWay
<1>4. CASE ServerNotify
  <2>1. /\ Len(coreQueue') = Len(coreQueue) + 1 /\ UNCHANGED uartQueue
        /\ server = "notify" /\ server' = "receive"
    BY <1>0, <1>4, EnqueueAtCore DEF ServerNotify, TypeInv, TypeOK, uartVars
  <2>2. Coming' = Coming /\ Working' = 0 /\ Working = 1
    BY <2>1, PlacesKept DEF Working
  <2> QED
    BY <1>0, <1>1, <2>1, <2>2, RoomNumbers DEF Room, OnItsWay
<1> QED
  BY <1>2, <1>3, <1>4 DEF Server

LEMMA CoreRoom ==
    ASSUME TypeInv, Room, OneToken,
           CoreJob \/ ClientNotify \/ \E j \in ApiJobs : JesLaunchJob(j)
    PROVE  Room'
<1> USE DEF serverVars, coreVars, jobVars, clientVars, uartVars
<1>0. OneAtCore /\ UNCHANGED <<server, typed>>
  BY DEF OneToken, CoreJob, CoreFault, CoreLaunch, CoreCloseSess, ClientNotify, JesLaunchJob
<1>1. Working' = Working
  BY <1>0, PlacesKept
<1>2. CASE CoreFault
  <2>1. Len(coreQueue') = Len(coreQueue) - 1 /\ UNCHANGED <<uartQueue, env, client, launches>>
    BY <1>0, <1>2, ReceiveAtCore DEF CoreFault
  <2>2. Busy' = Busy /\ Coming' = Coming /\ Waiting' = Waiting
    BY <2>1, PlacesKept
  <2>3. Len(coreQueue) # 0
    BY <1>0, <1>2, ReceiveAtCore DEF CoreFault
  <2> QED
    <3>1. OnItsWay' <= OnItsWay + 0 /\ OnItsWay' \in Int
      BY <1>1, <2>1, <2>2, <2>3, RoomNumbers, SMTT(40) DEF OnItsWay
    <3> QED
      BY <1>0, <2>1, <2>2, <3>1, RoomNumbers, RoomBalance DEF Room
<1>3. CASE CoreLaunch
  <2>1. PICK e \in Envs : /\ env[e] = Idle
                          /\ env' = [env EXCEPT ![e] = [at |-> "enter", job |-> Head(coreQueue)]]
    BY <1>3 DEF CoreLaunch
  <2>2. env'[e].at = "enter" /\ \A f \in Envs \ {e} : env'[f] = env[f]
    BY <1>3, <2>1, LaunchedIsUser, SetTyped DEF TypeInv, Places
  <2>3. Busy' = Busy \cup {e}
    <3>1. env'[e] # Idle
      BY <2>2 DEF Idle
    <3> QED
      BY <2>2, <3>1 DEF Busy
  <2>4. IsFiniteSet(Busy') /\ Cardinality(Busy') \in Nat /\ Cardinality(Busy') <= Cardinality(Busy) + 1
    <3>1. IsFiniteSet(Busy)
      BY DEF Room
    <3>2. /\ IsFiniteSet(Busy')
          /\ Cardinality(Busy') = IF e \in Busy THEN Cardinality(Busy) ELSE Cardinality(Busy) + 1
      BY <2>3, <3>1, FS_AddElement
    <3> QED
      BY <3>2, RoomNumbers
  <2>5. Len(coreQueue') = Len(coreQueue) - 1 /\ UNCHANGED <<uartQueue, client, launches>>
    BY <1>0, <1>3, ReceiveAtCore DEF CoreLaunch
  <2>6. Coming' = Coming /\ Waiting' = Waiting
    BY <2>5, PlacesKept
  <2>7. /\ Len(coreQueue') + 1 = Len(coreQueue) /\ Len(coreQueue) \in Nat
        /\ Cardinality(Busy) \in Nat /\ Waiting \in Nat /\ Working \in Nat /\ Coming \in Nat
    BY <2>5, RoomNumbers
  <2>8. Cardinality(Busy') + OnItsWay' <= Cardinality(Busy) + OnItsWay
    BY <1>1, <2>4, <2>6, <2>7 DEF OnItsWay
  <2>9. OnItsWay \in Nat /\ OnItsWay' \in Nat
    BY <1>1, <2>5, <2>6, <2>7, ReceiveAtCore, <1>0, <1>3, LenProperties
    DEF OnItsWay, CoreLaunch
  <2> QED
    BY <1>0, <2>4, <2>5, <2>8, <2>9, RoomNumbers, SMTT(40) DEF Room
<1>4. CASE CoreCloseSess
  <2>1. UNCHANGED <<coreQueue, env, client, launches>>
    BY <1>4 DEF CoreCloseSess
  <2>2. ~Unread' /\ ~Unread
    BY <1>4, CloseSessSent DEF CoreCloseSess, OneToken
  <2>3. Busy' = Busy /\ Coming' = Coming /\ Waiting' = Waiting
    BY <2>1, <2>2, PlacesKept DEF Coming
  <2> QED
    BY <1>0, <1>1, <2>1, <2>3, RoomNumbers DEF Room, OnItsWay
<1>5. CASE ClientNotify
  <2>1. /\ Len(coreQueue') = Len(coreQueue) + 1 /\ client # NULL /\ client' = NULL
        /\ UNCHANGED <<uartQueue, env, launches>>
    BY <1>0, <1>5, EnqueueAtCore, ServerIsNoUser DEF ClientNotify, TypeInv, TypeOK
  <2>2. Busy' = Busy /\ Coming' = Coming /\ Waiting' = 0 /\ Waiting = 1
    BY <2>1, PlacesKept DEF Waiting
  <2> QED
    BY <1>0, <1>1, <2>1, <2>2, RoomNumbers DEF Room, OnItsWay
<1>6. ASSUME NEW j \in ApiJobs, JesLaunchJob(j) PROVE Room'
  <2>1. /\ client = NULL /\ client' # NULL /\ launches' = launches + 1
        /\ UNCHANGED <<uartQueue, coreQueue, env>>
    BY <1>6, ServerIsNoUser DEF JesLaunchJob
  <2>2. Busy' = Busy /\ Coming' = Coming /\ Waiting' = 1 /\ Waiting = 0
    BY <2>1, PlacesKept DEF Waiting
  <2>3. OnItsWay' <= OnItsWay + 1 /\ OnItsWay' \in Int
    BY <1>1, <2>1, <2>2, RoomNumbers DEF OnItsWay
  <2>4. /\ Len(typed') + launches' >= Len(typed) + launches + 1
        /\ Len(typed') \in Nat /\ launches' \in Nat
    BY <1>0, <2>1, RoomNumbers
  <2>5. Len(typed') <= MaxLines
    BY <1>0 DEF Room
  <2> QED
    BY <2>2, <2>3, <2>4, <2>5, RoomBalance
<1> QED
  BY <1>2, <1>3, <1>4, <1>5, <1>6 DEF CoreJob

LEMMA EnvRoom ==
    ASSUME TypeInv, Callers, Room, OneToken, NEW e \in Envs, RuntimeEnv(e)
    PROVE  Room'
<1> USE DEF At, serverVars, coreVars, jobVars, clientVars, uartVars
<1>1. UNCHANGED <<coreQueue, client, server, typed, launches>>
  BY DEF RuntimeEnv, EnvEnter, EnvCloseFirst, EnvCount, EnvReturn, EnvLeave, EnvClose
<1>2. Unread' <=> Unread
  <2>1. CASE EnvCloseFirst(e) \/ EnvClose(e)
    BY <2>1, ClosingOwes, CloseSessSent DEF EnvCloseFirst, EnvClose
  <2>2. CASE ~(EnvCloseFirst(e) \/ EnvClose(e))
    BY <2>2 DEF RuntimeEnv, EnvEnter, EnvCount, EnvReturn, EnvLeave, Unread
  <2> QED
    BY <2>1, <2>2
<1>3. Coming' = Coming /\ Waiting' = Waiting /\ Working' = Working
  BY <1>1, <1>2, PlacesKept DEF Coming
<1>4. Busy' \subseteq Busy
  <2>1. \A f \in Envs \ {e} : env'[f] = env[f]
    BY DEF RuntimeEnv, EnvEnter, EnvCloseFirst, EnvCount, EnvReturn, EnvLeave, EnvClose, Goto,
       TypeInv, TypeOK
  <2>2. env[e].at # "none"
    BY DEF RuntimeEnv, EnvEnter, EnvCloseFirst, EnvCount, EnvReturn, EnvLeave, EnvClose
  <2>3. env[e] # Idle
    BY <2>2 DEF Idle
  <2> QED
    BY <2>1, <2>3 DEF Busy
<1>5. IsFiniteSet(Busy') /\ Cardinality(Busy') <= Cardinality(Busy)
  BY <1>4, FS_Subset DEF Room
<1>6. Cardinality(Busy') \in Nat
  BY <1>5, FS_CardinalityType
<1> QED
  BY <1>1, <1>3, <1>5, <1>6, RoomNumbers DEF Room, OnItsWay

-----------------------------------------------------------------------------
(* The token.                                                              *)

LEMMA OwesKept ==
    ASSUME UNCHANGED env
    PROVE  (NoneOwes' <=> NoneOwes) /\ (OneOwes' <=> OneOwes)
BY DEF NoneOwes, OneOwes, Owes

LEMMA OwesMoves ==
    ASSUME NEW e \in Envs, \A f \in Envs \ {e} : env'[f] = env[f], OneOwes
    PROVE  /\ (Owes(e) <=> (env'[e].job \notin ApiJobs
                            /\ \/ env'[e].at \in {"enter", "closeFirst", "close"}
                               \/ env'[e].at \in {"count", "run", "leave"} /\ env'[e].job \notin Loops))
              => (NoneOwes' <=> NoneOwes) /\ OneOwes'
           /\ Owes(e) /\ ~Owes(e)' => ~NoneOwes /\ NoneOwes' /\ OneOwes'
           /\ NoneOwes /\ Owes(e)' => ~NoneOwes' /\ OneOwes'
<1>1. \A f \in Envs \ {e} : Owes(f)' <=> Owes(f)
  BY DEF Owes
<1>2. Owes(e)' <=> (env'[e].job \notin ApiJobs
                    /\ \/ env'[e].at \in {"enter", "closeFirst", "close"}
                       \/ env'[e].at \in {"count", "run", "leave"} /\ env'[e].job \notin Loops)
  BY DEF Owes
<1>3. ASSUME Owes(e) <=> Owes(e)' PROVE (NoneOwes' <=> NoneOwes) /\ OneOwes'
  BY <1>1, <1>3 DEF NoneOwes, OneOwes
<1>4. ASSUME Owes(e), ~Owes(e)' PROVE ~NoneOwes /\ NoneOwes' /\ OneOwes'
  BY <1>1, <1>4 DEF NoneOwes, OneOwes
<1>5. ASSUME NoneOwes, Owes(e)' PROVE ~NoneOwes' /\ OneOwes'
  BY <1>1, <1>5 DEF NoneOwes, OneOwes
<1> QED
  BY <1>2, <1>3, <1>4, <1>5

TokenInv == OneToken /\ Transaction /\ InStep

LEMMA TypedToken ==
    ASSUME TypeInv, TokenInv, Paced, NEW l \in Lines, RxEventCallback(l)
    PROVE  TokenInv'
<1> DEFINE ev == IF l = Overlong THEN FullEvent ELSE DataEvent(l)
<1>1. Answered /\ headers = Len(typed) /\ OneAtCore /\ OneOwes
  BY DEF RxEventCallback, TokenInv, Transaction, OneToken
<1>2. uartQueue' = Append(<<>>, ev)
  BY <1>1, CliSessionAssumption DEF RxEventCallback, FromISR, Answered
<1>3. uartQueue' # <<>> /\ Len(uartQueue') = 1 /\ Head(uartQueue') = ev
  <2> HIDE DEF ev
  <2> QED
    BY <1>2, UartHolds DEF TokenInv
<1>4. UNCHANGED <<server, core, env, coreQueue, headers, handled>> /\ typed' = Append(typed, l)
  BY DEF RxEventCallback, serverVars, coreVars
<1>5. Len(typed') = Len(typed) + 1 /\ Len(typed) \in Nat
  BY <1>4, AppendProperties, LenProperties DEF TypeInv, TypeOK
<1>6. (NoneAtCore' <=> NoneAtCore) /\ (OneAtCore' <=> OneAtCore) /\ (NoneOwes' <=> NoneOwes) /\ (OneOwes' <=> OneOwes)
  BY <1>4, CoreQueueKept, OwesKept
<1>7. OneToken'
  BY <1>1, <1>3, <1>4, <1>6 DEF OneToken, Answered
<1>8. Transaction'
  BY <1>1, <1>3, <1>4, <1>5 DEF Transaction, Answered
<1>9. InStep'
  <2>1. handled = typed
    BY <1>1 DEF TokenInv, InStep, Answered, Unread
  <2>2. typed' = Append(handled', l)
    BY <1>4, <2>1
  <2>3. CASE l = Overlong
    BY <1>3, <2>2, <2>3 DEF InStep, FullEvent, Unread
  <2>4. CASE l # Overlong
    <3>1. buffer' = l
      BY <2>4 DEF RxEventCallback, Buffered
    <3>2. uartQueue' # <<>> /\ Head(uartQueue').type = "data" /\ Head(uartQueue').line = l
      BY <1>3, <2>4 DEF DataEvent
    <3> QED
      BY <2>2, <3>1, <3>2 DEF InStep, Unread
  <2> QED
    BY <2>3, <2>4
<1> QED
  BY <1>7, <1>8, <1>9 DEF TokenInv

(* The server reads the line whose event it takes.                         *)
LEMMA ReadsWhatWasTyped ==
    ASSUME TypeInv, TokenInv, ServerReceives("data")
    PROVE  Read(Head(uartQueue)) = {buffer} /\ typed = Append(handled, buffer)
<1>1. Unread
  BY ServerTakes DEF TokenInv
<1>2. Head(uartQueue).line = buffer /\ typed = Append(handled, buffer)
  BY <1>1 DEF TokenInv, InStep, ServerReceives
<1> QED
  BY <1>2 DEF Read

LEMMA ServerToken ==
    ASSUME TypeInv, Callers, TokenInv, Server
    PROVE  TokenInv'
<1> USE DEF serverVars, coreVars, jobVars, clientVars, uartVars
<1>0. OneToken /\ Transaction /\ InStep
  BY DEF TokenInv
<1>1. UNCHANGED <<env, core, typed>> /\ Len(typed) \in Nat /\ headers \in Nat
  BY LenProperties DEF Server, ServerBlank, ServerCommand, ServerOverflow, ServerCloseSession,
     ServerNotify, TypeInv, TypeOK
<1>2. (NoneOwes' <=> NoneOwes) /\ (OneOwes' <=> OneOwes)
  BY <1>1, OwesKept
<1>3. ASSUME NEW type \in {"data", "full", "close"}, ServerReceives(type)
      PROVE  /\ uartQueue # <<>> /\ Tail(uartQueue) = <<>> /\ (Unread <=> type # "close")
             /\ server = "receive" /\ NoneAtCore /\ OneAtCore /\ core = "receive" /\ NoneOwes /\ OneOwes
             /\ headers = Len(typed) - 1
  BY <1>0, <1>3, ServerTakes DEF OneToken, Transaction, Answered
(* The token becomes a header.                                             *)
<1>4. ASSUME NEW type \in {"data", "full", "close"}, ServerReceives(type), uartQueue' = <<>>,
             UNCHANGED <<server, coreQueue>>, headers' = headers + 1, handled' = typed
      PROVE  TokenInv'
  <2>1. NoneAtCore' /\ OneAtCore' /\ NoneOwes' /\ OneOwes' /\ server' = "receive" /\ core' = "receive"
    BY <1>1, <1>2, <1>3, <1>4, CoreQueueKept
  <2>2. OneToken'
    BY <1>4, <2>1 DEF OneToken
  <2>3. Transaction'
    BY <1>1, <1>3, <1>4, <2>1 DEF Transaction, Answered
  <2>4. InStep'
    BY <1>1, <1>4, PlacesKept DEF InStep
  <2> QED
    BY <2>2, <2>3, <2>4 DEF TokenInv
(* The server takes the token.                                             *)
<1>5. ASSUME NEW type \in {"data", "full"}, ServerReceives(type), uartQueue' = <<>>,
             server' = "notify", UNCHANGED <<coreQueue, headers>>, handled' = typed
      PROVE  TokenInv'
  <2>1. NoneAtCore' /\ OneAtCore' /\ NoneOwes' /\ OneOwes' /\ core' = "receive"
    BY <1>1, <1>2, <1>3, <1>5, CoreQueueKept
  <2>2. OneToken'
    BY <1>5, <2>1 DEF OneToken
  <2>3. Transaction'
    BY <1>1, <1>3, <1>5, <2>1 DEF Transaction, Answered
  <2>4. InStep'
    BY <1>1, <1>5, PlacesKept DEF InStep
  <2> QED
    BY <2>2, <2>3, <2>4 DEF TokenInv
<1>6. CASE ServerBlank
  <2>1. ServerReceives("data") /\ buffer = Blank
    BY <1>6, ReadsWhatWasTyped DEF ServerBlank
  <2>2. handled' = typed
    BY <1>6, <2>1, ReadsWhatWasTyped DEF ServerBlank
  <2>3. uartQueue' = <<>> /\ UNCHANGED <<server, coreQueue>> /\ headers' = headers + 1
    BY <1>3, <1>6, <2>1 DEF ServerBlank, ReprintHeader
  <2> QED
    BY <1>4, <2>1, <2>2, <2>3
<1>7. CASE ServerCommand
  <2>1. ServerReceives("data")
    BY <1>7 DEF ServerCommand
  <2>2. handled' = typed
    BY <1>7, <2>1, ReadsWhatWasTyped DEF ServerCommand
  <2>3. uartQueue' = <<>> /\ server' = "notify" /\ UNCHANGED <<coreQueue, headers>>
    BY <1>3, <1>7, <2>1 DEF ServerCommand
  <2> QED
    BY <1>5, <2>1, <2>2, <2>3
<1>8. CASE ServerOverflow
  <2>1. ServerReceives("full") /\ Unread
    BY <1>3, <1>8 DEF ServerOverflow
  <2>2. handled' = typed
    BY <1>0, <1>8, <2>1 DEF ServerOverflow, InStep, ServerReceives
  <2>3. uartQueue' = <<>> /\ server' = "notify" /\ UNCHANGED <<coreQueue, headers>>
    BY <1>8 DEF ServerOverflow
  <2> QED
    BY <1>5, <2>1, <2>2, <2>3
<1>9. CASE ServerCloseSession
  <2>1. ServerReceives("close") /\ ~Unread
    BY <1>3, <1>9 DEF ServerCloseSession
  <2>2. handled' = typed
    BY <1>0, <1>9, <2>1 DEF ServerCloseSession, InStep
  <2>3. uartQueue' = <<>> /\ UNCHANGED <<server, coreQueue>> /\ headers' = headers + 1
    BY <1>3, <1>9, <2>1 DEF ServerCloseSession, ReprintHeader
  <2> QED
    BY <1>4, <2>1, <2>2, <2>3
(* The server hands the token to the core.                                 *)
<1>10. CASE ServerNotify
  <2>1. /\ server = "notify" /\ server' = "receive" /\ UNCHANGED <<uartQueue, buffer, handled, headers>>
        /\ Enqueue(toDo) /\ toDo \in Jobs \cup {NULL} /\ toDo \notin ApiJobs
    BY <1>10 DEF ServerNotify, TypeInv, TypeOK, Callers
  <2>2. uartQueue = <<>> /\ NoneAtCore /\ OneAtCore /\ core = "receive" /\ NoneOwes /\ OneOwes
    BY <1>0, <2>1 DEF OneToken
  <2>3. ~NoneAtCore' /\ OneAtCore'
    BY <2>1, <2>2, EnqueueAtCore
  <2>4. OneToken'
    BY <1>0, <1>1, <1>2, <2>1, <2>2, <2>3 DEF OneToken
  <2>5. Transaction'
    BY <1>0, <1>1, <2>1, <2>2, <2>3 DEF Transaction, Answered
  <2>6. InStep'
    BY <1>0, <1>1, <2>1, <2>2 DEF InStep, Unread
  <2> QED
    BY <2>4, <2>5, <2>6 DEF TokenInv
<1> QED
  BY <1>6, <1>7, <1>8, <1>9, <1>10 DEF Server

LEMMA CoreToken ==
    ASSUME TypeInv, Callers, Room, TokenInv, Apart, Roomy,
           CoreJob \/ ClientNotify \/ \E j \in ApiJobs : JesLaunchJob(j)
    PROVE  TokenInv'
<1> USE DEF serverVars, coreVars, jobVars, clientVars, uartVars
<1>0. OneToken /\ Transaction /\ InStep /\ OneAtCore /\ OneOwes /\ server \in {"receive", "notify"}
  BY DEF TokenInv, OneToken, TypeInv, TypeOK
<1>1. UNCHANGED <<server, typed, handled, headers, buffer>> /\ Len(typed) \in Nat /\ headers \in Nat
  BY LenProperties DEF CoreJob, CoreFault, CoreLaunch, CoreCloseSess, ClientNotify, JesLaunchJob,
     TypeInv, TypeOK
<1>2. UNCHANGED env => (NoneOwes' <=> NoneOwes) /\ OneOwes'
  BY <1>0, OwesKept
<1>3. UNCHANGED uartQueue => InStep'
  BY <1>0, <1>1 DEF InStep, Unread
<1>4. CASE CoreFault
  <2>1. Head(coreQueue) \notin ApiJobs /\ CoreReceive
    BY <1>0, <1>4, ClientIsServed DEF CoreFault
  <2>2. ~NoneAtCore /\ NoneAtCore' /\ OneAtCore'
    BY <1>0, <2>1, ReceiveAtCore
  <2>3. NoneOwes /\ uartQueue = <<>> /\ server = "receive"
    BY <1>0, <2>2 DEF OneToken
  <2>4. UNCHANGED <<uartQueue, env>> /\ core' = "close"
    BY <1>4 DEF CoreFault, ErrHandlerInline
  <2>5. OneToken'
    BY <1>0, <1>1, <1>2, <2>2, <2>3, <2>4 DEF OneToken
  <2>6. Transaction'
    BY <1>0, <1>1, <2>2, <2>4 DEF Transaction, Answered
  <2> QED
    BY <1>3, <2>4, <2>5, <2>6 DEF TokenInv
<1>5. CASE CoreLaunch
  <2>1. PICK e \in Envs : /\ env[e] = Idle
                          /\ env' = [env EXCEPT ![e] = [at |-> "enter", job |-> Head(coreQueue)]]
    BY <1>5 DEF CoreLaunch
  <2>2. /\ env'[e].at = "enter" /\ env'[e].job = Head(coreQueue)
        /\ \A f \in Envs \ {e} : env'[f] = env[f]
    BY <1>5, <2>1, LaunchedIsUser, SetTyped DEF TypeInv, Places
  <2>3. CoreReceive /\ UNCHANGED <<core, uartQueue>>
    BY <1>5 DEF CoreLaunch
  <2>4. ~Owes(e)
    BY <2>1 DEF Owes, Idle
  <2>5. CASE Head(coreQueue) \in ApiJobs
    <3>1. (NoneAtCore' <=> NoneAtCore) /\ OneAtCore'
      BY <1>0, <2>3, <2>5, ReceiveAtCore
    <3>2. (NoneOwes' <=> NoneOwes) /\ OneOwes'
      BY <1>0, <2>2, <2>4, <2>5, OwesMoves
    <3>3. OneToken' /\ Transaction'
      BY <1>0, <1>1, <2>3, <3>1, <3>2 DEF OneToken, Transaction, Answered
    <3> QED
      BY <1>3, <2>3, <3>3 DEF TokenInv
  <2>6. CASE Head(coreQueue) \notin ApiJobs
    <3>1. ~NoneAtCore /\ NoneAtCore' /\ OneAtCore'
      BY <1>0, <2>3, <2>6, ReceiveAtCore
    <3>2. NoneOwes /\ uartQueue = <<>> /\ server = "receive" /\ core = "receive"
      BY <1>0, <3>1 DEF OneToken
    <3>3. Owes(e)'
      BY <2>2, <2>6 DEF Owes
    <3>4. ~NoneOwes' /\ OneOwes'
      BY <1>0, <2>2, <3>2, <3>3, OwesMoves
    <3>5. OneToken' /\ Transaction'
      BY <1>0, <1>1, <2>3, <3>1, <3>2, <3>4 DEF OneToken, Transaction, Answered
    <3> QED
      BY <1>3, <2>3, <3>5 DEF TokenInv
  <2> QED
    BY <2>5, <2>6
<1>6. CASE CoreCloseSess
  <2>1. core = "close" /\ core' = "receive" /\ CliCloseSess /\ UNCHANGED <<env, coreQueue>>
    BY <1>6 DEF CoreCloseSess
  <2>2. NoneOwes /\ uartQueue = <<>> /\ NoneAtCore /\ server = "receive"
    BY <1>0, <2>1 DEF OneToken
  <2>3. NoneAtCore' /\ OneAtCore'
    BY <1>0, <2>1, <2>2, CoreQueueKept
  <2>4. uartQueue' # <<>> /\ Len(uartQueue') = 1 /\ ~Unread' /\ ~Unread
    BY <1>0, <2>1, <2>2, CloseSessSent
  <2>5. OneToken'
    BY <1>0, <1>1, <1>2, <2>1, <2>2, <2>3, <2>4 DEF OneToken
  <2>6. Transaction'
    BY <1>0, <1>1, <2>1, <2>4 DEF Transaction, Answered
  <2>7. InStep'
    BY <1>0, <1>1, <2>4 DEF InStep
  <2> QED
    BY <2>5, <2>6, <2>7 DEF TokenInv
<1>7. ASSUME (NoneAtCore' <=> NoneAtCore) /\ OneAtCore', UNCHANGED <<uartQueue, core, env>>
      PROVE  TokenInv'
  BY <1>0, <1>1, <1>2, <1>3, <1>7 DEF TokenInv, OneToken, Transaction, Answered
<1>8. CASE ClientNotify
  <2>1. client \in ApiJobs /\ client \in Jobs /\ Enqueue(client) /\ UNCHANGED <<uartQueue, core, env>>
    BY <1>8, ServerIsNoUser DEF ClientNotify, TypeInv, TypeOK
  <2> QED
    BY <1>0, <1>7, <2>1, EnqueueAtCore
<1>9. ASSUME NEW j \in ApiJobs, JesLaunchJob(j) PROVE TokenInv'
  <2>1. UNCHANGED <<uartQueue, core, env, coreQueue>>
    BY <1>9 DEF JesLaunchJob
  <2> QED
    BY <1>0, <1>7, <2>1, CoreQueueKept
<1> QED
  BY <1>4, <1>5, <1>6, <1>8, <1>9 DEF CoreJob

LEMMA EnvToken ==
    ASSUME TypeInv, Callers, TokenInv, NEW e \in Envs, RuntimeEnv(e)
    PROVE  TokenInv'
<1> USE DEF At, serverVars, coreVars, jobVars, clientVars, uartVars
<1>0. OneToken /\ Transaction /\ InStep /\ OneAtCore /\ OneOwes /\ TypeOK
  BY DEF TokenInv, OneToken, TypeInv
<1>1. /\ UNCHANGED <<server, core, coreQueue, typed, handled, headers, buffer>>
      /\ Len(typed) \in Nat /\ headers \in Nat
  BY LenProperties DEF RuntimeEnv, EnvEnter, EnvCloseFirst, EnvCount, EnvReturn, EnvLeave, EnvClose,
     TypeInv, TypeOK
<1>2. (NoneAtCore' <=> NoneAtCore) /\ OneAtCore'
  BY <1>0, <1>1, CoreQueueKept
<1>3. \A f \in Envs \ {e} : env'[f] = env[f]
  BY DEF RuntimeEnv, EnvEnter, EnvCloseFirst, EnvCount, EnvReturn, EnvLeave, EnvClose, Goto,
     TypeInv, TypeOK
<1>4. /\ env[e].at # "none" => env[e].job \in UserJobs
      /\ env[e].job \in UserJobs => (env[e].job \notin ApiJobs <=> caller[env[e].job] = "cli")
  BY DEF TypeInv, TypeOK, Occupied, Callers, Asked
(* The environment keeps the token, or does not have it.                   *)
<1>5. ASSUME UNCHANGED uartQueue, Owes(e)' <=> Owes(e)
      PROVE  TokenInv'
  <2>1. (NoneOwes' <=> NoneOwes) /\ OneOwes'
    BY <1>0, <1>3, <1>5, OwesMoves DEF Owes
  <2> QED
    BY <1>0, <1>1, <1>2, <1>5, <2>1 DEF TokenInv, OneToken, Transaction, Answered, InStep, Unread
(* It hands the token to the server.                                       *)
<1>6. ASSUME CliCloseSess, env[e].at \in {"closeFirst", "close"}, ~Owes(e)'
      PROVE  TokenInv'
  <2>1. /\ Owes(e)
        /\ uartQueue = <<>> /\ server = "receive" /\ NoneAtCore /\ core = "receive"
    BY <1>0, <1>6, ClosingOwes
  <2>2. ~NoneOwes /\ NoneOwes' /\ OneOwes'
    BY <1>0, <1>3, <1>6, <2>1, OwesMoves
  <2>3. uartQueue' # <<>> /\ Len(uartQueue') = 1 /\ ~Unread' /\ ~Unread
    BY <1>0, <1>6, <2>1, CloseSessSent
  <2>4. OneToken'
    BY <1>0, <1>1, <1>2, <2>1, <2>2, <2>3 DEF OneToken
  <2>5. Transaction'
    BY <1>0, <1>1, <2>2, <2>3 DEF Transaction, Answered
  <2>6. InStep'
    BY <1>0, <1>1, <2>3 DEF InStep
  <2> QED
    BY <2>4, <2>5, <2>6 DEF TokenInv
<1>7. ASSUME NEW l \in Places, Goto(e, l)
      PROVE  env'[e].at = l /\ env'[e].job = env[e].job
  BY <1>0, <1>7, GotoTyped
<1>8. ASSUME env' = [env EXCEPT ![e] = Idle]
      PROVE  ~Owes(e)'
  <2>1. env'[e].at = "none"
    BY <1>0, <1>8, SetTyped DEF Idle, Places
  <2> QED
    BY <2>1 DEF Owes
<1>9. CASE EnvEnter(e)
  <2>1. CASE ClosesFirst(env[e].job)
    <3>1. env[e].at = "enter" /\ env'[e].at = "closeFirst" /\ env'[e].job = env[e].job /\ UNCHANGED uartQueue
      BY <1>7, <1>9, <2>1 DEF EnvEnter, Places
    <3> QED
      BY <1>5, <3>1 DEF Owes
  <2>2. CASE ~ClosesFirst(env[e].job)
    <3>1. env[e].at = "enter" /\ env'[e].at = "count" /\ env'[e].job = env[e].job /\ UNCHANGED uartQueue
      BY <1>7, <1>9, <2>2 DEF EnvEnter, Places
    <3>2. env[e].job \in ApiJobs \/ env[e].job \notin Loops
      BY <1>4, <2>2, <3>1 DEF ClosesFirst
    <3> QED
      BY <1>5, <3>1, <3>2 DEF Owes
  <2> QED
    BY <2>1, <2>2
<1>10. CASE EnvCloseFirst(e)
  <2>1. env'[e].at = "count" /\ env'[e].job = env[e].job /\ env[e].job \in Loops
    BY <1>7, <1>10 DEF EnvCloseFirst, Places, TypeInv, Occupied
  <2>2. ~Owes(e)'
    BY <2>1 DEF Owes
  <2> QED
    BY <1>6, <1>10, <2>2 DEF EnvCloseFirst
<1>11. CASE EnvCount(e)
  <2>1. env[e].at = "count" /\ env'[e].at = "run" /\ env'[e].job = env[e].job /\ UNCHANGED uartQueue
    BY <1>7, <1>11 DEF EnvCount, Places
  <2> QED
    BY <1>5, <2>1 DEF Owes
<1>12. CASE EnvReturn(e)
  <2>1. env[e].at = "run" /\ env'[e].at = "leave" /\ env'[e].job = env[e].job /\ UNCHANGED uartQueue
    BY <1>7, <1>12 DEF EnvReturn, Places
  <2> QED
    BY <1>5, <2>1 DEF Owes
<1>13. CASE EnvLeave(e)
  <2>1. CASE ClosesLast(env[e].job)
    <3>1. Goto(e, "close")
      BY <1>13, <2>1 DEF EnvLeave, Goto
    <3>2. env[e].at = "leave" /\ env'[e].at = "close" /\ env'[e].job = env[e].job /\ UNCHANGED uartQueue
      BY <1>7, <1>13, <3>1 DEF EnvLeave, Places
    <3> QED
      BY <1>5, <2>1, <3>2 DEF Owes, ClosesLast
  <2>2. CASE ~ClosesLast(env[e].job)
    <3>1. env[e].at = "leave" /\ env' = [env EXCEPT ![e] = Idle] /\ UNCHANGED uartQueue
      BY <1>13, <2>2 DEF EnvLeave
    <3>2. ~Owes(e)
      BY <1>4, <2>2, <3>1 DEF Owes, ClosesLast
    <3> QED
      BY <1>5, <1>8, <3>1, <3>2
  <2> QED
    BY <2>1, <2>2
<1>14. CASE EnvClose(e)
  BY <1>6, <1>8, <1>14 DEF EnvClose
<1> QED
  BY <1>9, <1>10, <1>11, <1>12, <1>13, <1>14 DEF RuntimeEnv

-----------------------------------------------------------------------------
(* The session.                                                            *)

LEMMA SessionInvStep ==
    ASSUME Paced, Apart, Roomy, TypeInv, SessionInv, [Next]_vars
    PROVE  SessionInv'
<1>0. Callers /\ Room /\ TokenInv /\ OneToken /\ OneAtCore
  BY DEF SessionInv, TokenInv, OneToken
<1>1. CASE UNCHANGED vars
  <2>1. UNCHANGED <<toDo, client, coreQueue, env, caller, failed, server, uartQueue, core, typed,
                    handled, headers, buffer, launches>>
    BY <1>1 DEF vars, uartVars, serverVars, coreVars, jobVars, clientVars
  <2>2. Callers'
    BY <1>0, <2>1, CallersKept
  <2>3. Room'
    BY <1>0, <2>1, PlacesKept DEF Room, OnItsWay
  <2>4. TokenInv'
    BY <1>0, <2>1, CoreQueueKept, OwesKept
       DEF TokenInv, OneToken, Transaction, Answered, InStep, Unread
  <2> QED
    BY <2>2, <2>3, <2>4 DEF SessionInv, TokenInv
<1>2. CASE Server
  BY <1>0, <1>2, ServerCallers, ServerRoom, ServerToken DEF SessionInv, TokenInv
<1>3. ASSUME NEW l \in Lines, RxEventCallback(l) PROVE SessionInv'
  <2>1. Callers'
    BY <1>0, <1>3, CallersKept DEF RxEventCallback, serverVars, coreVars, jobVars, clientVars
  <2>2. Room'
    <3>1. /\ UNCHANGED <<env, client, server, coreQueue, launches>>
          /\ typed' = Append(typed, l) /\ Len(typed) < MaxLines /\ uartQueue = <<>>
      BY <1>0, <1>3 DEF RxEventCallback, serverVars, coreVars, clientVars, TokenInv, Transaction, Answered
    <3>2. Busy' = Busy /\ Waiting' = Waiting /\ Working' = Working
      BY <3>1, PlacesKept
    <3>3. Len(typed') = Len(typed) + 1 /\ Coming = 0 /\ Coming' \in {0, 1}
      BY <3>1, AppendProperties DEF TypeInv, TypeOK, Coming, Unread
    <3>4. /\ Len(coreQueue) \in Nat /\ Waiting \in Nat /\ Working \in Nat
          /\ Len(typed) \in Nat /\ launches \in Nat
      BY <1>0, RoomNumbers
    <3>5. OnItsWay' <= OnItsWay + 1 /\ OnItsWay' \in Int
      BY <3>1, <3>2, <3>3, <3>4 DEF OnItsWay
    <3>6. /\ Len(typed') + launches' >= Len(typed) + launches + 1
          /\ Len(typed') \in Nat /\ launches' \in Nat /\ Len(typed') <= MaxLines
      BY <3>1, <3>3, <3>4, CliSessionAssumption
    <3> QED
      BY <1>0, <3>2, <3>5, <3>6, RoomBalance
  <2>3. TokenInv'
    BY <1>0, <1>3, TypedToken
  <2> QED
    BY <2>1, <2>2, <2>3 DEF SessionInv, TokenInv
<1>4. CASE CoreJob \/ ClientNotify \/ \E j \in ApiJobs : JesLaunchJob(j)
  BY <1>0, <1>4, CoreCallers, CoreRoom, CoreToken DEF SessionInv, TokenInv
<1>5. ASSUME NEW e \in Envs, RuntimeEnv(e) PROVE SessionInv'
  BY <1>0, <1>5, EnvCallers, EnvRoom, EnvToken DEF SessionInv, TokenInv
<1> QED
  BY <1>1, <1>2, <1>3, <1>4, <1>5 DEF Next, CoreTimeout

LEMMA SessionInvInvariant ==
    ASSUME Paced, Apart, Roomy
    PROVE  Spec => []SessionInv
<1>1. TypeInv /\ SessionInv /\ [Next]_vars => SessionInv'
  BY SessionInvStep
<1> QED
  BY <1>1, InitSessionInv, TypeInvInvariant, PTL DEF Spec

(* No header is printed for a line that was not typed, so the terminal     *)
(* never takes a transaction for ended that is not (__cli_reprint_header). *)
THEOREM HeadersAreEarned ==
    ASSUME Paced, Apart, Roomy
    PROVE  Spec => []HeadersEarned
<1>1. TypeInv /\ SessionInv => HeadersEarned
  <2> SUFFICES ASSUME TypeInv, SessionInv PROVE HeadersEarned
    OBVIOUS
  <2>1. Len(typed) \in Nat
    BY LenProperties DEF TypeInv, TypeOK
  <2> QED
    BY <2>1 DEF SessionInv, Transaction, HeadersEarned
<1> QED
  BY <1>1, SessionInvInvariant, TypeInvInvariant, PTL

(* The server works on the lines as they were typed, in their order and    *)
(* each once, although they share a buffer (cli_server, uart_unif_read).   *)
THEOREM LinesStayInOrder ==
    ASSUME Paced, Apart, Roomy
    PROVE  Spec => []LinesInOrder
<1>1. TypeInv /\ SessionInv => LinesInOrder
  <2> SUFFICES ASSUME TypeInv, SessionInv PROVE LinesInOrder
    OBVIOUS
  <2>1. handled \in Seq(Lines \cup {Garbled}) /\ typed \in Seq(Lines)
    BY DEF TypeInv, TypeOK
  <2>2. handled = typed \/ \E l \in Lines : typed = Append(handled, l)
    BY DEF SessionInv, InStep
  <2>3. CASE handled = typed
    BY <2>1, <2>3, LenProperties DEF LinesInOrder, IsPrefix
  <2>4. ASSUME NEW l \in Lines, typed = Append(handled, l) PROVE LinesInOrder
    <3>1. /\ Len(typed) = Len(handled) + 1 /\ Len(handled) \in Nat
          /\ \A i \in 1..Len(handled) : typed[i] = handled[i]
      BY <2>1, <2>4, AppendProperties, LenProperties
    <3>2. SubSeq(handled, 1, Len(handled)) = SubSeq(typed, 1, Len(handled))
      BY <2>1, <3>1
    <3> QED
      BY <3>1, <3>2 DEF LinesInOrder, IsPrefix
  <2> QED
    BY <2>2, <2>3, <2>4
<1> QED
  BY <1>1, SessionInvInvariant, TypeInvInvariant, PTL

(* A line that waits for its header is under way somewhere, so the close of*)
(* its session is never lost: what SessionCloses needs besides tasks that  *)
(* go on (__cli_close_sess and its callers).                               *)
THEOREM AnswerIsUnderWay ==
    ASSUME Paced, Apart, Roomy
    PROVE  Spec => [](headers < Len(typed) =>
                        \/ uartQueue # <<>> \/ server = "notify" \/ core = "close"
                        \/ \E i \in DOMAIN coreQueue : AtCore(i)
                        \/ \E e \in Envs : Owes(e))
<1> DEFINE UnderWay == headers < Len(typed) =>
                        \/ uartQueue # <<>> \/ server = "notify" \/ core = "close"
                        \/ \E i \in DOMAIN coreQueue : AtCore(i)
                        \/ \E e \in Envs : Owes(e)
<1>1. TypeInv /\ SessionInv => UnderWay
  <2> SUFFICES ASSUME TypeInv, SessionInv, headers < Len(typed) PROVE UnderWay
    OBVIOUS
  <2>1. headers # Len(typed)
    BY LenProperties DEF TypeInv, TypeOK
  <2>2. ~Answered
    BY <2>1 DEF SessionInv, Transaction
  <2> QED
    BY <2>2 DEF Answered, NoneAtCore, NoneOwes, AtCore, TypeInv, TypeOK
<1> QED
  BY <1>1, SessionInvInvariant, TypeInvInvariant, PTL

=============================================================================
