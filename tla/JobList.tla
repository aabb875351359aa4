------------------------------- MODULE JobList -------------------------------
(***************************************************************************)
(* The linked list of registered jobs and the mutex that protects it       *)
(* (core.job_list, core.lock).  A job is a cell of the heap with a name    *)
(* and a next pointer, pn.  Registration inserts at the head; removal      *)
(* finds the cell and the pointer to it in one critical section and        *)
(* unlinks it in a second one; lookups walk the list in one critical       *)
(* section; __core_error_get_any, help and stats walk it without the lock, *)
(* one cell at a time, and help and stats print a row for each job whose   *)
(* role they show.                                                         *)
(*                                                                         *)
(* A critical section is one step that needs the lock to be free, except   *)
(* that the section of __job_register_job may leave without giving the     *)
(* lock back.  Memory is allocated and released outside the sections, in   *)
(* steps of their own, and a released cell may be allocated again.         *)
(***************************************************************************)
EXTENDS Naturals, Sequences, FiniteSets

CONSTANTS
    Admins,         \* tasks that register and unregister
    Readers,        \* tasks that look jobs up by name
    Walkers,        \* tasks that walk the list without the lock
    MayUnregister,  \* the admins that also unregister
    Names,          \* names of jobs
    RoleOf,         \* RoleOf[n]: the role a job of that name is registered with
    Walks,          \* the walks that walkers do
    Cells,          \* the heap: room for so many job structs
    MaxOps,         \* bound: calls per admin
    Careful,        \* assumption: removals keep to MayAllocate and MayRemove
    FreshNames,     \* assumption: no admin registers a name that is in use
    NULL

Tasks == Admins \cup Readers \cup Walkers

Roles == {"core", "base", "user"}

(* The roles of the jobs that a walk prints: help, stats without argument, *)
(* with -a and with -aa; __core_error_get_any prints nothing.              *)
Shown ==
    [help |-> {"base", "user"}, stats |-> {"user"}, stats_a |-> {"base", "user"},
     stats_aa |-> Roles, error_get_any |-> {}]

ASSUME JobListAssumption ==
    /\ NULL \notin Cells \cup Names
    /\ RoleOf \in [Names -> Roles]
    /\ Walks \subseteq DOMAIN Shown
    /\ MaxOps \in Nat
    /\ {Careful, FreshNames} \subseteq BOOLEAN
    /\ IsFiniteSet(Cells)

VARIABLES
    head,       \* core.job_list
    pn,         \* pn[x]: the next pointer in cell x
    name,       \* name[x]: the name in cell x
    allocated,  \* cells in use
    lock,       \* core.lock: "free" or "taken"; a taken lock outlives its section
    pc,         \* where each task is in its call
    arg,        \* the name it was called with, the walk it does
    cell,       \* pj, pj_to_remove or cur: the cell it works on
    prev,       \* prev_pn: the cell whose pn it will write, NULL for core.job_list
    ops,        \* calls made so far by each admin
    promised,   \* history: cells whose registration succeeded and that no
                \* admin has begun to remove
    rows,       \* rows[t]: the names the walk of t has printed
    stayed      \* history: stayed[t]: names in the list when the walk of t began

walkVars == <<rows, stayed>>
vars == <<head, pn, name, allocated, lock, pc, arg, cell, prev, ops, promised, walkVars>>
heapVars == <<head, pn, name, allocated>>

-----------------------------------------------------------------------------
(* The list.                                                               *)

(* The cells met by following the pointers p from x: the least set that    *)
(* holds x and leads out of itself to NULL only.                           *)
Closed(p, S) == \A y \in S : p[y] \in S \cup {NULL}
Chain(p, x) ==
    {y \in Cells : \A S \in SUBSET Cells :
        x \in S \cup {NULL} /\ Closed(p, S) => y \in S}

Listed == Chain(pn, head)

(* strcmp(cur->name, n) == 0 for the first cell that has it, the one from  *)
(* which the others are met.                                               *)
Match(n) == {x \in Listed : name[x] = n}
Found(n) ==
    IF Match(n) = {} THEN NULL
    ELSE CHOOSE x \in Match(n) : Match(n) \subseteq Chain(pn, x)

(* Some listed job has the name task t registers.                          *)
DuplicateOfHead(t) == head # NULL /\ name[head] = arg[t]
Duplicate(t) == Match(arg[t]) # {}

(* The cell whose pn points to x, NULL if core.job_list does.              *)
NeverAdvanced(x) == NULL
Before(x) ==
    IF head = x THEN NULL ELSE CHOOSE y \in Listed : pn[y] = x

Init ==
    /\ head = NULL
    /\ pn = [x \in Cells |-> NULL]
    /\ name = [x \in Cells |-> NULL]
    /\ allocated = {}
    /\ lock = "free"
    /\ pc = [t \in Tasks |-> "idle"]
    /\ arg = [t \in Tasks |-> NULL]
    /\ cell = [t \in Tasks |-> NULL]
    /\ prev = [t \in Tasks |-> NULL]
    /\ ops = [t \in Admins |-> 0]
    /\ promised = {}
    /\ rows = [t \in Walkers |-> <<>>]
    /\ stayed = [t \in Walkers |-> {}]

Goto(t, l) == pc' = [pc EXCEPT ![t] = l]
Return(t) == /\ Goto(t, "idle")
             /\ cell' = [cell EXCEPT ![t] = NULL]
             /\ prev' = [prev EXCEPT ![t] = NULL]
             /\ arg' = [arg EXCEPT ![t] = NULL]

(* A call begins.  Before jes_init has succeeded it would return at once;  *)
(* such calls are left out.                                                *)
Begin(t) ==
    /\ pc[t] = "idle"
    /\ ops[t] < MaxOps
    /\ ops' = [ops EXCEPT ![t] = @ + 1]

(* The admin is between the two critical sections of a removal, or past    *)
(* the second.                                                             *)
InRemoval(u) == pc[u] \in {"test", "unlink", "free"}

(* The rule a careful application keeps to, since the code does not: one   *)
(* removal at a time, of a job whose registration has returned, and the    *)
(* newest job of the list is removed only while nobody registers.          *)
MayAllocate == \A u \in Admins : InRemoval(u) => prev[u] # NULL
MayRemove(n) ==
    /\ \A u \in Admins : ~InRemoval(u) /\ arg[u] # n
    /\ Before(Found(n)) = NULL => \A u \in Admins : pc[u] # "insert"

-----------------------------------------------------------------------------
(* __job_register_job.                                                     *)

(* pvPortMalloc and the initialisation of the fields.                      *)
RegisterAlloc(t, n, x) ==
    /\ Begin(t)
    /\ Careful => MayAllocate
    /\ FreshNames => Match(n) = {} /\ \A u \in Admins : arg[u] # n
    /\ x \in Cells \ allocated
    /\ allocated' = allocated \cup {x}
    /\ name' = [name EXCEPT ![x] = n]
    /\ arg' = [arg EXCEPT ![t] = n]
    /\ cell' = [cell EXCEPT ![t] = x]
    /\ Goto(t, "insert")
    /\ UNCHANGED <<head, pn, lock, prev, promised, walkVars>>

(* pj->pn = *job_list; *job_list = pj.                                     *)
InsertedBehindHead(t) ==
    IF head = NULL THEN head' = cell[t] /\ UNCHANGED pn
    ELSE pn' = [pn EXCEPT ![head] = cell[t], ![cell[t]] = pn[head]] /\ UNCHANGED head
Inserted(t) == head' = cell[t] /\ pn' = [pn EXCEPT ![cell[t]] = head]

(* The critical section: the name is new, the cell becomes the head.       *)
RegisterInsert(t) ==
    /\ pc[t] = "insert"
    /\ lock = "free"
    /\ ~Duplicate(t)
    /\ Inserted(t)
    /\ promised' = promised \cup {cell[t]}
    /\ Goto(t, "log")
    /\ UNCHANGED <<name, allocated, lock, arg, cell, prev, ops, walkVars>>

(* The critical section: the name is in use.  The return statement is      *)
(* inside the section, so the lock is not given back.                      *)
RegisterDuplicate(t) ==
    /\ pc[t] = "insert"
    /\ lock = "free"
    /\ Duplicate(t)
    /\ lock' = "taken"
    /\ allocated' = allocated \ {cell[t]}
    /\ Return(t)
    /\ UNCHANGED <<head, pn, name, ops, promised, walkVars>>

(* JES_LOG_REGISTER reads the new job, in a critical section of its own.   *)
RegisterLog(t) ==
    /\ pc[t] = "log"
    /\ lock = "free"
    /\ Return(t)
    /\ UNCHANGED <<heapVars, lock, ops, promised, walkVars>>

-----------------------------------------------------------------------------
(* __job_unregister_job.                                                   *)

(* First critical section: the cell and the pointer to it.                 *)
UnregisterFindUnchecked(t, n) ==
    /\ t \in MayUnregister
    /\ Begin(t)
    /\ lock = "free"
    /\ arg' = [arg EXCEPT ![t] = n]
    /\ cell' = [cell EXCEPT ![t] = Found(n)]
    /\ prev' = [prev EXCEPT ![t] = Before(Found(n))]
    /\ Goto(t, "test")
    /\ UNCHANGED <<heapVars, lock, promised, walkVars>>

UnregisterFind(t, n) ==
    /\ t \in MayUnregister
    /\ Begin(t)
    /\ lock = "free"
    /\ Match(n) # {}
    /\ Careful => MayRemove(n)
    /\ arg' = [arg EXCEPT ![t] = n]
    /\ cell' = [cell EXCEPT ![t] = Found(n)]
    /\ prev' = [prev EXCEPT ![t] = Before(Found(n))]
    /\ Goto(t, "test")
    /\ UNCHANGED <<heapVars, lock, promised, walkVars>>

(* Outside the lock: pj_to_remove->instances.  Either the job is in use    *)
(* and the call returns, or the call goes on to remove it.                 *)
UnregisterProhibited(t) ==
    /\ pc[t] = "test"
    /\ Return(t)
    /\ UNCHANGED <<heapVars, lock, ops, promised, walkVars>>

UnregisterTest(t) ==
    /\ pc[t] = "test"
    /\ promised' = promised \ {cell[t]}
    /\ Goto(t, "unlink")
    /\ UNCHANGED <<heapVars, lock, arg, cell, prev, ops, walkVars>>

(* Second critical section: *prev_pn = pj_to_remove->pn.                   *)
NotUnlinked(t) == UNCHANGED <<head, pn>>
Unlinked(t) ==
    IF prev[t] = NULL
    THEN head' = pn[cell[t]] /\ UNCHANGED pn
    ELSE pn' = [pn EXCEPT ![prev[t]] = pn[cell[t]]] /\ UNCHANGED head

UnregisterUnlink(t) ==
    /\ pc[t] = "unlink"
    /\ lock = "free"
    /\ Unlinked(t)
    /\ Goto(t, "free")
    /\ UNCHANGED <<name, allocated, lock, arg, cell, prev, ops, promised, walkVars>>

(* vQueueDelete, vSemaphoreDelete, vPortFree.                              *)
UnregisterFree(t) ==
    /\ pc[t] = "free"
    /\ allocated' = allocated \ {cell[t]}
    /\ Return(t)
    /\ UNCHANGED <<head, pn, name, lock, ops, promised, walkVars>>

-----------------------------------------------------------------------------
(* __job_get_job_by_name; by function and by handle are the same walk.     *)
LookupCall(t, n) ==
    /\ pc[t] = "idle"
    /\ arg' = [arg EXCEPT ![t] = n]
    /\ Goto(t, "lookup")
    /\ UNCHANGED <<heapVars, lock, cell, prev, ops, promised, walkVars>>

LookupJobKeepsLock(t) ==
    /\ pc[t] = "lookup"
    /\ lock = "free"
    /\ lock' = "taken"
    /\ Return(t)
    /\ UNCHANGED <<heapVars, ops, promised, walkVars>>

LookupJob(t) ==
    /\ pc[t] = "lookup"
    /\ lock = "free"
    /\ Return(t)
    /\ UNCHANGED <<heapVars, lock, ops, promised, walkVars>>

(* __core_error_get_any, help and stats: cur = *job_list; the row of cur,  *)
(* if its role is shown; cur = cur->pn.                                    *)
WalkStart(t, w) ==
    /\ pc[t] = "idle"
    /\ head # NULL
    /\ arg' = [arg EXCEPT ![t] = w]
    /\ cell' = [cell EXCEPT ![t] = head]
    /\ rows' = [rows EXCEPT ![t] = <<>>]
    /\ stayed' = [stayed EXCEPT ![t] = {name[x] : x \in Listed}]
    /\ Goto(t, "walk")
    /\ UNCHANGED <<heapVars, lock, prev, ops, promised>>

WalkPrint(t) ==
    /\ pc[t] = "walk"
    /\ rows' = [rows EXCEPT ![t] =
                    IF RoleOf[name[cell[t]]] \in Shown[arg[t]] THEN Append(@, name[cell[t]]) ELSE @]
    /\ Goto(t, "printed")
    /\ UNCHANGED <<heapVars, lock, arg, cell, prev, ops, promised, stayed>>

(* After a row that is not shown, as if its branch did not continue.       *)
AdvancedTwice(t) ==
    IF RoleOf[name[cell[t]]] \notin Shown[arg[t]] /\ pn[cell[t]] # NULL
    THEN pn[pn[cell[t]]] ELSE pn[cell[t]]
Advanced(t) == pn[cell[t]]
WalkNext(t) ==
    /\ pc[t] = "printed"
    /\ cell' = [cell EXCEPT ![t] = Advanced(t)]
    /\ Goto(t, IF Advanced(t) = NULL THEN "walked" ELSE "walk")
    /\ UNCHANGED <<heapVars, lock, arg, prev, ops, promised, walkVars>>

(* __core_error_get_any also returns at any job that has an error.         *)
WalkReturn(t) ==
    /\ pc[t] = "walked" \/ (pc[t] = "walk" /\ arg[t] = "error_get_any")
    /\ Return(t)
    /\ UNCHANGED <<heapVars, lock, ops, promised, walkVars>>

-----------------------------------------------------------------------------
Admin(t) ==
    \/ \E n \in Names :
         \/ \E x \in Cells : RegisterAlloc(t, n, x)
         \/ UnregisterFind(t, n)
    \/ RegisterInsert(t)
    \/ RegisterDuplicate(t)
    \/ RegisterLog(t)
    \/ UnregisterProhibited(t)
    \/ UnregisterTest(t)
    \/ UnregisterUnlink(t)
    \/ UnregisterFree(t)

Next ==
    \/ \E t \in Admins : Admin(t)
    \/ \E t \in Readers, n \in Names : LookupCall(t, n)
    \/ \E t \in Readers : LookupJob(t)
    \/ \E t \in Walkers :
        (\E w \in Walks : WalkStart(t, w)) \/ WalkPrint(t) \/ WalkNext(t) \/ WalkReturn(t)

Spec == Init /\ [][Next]_vars

(* A call that was begun goes on; nobody has to call.  The mutex hands the *)
(* lock to a waiting task, so a section whose lock keeps being free runs.  *)
Fairness ==
    /\ \A t \in Admins :
        WF_vars(\/ RegisterInsert(t) \/ RegisterDuplicate(t) \/ RegisterLog(t)
                \/ UnregisterProhibited(t) \/ UnregisterTest(t)
                \/ UnregisterUnlink(t) \/ UnregisterFree(t))
    /\ \A t \in Readers : WF_vars(LookupJob(t))
    /\ \A t \in Walkers : WF_vars(WalkPrint(t) \/ WalkNext(t) \/ WalkReturn(t))

FairSpec == Spec /\ Fairness

-----------------------------------------------------------------------------
(* Properties.                                                             *)

(* Every variable has its type, and a task past the start of a call has a  *)
(* cell to work on (the NULL test of __job_unregister_job).                *)
TypeOK ==
    /\ head \in Cells \cup {NULL}
    /\ pn \in [Cells -> Cells \cup {NULL}]
    /\ name \in [Cells -> Names \cup {NULL}]
    /\ allocated \subseteq Cells
    /\ lock \in {"free", "taken"}
    /\ pc \in [Tasks -> {"idle", "insert", "log", "test", "unlink", "free", "lookup", "walk", "printed", "walked"}]
    /\ arg \in [Tasks -> Names \cup Walks \cup {NULL}]
    /\ cell \in [Tasks -> Cells \cup {NULL}]
    /\ prev \in [Tasks -> Cells \cup {NULL}]
    /\ ops \in [Admins -> 0..MaxOps]
    /\ promised \subseteq Cells
    /\ rows \in [Walkers -> Seq(Names)]
    /\ stayed \in [Walkers -> SUBSET Names]
    /\ \A t \in Tasks : pc[t] \notin {"idle", "lookup", "walked"} => cell[t] # NULL

(* Walking the list ends, because no cell is met again after itself, and   *)
(* meets live jobs only (__job_unregister_job unlinks before it releases). *)
ListSound ==
    /\ Listed \subseteq allocated
    /\ \A x \in Listed : x \notin Chain(pn, pn[x])

(* No two jobs in the list have the same name (the walk in                 *)
(* __job_register_job under the lock).                                     *)
NamesUnique ==
    \A x, y \in Listed : name[x] = name[y] => x = y

(* A job whose registration succeeded is in the list until someone begins  *)
(* to remove it (jescore_api.h: e_err_no_err in case of successful         *)
(* registration).                                                          *)
NoJobLost == promised \subseteq Listed

(* While jobs are registered and none is removed, help and stats print     *)
(* every job that was there when they began and whose role they show, no   *)
(* job twice and no other role (base_jobs.h, stats -a and -aa), although   *)
(* they hold no lock.                                                      *)
ReportComplete ==
    \A t \in Walkers : pc[t] = "walked" =>
        /\ {n \in stayed[t] : RoleOf[n] \in Shown[arg[t]]} \subseteq {rows[t][i] : i \in DOMAIN rows[t]}
        /\ \A i, k \in DOMAIN rows[t] :
            RoleOf[rows[t][i]] \in Shown[arg[t]] /\ (rows[t][i] = rows[t][k] => i = k)

(* Every call that takes the lock returns: the lock is given back at the   *)
(* end of every section (WITH_CORE_LOCK).                                  *)
CallsReturn == \A t \in Tasks : pc[t] # "idle" ~> pc[t] = "idle"

(* The names in the list change as a set of names should.                  *)
Registry == INSTANCE JobRegistry WITH names <- {name[x] : x \in Listed}

ImplementsRegistry == Registry!Spec

=============================================================================
