------------------------------- MODULE CoreLog -------------------------------
(***************************************************************************)
(* The core's log: a ring of __JES_LOG_LEN entries (core.log, log_write,   *)
(* log_read) that every job writes to and that the job logp prints.        *)
(*                                                                         *)
(* Writing and reading one entry are critical sections under core.lock and *)
(* one step each; logp prints row by row and anybody may log in between.   *)
(* The contents of an entry are abstracted to its number: the first entry  *)
(* ever logged is 1, and 0 stands for an entry that was never written      *)
(* (core is static, so the ring starts out zeroed).                        *)
(***************************************************************************)
EXTENDS Naturals, Sequences

CONSTANTS
    LogLen,     \* __JES_LOG_LEN
    Printers,   \* tasks that run logp
    MaxAdds     \* bound: number of the last entry after which nobody starts to log

ASSUME CoreLogAssumption ==
    /\ LogLen \in Nat \ {0}
    /\ MaxAdds \in Nat

VARIABLES
    log,        \* core.log
    log_write,  \* core.log_write: the entry to write next
    log_read,   \* core.log_read: the entry to read next
    added,      \* history: entries logged so far
    pc,         \* pc[p]: where the printer p is in its environment
    printed,    \* printed[p]: the rows p has printed
    launchedAt  \* launchedAt[p]: added, when p was launched

ringVars == <<log, log_write, log_read, added>>
printerVars == <<pc, printed, launchedAt>>
vars == <<ringVars, printerVars>>

Slots == 0..(LogLen - 1)

Init ==
    /\ log = [i \in Slots |-> 0]
    /\ log_write = 0
    /\ log_read = 0
    /\ added = 0
    /\ pc = [p \in Printers |-> "idle"]
    /\ printed = [p \in Printers |-> <<>>]
    /\ launchedAt = [p \in Printers |-> 0]

(* if(++i == __JES_LOG_LEN) i = 0.                                         *)
AfterOffByOne(i) == IF i = LogLen THEN 0 ELSE i + 1
After(i) == IF i + 1 = LogLen THEN 0 ELSE i + 1

AddedAfterAdvance ==
    /\ log' = [log EXCEPT ![After(log_write)] = added + 1]
    /\ log_read' = log_write
    /\ log_write' = After(log_write)
    /\ added' = added + 1

(* __core_add_to_log_auto: reading resumes at the entry just written.      *)
AddToLogAuto ==
    /\ log' = [log EXCEPT ![log_write] = added + 1]
    /\ log_read' = log_write
    /\ log_write' = After(log_write)
    /\ added' = added + 1

(* __core_read_from_log_next returns this entry and moves log_read on.     *)
ReadFromLogNext == log[log_read]

-----------------------------------------------------------------------------
(* JES_LOG_REGISTER, _LAUNCH, _FINISH or _FAULT of any other job.          *)
CoreAddToLog ==
    /\ added < MaxAdds
    /\ AddToLogAuto
    /\ UNCHANGED printerVars

(* The environment of logp: JES_LOG_LAUNCH comes before the function.      *)
LogPrinterLaunch(p) ==
    /\ pc[p] = "idle"
    /\ added < MaxAdds
    /\ AddToLogAuto
    /\ pc' = [pc EXCEPT ![p] = "header"]
    /\ printed' = [printed EXCEPT ![p] = <<>>]
    /\ launchedAt' = [launchedAt EXCEPT ![p] = added + 1]

HeaderWithoutRead(p) ==
    /\ pc[p] = "header"
    /\ pc' = [pc EXCEPT ![p] = "rows"]
    /\ UNCHANGED <<ringVars, printed, launchedAt>>

(* The first entry read is never printed.                                  *)
LogPrinterHeader(p) ==
    /\ pc[p] = "header"
    /\ log_read' = After(log_read)
    /\ pc' = [pc EXCEPT ![p] = "rows"]
    /\ UNCHANGED <<log, log_write, added, printed, launchedAt>>

LogPrinterRow(p) ==
    /\ pc[p] = "rows"
    /\ Len(printed[p]) < LogLen
    /\ printed' = [printed EXCEPT ![p] = Append(@, ReadFromLogNext)]
    /\ log_read' = After(log_read)
    /\ UNCHANGED <<log, log_write, added, pc, launchedAt>>

(* The function returns and the environment logs JES_LOG_FINISH.           *)
LogPrinterFinish(p) ==
    /\ pc[p] = "rows"
    /\ Len(printed[p]) = LogLen
    /\ AddToLogAuto
    /\ pc' = [pc EXCEPT ![p] = "idle"]
    /\ UNCHANGED <<printed, launchedAt>>

LogPrinter(p) ==
    \/ LogPrinterLaunch(p)
    \/ LogPrinterHeader(p)
    \/ LogPrinterRow(p)
    \/ LogPrinterFinish(p)

Next == CoreAddToLog \/ \E p \in Printers : LogPrinter(p)

Spec == Init /\ [][Next]_vars

-----------------------------------------------------------------------------
(* Properties.                                                             *)

(* Every variable has its type; in particular both indices stay inside the *)
(* ring, so no entry is written or read past its end.                      *)
TypeOK ==
    /\ log \in [Slots -> Nat]
    /\ log_write \in Slots
    /\ log_read \in Slots
    /\ added \in Nat
    /\ pc \in [Printers -> {"idle", "header", "rows"}]
    /\ printed \in [Printers -> Seq(Nat)]
    /\ launchedAt \in [Printers -> Nat]

(* The entry k before the newest: its slot, and what a log of the last     *)
(* LogLen entries holds there.                                             *)
Slot(k) == IF k < log_write THEN log_write - 1 - k ELSE log_write + LogLen - 1 - k
Entry(k) == IF k < added THEN added - k ELSE 0

(* The ring always holds the last LogLen entries, the newest one just      *)
(* before log_write (__core_add_to_log_auto).                              *)
LogIsRecent == \A k \in Slots : log[Slot(k)] = Entry(k)

(* Nothing has been logged since p was launched, and no other logp moves   *)
(* log_read.                                                               *)
Undisturbed(p) ==
    /\ added = launchedAt[p]
    /\ \A q \in Printers \ {p} : pc[q] = "idle"

(* An undisturbed logp prints the whole log, each entry once and the       *)
(* oldest first, and ends with its own launch (__core_log_printer relies   *)
(* on log_read being at that launch when it starts).                       *)
PrintsHistory ==
    \A p \in Printers : pc[p] = "rows" /\ Undisturbed(p) =>
        /\ Len(printed[p]) <= LogLen
        /\ \A i \in 1..Len(printed[p]) : printed[p][i] = Entry(LogLen - i)

=============================================================================
