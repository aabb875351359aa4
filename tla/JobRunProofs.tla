---------------------------- MODULE JobRunProofs -----------------------------
(***************************************************************************)
(* Proofs about JobRun, for any jobs, any notifiers and any number of runs *)
(* and notifications.                                                      *)
(*                                                                         *)
(* A notifier that has tested instances holds on to a promise that its     *)
(* handle names a task until it sends (Aimed): a loop never returns, and   *)
(* any other run has waits to make for all that it is owed, that is about  *)
(* to be sent and that it has not taken (Owes), and cannot make the next   *)
(* one before it gets the notification that this notifier, and no other,   *)
(* is about to send.                                                       *)
(***************************************************************************)
EXTENDS JobRun, TLAPS

CountedPcs == {"running", "waiting", "woken", "took", "returned"}

Counted == \A j \in Jobs : instances[j] = IF pc[j] \in CountedPcs THEN 1 ELSE 0

TypeInv == TypeOK /\ Counted

(* A job that has a task has its handle.                                   *)
Handles == \A j \in Jobs : pc[j] # "idle" => handle[j] = run[j]

(* A run ends when it has made its waits, a loop never.                    *)
Ends == \A j \in Jobs : pc[j] \in {"returned", "uncounted"} => j \in Finite /\ left[j] = 0

(* A notifier that will send one to j.                                     *)
Aims(n, j) == notifier[n] # NoCall /\ notifier[n].job = j

Aimed ==
    \A n \in Notifiers, j \in Jobs : Aims(n, j) =>
        /\ pc[j] # "idle"
        /\ j \in Finite =>
            /\ ~notifier[n].null
            /\ note[j] = 0
            /\ pc[j] \in {"running", "waiting"}
            /\ \A m \in Notifiers : Aims(m, j) => m = n

ReachInv == Handles /\ Ends /\ Aimed /\ ~wild

(* The waits a run has to make are for what it is owed, what is about to   *)
(* be sent to it, and what it has not taken yet.                           *)
One(b) == IF b THEN 1 ELSE 0
AimedAt(j) == \E n \in Notifiers : Aims(n, j)
Owes(j) == pc[j] # "idle" => left[j] = owed[j] + One(AimedAt(j)) + One(note[j] # 0)

(* What a run has published is what it took last, or it is about to        *)
(* publish a newer one; and what woke it is still there.                   *)
Published(j) ==
    /\ param[j] <= took[j] /\ took[j] <= lastSent[j]
    /\ pc[j] = "took" => param[j] < took[j]
    /\ pc[j] = "woken" => note[j] # 0

PayInv == \A j \in Finite : Owes(j) /\ Published(j)

(* What waits to be taken is the last one sent, and newer than what has    *)
(* been taken.                                                             *)
Noted == \A j \in Jobs : note[j] # 0 => note[j] = lastSent[j] /\ note[j] > took[j]

(* The clock shows t when it showed b and e ticks, or e and a whole round, *)
(* have gone by.                                                           *)
Spans(b, e, t) == b + e = t \/ b + e = t + Period

(* The ticks of a run that goes on are those since it began, the ticks of  *)
(* one that has ended those until then.                                    *)
Timed ==
    \A j \in Jobs :
        Spans(timing_begin[j], elapsed[j], IF Measured(j) THEN now ELSE timing_end[j])

(* What bench prints for a run of e ticks.                                 *)
Printed(e) == (bench.less <=> e = 0) /\ bench.ms = (e + 1) % Period

(* What an undisturbed bench has read is still so.                         *)
Benched ==
    bench # NoCall /\ bench.clean =>
        /\ ~Measured(bench.job)
        /\ bench.pc = "begin" => bench.end = timing_end[bench.job]
        /\ bench.pc = "print" => Printed(elapsed[bench.job])

JobRunInv == TypeInv /\ ReachInv /\ PayInv /\ Noted /\ Timed /\ Benched

-----------------------------------------------------------------------------
LEMMA InStamps == ASSUME NEW a \in Nat PROVE a % Period \in Stamps
BY JobRunAssumption DEF Stamps

LEMMA DifferenceStamp ==
    ASSUME NEW a \in Stamps, NEW b \in Stamps PROVE Difference(a, b) \in Stamps
<1>1. a + Period - b \in Nat
  BY JobRunAssumption DEF Stamps
<1>. QED BY <1>1, InStamps DEF Difference

(* Every action keeps the types, and instances the number of runs.         *)
LEMMA TypeStep == TypeInv /\ [Next]_vars => TypeInv'
<1>. SUFFICES ASSUME TypeInv, [Next]_vars PROVE TypeInv'
  OBVIOUS
<1>. USE DEF TypeInv, TypeOK, Counted, CountedPcs, RunPcs, NoCall, appVars
<1>1. ASSUME NEW j \in Jobs, Launch(j) PROVE TypeInv'
  BY <1>1, JobRunAssumption DEF Launch, To, runVars, timeVars, noteVars
<1>2. ASSUME NEW j \in Jobs, Count(j) PROVE TypeInv'
  <2>1. bench' = (IF Disturbed(j) THEN [bench EXCEPT !.clean = FALSE] ELSE bench)
    BY <1>2 DEF Count
  <2>2. bench' \in {NoCall} \cup [pc : {"end"}, job : Jobs, clean : BOOLEAN]
                     \cup [pc : {"begin"}, job : Jobs, clean : BOOLEAN, end : Stamps]
                     \cup [pc : {"print"}, job : Jobs, clean : BOOLEAN, less : BOOLEAN, ms : Stamps]
    <3>1. CASE ~Disturbed(j)
      BY <2>1, <3>1
    <3>2. CASE Disturbed(j)
      <4>1. bench # NoCall
        BY <3>2 DEF Disturbed
      <4>2. bench' = [bench EXCEPT !.clean = FALSE]
        BY <2>1, <3>2
      <4>. QED BY <4>1, <4>2
    <3>. QED BY <3>1, <3>2
  <2>3. /\ pc' = [pc EXCEPT ![j] = "running"]
        /\ instances' = [instances EXCEPT ![j] = @ + 1]
        /\ pc[j] = "launched"
        /\ UNCHANGED <<run, left, handle, param, timing_end, now, notifier, owed, noteVars>>
    BY <1>2 DEF Count, To, appVars
  <2>4. timing_begin' \in [Jobs -> Stamps] /\ elapsed' \in [Jobs -> Stamps]
    BY <1>2, JobRunAssumption DEF Count, Stamps
  <2>5. pc' \in [Jobs -> RunPcs] /\ instances' \in [Jobs -> {0, 1}] /\ Counted'
    BY <2>3
  <2>6. {timing_begin', timing_end', elapsed'} \subseteq [Jobs -> Stamps]
    BY <2>3, <2>4
  <2>7. {note', param', lastSent', took'} \subseteq [Jobs -> 0..sent']
    BY <2>3 DEF noteVars
  <2>8. UNCHANGED <<run, left, handle, now, notifier, owed, sent, wild>>
    BY <2>3 DEF noteVars
  <2>. QED BY <2>2, <2>5, <2>6, <2>7, <2>8
<1>3. ASSUME NEW j \in Jobs, Wait(j) PROVE TypeInv'
  BY <1>3, JobRunAssumption DEF Wait, Take, Cleared, To, runVars, timeVars, noteVars
<1>4. ASSUME NEW j \in Jobs, Wake(j) PROVE TypeInv'
  BY <1>4, JobRunAssumption DEF Wake, Take, Cleared, To, runVars, timeVars, noteVars
<1>5. ASSUME NEW j \in Jobs, JobSetParam(j) PROVE TypeInv'
  BY <1>5, JobRunAssumption DEF JobSetParam, To, runVars, timeVars, noteVars
<1>6. ASSUME NEW j \in Jobs, Return(j) PROVE TypeInv'
  BY <1>6, JobRunAssumption DEF Return, To, runVars, timeVars, noteVars
<1>7. ASSUME NEW j \in Jobs, Uncount(j) PROVE TypeInv'
  BY <1>7, JobRunAssumption DEF Uncount, To, runVars, timeVars, noteVars
<1>8. ASSUME NEW j \in Jobs, Exit(j) PROVE TypeInv'
  BY <1>8, JobRunAssumption DEF Exit, To, runVars, timeVars, noteVars
<1>9. ASSUME NEW j \in Jobs, BenchTest(j) PROVE TypeInv'
  BY <1>9, JobRunAssumption DEF BenchTest, To, runVars, timeVars, noteVars
<1>10. ASSUME NEW k \in Notifiers, NEW j \in Jobs, NEW null \in BOOLEAN, NotifyTest(k, j, null)
      PROVE TypeInv'
  BY <1>10, JobRunAssumption DEF NotifyTest, Due, runVars, timeVars, noteVars
<1>11. ASSUME NEW k \in Notifiers, NotifySend(k) PROVE TypeInv'
  <2>1. PICK j \in Jobs : j = notifier[k].job
    BY <1>11 DEF NotifySend
  <2>2. PICK v \in 0..(sent + 1) : v = IF notifier[k].null THEN 0 ELSE sent + 1
    BY <1>11
  <2>3. /\ sent' = sent + 1 /\ sent' \in Nat
        /\ notifier' = [notifier EXCEPT ![k] = NoCall]
        /\ UNCHANGED <<run, left, instances, handle, param, timeVars, owed, bench, took>>
    BY <1>11 DEF NotifySend
  <2>4. CASE handle[j] = run[j] /\ pc[j] # "idle"
    <3>1. /\ note' = [note EXCEPT ![j] = v]
          /\ lastSent' = [lastSent EXCEPT ![j] = v]
          /\ pc' = [pc EXCEPT ![j] = Woken(@)]
          /\ UNCHANGED wild
      BY <1>11, <2>1, <2>2, <2>4 DEF NotifySend
    <3>. QED BY <2>1, <2>2, <2>3, <3>1 DEF Woken, timeVars
  <2>5. CASE ~(handle[j] = run[j] /\ pc[j] # "idle")
    <3>1. wild' = TRUE /\ UNCHANGED <<note, lastSent, pc>>
      BY <1>11, <2>1, <2>2, <2>5 DEF NotifySend
    <3>. QED BY <2>3, <3>1 DEF timeVars
  <2>. QED BY <2>4, <2>5
<1>12. CASE Tick
  BY <1>12, InStamps DEF Tick, Stamps, runVars, noteVars
<1>13. CASE BenchReadEnd
  BY <1>13, DifferenceStamp DEF BenchReadEnd, runVars, timeVars, noteVars
<1>14. CASE BenchReadBegin
  <2>1. PICK t : t = Difference(bench.end, timing_begin[bench.job])
    OBVIOUS
  <2>2. bench.job \in Jobs /\ bench.end \in Stamps /\ bench.clean \in BOOLEAN /\ t \in Stamps
    BY <1>14, <2>1, DifferenceStamp DEF BenchReadBegin
  <2>3. (t + 1) % Period \in Stamps /\ (t = 0) \in BOOLEAN
    BY <2>2, InStamps DEF Stamps
  <2>4. bench' = [pc |-> "print", job |-> bench.job, clean |-> bench.clean,
                  less |-> t = 0, ms |-> (t + 1) % Period]
    BY <1>14, <2>1 DEF BenchReadBegin, OneMore
  <2>. QED BY <1>14, <2>2, <2>3, <2>4 DEF BenchReadBegin, runVars, timeVars, noteVars
<1>15. CASE BenchPrint
  BY <1>15, DifferenceStamp DEF BenchPrint, runVars, timeVars, noteVars
<1>16. CASE UNCHANGED vars
  BY <1>16 DEF vars, runVars, timeVars, noteVars
<1>. QED BY <1>1, <1>2, <1>3, <1>4, <1>5, <1>6, <1>7, <1>8, <1>9, <1>10, <1>11, <1>12, <1>13, <1>14, <1>15, <1>16 DEF Next, RunStep

(* The actions that only read what ReachInv is about.                      *)
LEMMA OthersReach ==
    ASSUME ReachInv,
           \/ \E j \in Jobs : BenchTest(j)
           \/ Tick \/ BenchReadEnd \/ BenchReadBegin \/ BenchPrint \/ UNCHANGED vars
    PROVE  ReachInv'
<1>1. UNCHANGED <<pc, run, left, handle, note, notifier, wild>>
  BY DEF BenchTest, Tick, BenchReadEnd, BenchReadBegin, BenchPrint, vars, runVars, appVars, noteVars
<1>. QED BY <1>1 DEF ReachInv, Handles, Ends, Aimed, Aims

(* A notifier that is about to send leaves the run a wait to make.         *)
LEMMA AimedLeft ==
    ASSUME TypeInv, ReachInv, PayInv, NEW j \in Finite, NEW n \in Notifiers, Aims(n, j)
    PROVE  left[j] > 0
<1>1. pc[j] # "idle" /\ AimedAt(j) /\ j \in Jobs
  BY DEF ReachInv, Aimed, AimedAt, Finite
<1>2. left[j] = owed[j] + 1 + One(note[j] # 0) /\ owed[j] \in Nat
  BY <1>1 DEF PayInv, Owes, One, TypeInv, TypeOK
<1>. QED BY <1>2 DEF One

(* What the application asks itself is enough.                             *)
LEMMA DueRuns ==
    ASSUME TypeInv, ReachInv, PayInv, Noted, NEW j \in Finite, Runs(j), Due(j)
    PROVE  /\ note[j] = 0
           /\ pc[j] \in {"running", "waiting"}
           /\ \A n \in Notifiers : ~Aims(n, j)
<1>1. j \in Jobs /\ param[j] \in Nat /\ took[j] \in Nat /\ lastSent[j] \in Nat
      /\ owed[j] \in Nat /\ note[j] \in Nat
  BY DEF Finite, TypeInv, TypeOK
<1>2. pc[j] \in CountedPcs
  BY <1>1 DEF TypeInv, Counted, Runs
<1>3. took[j] = lastSent[j] /\ pc[j] # "took"
  BY <1>1 DEF PayInv, Published, Due
<1>4. note[j] = 0
  BY <1>1, <1>3 DEF Noted
<1>5. pc[j] # "woken"
  BY <1>4 DEF PayInv, Published
<1>6. left[j] > 0
  BY <1>1, <1>2 DEF PayInv, Owes, One, Due, CountedPcs
<1>7. pc[j] # "returned"
  BY <1>1, <1>6 DEF ReachInv, Ends
<1>8. \A n \in Notifiers : ~Aims(n, j)
  BY DEF Due, Aims
<1>. QED BY <1>2, <1>3, <1>4, <1>5, <1>7, <1>8 DEF CountedPcs

(* Every step keeps the promise a notifier relies on.                      *)
LEMMA ReachStep == TypeInv /\ ReachInv /\ PayInv /\ Noted /\ [Next]_vars => ReachInv'
<1>. SUFFICES ASSUME TypeInv, ReachInv, PayInv, Noted, [Next]_vars PROVE ReachInv'
  OBVIOUS
<1>0. \A j \in Finite : \A n \in Notifiers : Aims(n, j) => left[j] > 0
  BY AimedLeft
<1>. USE DEF ReachInv, Handles, Ends, Aimed, Aims, Finite
<1>1. ASSUME NEW j \in Jobs, Launch(j) PROVE ReachInv'
  BY <1>1 DEF Launch, To, noteVars, TypeInv, TypeOK
<1>2. ASSUME NEW j \in Jobs, Count(j) PROVE ReachInv'
  BY <1>2 DEF Count, To, noteVars, appVars, TypeInv, TypeOK
<1>3. ASSUME NEW j \in Jobs, Wait(j) PROVE ReachInv'
  BY <1>3 DEF Wait, Take, Cleared, To, noteVars, appVars, TypeInv, TypeOK
<1>4. ASSUME NEW j \in Jobs, Wake(j) PROVE ReachInv'
  BY <1>4 DEF Wake, Take, Cleared, To, noteVars, appVars, TypeInv, TypeOK
<1>5. ASSUME NEW j \in Jobs, JobSetParam(j) PROVE ReachInv'
  BY <1>5 DEF JobSetParam, To, noteVars, appVars, TypeInv, TypeOK
<1>6. ASSUME NEW j \in Jobs, Return(j) PROVE ReachInv'
  BY <1>0, <1>6 DEF Return, To, noteVars, appVars, TypeInv, TypeOK
<1>7. ASSUME NEW j \in Jobs, Uncount(j) PROVE ReachInv'
  BY <1>7 DEF Uncount, To, noteVars, appVars, TypeInv, TypeOK
<1>8. ASSUME NEW j \in Jobs, Exit(j) PROVE ReachInv'
  BY <1>8 DEF Exit, To, noteVars, appVars, TypeInv, TypeOK
<1>9. ASSUME NEW k \in Notifiers, NEW j \in Jobs, NEW null \in BOOLEAN, NotifyTest(k, j, null)
      PROVE ReachInv'
  <2>1. /\ j \in Finite =>
              /\ note[j] = 0 /\ pc[j] \in {"running", "waiting"} /\ ~null
              /\ \A n \in Notifiers : ~Aims(n, j)
        /\ pc[j] # "idle"
    BY <1>9, DueRuns DEF NotifyTest, Runs, TypeInv, Counted, CountedPcs
  <2>. QED BY <1>9, <2>1 DEF NotifyTest, runVars, noteVars, TypeInv, TypeOK, NoCall
<1>10. ASSUME NEW k \in Notifiers, NotifySend(k) PROVE ReachInv'
  BY <1>10 DEF NotifySend, Woken, TypeInv, TypeOK
<1>. QED BY <1>1, <1>2, <1>3, <1>4, <1>5, <1>6, <1>7, <1>8, <1>9, <1>10, OthersReach DEF Next, RunStep

(* A step that makes and takes no notification, and sends none.            *)
LEMMA PayFrame ==
    ASSUME NEW j \in Finite, Owes(j), Published(j),
           UNCHANGED <<left, owed, note, notifier, param, took, lastSent>>,
           pc'[j] # "idle" => pc[j] # "idle",
           pc'[j] \in {"took", "woken"} => pc'[j] = pc[j]
    PROVE  Owes(j)' /\ Published(j)'
<1>1. AimedAt(j)' <=> AimedAt(j)
  BY DEF AimedAt, Aims
<1>2. Owes(j)'
  BY <1>1 DEF Owes, One
<1>3. Published(j)'
  BY DEF Published
<1>. QED BY <1>2, <1>3

LEMMA PayTake ==
    ASSUME TypeInv, Noted, NEW j \in Finite, Owes(j), Published(j), NEW i \in Jobs, Take(i),
           pc[i] # "idle", i \in Finite => note[i] # 0,
           UNCHANGED <<owed, notifier, param>>
    PROVE  Owes(j)' /\ Published(j)'
<1>1. AimedAt(j)' <=> AimedAt(j)
  BY DEF AimedAt, Aims
<1>2. j \in Jobs /\ note[j] \in Nat /\ took[j] \in Nat /\ param[j] \in Nat
      /\ lastSent[j] \in Nat /\ left[j] \in Nat /\ owed[j] \in Nat
  BY JobRunAssumption DEF Finite, TypeInv, TypeOK
<1>3. CASE i = j
  <2>1. note[j] # 0 /\ note[j] = lastSent[j] /\ note[j] > took[j]
    BY <1>2, <1>3 DEF Noted
  <2>2. /\ note'[j] = 0 /\ took'[j] = note[j] /\ pc'[j] = "took" /\ lastSent' = lastSent
        /\ left'[j] = IF left[j] = 0 THEN 0 ELSE left[j] - 1
    BY <1>2, <1>3, <2>1 DEF Take, Cleared, TypeInv, TypeOK
  <2>3. left[j] = owed[j] + One(AimedAt(j)) + 1
    BY <1>3, <2>1 DEF Owes, One
  <2>4. Owes(j)'
    BY <1>1, <1>2, <2>2, <2>3 DEF Owes, One
  <2>5. Published(j)'
    BY <1>2, <2>1, <2>2 DEF Published
  <2>. QED BY <2>4, <2>5
<1>4. CASE i # j
  <2>1. note'[j] = note[j] /\ took'[j] = took[j] /\ pc'[j] = pc[j] /\ lastSent' = lastSent
        /\ left'[j] = left[j]
    BY <1>2, <1>4 DEF Take, TypeInv, TypeOK
  <2>2. Owes(j)'
    BY <1>1, <2>1 DEF Owes, One
  <2>3. Published(j)'
    BY <2>1 DEF Published
  <2>. QED BY <2>2, <2>3
<1>. QED BY <1>3, <1>4

LEMMA PaySend ==
    ASSUME TypeInv, ReachInv, NEW j \in Finite, Owes(j), Published(j),
           NEW k \in Notifiers, NotifySend(k)
    PROVE  Owes(j)' /\ Published(j)'
<1>1. j \in Jobs /\ sent \in Nat /\ took[j] \in 0..sent /\ param[j] \in Nat
  BY DEF Finite, TypeInv, TypeOK
<1>2. PICK i \in Jobs : i = notifier[k].job /\ Aims(k, i)
  BY DEF NotifySend, Aims, TypeInv, TypeOK
<1>3. handle[i] = run[i] /\ pc[i] # "idle"
  BY <1>2 DEF ReachInv, Aimed, Handles
<1>4. /\ UNCHANGED <<left, owed, param, took>>
      /\ notifier' = [notifier EXCEPT ![k] = NoCall]
      /\ pc' = [pc EXCEPT ![i] = Woken(@)]
      /\ note' = [note EXCEPT ![i] = IF notifier[k].null THEN 0 ELSE sent + 1]
      /\ lastSent' = [lastSent EXCEPT ![i] = IF notifier[k].null THEN 0 ELSE sent + 1]
  BY <1>2, <1>3 DEF NotifySend
<1>5. CASE i = j
  <2>1. ~notifier[k].null /\ note[j] = 0 /\ \A m \in Notifiers : Aims(m, j) => m = k
    BY <1>2, <1>5 DEF ReachInv, Aimed
  <2>2. note'[j] = sent + 1 /\ lastSent'[j] = sent + 1 /\ pc'[j] = Woken(pc[j])
    BY <1>1, <1>4, <1>5, <2>1 DEF TypeInv, TypeOK
  <2>3. AimedAt(j) /\ ~AimedAt(j)'
    BY <1>2, <1>4, <1>5, <2>1 DEF AimedAt, Aims, TypeInv, TypeOK
  <2>4. Owes(j)'
    BY <1>1, <1>3, <1>4, <1>5, <2>1, <2>2, <2>3 DEF Owes, One, TypeInv, TypeOK
  <2>5. Published(j)'
    BY <1>1, <1>4, <2>2 DEF Published, Woken
  <2>. QED BY <2>4, <2>5
<1>6. CASE i # j
  <2>1. note'[j] = note[j] /\ lastSent'[j] = lastSent[j] /\ pc'[j] = pc[j]
    BY <1>1, <1>4, <1>6 DEF TypeInv, TypeOK
  <2>2. AimedAt(j)' <=> AimedAt(j)
    BY <1>2, <1>4, <1>6 DEF AimedAt, Aims, TypeInv, TypeOK
  <2>3. Owes(j)'
    BY <1>4, <2>1, <2>2 DEF Owes, One
  <2>4. Published(j)'
    BY <1>4, <2>1 DEF Published
  <2>. QED BY <2>3, <2>4
<1>. QED BY <1>5, <1>6

(* What the application owes is what the run waits for.                    *)
LEMMA PayStep == TypeInv /\ ReachInv /\ PayInv /\ Noted /\ [Next]_vars => PayInv'
<1>. SUFFICES ASSUME TypeInv, ReachInv, PayInv, Noted, [Next]_vars, NEW j \in Finite
              PROVE  Owes(j)' /\ Published(j)'
  BY DEF PayInv, Finite
<1>0. Owes(j) /\ Published(j) /\ j \in Jobs
  BY DEF PayInv, Finite
<1>1. ASSUME NEW i \in Jobs, Launch(i) PROVE Owes(j)' /\ Published(j)'
  <2>1. AimedAt(j)' <=> AimedAt(j)
    BY <1>1 DEF Launch, AimedAt, Aims
  <2>2. pc[i] = "idle" /\ ~AimedAt(i)
    BY <1>1 DEF Launch, AimedAt, ReachInv, Aimed
  <2>3. /\ note' = [note EXCEPT ![i] = 0]
        /\ left' = [left EXCEPT ![i] = IF i \in Loops THEN 0 ELSE Waits]
        /\ owed' = [owed EXCEPT ![i] = left'[i]]
        /\ pc' = [pc EXCEPT ![i] = "launched"]
        /\ UNCHANGED <<param, took, lastSent>>
    BY <1>1 DEF Launch
  <2>4. Published(j)'
    BY <1>0, <2>3 DEF Published, TypeInv, TypeOK
  <2>5. CASE i = j
    <3>1. note'[j] = 0 /\ owed'[j] = left'[j] /\ left'[j] \in Nat
      BY <1>0, <2>3, <2>5, JobRunAssumption DEF TypeInv, TypeOK
    <3>. QED BY <2>1, <2>2, <2>4, <2>5, <3>1 DEF Owes, One
  <2>6. CASE i # j
    <3>1. note'[j] = note[j] /\ owed'[j] = owed[j] /\ left'[j] = left[j] /\ pc'[j] = pc[j]
      BY <1>0, <2>3, <2>6 DEF TypeInv, TypeOK
    <3>. QED BY <1>0, <2>1, <2>4, <3>1 DEF Owes, One
  <2>. QED BY <2>5, <2>6
<1>2. ASSUME NEW i \in Jobs, Wait(i) \/ Wake(i) PROVE Owes(j)' /\ Published(j)'
  <2>1. UNCHANGED <<owed, notifier, param>>
    BY <1>2 DEF Wait, Wake, appVars
  <2>2. CASE Take(i)
    <3>1. pc[i] # "idle"
      BY <1>2 DEF Wait, Wake
    <3>2. i \in Finite => note[i] # 0
      <4>1. i \in Finite /\ pc[i] = "woken" => note[i] # 0
        BY DEF PayInv, Published
      <4>2. pc[i] = "woken" \/ note[i] # 0 \/ To(i, "waiting")
        BY <1>2 DEF Wait, Wake
      <4>3. To(i, "waiting") => FALSE
        BY <2>2, <1>2 DEF To, Take, TypeInv, TypeOK
      <4>. QED BY <4>1, <4>2, <4>3
    <3>. QED BY <1>0, <2>1, <2>2, <3>1, <3>2, PayTake
  <2>3. CASE To(i, "waiting") /\ UNCHANGED noteVars /\ pc[i] = "running"
    <3>1. UNCHANGED <<left, note, took, lastSent>> /\ pc' = [pc EXCEPT ![i] = "waiting"]
      BY <2>3 DEF To, noteVars
    <3>. QED BY <1>0, <2>1, <2>3, <3>1, PayFrame DEF TypeInv, TypeOK
  <2>. QED BY <1>2, <2>2, <2>3 DEF Wait, Wake
<1>3. ASSUME NEW i \in Jobs, JobSetParam(i) PROVE Owes(j)' /\ Published(j)'
  <2>1. AimedAt(j)' <=> AimedAt(j)
    BY <1>3 DEF JobSetParam, appVars, AimedAt, Aims
  <2>2. /\ pc' = [pc EXCEPT ![i] = "running"] /\ pc[i] = "took"
        /\ UNCHANGED <<left, owed, note, took, lastSent>>
        /\ param' = param \/ param' = [param EXCEPT ![i] = took[i]]
    BY <1>3 DEF JobSetParam, appVars, noteVars, To
  <2>3. Owes(j)'
    BY <1>0, <2>1, <2>2 DEF Owes, One, TypeInv, TypeOK
  <2>4. Published(j)'
    BY <1>0, <2>2 DEF Published, TypeInv, TypeOK
  <2>. QED BY <2>3, <2>4
<1>4. ASSUME NEW i \in Jobs, Count(i) \/ Return(i) \/ Uncount(i) \/ Exit(i) \/ BenchTest(i)
      PROVE  Owes(j)' /\ Published(j)'
  <2>1. UNCHANGED <<left, owed, note, notifier, param, took, lastSent>>
    BY <1>4 DEF Count, Return, Uncount, Exit, BenchTest, appVars, noteVars, runVars, To
  <2>2. /\ pc'[j] # "idle" => pc[j] # "idle"
        /\ pc'[j] \in {"took", "woken"} => pc'[j] = pc[j]
    BY <1>0, <1>4 DEF Count, Return, Uncount, Exit, BenchTest, runVars, To, TypeInv, TypeOK
  <2>. QED BY <1>0, <2>1, <2>2, PayFrame
<1>5. ASSUME NEW k \in Notifiers, NEW i \in Jobs, NEW null \in BOOLEAN, NotifyTest(k, i, null)
      PROVE  Owes(j)' /\ Published(j)'
  <2>1. /\ UNCHANGED <<pc, left, note, param, took, lastSent>>
        /\ notifier[k] = NoCall
        /\ notifier' = [notifier EXCEPT ![k] = [pc |-> "tested", job |-> i, null |-> null]]
        /\ owed' = IF i \in Loops THEN owed ELSE [owed EXCEPT ![i] = @ - 1]
    BY <1>5 DEF NotifyTest, runVars, noteVars
  <2>2. Published(j)'
    BY <1>0, <2>1 DEF Published
  <2>3. CASE i = j
    <3>1. ~AimedAt(j) /\ owed[j] > 0
      BY <1>5, <2>3, DueRuns DEF NotifyTest, Due, Finite, AimedAt
    <3>2. Aims(k, j)'
      BY <2>1, <2>3 DEF Aims, NoCall, TypeInv, TypeOK
    <3>3. AimedAt(j)'
      BY <3>2 DEF AimedAt
    <3>4. owed'[j] = owed[j] - 1 /\ owed[j] \in Nat
      BY <1>0, <2>1, <2>3, JobRunAssumption DEF Finite, TypeInv, TypeOK
    <3>. QED BY <1>0, <2>1, <2>2, <3>1, <3>3, <3>4 DEF Owes, One
  <2>4. CASE i # j
    <3>1. AimedAt(j)' <=> AimedAt(j)
      BY <2>1, <2>4 DEF AimedAt, Aims, NoCall, TypeInv, TypeOK
    <3>2. owed'[j] = owed[j]
      BY <1>0, <2>1, <2>4 DEF TypeInv, TypeOK
    <3>. QED BY <1>0, <2>1, <2>2, <3>1, <3>2 DEF Owes, One
  <2>. QED BY <2>3, <2>4
<1>6. ASSUME NEW k \in Notifiers, NotifySend(k) PROVE Owes(j)' /\ Published(j)'
  BY <1>0, <1>6, PaySend
<1>7. ASSUME Tick \/ BenchReadEnd \/ BenchReadBegin \/ BenchPrint \/ UNCHANGED vars
      PROVE  Owes(j)' /\ Published(j)'
  <2>1. UNCHANGED <<pc, left, owed, note, notifier, param, took, lastSent>>
    BY <1>7 DEF Tick, BenchReadEnd, BenchReadBegin, BenchPrint, vars, runVars, appVars, noteVars
  <2>. QED BY <1>0, <2>1, PayFrame
<1>. QED BY <1>1, <1>2, <1>3, <1>4, <1>5, <1>6, <1>7 DEF Next, RunStep

-----------------------------------------------------------------------------
(* What is sent, taken and kept.                                           *)

LEMMA NotedStep == TypeInv /\ Noted /\ [Next]_vars => Noted'
<1>. SUFFICES ASSUME TypeInv, Noted, [Next]_vars PROVE Noted'
  OBVIOUS
<1>. USE DEF Noted, TypeInv, TypeOK
<1>1. ASSUME NEW j \in Jobs, Launch(j) PROVE Noted'
  BY <1>1 DEF Launch
<1>2. ASSUME NEW j \in Jobs, Wait(j) \/ Wake(j) PROVE Noted'
  BY <1>2 DEF Wait, Wake, Take, Cleared, noteVars
<1>3. ASSUME NEW k \in Notifiers, NotifySend(k) PROVE Noted'
  BY <1>3 DEF NotifySend
<1>4. ASSUME UNCHANGED <<note, lastSent, took>> PROVE Noted'
  BY <1>4
<1>5. ASSUME NEW j \in Jobs, Count(j) \/ JobSetParam(j) \/ Return(j) \/ Uncount(j) \/ Exit(j) \/ BenchTest(j)
      PROVE  Noted'
  BY <1>5, <1>4 DEF Count, JobSetParam, Return, Uncount, Exit, BenchTest, noteVars
<1>6. ASSUME NEW k \in Notifiers, NEW j \in Jobs, NEW null \in BOOLEAN, NotifyTest(k, j, null)
      PROVE  Noted'
  BY <1>6, <1>4 DEF NotifyTest, noteVars
<1>7. ASSUME Tick \/ BenchReadEnd \/ BenchReadBegin \/ BenchPrint \/ UNCHANGED vars PROVE Noted'
  BY <1>7, <1>4 DEF Tick, BenchReadEnd, BenchReadBegin, BenchPrint, vars, noteVars
<1>. QED BY <1>1, <1>2, <1>3, <1>5, <1>6, <1>7 DEF Next, RunStep

-----------------------------------------------------------------------------
(* Time.                                                                   *)

LEMMA Wraps ==
    ASSUME NEW a \in Stamps
    PROVE  /\ a % Period = a /\ (a + Period) % Period = a
           /\ (a + 1) % Period = IF a + 1 = Period THEN 0 ELSE a + 1
<1>. USE JobRunAssumption DEF Stamps
<1>1. a % Period = a
  BY SMTT(20)
<1>2. (a + Period) % Period = a
  BY SMTT(20)
<1>3. (0 + Period) % Period = 0
  BY SMTT(20)
<1>4. CASE a + 1 = Period
  BY <1>3, <1>4
<1>5. CASE a + 1 # Period
  <2>1. a + 1 \in Stamps
    BY <1>5
  <2>2. (a + 1) % Period = a + 1
    BY <2>1, SMTT(20)
  <2>. QED BY <1>5, <2>2
<1>. QED BY <1>1, <1>2, <1>4, <1>5

LEMMA SpansDifference ==
    ASSUME NEW b \in Stamps, NEW e \in Stamps, NEW t \in Stamps, Spans(b, e, t)
    PROVE  Difference(t, b) = e
<1>1. CASE b + e = t
  <2>1. t + Period - b = e + Period
    BY <1>1, JobRunAssumption DEF Stamps
  <2>. QED BY <2>1, Wraps DEF Difference
<1>2. CASE b + e = t + Period
  <2>1. t + Period - b = e
    BY <1>2, JobRunAssumption DEF Stamps
  <2>. QED BY <2>1, Wraps DEF Difference
<1>. QED BY <1>1, <1>2 DEF Spans

LEMMA SpansTick ==
    ASSUME NEW b \in Stamps, NEW e \in Stamps, NEW t \in Stamps, Spans(b, e, t)
    PROVE  Spans(b, (e + 1) % Period, (t + 1) % Period)
<1>1. PICK f \in Stamps : f = (e + 1) % Period /\ f = IF e + 1 = Period THEN 0 ELSE e + 1
  BY Wraps, JobRunAssumption DEF Stamps
<1>2. PICK u \in Stamps : u = (t + 1) % Period /\ u = IF t + 1 = Period THEN 0 ELSE t + 1
  BY Wraps, JobRunAssumption DEF Stamps
<1>3. Spans(b, f, u)
  BY <1>1, <1>2, JobRunAssumption DEF Spans, Stamps
<1>. QED BY <1>1, <1>2, <1>3

(* Steps that begin and end no run leave what is measured alone.           *)
LEMMA UntimedStep ==
    ASSUME TypeInv, Timed, Benched, UNCHANGED timeVars, UNCHANGED bench,
           \A j \in Jobs : Measured(j)' = Measured(j)
    PROVE  Timed' /\ Benched'
<1>1. Timed'
  BY DEF Timed, Spans, timeVars
<1>2. Benched'
  BY DEF Benched, Printed, timeVars, TypeInv, TypeOK
<1>. QED BY <1>1, <1>2

LEMMA TimeStep == TypeInv /\ Timed /\ Benched /\ [Next]_vars => Timed' /\ Benched'
<1>. SUFFICES ASSUME TypeInv, Timed, Benched, [Next]_vars PROVE Timed' /\ Benched'
  OBVIOUS
<1>. USE DEF TypeInv, TypeOK
<1>1. ASSUME NEW j \in Jobs,
             Launch(j) \/ Wait(j) \/ Wake(j) \/ JobSetParam(j) \/ Uncount(j) \/ Exit(j)
      PROVE  Timed' /\ Benched'
  <2>1. UNCHANGED timeVars /\ UNCHANGED bench
    BY <1>1 DEF Launch, Wait, Wake, JobSetParam, Uncount, Exit
  <2>2. \A i \in Jobs : Measured(i)' = Measured(i)
    BY <1>1 DEF Launch, Wait, Wake, Take, JobSetParam, Uncount, Exit, To, Measured
  <2>. QED BY <2>1, <2>2, UntimedStep
<1>2. ASSUME NEW k \in Notifiers,
             NotifySend(k) \/ \E j \in Jobs, null \in BOOLEAN : NotifyTest(k, j, null)
      PROVE  Timed' /\ Benched'
  <2>1. UNCHANGED timeVars /\ UNCHANGED bench
    BY <1>2 DEF NotifySend, NotifyTest
  <2>2. \A i \in Jobs : Measured(i)' = Measured(i)
    BY <1>2 DEF NotifySend, NotifyTest, Woken, Measured, runVars
  <2>. QED BY <2>1, <2>2, UntimedStep
<1>3. ASSUME NEW j \in Jobs, Count(j) PROVE Timed' /\ Benched'
  <2>1. Timed'
    BY <1>3 DEF Count, To, Timed, Measured, Spans, Stamps, Finite
  <2>2. Benched'
    BY <1>3 DEF Count, To, Disturbed, Benched, Printed, Measured, NoCall
  <2>. QED BY <2>1, <2>2
<1>4. ASSUME NEW j \in Jobs, Return(j) PROVE Timed' /\ Benched'
  <2>1. Timed'
    BY <1>4 DEF Return, To, Timed, Measured
  <2>2. Benched'
    BY <1>4 DEF Return, To, Benched, Printed, Measured, NoCall
  <2>. QED BY <2>1, <2>2
<1>5. CASE Tick
  <2>1. \A i \in Jobs : Measured(i)' = Measured(i)
    BY <1>5 DEF Tick, Measured, runVars
  <2>2. Timed'
    BY <1>5, <2>1, SpansTick DEF Tick, Timed
  <2>3. Benched'
    BY <1>5, <2>1 DEF Tick, Benched, Printed, NoCall
  <2>. QED BY <2>2, <2>3
<1>6. ASSUME (\E j \in Jobs : BenchTest(j)) \/ BenchReadEnd \/ BenchReadBegin \/ BenchPrint
      PROVE  Timed' /\ Benched'
  <2>1. \A i \in Jobs : Measured(i)' = Measured(i)
    BY <1>6 DEF BenchTest, BenchReadEnd, BenchReadBegin, BenchPrint, Measured, runVars
  <2>2. Timed'
    BY <1>6, <2>1 DEF BenchTest, BenchReadEnd, BenchReadBegin, BenchPrint, Timed, timeVars
  <2>3. ASSUME NEW j \in Jobs, BenchTest(j) PROVE Benched'
    BY <2>1, <2>3 DEF BenchTest, Benched, NoCall
  <2>4. ASSUME BenchReadEnd PROVE Benched'
    <3>1. PICK j \in Jobs : j = bench.job /\ bench # NoCall
      BY <2>4 DEF BenchReadEnd, NoCall
    <3>2. /\ bench'.pc = "begin" /\ bench'.job = j /\ (bench'.clean => bench.clean)
          /\ bench'.end = timing_end'[j]
      BY <2>4, <3>1 DEF BenchReadEnd, timeVars
    <3>3. bench.clean => ~Measured(j)'
      BY <2>1, <3>1 DEF Benched
    <3>. QED BY <3>2, <3>3 DEF Benched, Measured
  <2>5. ASSUME BenchReadBegin PROVE Benched'
    <3>1. PICK j \in Jobs : j = bench.job /\ bench # NoCall
      BY <2>5 DEF BenchReadBegin, NoCall
    <3>2. PICK t : t = Difference(bench.end, timing_begin[j])
      OBVIOUS
    <3>3. /\ bench' = [pc |-> "print", job |-> j, clean |-> bench.clean,
                       less |-> t = 0, ms |-> (t + 1) % Period]
          /\ elapsed' = elapsed
      BY <2>5, <3>1, <3>2 DEF BenchReadBegin, OneMore, timeVars
    <3>4. /\ bench'.pc = "print" /\ bench'.job = j /\ (bench'.clean => bench.clean)
          /\ (bench'.less <=> t = 0) /\ bench'.ms = (t + 1) % Period
      BY <3>3
    <3>5. ASSUME bench.clean PROVE ~Measured(j)' /\ t = elapsed'[j]
      <4>1. ~Measured(j) /\ bench.end = timing_end[j]
        BY <2>5, <3>1, <3>5 DEF Benched, BenchReadBegin
      <4>2. Difference(timing_end[j], timing_begin[j]) = elapsed[j]
        BY <4>1, SpansDifference DEF Timed
      <4>. QED BY <2>1, <3>2, <3>3, <4>1, <4>2
    <3>. QED BY <3>4, <3>5 DEF Benched, Measured, Printed
  <2>6. ASSUME BenchPrint PROVE Benched'
    BY <2>6 DEF BenchPrint, Benched
  <2>. QED BY <1>6, <2>2, <2>3, <2>4, <2>5, <2>6
<1>7. CASE UNCHANGED vars
  BY <1>7, UntimedStep DEF vars, Measured, runVars
<1>. QED BY <1>1, <1>2, <1>3, <1>4, <1>5, <1>6, <1>7 DEF Next, RunStep

-----------------------------------------------------------------------------
(* Theorems.                                                               *)

LEMMA InitJobRun == Init => JobRunInv
<1>. SUFFICES ASSUME Init PROVE JobRunInv
  OBVIOUS
<1>. USE JobRunAssumption DEF Init
<1>1. TypeInv
  <2>1. pc \in [Jobs -> RunPcs] /\ instances \in [Jobs -> {0, 1}] /\ Counted
    BY DEF Counted, CountedPcs, RunPcs
  <2>2. /\ {note, param, lastSent, took} \subseteq [Jobs -> 0..sent]
        /\ {timing_begin, timing_end, elapsed} \subseteq [Jobs -> Stamps] /\ now \in Stamps
    BY DEF Stamps
  <2>3. wild \in BOOLEAN
    BY Zenon
  <2>. QED BY <2>1, <2>2, <2>3 DEF TypeInv, TypeOK
<1>2. ReachInv
  BY DEF ReachInv, Handles, Ends, Aimed, Aims
<1>3. Noted
  BY DEF Noted
<1>4. Timed /\ Benched
  BY DEF Timed, Spans, Measured, Benched
<1>5. PayInv
  <2>. SUFFICES ASSUME NEW j \in Finite PROVE Owes(j) /\ Published(j)
    BY DEF PayInv
  <2>1. j \in Jobs
    BY DEF Finite
  <2>2. pc[j] = "idle" /\ param[j] = 0 /\ took[j] = 0 /\ lastSent[j] = 0
    BY <2>1
  <2>. QED BY <2>2 DEF Owes, Published
<1>. QED BY <1>1, <1>2, <1>3, <1>4, <1>5 DEF JobRunInv

(* The inductive invariant.                                                *)
THEOREM JobRunInvariant == Spec => []JobRunInv
<1>1. JobRunInv /\ [Next]_vars => JobRunInv'
  BY TypeStep, ReachStep, PayStep, NotedStep, TimeStep DEF JobRunInv, ReachInv
<1>. QED BY <1>1, InitJobRun, PTL DEF Spec

(* Every variable has its type: instances counts the one run a job has,    *)
(* and time stamps and what bench prints stay within the width of the tick *)
(* counter.                                                                *)
THEOREM JobRunTyped == Spec => []TypeOK
<1>1. JobRunInv => TypeOK
  BY DEF JobRunInv, TypeInv
<1>. QED BY <1>1, JobRunInvariant, PTL

(* No notification goes to a task that is gone, for any number of          *)
(* notifiers, although __job_notify_generic tests instances first and      *)
(* reads the handle later.                                                 *)
THEOREM NotifyIsSafe == Spec => []NotificationReachesRun
<1>1. JobRunInv => NotificationReachesRun
  BY DEF JobRunInv, ReachInv, NotificationReachesRun
<1>. QED BY <1>1, JobRunInvariant, PTL

(* A run takes the last notification sent to its job, and never an older   *)
(* one after a newer one.                                                  *)
THEOREM LatestIsTaken == Spec => TakesLatest
<1>1. JobRunInv /\ [Next]_vars =>
        [\A j \in Jobs : took'[j] # took[j] => took'[j] = lastSent[j] /\ took'[j] > took[j]]_vars
  <2>. SUFFICES ASSUME JobRunInv, Next, NEW j \in Jobs, took'[j] # took[j]
       PROVE  took'[j] = lastSent[j] /\ took'[j] > took[j]
    OBVIOUS
  <2>1. PICK i \in Jobs : Take(i)
    BY DEF Next, RunStep, Launch, Count, Wait, Wake, JobSetParam, Return, Uncount, Exit, BenchTest,
           NotifyTest, NotifySend, Tick, BenchReadEnd, BenchReadBegin, BenchPrint, noteVars
  <2>2. took \in [Jobs -> 0..sent] /\ note \in [Jobs -> 0..sent]
    BY DEF JobRunInv, TypeInv, TypeOK
  <2>. QED BY <2>1, <2>2 DEF Take, JobRunInv, Noted
<1>. QED BY <1>1, JobRunInvariant, PTL DEF Spec, TakesLatest

(* A bench that no run disturbs prints one more than the ticks of the last *)
(* run, and "<" if there were none, for every width of the tick counter    *)
(* and wherever it wraps.                                                  *)
THEOREM BenchIsTrue == Spec => []BenchTrue
<1>1. JobRunInv => BenchTrue
  <2>. SUFFICES ASSUME JobRunInv, bench.pc = "print", bench.clean
                PROVE  /\ bench.less <=> elapsed[bench.job] = 0
                       /\ elapsed[bench.job] + 1 < Period => bench.ms = elapsed[bench.job] + 1
    BY DEF BenchTrue
  <2>1. PICK j \in Jobs : j = bench.job /\ bench # NoCall
    BY DEF JobRunInv, TypeInv, TypeOK, NoCall
  <2>2. PICK e \in Stamps : e = elapsed[j]
    BY DEF JobRunInv, TypeInv, TypeOK
  <2>3. (bench.less <=> e = 0) /\ bench.ms = (e + 1) % Period
    BY <2>1, <2>2 DEF JobRunInv, Benched, Printed
  <2>4. (e + 1) % Period = IF e + 1 = Period THEN 0 ELSE e + 1
    BY Wraps
  <2>. QED BY <2>1, <2>2, <2>3, <2>4, JobRunAssumption DEF Stamps
<1>. QED BY <1>1, JobRunInvariant, PTL

=============================================================================
