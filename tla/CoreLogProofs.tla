---------------------------- MODULE CoreLogProofs ----------------------------
(***************************************************************************)
(* Proofs about CoreLog, for every length of the ring, any number of       *)
(* printers and any number of entries.                                     *)
(*                                                                         *)
(* TypeInv is inductive.  LogIsRecent is inductive relative to it: an      *)
(* entry that k entries followed is one slot further from log_write after  *)
(* one more.  PrintsHistory needs to know where log_read is while an       *)
(* undisturbed logp prints, which is ReadInPlace.                          *)
(***************************************************************************)
EXTENDS CoreLog, SequenceTheorems, TLAPS

(* TypeOK, and the rows printed never exceed the ring.                     *)
TypeInv ==
    /\ TypeOK
    /\ \A p \in Printers :
        /\ launchedAt[p] <= added
        /\ pc[p] = "header" => printed[p] = <<>>
        /\ Len(printed[p]) <= LogLen

(* The slot an undisturbed logp reads next.                                *)
NextSlot(p) ==
    IF pc[p] = "header" THEN Slot(0)
    ELSE IF Len(printed[p]) < LogLen THEN Slot(LogLen - 1 - Len(printed[p]))
    ELSE Slot(LogLen - 1)

ReadInPlace ==
    \A p \in Printers : pc[p] # "idle" /\ Undisturbed(p) => log_read = NextSlot(p)

LogInv == TypeInv /\ LogIsRecent /\ ReadInPlace /\ PrintsHistory

-----------------------------------------------------------------------------
(* Slots.                                                                  *)

LEMMA SlotsAreNats ==
    \A i : i \in Slots <=> i \in Nat /\ i < LogLen
BY CoreLogAssumption, SMT DEF Slots

(* The slot after a slot is a slot.                                        *)
LEMMA AfterInRing == \A i \in Slots : After(i) \in Slots
BY CoreLogAssumption, SMT DEF Slots, After

(* Every entry has a slot of the ring, and reading moves from an entry to  *)
(* the next newer one.                                                     *)
LEMMA SlotProperties ==
    ASSUME log_write \in Slots
    PROVE  /\ \A k \in Slots : Slot(k) \in Slots
           /\ \A k \in Slots : k > 0 => After(Slot(k)) = Slot(k - 1)
           /\ After(Slot(0)) = Slot(LogLen - 1)
           /\ Slot(LogLen - 1) = log_write
BY CoreLogAssumption, SMT DEF Slots, Slot, After

-----------------------------------------------------------------------------
(* Logging an entry.                                                       *)

LEMMA AddTyped ==
    ASSUME TypeOK, AddToLogAuto
    PROVE  /\ log' \in [Slots -> Nat]
           /\ log_write' \in Slots
           /\ log_read' \in Slots
           /\ added' \in Nat
           /\ added' = added + 1
<1>1. added + 1 \in Nat
  BY SMT DEF TypeOK
<1> QED
  BY <1>1, AfterInRing DEF TypeOK, AddToLogAuto

(* __core_add_to_log_auto keeps the ring the last LogLen entries.          *)
LEMMA AddKeepsRecent ==
    ASSUME TypeOK, LogIsRecent, AddToLogAuto
    PROVE  LogIsRecent'
<1> SUFFICES ASSUME NEW k \in Slots
             PROVE  log'[Slot(k)'] = Entry(k)'
  BY DEF LogIsRecent, Slots
<1>1. k \in Nat /\ k < LogLen /\ LogLen \in Nat \ {0} /\ added \in Nat
  BY SlotsAreNats, CoreLogAssumption DEF TypeOK
<1>2. log_write \in Nat /\ log_write < LogLen /\ log_write \in Slots
  BY SlotsAreNats DEF TypeOK
<1>3. CASE k = 0
  <2>1. Slot(k)' = log_write
    BY <1>1, <1>2, <1>3, SMT DEF Slot, AddToLogAuto, After
  <2>2. Entry(k)' = added + 1
    BY <1>1, <1>3, SMT DEF Entry, AddToLogAuto
  <2> QED
    BY <2>1, <2>2, <1>2 DEF AddToLogAuto, TypeOK
<1>4. CASE k # 0
  <2>1. k - 1 \in Slots
    BY <1>1, <1>4, SlotsAreNats, SMT
  <2>2. Slot(k)' = Slot(k - 1)
    BY <1>1, <1>2, <1>4, SMT DEF Slot, AddToLogAuto, After
  <2>3. Slot(k - 1) # log_write
    BY <1>1, <1>2, <1>4, SMT DEF Slot
  <2>4. Slot(k - 1) \in Slots
    BY <2>1, <1>2, SlotProperties
  <2>5. log'[Slot(k - 1)] = log[Slot(k - 1)]
    BY <2>3, <2>4 DEF AddToLogAuto, TypeOK
  <2>6. Entry(k)' = Entry(k - 1)
    BY <1>1, <1>4, SMT DEF Entry, AddToLogAuto
  <2> QED
    BY <2>1, <2>2, <2>5, <2>6 DEF LogIsRecent
<1> QED
  BY <1>3, <1>4

(* Logging disturbs every printer that has been launched before.           *)
LEMMA AddDisturbs ==
    ASSUME TypeInv, AddToLogAuto, NEW p \in Printers,
           launchedAt'[p] = launchedAt[p]
    PROVE  ~Undisturbed(p)'
<1>1. launchedAt[p] \in Nat /\ added \in Nat /\ launchedAt[p] <= added
  BY DEF TypeInv, TypeOK
<1>2. added' = added + 1
  BY DEF AddToLogAuto
<1>3. launchedAt'[p] # added'
  BY <1>1, <1>2, SMT
<1> QED
  BY <1>3 DEF Undisturbed

-----------------------------------------------------------------------------
(* Types.                                                                  *)

LEMMA TypeInvInit == Init => TypeInv
<1> SUFFICES ASSUME Init PROVE TypeInv
  OBVIOUS
<1>1. 0 \in Slots
  BY CoreLogAssumption, SMT DEF Slots
<1>2. \A p \in Printers : printed[p] = <<>> /\ launchedAt[p] = 0 /\ added = 0
  BY DEF Init
<1>3. Len(<<>>) <= LogLen
  BY CoreLogAssumption, EmptySeq, SMT
<1>4. TypeOK
  BY <1>1, SMT DEF Init, TypeOK
<1> QED
  BY <1>2, <1>3, <1>4, SMT DEF TypeInv

LEMMA TypeInvNext == TypeInv /\ [Next]_vars => TypeInv'
<1> SUFFICES ASSUME TypeInv, [Next]_vars PROVE TypeInv'
  OBVIOUS
<1> USE DEF TypeInv
<1>1. CASE CoreAddToLog
  <2>1. AddToLogAuto /\ UNCHANGED printerVars
    BY <1>1 DEF CoreAddToLog
  <2>2. TypeOK'
    BY <2>1, AddTyped DEF TypeOK, printerVars
  <2>3. \A p \in Printers : launchedAt[p] <= added + 1
    BY SMT DEF TypeOK
  <2> QED
    BY <2>1, <2>2, <2>3 DEF printerVars, AddToLogAuto
<1>2. ASSUME NEW p \in Printers, LogPrinterLaunch(p) PROVE TypeInv'
  <2>1. AddToLogAuto
    BY <1>2 DEF LogPrinterLaunch
  <2>2. added + 1 \in Nat /\ added' = added + 1
    BY <2>1, SMT DEF TypeOK, AddToLogAuto
  <2>3. /\ pc' \in [Printers -> {"idle", "header", "rows"}]
        /\ printed' \in [Printers -> Seq(Nat)]
        /\ launchedAt' \in [Printers -> Nat]
    BY <1>2, <2>2 DEF TypeOK, LogPrinterLaunch
  <2>4. ASSUME NEW q \in Printers
        PROVE  /\ launchedAt'[q] <= added'
               /\ pc'[q] = "header" => printed'[q] = <<>>
               /\ Len(printed'[q]) <= LogLen
    <3>1. CASE q = p
      BY <3>1, <1>2, <2>2, CoreLogAssumption, EmptySeq, SMT DEF LogPrinterLaunch, TypeOK
    <3>2. CASE q # p
      <4>1. launchedAt'[q] = launchedAt[q] /\ pc'[q] = pc[q] /\ printed'[q] = printed[q]
        BY <3>2, <1>2 DEF LogPrinterLaunch, TypeOK
      <4>2. launchedAt[q] <= added + 1
        BY SMT DEF TypeOK
      <4> QED
        BY <4>1, <4>2, <2>2
    <3> QED
      BY <3>1, <3>2
  <2> QED
    BY <2>1, <2>3, <2>4, AddTyped DEF TypeOK
<1>3. ASSUME NEW p \in Printers, LogPrinterHeader(p) PROVE TypeInv'
  <2>1. TypeOK'
    BY <1>3, AfterInRing DEF LogPrinterHeader, TypeOK
  <2> QED
    BY <1>3, <2>1 DEF LogPrinterHeader, TypeOK
<1>4. ASSUME NEW p \in Printers, LogPrinterRow(p) PROVE TypeInv'
  <2>1. ReadFromLogNext \in Nat
    BY DEF TypeOK, ReadFromLogNext
  <2>2. printed[p] \in Seq(Nat) /\ Len(printed[p]) \in Nat /\ Len(printed[p]) < LogLen
    BY <1>4 DEF TypeOK, LogPrinterRow
  <2>3. Append(printed[p], ReadFromLogNext) \in Seq(Nat)
    BY <2>1, <2>2
  <2>4. Len(Append(printed[p], ReadFromLogNext)) = Len(printed[p]) + 1
    BY <2>1, <2>2, SMT
  <2>5. Len(Append(printed[p], ReadFromLogNext)) <= LogLen
    BY <2>2, <2>4, CoreLogAssumption, SMT
  <2>6. TypeOK'
    BY <1>4, <2>3, AfterInRing DEF LogPrinterRow, TypeOK
  <2>7. ASSUME NEW q \in Printers
        PROVE  /\ launchedAt'[q] <= added'
               /\ pc'[q] = "header" => printed'[q] = <<>>
               /\ Len(printed'[q]) <= LogLen
    <3>1. launchedAt'[q] = launchedAt[q] /\ added' = added /\ pc'[q] = pc[q]
      BY <1>4 DEF LogPrinterRow
    <3>2. CASE q = p
      BY <3>1, <3>2, <1>4, <2>5 DEF LogPrinterRow, TypeOK
    <3>3. CASE q # p
      BY <3>1, <3>3, <1>4 DEF LogPrinterRow, TypeOK
    <3> QED
      BY <3>2, <3>3
  <2> QED
    BY <2>6, <2>7
<1>5. ASSUME NEW p \in Printers, LogPrinterFinish(p) PROVE TypeInv'
  <2>1. AddToLogAuto
    BY <1>5 DEF LogPrinterFinish
  <2>2. TypeOK'
    BY <1>5, <2>1, AddTyped DEF LogPrinterFinish, TypeOK
  <2>3. \A q \in Printers : launchedAt[q] <= added + 1
    BY SMT DEF TypeOK
  <2> QED
    BY <1>5, <2>1, <2>2, <2>3 DEF LogPrinterFinish, AddToLogAuto, TypeOK
<1>6. CASE UNCHANGED vars
  BY <1>6 DEF vars, ringVars, printerVars, TypeOK
<1> QED
  BY <1>1, <1>2, <1>3, <1>4, <1>5, <1>6 DEF Next, LogPrinter

(* The indices stay inside the ring (log_write and log_read in core.c).    *)
THEOREM RingTypeCorrect == Spec => []TypeOK
<1>1. TypeInv => TypeOK
  BY DEF TypeInv
<1> QED
  BY <1>1, TypeInvInit, TypeInvNext, PTL DEF Spec

-----------------------------------------------------------------------------
(* The ring.                                                               *)

LEMMA RecentInit == Init => LogIsRecent
<1> SUFFICES ASSUME Init, NEW k \in Slots PROVE log[Slot(k)] = Entry(k)
  BY DEF LogIsRecent
<1>1. log_write = 0 /\ added = 0 /\ log = [i \in Slots |-> 0]
  BY DEF Init
<1>2. Slot(k) \in Slots
  BY <1>1, SlotsAreNats, CoreLogAssumption, SlotProperties, SMT
<1>3. Entry(k) = 0
  BY <1>1, SlotsAreNats, SMT DEF Entry
<1> QED
  BY <1>1, <1>2, <1>3

LEMMA RecentNext == TypeInv /\ LogIsRecent /\ [Next]_vars => LogIsRecent'
<1> SUFFICES ASSUME TypeInv, LogIsRecent, [Next]_vars PROVE LogIsRecent'
  OBVIOUS
<1>1. CASE AddToLogAuto
  BY <1>1, AddKeepsRecent DEF TypeInv
<1>2. CASE UNCHANGED <<log, log_write, added>>
  BY <1>2 DEF LogIsRecent, Slot, Entry
<1>3. AddToLogAuto \/ UNCHANGED <<log, log_write, added>>
  BY DEF Next, CoreAddToLog, LogPrinter, LogPrinterLaunch, LogPrinterHeader,
         LogPrinterRow, LogPrinterFinish, vars, ringVars
<1> QED
  BY <1>1, <1>2, <1>3

(* The ring always holds the last __JES_LOG_LEN entries, in order          *)
(* (__core_add_to_log_auto).                                               *)
THEOREM RingHoldsRecent == Spec => []LogIsRecent
BY TypeInvInit, TypeInvNext, RecentInit, RecentNext, PTL DEF Spec

-----------------------------------------------------------------------------
(* Printing.                                                               *)

(* A step of another task leaves an undisturbed logp and its ring alone.   *)
LEMMA OthersDisturb ==
    ASSUME TypeInv, NEW p \in Printers, [Next]_vars, ~LogPrinter(p)
    PROVE  /\ UNCHANGED <<pc[p], printed[p], launchedAt[p]>>
           /\ Undisturbed(p)' => Undisturbed(p) /\ UNCHANGED ringVars
<1>1. CASE CoreAddToLog
  <2>1. AddToLogAuto /\ UNCHANGED printerVars
    BY <1>1 DEF CoreAddToLog
  <2>2. UNCHANGED <<pc[p], printed[p], launchedAt[p]>>
    BY <2>1 DEF printerVars
  <2> QED
    BY <2>1, <2>2, AddDisturbs
<1>2. ASSUME NEW q \in Printers, LogPrinter(q)
      PROVE  /\ UNCHANGED <<pc[p], printed[p], launchedAt[p]>>
             /\ ~Undisturbed(p)'
  <2>1. q # p
    BY <1>2
  <2>2. UNCHANGED <<pc[p], printed[p], launchedAt[p]>>
    BY <1>2, <2>1 DEF LogPrinter, LogPrinterLaunch, LogPrinterHeader,
         LogPrinterRow, LogPrinterFinish, TypeInv, TypeOK
  <2>3. CASE AddToLogAuto
    BY <2>2, <2>3, AddDisturbs
  <2>4. CASE LogPrinterHeader(q) \/ LogPrinterRow(q)
    <3>1. pc'[q] # "idle"
      BY <2>4 DEF LogPrinterHeader, LogPrinterRow, TypeInv, TypeOK
    <3> QED
      BY <3>1, <2>1, <2>2 DEF Undisturbed
  <2> QED
    BY <1>2, <2>2, <2>3, <2>4 DEF LogPrinter, LogPrinterLaunch, LogPrinterFinish
<1>3. CASE UNCHANGED vars
  BY <1>3 DEF vars, ringVars, printerVars, Undisturbed
<1> QED
  BY <1>1, <1>2, <1>3 DEF Next

(* Reading goes on at the right slot.                                      *)
LEMMA ReadInPlaceNext ==
    TypeInv /\ ReadInPlace /\ [Next]_vars => ReadInPlace'
<1> SUFFICES ASSUME TypeInv, ReadInPlace, [Next]_vars,
                    NEW p \in Printers, pc'[p] # "idle", Undisturbed(p)'
             PROVE  log_read' = NextSlot(p)'
  BY DEF ReadInPlace
<1>0. /\ log_write \in Slots
      /\ printed[p] \in Seq(Nat) /\ Len(printed[p]) \in Nat
      /\ LogLen \in Nat /\ LogLen > 0
  BY CoreLogAssumption DEF TypeInv, TypeOK
<1>1. CASE LogPrinterLaunch(p)
  <2>1. pc'[p] = "header" /\ log_read' = log_write /\ log_write' = After(log_write)
    BY <1>1 DEF LogPrinterLaunch, AddToLogAuto, TypeInv, TypeOK
  <2>2. Slot(0)' = log_write
    BY <2>1, <1>0, SlotsAreNats, SMT DEF Slot, After
  <2> QED
    BY <2>1, <2>2 DEF NextSlot
<1>2. CASE LogPrinterHeader(p)
  <2>1. /\ pc[p] = "header" /\ pc'[p] = "rows"
        /\ log_read' = After(log_read)
        /\ log_write' = log_write /\ printed' = printed
    BY <1>2 DEF LogPrinterHeader, TypeInv, TypeOK
  <2>2. Undisturbed(p)
    BY <1>2 DEF LogPrinterHeader, Undisturbed, TypeInv, TypeOK
  <2>3. log_read = Slot(0)
    BY <2>1, <2>2 DEF ReadInPlace, NextSlot
  <2>4. After(Slot(0)) = Slot(LogLen - 1)
    BY <1>0, SlotProperties
  <2>5. Len(printed[p]) = 0
    BY <2>1, EmptySeq DEF TypeInv
  <2>6. NextSlot(p)' = Slot(LogLen - 1)'
    BY <2>1, <2>5, <1>0, SMT DEF NextSlot
  <2> QED
    BY <2>1, <2>3, <2>4, <2>6 DEF Slot
<1>3. CASE LogPrinterRow(p)
  <2>1. /\ pc[p] = "rows" /\ pc'[p] = "rows"
        /\ log_read' = After(log_read)
        /\ log_write' = log_write
        /\ printed'[p] = Append(printed[p], ReadFromLogNext)
        /\ Len(printed[p]) < LogLen
    BY <1>3 DEF LogPrinterRow, TypeInv, TypeOK
  <2>2. Undisturbed(p)
    BY <1>3 DEF LogPrinterRow, Undisturbed, TypeInv, TypeOK
  <2>n. PICK n \in Nat : n = Len(printed[p])
    BY <1>0
  <2>3. log_read = Slot(LogLen - 1 - n)
    BY <2>1, <2>2, <2>n DEF ReadInPlace, NextSlot
  <2>4. ReadFromLogNext \in Nat
    BY DEF ReadFromLogNext, TypeInv, TypeOK
  <2>5. Len(printed'[p]) = n + 1
    BY <2>1, <2>4, <2>n, <1>0, SMT
  <2>6. CASE n = LogLen - 1
    <3>1. log_read = Slot(0)
      BY <2>3, <2>6, <1>0, SMT
    <3>2. After(Slot(0)) = Slot(LogLen - 1)
      BY <1>0, SlotProperties
    <3>3. NextSlot(p)' = Slot(LogLen - 1)'
      BY <2>1, <2>5, <2>6, <1>0, SMT DEF NextSlot
    <3> QED
      BY <3>1, <3>2, <3>3, <2>1 DEF Slot
  <2>7. CASE n # LogLen - 1
    <3>0. n < LogLen
      BY <2>1, <2>n
    <3>1. LogLen - 1 - n \in Slots /\ LogLen - 1 - n > 0
      BY <3>0, <2>7, <1>0, SMT DEF Slots
    <3>2. After(Slot(LogLen - 1 - n)) = Slot(LogLen - 1 - n - 1)
      BY <3>1, <1>0, SlotProperties
    <3>3. n + 1 < LogLen /\ LogLen - 1 - n - 1 = LogLen - 1 - (n + 1)
      BY <3>0, <2>7, <1>0, SMT
    <3>4. NextSlot(p)' = Slot(LogLen - 1 - (n + 1))'
      BY <2>1, <2>5, <3>3, <2>n DEF NextSlot
    <3>5. Slot(LogLen - 1 - (n + 1))' = Slot(LogLen - 1 - (n + 1))
      BY <2>1, <2>5, <3>3 DEF Slot
    <3> QED
      BY <2>1, <2>3, <3>2, <3>3, <3>4, <3>5
  <2> QED
    BY <2>6, <2>7
<1>4. CASE LogPrinterFinish(p)
  BY <1>4 DEF LogPrinterFinish, TypeInv, TypeOK
<1>5. CASE ~LogPrinter(p)
  <2>1. /\ UNCHANGED <<pc[p], printed[p], launchedAt[p]>>
        /\ Undisturbed(p) /\ UNCHANGED ringVars
    BY <1>5, OthersDisturb
  <2>2. log_read = NextSlot(p)
    BY <2>1 DEF ReadInPlace
  <2> QED
    BY <2>1, <2>2 DEF NextSlot, Slot, ringVars
<1> QED
  BY <1>1, <1>2, <1>3, <1>4, <1>5 DEF LogPrinter

(* What an undisturbed logp has printed stays right, and the next row is   *)
(* the entry it should be.                                                 *)
LEMMA PrintsHistoryNext ==
    LogInv /\ [Next]_vars => PrintsHistory'
<1> SUFFICES ASSUME LogInv, [Next]_vars,
                    NEW p \in Printers, pc'[p] = "rows", Undisturbed(p)'
             PROVE  (/\ Len(printed[p]) <= LogLen
                     /\ \A i \in 1..Len(printed[p]) : printed[p][i] = Entry(LogLen - i))'
  BY DEF PrintsHistory
<1>b. TypeInv /\ TypeInv'
  BY TypeInvNext DEF LogInv
<1>0. /\ log_write \in Slots
      /\ printed[p] \in Seq(Nat) /\ Len(printed[p]) \in Nat
      /\ LogLen \in Nat /\ LogLen > 0
  BY <1>b, CoreLogAssumption DEF TypeInv, TypeOK
<1>a. (Len(printed[p]) <= LogLen)'
  BY <1>b DEF TypeInv
<1>1. CASE LogPrinterLaunch(p)
  BY <1>1, <1>b DEF LogPrinterLaunch, TypeInv, TypeOK
<1>2. CASE LogPrinterHeader(p)
  <2>1. printed'[p] = <<>>
    BY <1>2, <1>b DEF LogPrinterHeader, TypeInv
  <2>2. Len(printed'[p]) = 0
    BY <2>1, EmptySeq
  <2> QED
    BY <2>2, <1>a, SMT
<1>3. CASE LogPrinterRow(p)
  <2>1. /\ pc[p] = "rows"
        /\ added' = added
        /\ printed'[p] = Append(printed[p], ReadFromLogNext)
        /\ Len(printed[p]) < LogLen
    BY <1>3, <1>b DEF LogPrinterRow, TypeInv, TypeOK
  <2>2. Undisturbed(p)
    BY <1>3, <1>b DEF LogPrinterRow, Undisturbed, TypeInv, TypeOK
  <2> DEFINE n == Len(printed[p])
  <2>3. log_read = Slot(LogLen - 1 - n)
    BY <2>1, <2>2 DEF ReadInPlace, NextSlot, LogInv
  <2>4. LogLen - 1 - n \in Slots /\ LogLen - (n + 1) = LogLen - 1 - n
    BY <2>1, <1>0, SMT DEF Slots
  <2>5. ReadFromLogNext = Entry(LogLen - (n + 1))
    BY <2>3, <2>4 DEF ReadFromLogNext, LogInv, LogIsRecent
  <2>6. ReadFromLogNext \in Nat
    BY <1>b DEF ReadFromLogNext, TypeInv, TypeOK
  <2>7. Len(printed'[p]) = n + 1
    BY <2>1, <2>6, <1>0, SMT
  <2>8. ASSUME NEW i \in 1..(n + 1)
        PROVE  printed'[p][i] = Entry(LogLen - i)'
    <3>1. Entry(LogLen - i)' = Entry(LogLen - i)
      BY <2>1 DEF Entry
    <3>2. CASE i = n + 1
      <4>1. printed'[p][n + 1] = ReadFromLogNext
        BY <2>1, <2>6, <1>0, SMT
      <4> QED
        BY <4>1, <2>5, <3>1, <3>2
    <3>3. CASE i # n + 1
      <4>1. i \in 1..n
        BY <3>3, <1>0, SMT
      <4>2. printed'[p][i] = printed[p][i]
        BY <4>1, <2>1, <2>6, <1>0, SMT
      <4>3. printed[p][i] = Entry(LogLen - i)
        BY <4>1, <2>1, <2>2 DEF LogInv, PrintsHistory
      <4> QED
        BY <4>2, <4>3, <3>1
    <3> QED
      BY <3>2, <3>3
  <2> QED
    BY <1>a, <2>7, <2>8
<1>4. CASE LogPrinterFinish(p)
  BY <1>4, <1>b DEF LogPrinterFinish, TypeInv, TypeOK
<1>5. CASE ~LogPrinter(p)
  <2>1. /\ UNCHANGED <<pc[p], printed[p], launchedAt[p]>>
        /\ Undisturbed(p) /\ UNCHANGED ringVars
    BY <1>5, <1>b, OthersDisturb
  <2> QED
    BY <2>1, <1>a DEF LogInv, PrintsHistory, Entry, ringVars
<1> QED
  BY <1>1, <1>2, <1>3, <1>4, <1>5 DEF LogPrinter

LEMMA LogInvInit == Init => LogInv
<1> SUFFICES ASSUME Init PROVE LogInv
  OBVIOUS
<1>1. \A p \in Printers : pc[p] = "idle"
  BY DEF Init
<1> QED
  BY <1>1, TypeInvInit, RecentInit DEF LogInv, ReadInPlace, PrintsHistory

LEMMA LogInvNext == LogInv /\ [Next]_vars => LogInv'
BY TypeInvNext, RecentNext, ReadInPlaceNext, PrintsHistoryNext DEF LogInv

(* A logp that nobody disturbs prints the last __JES_LOG_LEN entries, each *)
(* once and the oldest first (__core_log_printer).                         *)
THEOREM UndisturbedPrintComplete == Spec => []PrintsHistory
<1>1. LogInv => PrintsHistory
  BY DEF LogInv
<1> QED
  BY <1>1, LogInvInit, LogInvNext, PTL DEF Spec

=============================================================================
