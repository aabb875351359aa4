------------------------- MODULE CommandLineProofs ---------------------------
(***************************************************************************)
(* Proofs about CommandLine: what is typed and what is given to the API    *)
(* reaches the job it is meant for, word by word, for all strings and all  *)
(* lengths of the buffers.                                                 *)
(***************************************************************************)
EXTENDS CommandLine, SequenceTheorems, WellFoundedInduction, TLAPS

Chars == Letters \cup {Space}

-----------------------------------------------------------------------------
(* Smallest and greatest positions.                                        *)

LEMMA LeastPosition ==
    ASSUME NEW S, S \subseteq Nat, S # {}
    PROVE  /\ Min(S) \in S
           /\ \A k \in S : Min(S) <= k
<1> DEFINE Below == {p \in Nat \X Nat : p[1] < p[2]}
<1>1. IsWellFoundedOn(Below, Nat)
  BY NatLessThanWellFounded DEF OpToRel
<1>2. \A k, m \in Nat : k < m => <<k, m>> \in Below
  OBVIOUS
<1> HIDE DEF Below
<1>3. PICK m \in S : \A k \in S : ~(<<k, m>> \in Below)
  BY <1>1, WFMin
<1>4. \A k \in S : k \in Nat /\ m \in Nat /\ ~(k < m)
  BY <1>2, <1>3
<1>5. \A k \in S : m <= k
  BY <1>4
<1> QED
  BY <1>5 DEF Min

LEMMA GreatestPosition ==
    ASSUME NEW n \in Nat, NEW S, S \subseteq 1..n, S # {}
    PROVE  /\ Max(S) \in S
           /\ \A k \in S : k <= Max(S)
<1> DEFINE T == {n - k : k \in S}
<1>1. T \subseteq Nat /\ T # {}
  <2>1. \A k \in S : k \in 1..n /\ n - k \in Nat
    OBVIOUS
  <2> QED
    BY <2>1
<1>2. Min(T) \in T /\ \A k \in T : Min(T) <= k
  BY ONLY <1>1, LeastPosition
<1>3. PICK m \in S : Min(T) = n - m
  BY <1>2
<1>4. \A k \in S : n - m <= n - k
  BY <1>2, <1>3
<1>5. \A k \in S : k <= m
  BY <1>4
<1> QED
  BY <1>5 DEF Max

(* A position that is the smallest is the smallest one.                    *)
LEMMA LeastIs ==
    ASSUME NEW S, S \subseteq Nat, NEW m \in S, \A k \in S : m <= k
    PROVE  Min(S) = m
<1>1. Min(S) \in S /\ Min(S) <= m
  BY LeastPosition
<1>2. Min(S) \in Nat /\ m \in Nat /\ m <= Min(S)
  BY <1>1
<1> QED
  BY <1>1, <1>2

LEMMA GreatestIs ==
    ASSUME NEW n \in Nat, NEW S, S \subseteq 1..n, NEW m \in S, \A k \in S : k <= m
    PROVE  Max(S) = m
<1>1. Max(S) \in S /\ m <= Max(S)
  BY GreatestPosition
<1>2. Max(S) <= m
  BY <1>1
<1>3. Max(S) \in 1..n /\ m \in 1..n
  BY <1>1
<1> QED
  BY <1>1, <1>2, <1>3

-----------------------------------------------------------------------------
(* Words.                                                                  *)

LEMMA BufferSeq ==
    ASSUME NEW C, NEW n \in Nat, NEW buf \in [1..n -> C]
    PROVE  buf \in Seq(C) /\ Len(buf) = n /\ DOMAIN buf = 1..n
<1>1. buf \in Seq(C)
  BY SeqDef
<1>2. buf \in [1..Len(buf) -> C] /\ Len(buf) \in Nat
  BY <1>1, LenProperties
<1>3. 1..n = 1..Len(buf)
  BY <1>2
<1> QED
  BY <1>1, <1>2, <1>3

(* Two strings that agree somewhere agree on the part there.               *)
LEMMA SubSeqAgree ==
    ASSUME NEW C, NEW s, NEW t, NEW a \in Int, NEW b \in Int,
           \A i \in a..b : s[i] = t[i] /\ s[i] \in C
    PROVE  SubSeq(s, a, b) = SubSeq(t, a, b)
<1>1. /\ SubSeq(s, a, b) \in Seq(C) /\ SubSeq(t, a, b) \in Seq(C)
      /\ Len(SubSeq(s, a, b)) = Len(SubSeq(t, a, b))
      /\ Len(SubSeq(s, a, b)) = IF a <= b THEN b - a + 1 ELSE 0
      /\ \A i \in 1..(b - a + 1) : SubSeq(s, a, b)[i] = s[a + i - 1]
                                   /\ SubSeq(t, a, b)[i] = t[a + i - 1]
  BY SubSeqProperties
<1>2. \A i \in 1..Len(SubSeq(s, a, b)) : SubSeq(s, a, b)[i] = SubSeq(t, a, b)[i]
  BY <1>1
<1> QED
  BY ONLY <1>1, <1>2, SeqEqual

LEMMA StartProperties ==
    ASSUME NEW s \in Seq(Chars)
    PROVE  /\ Starts(s) \subseteq 1..Len(s)
           /\ \A i \in Starts(s) : s[i] # Space /\ s[i] \in Letters
<1>1. DOMAIN s = 1..Len(s) /\ \A i \in 1..Len(s) : s[i] \in Chars
  BY LenProperties, ElementOfSeq
<1> QED
  BY <1>1 DEF Starts, Chars

LEMMA StopProperties ==
    ASSUME NEW s \in Seq(Chars), NEW i \in 1..Len(s)
    PROVE  /\ Stop(s, i) \in i..(Len(s) + 1)
           /\ Stop(s, i) <= Len(s) => s[Stop(s, i)] = Space
           /\ \A k \in i..(Stop(s, i) - 1) : k \in 1..Len(s) /\ s[k] # Space
           /\ s[i] # Space => Stop(s, i) > i
<1> DEFINE S == {k \in i..(Len(s) + 1) : k \notin DOMAIN s \/ s[k] = Space}
<1>1. Len(s) \in Nat /\ DOMAIN s = 1..Len(s)
  BY LenProperties
<1>2. S \subseteq Nat /\ Len(s) + 1 \in S
  BY <1>1
<1> HIDE DEF S
<1>3. Min(S) \in S /\ \A k \in S : Min(S) <= k
  BY ONLY <1>2, LeastPosition
<1>4. Stop(s, i) = Min(S)
  BY DEF Stop, S
<1>5. \A k \in i..(Min(S) - 1) : k \notin S
  BY <1>1, <1>2, <1>3 DEF S
<1>6. /\ Min(S) \in i..(Len(s) + 1)
      /\ Min(S) <= Len(s) => s[Min(S)] = Space
  BY <1>1, <1>3 DEF S
<1>7. \A k \in i..(Min(S) - 1) : k \in 1..Len(s) /\ s[k] # Space
  BY <1>1, <1>5, <1>6 DEF S
<1>8. s[i] # Space => Min(S) # i
  BY <1>1, <1>3 DEF S
<1> QED
  BY <1>1, <1>4, <1>6, <1>7, <1>8

(* The blank after a word, and only it, makes it stop.                     *)
LEMMA StopIs ==
    ASSUME NEW s \in Seq(Chars), NEW i \in 1..Len(s), NEW e \in i..(Len(s) + 1),
           e <= Len(s) => s[e] = Space,
           \A k \in i..(e - 1) : s[k] # Space
    PROVE  Stop(s, i) = e
<1>1. Len(s) \in Nat
  BY LenProperties
<1>2. /\ Stop(s, i) \in i..(Len(s) + 1)
      /\ Stop(s, i) <= Len(s) => s[Stop(s, i)] = Space
      /\ \A k \in i..(Stop(s, i) - 1) : k \in 1..Len(s) /\ s[k] # Space
  BY StopProperties
<1>3. ~(Stop(s, i) < e)
  BY <1>1, <1>2
<1>4. ~(e < Stop(s, i))
  BY <1>1, <1>2
<1> QED
  BY <1>1, <1>2, <1>3, <1>4

(* Before a letter that is not in a word begun earlier a word starts.      *)
LEMMA StartBefore ==
    ASSUME NEW s \in Seq(Chars), NEW n \in 1..(Len(s) + 1), n > 1 => s[n - 1] = Space,
           NEW m \in n..Len(s), s[m] # Space
    PROVE  \E f \in Starts(s) : /\ n <= f /\ f <= m
                                /\ \A i \in n..(f - 1) : s[i] = Space
<1> DEFINE S == {i \in n..Len(s) : s[i] # Space}
<1>1. Len(s) \in Nat /\ DOMAIN s = 1..Len(s)
  BY LenProperties
<1>2. S \subseteq Nat /\ m \in S
  BY <1>1
<1> HIDE DEF S
<1>3. PICK f \in S : \A i \in S : f <= i
  BY ONLY <1>2, LeastPosition
<1>4. f \in n..Len(s) /\ s[f] # Space /\ f <= m
  BY <1>2, <1>3 DEF S
<1>5. \A i \in n..(f - 1) : s[i] = Space
  <2> SUFFICES ASSUME NEW i \in n..(f - 1), s[i] # Space
               PROVE  FALSE
    OBVIOUS
  <2>1. i \in S
    BY <1>1, <1>4 DEF S
  <2> QED
    BY <1>1, <1>3, <1>4, <2>1
<1>6. f > 1 => s[f - 1] = Space
  <2>1. CASE f = n
    BY <2>1
  <2>2. CASE f > n
    BY <1>1, <1>4, <1>5, <2>2
  <2> QED
    BY <1>1, <1>4, <2>1, <2>2
<1>7. f \in Starts(s)
  BY <1>1, <1>4, <1>6 DEF Starts
<1> QED
  BY <1>1, <1>4, <1>5, <1>7

(* Between the start of a word and its end no other word starts.           *)
LEMMA NoStartWithin ==
    ASSUME NEW s \in Seq(Chars), NEW f \in Starts(s), NEW i \in Starts(s), f < i
    PROVE  Stop(s, f) < i
<1>1. Len(s) \in Nat /\ f \in 1..Len(s) /\ i \in 1..Len(s) /\ s[i] # Space /\ s[i - 1] = Space
  BY StartProperties, LenProperties DEF Starts
<1>2. /\ Stop(s, f) \in f..(Len(s) + 1)
      /\ Stop(s, f) <= Len(s) => s[Stop(s, f)] = Space
      /\ \A k \in f..(Stop(s, f) - 1) : s[k] # Space
  BY <1>1, StopProperties
<1>3. i - 1 \notin f..(Stop(s, f) - 1)
  BY <1>1, <1>2
<1>4. Stop(s, f) # i
  BY <1>1, <1>2
<1> QED
  BY <1>1, <1>2, <1>3, <1>4

-----------------------------------------------------------------------------
(* strtok.                                                                 *)

(* From position n on the buffer holds what is left of the string.         *)
Rests(buf, s, n) ==
    /\ n \in 1..(Len(s) + 1)
    /\ n > 1 => s[n - 1] = Space
    /\ \A i \in n..Len(s) : buf[i] = s[i]
    /\ buf[Len(s) + 1] = NUL

From(s, n) == {i \in Starts(s) : i >= n}

LEMMA TokenSkips ==
    ASSUME NEW s \in Seq(Chars), NEW size \in Nat, NEW buf \in [1..size -> Characters],
           Len(s) < size, NEW n, Rests(buf, s, n), NUL \notin Chars,
           NEW f \in n..(Len(s) + 1),
           \A i \in n..(f - 1) : s[i] = Space,
           f <= Len(s) => s[f] # Space
    PROVE  SkipBlanks(buf, n) = f
<1> DEFINE S == {i \in DOMAIN buf : i >= n /\ buf[i] # Space}
<1>1. Len(s) \in Nat /\ n \in 1..(Len(s) + 1) /\ DOMAIN buf = 1..size
  BY LenProperties DEF Rests
<1>2. \A i \in n..(f - 1) : buf[i] = Space
  BY <1>1 DEF Rests
<1>3. buf[f] # Space
  <2>1. CASE f <= Len(s)
    BY <1>1, <2>1 DEF Rests
  <2>2. CASE f = Len(s) + 1
    BY <2>2 DEF Rests, Chars
  <2> QED
    BY <1>1, <2>1, <2>2
<1>4. f \in S /\ S \subseteq Nat
  BY <1>1, <1>3
<1>5. \A i \in S : f <= i
  BY <1>1, <1>2
<1> HIDE DEF S
<1>6. Min(S) = f
  BY <1>4, <1>5, LeastIs
<1> QED
  BY <1>6 DEF SkipBlanks, S

LEMMA TokenEnds ==
    ASSUME NEW s \in Seq(Chars), NEW size \in Nat, NEW buf \in [1..size -> Characters],
           Len(s) < size, NEW n, Rests(buf, s, n), NUL \notin Chars,
           NEW f \in n..Len(s)
    PROVE  /\ WordEnd(buf, f) = Stop(s, f)
           /\ SubSeq(buf, f, Stop(s, f) - 1) = WordAt(s, f)
<1> DEFINE S == {i \in DOMAIN buf : i >= f /\ buf[i] \in {Space, NUL}}
           e == Stop(s, f)
<1>1. /\ Len(s) \in Nat /\ n \in 1..(Len(s) + 1) /\ DOMAIN buf = 1..size /\ f \in 1..Len(s)
      /\ \A k \in 1..Len(s) : s[k] \in Chars
  BY LenProperties, ElementOfSeq DEF Rests
<1>2. /\ e \in f..(Len(s) + 1)
      /\ e <= Len(s) => s[e] = Space
      /\ \A k \in f..(e - 1) : k \in 1..Len(s) /\ s[k] # Space
  BY <1>1, StopProperties
<1> HIDE DEF e
<1>3. \A k \in f..(e - 1) : buf[k] = s[k] /\ s[k] \in Chars /\ s[k] # Space
  BY <1>1, <1>2 DEF Rests
<1>4. buf[e] \in {Space, NUL}
  BY <1>1, <1>2 DEF Rests
<1>5. e \in S /\ S \subseteq Nat
  BY <1>1, <1>2, <1>4
<1>6. \A i \in S : e <= i
  <2> SUFFICES ASSUME NEW i \in S, i < e PROVE FALSE
    BY <1>1, <1>2
  <2>1. i \in f..(e - 1) /\ buf[i] \in {Space, NUL}
    BY <1>1, <1>2
  <2> QED
    BY <1>3, <2>1
<1> HIDE DEF S
<1>7. Min(S) = e
  BY <1>5, <1>6, LeastIs
<1>8. SubSeq(buf, f, e - 1) = SubSeq(s, f, e - 1)
  <2>1. f \in Int /\ e - 1 \in Int
    BY <1>1, <1>2
  <2> QED
    BY ONLY <1>3, <2>1, SubSeqAgree
<1> QED
  BY <1>7, <1>8 DEF WordEnd, WordAt, S, e

(* The next word is the one that starts next; if none does, none is found. *)
LEMMA TokenIsNext ==
    ASSUME NEW s \in Seq(Chars), NEW size \in Nat, NEW buf \in [1..size -> Characters],
           Len(s) < size, NEW n, Rests(buf, s, n), NUL \notin Chars
    PROVE  /\ From(s, n) = {} => Token(buf, n) = NoToken
           /\ From(s, n) # {} =>
                \E f \in From(s, n) :
                    /\ \A i \in From(s, n) : f <= i
                    /\ Token(buf, n) =
                         [found |-> TRUE, word |-> WordAt(s, f), end |-> Stop(s, f)]
<1>1. Len(s) \in Nat /\ n \in 1..(Len(s) + 1) /\ (n > 1 => s[n - 1] = Space)
  BY LenProperties DEF Rests
<1>2. Starts(s) \subseteq 1..Len(s) /\ \A i \in Starts(s) : s[i] # Space
  BY StartProperties
<1>3. CASE From(s, n) = {}
  <2>1. \A i \in n..Len(s) : s[i] = Space
    BY <1>1, <1>2, <1>3, StartBefore DEF From
  <2>2. SkipBlanks(buf, n) = Len(s) + 1
    BY <1>1, <2>1, TokenSkips
  <2>3. buf[Len(s) + 1] = NUL
    BY DEF Rests
  <2> QED
    BY <1>3, <2>2, <2>3 DEF Token
<1>4. CASE From(s, n) # {}
  <2>1. PICK i \in Starts(s) : i >= n
    BY <1>4 DEF From
  <2>2. i \in n..Len(s) /\ s[i] # Space
    BY <1>1, <1>2, <2>1
  <2>3. From(s, n) \subseteq Nat
    BY <1>2 DEF From
  <2>4. PICK f \in From(s, n) : \A k \in From(s, n) : f <= k
    BY ONLY <1>4, <2>3, LeastPosition
  <2>5. f \in Starts(s) /\ f \in n..Len(s) /\ s[f] # Space
    BY <1>1, <1>2, <2>4 DEF From
  <2>6. PICK g \in Starts(s) : n <= g /\ g <= f /\ \A k \in n..(g - 1) : s[k] = Space
    BY <1>1, <2>5, StartBefore
  <2>7. g = f
    BY <1>1, <1>2, <2>4, <2>5, <2>6 DEF From
  <2>8. SkipBlanks(buf, n) = f
    BY <1>1, <2>5, <2>6, <2>7, TokenSkips
  <2>9. WordEnd(buf, f) = Stop(s, f) /\ SubSeq(buf, f, Stop(s, f) - 1) = WordAt(s, f)
    BY <2>5, TokenEnds
  <2>10. buf[f] # NUL
    <3>1. buf[f] = s[f] /\ s[f] \in Chars
      BY <1>1, <2>5, ElementOfSeq DEF Rests
    <3> QED
      BY <3>1
  <2>11. Token(buf, n) = [found |-> TRUE, word |-> WordAt(s, f), end |-> Stop(s, f)]
    BY <2>8, <2>9, <2>10 DEF Token
  <2> QED
    BY <1>4, <2>4, <2>11
<1> QED
  BY <1>3, <1>4

(* ws are the words of s that start before position n.                     *)
ArePartOf(ws, s, n) ==
    \E where \in [DOMAIN ws -> Starts(s)] :
        /\ Range(where) = {i \in Starts(s) : i < n}
        /\ \A k, m \in DOMAIN ws : k < m => where[k] < where[m]
        /\ \A k \in DOMAIN ws : ws[k] = WordAt(s, where[k])

LEMMA NoPart ==
    ASSUME NEW s \in Seq(Chars)
    PROVE  ArePartOf(<<>>, s, 1)
<1>1. Starts(s) \subseteq 1..Len(s)
  BY StartProperties
<1>2. {i \in Starts(s) : i < 1} = {}
  BY <1>1, LenProperties
<1> DEFINE where == [k \in DOMAIN <<>> |-> 1]
<1>3. DOMAIN <<>> = {}
  OBVIOUS
<1>4. where \in [DOMAIN <<>> -> Starts(s)] /\ Range(where) = {}
  BY <1>3 DEF Range
<1> HIDE DEF where
<1> QED
  BY <1>2, <1>3, <1>4 DEF ArePartOf

LEMMA WholeIsPart ==
    ASSUME NEW s \in Seq(Chars), NEW ws, NEW n \in Nat, ArePartOf(ws, s, n),
           \A i \in Starts(s) : i < n
    PROVE  AreWordsOf(ws, s)
BY DEF ArePartOf, AreWordsOf

LEMMA PartGrows ==
    ASSUME NEW s \in Seq(Chars), NEW W, NEW ws \in Seq(W), NEW n \in Nat, NEW m \in Nat,
           ArePartOf(ws, s, n), NEW f \in Starts(s), n <= f, WordAt(s, f) \in W,
           {i \in Starts(s) : i < m} = {i \in Starts(s) : i < n} \cup {f}
    PROVE  ArePartOf(Append(ws, WordAt(s, f)), s, m)
<1> DEFINE long == Append(ws, WordAt(s, f))
<1>1. /\ Len(ws) \in Nat /\ DOMAIN ws = 1..Len(ws)
      /\ DOMAIN long = 1..(Len(ws) + 1)
      /\ \A k \in 1..Len(ws) : long[k] = ws[k]
      /\ long[Len(ws) + 1] = WordAt(s, f)
  BY AppendProperties, LenProperties
<1>2. PICK where \in [DOMAIN ws -> Starts(s)] :
        /\ Range(where) = {i \in Starts(s) : i < n}
        /\ \A k, l \in DOMAIN ws : k < l => where[k] < where[l]
        /\ \A k \in DOMAIN ws : ws[k] = WordAt(s, where[k])
  BY DEF ArePartOf
<1> HIDE DEF long
<1>3. \A i \in Starts(s) : i \in Nat
  BY StartProperties
<1>4. \A k \in DOMAIN ws : where[k] \in Starts(s) /\ where[k] < n
  BY <1>2 DEF Range
<1> DEFINE there == [k \in DOMAIN long |-> IF k \in DOMAIN ws THEN where[k] ELSE f]
<1>5. there \in [DOMAIN long -> Starts(s)]
  BY <1>2
<1>6. /\ \A k \in DOMAIN ws : there[k] = where[k]
      /\ there[Len(ws) + 1] = f
      /\ Len(ws) + 1 \in DOMAIN long
      /\ \A k \in DOMAIN long : k \in DOMAIN ws \/ k = Len(ws) + 1
      /\ \A k \in DOMAIN ws : k \in DOMAIN long
      /\ DOMAIN there = DOMAIN long
  BY <1>1
<1> HIDE DEF there
<1>7. Range(there) = {i \in Starts(s) : i < m}
  <2>1. Range(there) = Range(where) \cup {f}
    BY <1>2, <1>6 DEF Range
  <2> QED
    BY <1>2, <2>1
<1>8. \A k, l \in DOMAIN long : k < l => there[k] < there[l]
  <2> SUFFICES ASSUME NEW k \in DOMAIN long, NEW l \in DOMAIN long, k < l
               PROVE  there[k] < there[l]
    OBVIOUS
  <2>1. k \in DOMAIN ws
    BY <1>1
  <2>2. CASE l \in DOMAIN ws
    BY <1>2, <1>6, <2>1, <2>2
  <2>3. CASE l = Len(ws) + 1
    BY <1>3, <1>4, <1>6, <2>1, <2>3
  <2> QED
    BY <1>6, <2>2, <2>3
<1>9. \A k \in DOMAIN long : long[k] = WordAt(s, there[k])
  BY <1>1, <1>2, <1>6
<1> QED
  BY <1>5, <1>7, <1>8, <1>9 DEF ArePartOf, long

(* One word further.                                                       *)
LEMMA NextStart ==
    ASSUME NEW s \in Seq(Chars), NEW n \in Nat, NEW f \in From(s, n),
           \A i \in From(s, n) : f <= i
    PROVE  {i \in Starts(s) : i < Stop(s, f) + 1} = {i \in Starts(s) : i < n} \cup {f}
<1>1. Len(s) \in Nat /\ Starts(s) \subseteq 1..Len(s) /\ f \in Starts(s) /\ n <= f
  BY LenProperties, StartProperties DEF From
<1>2. Stop(s, f) \in f..(Len(s) + 1)
  BY <1>1, StopProperties
<1>3. \A i \in Starts(s) : f < i => Stop(s, f) < i
  BY <1>1, NoStartWithin
<1>4. \A i \in Starts(s) : i >= n => f <= i
  BY DEF From
<1>5. \A i \in Starts(s) : i < Stop(s, f) + 1 <=> (i < n \/ i = f)
  BY <1>1, <1>2, <1>3, <1>4
<1> QED
  BY <1>1, <1>5

(* The buffer of the arguments holds a string.                             *)
Holds(buf, s) ==
    /\ Len(s) < ArgsLen
    /\ \A i \in 1..Len(s) : buf[i] = s[i]
    /\ buf[Len(s) + 1] = NUL

Field == [1..ArgsLen -> Characters]

FirstStop(s) == Stop(s, Min(Starts(s)))

LEMMA Constants ==
    /\ ArgsLen \in Nat \ {0} /\ StrLen \in Nat \ {0}
    /\ NUL \notin Chars /\ CR \notin Chars /\ Space \in Chars
    /\ Chars \subseteq Characters /\ NUL \in Characters /\ CR \in Characters
    /\ \A j \in Jobs : j \in Seq(Letters) /\ j # <<>>
    /\ Letters \subseteq Chars /\ Space \notin Letters
BY CommandLineAssumption DEF Chars, Characters, Space, CR, NUL

LEMMA FirstStart ==
    ASSUME NEW s \in Seq(Chars), Starts(s) # {}
    PROVE  /\ Min(Starts(s)) \in Starts(s) /\ Min(Starts(s)) \in 1..Len(s)
           /\ \A i \in Starts(s) : Min(Starts(s)) <= i
           /\ FirstStop(s) \in (Min(Starts(s)) + 1)..(Len(s) + 1)
           /\ FirstStop(s) <= Len(s) => s[FirstStop(s)] = Space
<1>1. Starts(s) \subseteq Nat /\ Starts(s) \subseteq 1..Len(s) /\ Len(s) \in Nat
  BY StartProperties, LenProperties
<1>2. Min(Starts(s)) \in Starts(s) /\ \A i \in Starts(s) : Min(Starts(s)) <= i
  BY <1>1, LeastPosition
<1>3. Min(Starts(s)) \in 1..Len(s) /\ s[Min(Starts(s))] # Space
  BY <1>1, <1>2, StartProperties
<1>4. /\ FirstStop(s) \in Min(Starts(s))..(Len(s) + 1)
      /\ FirstStop(s) > Min(Starts(s))
      /\ FirstStop(s) <= Len(s) => s[FirstStop(s)] = Space
  BY <1>3, StopProperties DEF FirstStop
<1> QED
  BY <1>1, <1>2, <1>3, <1>4

LEMMA KeptProperties ==
    ASSUME NEW s \in Seq(Chars)
    PROVE  /\ Kept(s) \in Seq(Chars) /\ Len(Kept(s)) <= Len(s) /\ Len(Kept(s)) \in Nat
           /\ \A i \in 1..Len(Kept(s)) : Kept(s)[i] = s[i]
           /\ Starts(s) = {} => Kept(s) = s
           /\ Starts(s) # {} => Len(Kept(s)) = FirstStop(s) - 1
<1>1. Len(s) \in Nat /\ \A i \in 1..Len(s) : s[i] \in Chars
  BY LenProperties, ElementOfSeq
<1>2. CASE Starts(s) = {}
  BY <1>1, <1>2 DEF Kept
<1>3. CASE Starts(s) # {}
  <2> DEFINE e == FirstStop(s)
  <2>1. e \in 2..(Len(s) + 1)
    BY <1>1, <1>3, FirstStart
  <2>2. Kept(s) = SubSeq(s, 1, e - 1)
    BY <1>3 DEF Kept, FirstStop
  <2> HIDE DEF e
  <2>3. \A i \in 1..(e - 1) : s[i] \in Chars
    BY <1>1, <2>1
  <2>4. /\ SubSeq(s, 1, e - 1) \in Seq(Chars)
        /\ Len(SubSeq(s, 1, e - 1)) = e - 1
        /\ \A i \in 1..(e - 1) : SubSeq(s, 1, e - 1)[i] = s[i]
    BY <1>1, <2>1, <2>3, SubSeqProperties
  <2> QED
    BY <1>1, <1>3, <2>1, <2>2, <2>4 DEF e
<1> QED
  BY <1>2, <1>3

LEMMA HeldRests ==
    ASSUME NEW s \in Seq(Chars), NEW buf, Holds(buf, s)
    PROVE  Rests(buf, s, 1)
BY LenProperties DEF Holds, Rests

(* A word is taken from a field: what was read then, and what is left.     *)
Taken(s, buf, tok, cut, more) ==
    /\ more \in Seq(Seq(Characters)) /\ cut \in Field /\ tok.end \in 1..ArgsLen
    /\ buf[ArgsLen] = NUL => cut[ArgsLen] = NUL
    /\ Starts(s) # {} /\ Holds(cut, Kept(s))
    /\ buf[tok.end] = NUL => ArePartOf(more, s, Len(s) + 1)
    /\ buf[tok.end] # NUL =>
         /\ tok.end + 1 \in 1..ArgsLen /\ tok.end + 1 > FirstStop(s)
         /\ ArePartOf(more, s, tok.end + 1) /\ Rests(cut, s, tok.end + 1)

LEMMA TokenTaken ==
    ASSUME NEW s \in Seq(Chars), NEW buf \in Field, Len(s) < ArgsLen,
           NEW ws \in Seq(Seq(Characters)), NEW n, Rests(buf, s, n), ArePartOf(ws, s, n),
           n = 1 => Holds(buf, s),
           n # 1 => Starts(s) # {} /\ n > FirstStop(s) /\ Holds(buf, Kept(s)),
           NEW tok, tok = Token(buf, n), tok.found,
           NEW cut, cut = [buf EXCEPT ![tok.end] = NUL],
           NEW more, more = Append(ws, tok.word)
    PROVE  Taken(s, buf, tok, cut, more)
<1>1. /\ Len(s) \in Nat /\ ArgsLen \in Nat /\ NUL \notin Chars
      /\ buf \in [1..ArgsLen -> Characters]
      /\ n \in 1..(Len(s) + 1)
  BY Constants, LenProperties DEF Field, Rests
<1>2. From(s, n) # {}
  <2>1. From(s, n) = {} => Token(buf, n) = NoToken
    BY <1>1, TokenIsNext
  <2> QED
    BY <2>1 DEF NoToken
<1>3. PICK f \in From(s, n) :
        /\ \A i \in From(s, n) : f <= i
        /\ tok = [found |-> TRUE, word |-> WordAt(s, f), end |-> Stop(s, f)]
  BY <1>1, <1>2, TokenIsNext
<1>4. f \in Starts(s) /\ f \in 1..Len(s) /\ n <= f /\ s[f] # Space
  BY <1>1, <1>3, StartProperties DEF From
<1> DEFINE e == Stop(s, f)
<1>5. /\ e \in f..(Len(s) + 1) /\ e > f
      /\ e <= Len(s) => s[e] = Space
      /\ \A k \in f..(e - 1) : k \in 1..Len(s) /\ s[k] # Space
  BY <1>4, StopProperties
<1>6. tok.end = e /\ tok.word = WordAt(s, f)
  BY <1>3
<1>7. WordAt(s, f) \in Seq(Characters)
  <2>1. \A k \in f..(e - 1) : s[k] \in Characters
    BY <1>5, ElementOfSeq, Constants
  <2> QED
    BY <1>1, <1>4, <1>5, <2>1, SubSeqProperties DEF WordAt
<1>8. {i \in Starts(s) : i < e + 1} = {i \in Starts(s) : i < n} \cup {f}
  <2>1. n \in Nat /\ \A i \in From(s, n) : f <= i
    BY <1>1, <1>3
  <2> QED
    BY ONLY <2>1, s \in Seq(Chars), f \in From(s, n), NextStart
<1> HIDE DEF e
<1>9. ArePartOf(more, s, e + 1)
  <2>1. n \in Nat /\ e + 1 \in Nat
    BY <1>1, <1>4, <1>5
  <2>2. ArePartOf(Append(ws, WordAt(s, f)), s, e + 1)
    BY ONLY <1>4, <1>7, <1>8, <2>1, PartGrows, ArePartOf(ws, s, n),
       s \in Seq(Chars), ws \in Seq(Seq(Characters))
  <2> QED
    BY <1>6, <2>2
<1>10. more \in Seq(Seq(Characters)) /\ cut \in Field /\ e \in 1..ArgsLen
  <2>1. more \in Seq(Seq(Characters))
    BY <1>6, <1>7, AppendProperties
  <2>2. e \in 1..ArgsLen
    BY <1>1, <1>4, <1>5
  <2>3. cut \in Field
    BY <1>6, <2>2, Constants DEF Field
  <2> QED
    BY <2>1, <2>2, <2>3
<1>11. cut[e] = NUL /\ \A i \in 1..ArgsLen : i # e => cut[i] = buf[i]
  BY <1>1, <1>6, <1>10
<1>12. (e <= Len(s)) <=> (buf[e] # NUL)
  <2>1. CASE e <= Len(s)
    <3>1. buf[e] = s[e] /\ s[e] = Space
      BY <1>1, <1>4, <1>5, <2>1 DEF Rests
    <3> QED
      BY <2>1, <3>1 DEF Space, NUL
  <2>2. CASE e = Len(s) + 1
    BY <1>1, <2>2 DEF Rests
  <2> QED
    BY <1>1, <1>5, <2>1, <2>2
<1>14. Starts(s) # {} /\ FirstStop(s) <= e
  <2>1. Starts(s) # {}
    BY <1>4
  <2>2. CASE n = 1
    <3>1. f = Min(Starts(s))
      BY <1>3, <1>4, <2>1, <2>2, FirstStart, StartProperties, LenProperties DEF From
    <3> QED
      BY <1>5, <2>1, <3>1, FirstStart DEF FirstStop, e
  <2>3. CASE n # 1
    <3>1. n > FirstStop(s) /\ FirstStop(s) \in Int /\ n \in Int /\ n <= f /\ f < e
      BY <1>1, <1>4, <1>5, <2>1, <2>3, FirstStart
    <3> QED
      BY <1>1, <1>4, <1>5, <3>1
  <2> QED
    BY <2>1, <2>2, <2>3
<1>15. Holds(cut, Kept(s))
  <2>1. /\ Len(Kept(s)) = FirstStop(s) - 1 /\ Len(Kept(s)) <= Len(s)
        /\ Len(Kept(s)) \in Nat
        /\ \A i \in 1..Len(Kept(s)) : Kept(s)[i] = s[i]
    BY <1>14, KeptProperties
  <2>2. CASE n = 1
    <3>1. f = Min(Starts(s))
      BY <1>3, <1>4, <1>14, <2>2, FirstStart, StartProperties, LenProperties DEF From
    <3>2. FirstStop(s) = e
      BY <3>1 DEF FirstStop, e
    <3>3. \A i \in 1..Len(Kept(s)) : cut[i] = buf[i] /\ buf[i] = s[i]
      BY <1>1, <1>5, <1>11, <2>1, <2>2, <3>2 DEF Holds
    <3>4. Len(Kept(s)) < ArgsLen /\ Len(Kept(s)) + 1 = e
      BY <1>1, <1>10, <2>1, <3>2
    <3> QED
      BY <1>11, <3>3, <3>4, <2>1 DEF Holds
  <2>3. CASE n # 1
    <3>1. FirstStop(s) < e /\ FirstStop(s) \in 1..ArgsLen
      BY <1>1, <1>4, <1>5, <1>14, <2>3, FirstStart
    <3>2. \A i \in 1..(Len(Kept(s)) + 1) : cut[i] = buf[i]
      BY <1>1, <1>11, <2>1, <3>1
    <3>3. Holds(buf, Kept(s))
      BY <2>3
    <3>4. \A i \in 1..Len(Kept(s)) : i \in 1..(Len(Kept(s)) + 1)
      BY <2>1
    <3>5. Len(Kept(s)) + 1 \in 1..(Len(Kept(s)) + 1)
      BY <2>1
    <3> QED
      BY <3>2, <3>3, <3>4, <3>5 DEF Holds
  <2> QED
    BY <2>2, <2>3
<1>16. ASSUME buf[e] # NUL
       PROVE  e + 1 \in 1..ArgsLen /\ e + 1 > FirstStop(s) /\ Rests(cut, s, e + 1)
  <2>1. e <= Len(s) /\ s[e] = Space
    BY <1>5, <1>12, <1>16
  <2>2. \A i \in (e + 1)..(Len(s) + 1) : cut[i] = buf[i]
    BY <1>1, <1>4, <1>5, <1>11
  <2>3. \A i \in (e + 1)..Len(s) : cut[i] = s[i]
    <3>1. \A i \in (e + 1)..Len(s) : i \in n..Len(s) /\ i \in (e + 1)..(Len(s) + 1)
      BY <1>1, <1>4, <1>5
    <3> QED
      BY <2>2, <3>1 DEF Rests
  <2>4. cut[Len(s) + 1] = NUL
    BY <1>1, <1>5, <2>1, <2>2 DEF Rests
  <2>5. Rests(cut, s, e + 1)
    BY <1>1, <1>4, <1>5, <2>1, <2>3, <2>4 DEF Rests
  <2>6. e + 1 > FirstStop(s) /\ e + 1 \in 1..ArgsLen
    <3>1. FirstStop(s) \in Nat /\ FirstStop(s) <= e
      BY <1>1, <1>14, FirstStart
    <3>2. e \in Nat /\ e <= Len(s) /\ Len(s) < ArgsLen
      BY <1>1, <1>4, <1>5, <2>1
    <3> QED
      BY <1>1, <3>1, <3>2
  <2> QED
    BY <2>5, <2>6
<1>17. buf[ArgsLen] = NUL => cut[ArgsLen] = NUL
  BY <1>1, <1>10, <1>11, Constants
<1>18. buf[e] = NUL => ArePartOf(more, s, Len(s) + 1)
  <2> SUFFICES ASSUME buf[e] = NUL PROVE ArePartOf(more, s, Len(s) + 1)
    OBVIOUS
  <2>1. e = Len(s) + 1
    BY <1>1, <1>5, <1>12
  <2>2. {i \in Starts(s) : i < e + 1} = {i \in Starts(s) : i < e}
    BY <1>1, <2>1, StartProperties
  <2> QED
    BY <1>9, <2>1, <2>2 DEF ArePartOf
<1> QED
  BY <1>6, <1>9, <1>10, <1>14, <1>15, <1>16, <1>17, <1>18 DEF Taken

-----------------------------------------------------------------------------
(* Strings copied to buffers.                                              *)

LEMMA JoinProperties ==
    ASSUME NEW C, NEW s \in Seq(C), NEW t \in Seq(C), NEW u \in Seq(C)
    PROVE  /\ s \o t \o u \in [1..(Len(s) + Len(t) + Len(u)) -> C]
           /\ \A i \in 1..(Len(s) + Len(t) + Len(u)) :
                (s \o t \o u)[i] = IF i <= Len(s) THEN s[i]
                                   ELSE IF i <= Len(s) + Len(t) THEN t[i - Len(s)]
                                   ELSE u[i - Len(s) - Len(t)]
<1>1. Len(s) \in Nat /\ Len(t) \in Nat /\ Len(u) \in Nat
  BY LenProperties
<1>2. /\ s \o t \in Seq(C) /\ Len(s \o t) = Len(s) + Len(t)
      /\ \A i \in 1..(Len(s) + Len(t)) :
           (s \o t)[i] = IF i <= Len(s) THEN s[i] ELSE t[i - Len(s)]
  BY ConcatProperties
<1>3. /\ (s \o t) \o u \in Seq(C) /\ Len((s \o t) \o u) = Len(s \o t) + Len(u)
      /\ \A i \in 1..(Len(s \o t) + Len(u)) :
           ((s \o t) \o u)[i] = IF i <= Len(s \o t) THEN (s \o t)[i] ELSE u[i - Len(s \o t)]
  BY <1>2, ConcatProperties
<1>4. (s \o t) \o u \in [1..(Len(s) + Len(t) + Len(u)) -> C]
  BY <1>2, <1>3, LenProperties
<1>5. ASSUME NEW i \in 1..(Len(s) + Len(t) + Len(u))
      PROVE  ((s \o t) \o u)[i] = IF i <= Len(s) THEN s[i]
                                  ELSE IF i <= Len(s) + Len(t) THEN t[i - Len(s)]
                                  ELSE u[i - Len(s) - Len(t)]
  <2>1. ((s \o t) \o u)[i] =
          IF i <= Len(s) + Len(t) THEN (s \o t)[i] ELSE u[i - (Len(s) + Len(t))]
    BY <1>2, <1>3
  <2>2. i - (Len(s) + Len(t)) = i - Len(s) - Len(t)
    BY <1>1
  <2>3. i <= Len(s) => i <= Len(s) + Len(t)
    BY <1>1
  <2>4. i <= Len(s) + Len(t) =>
          (s \o t)[i] = IF i <= Len(s) THEN s[i] ELSE t[i - Len(s)]
    BY <1>1, <1>2
  <2> QED
    BY <2>1, <2>2, <2>3, <2>4
<1> QED
  BY <1>4, <1>5

LEMMA ZerosProperties ==
    ASSUME NEW n \in Nat
    PROVE  /\ Zeros(n) \in [1..n -> Characters]
           /\ \A i \in 1..n : Zeros(n)[i] = NUL
BY Constants DEF Zeros

LEMMA OverProperties ==
    ASSUME NEW n \in Nat, NEW buf \in [1..n -> Characters],
           NEW s \in Seq(Characters), Len(s) < n
    PROVE  /\ Over(buf, s) \in [1..n -> Characters]
           /\ \A i \in 1..Len(s) : Over(buf, s)[i] = s[i]
           /\ Over(buf, s)[Len(s) + 1] = NUL
           /\ \A i \in (Len(s) + 2)..n : Over(buf, s)[i] = buf[i]
<1> DEFINE rest == SubSeq(buf, Len(s) + 2, Len(buf))
<1>1. Len(s) \in Nat /\ Len(buf) = n
  BY LenProperties, BufferSeq
<1>2. /\ rest \in Seq(Characters) /\ Len(rest) = n - Len(s) - 1
      /\ \A i \in 1..(n - Len(s) - 1) : rest[i] = buf[Len(s) + 1 + i]
  <2>1. \A i \in (Len(s) + 2)..n : buf[i] \in Characters
    BY <1>1
  <2>2. /\ rest \in Seq(Characters)
        /\ Len(rest) = IF Len(s) + 2 <= n THEN n - (Len(s) + 2) + 1 ELSE 0
        /\ \A i \in 1..(n - (Len(s) + 2) + 1) : rest[i] = buf[(Len(s) + 2) + i - 1]
    BY <1>1, <2>1, SubSeqProperties
  <2>3. \A i \in Nat : (Len(s) + 2) + i - 1 = Len(s) + 1 + i
    BY <1>1
  <2> QED
    BY <1>1, <2>2, <2>3
<1>3. <<NUL>> \in Seq(Characters) /\ Len(<<NUL>>) = 1 /\ <<NUL>>[1] = NUL
  BY Constants
<1> HIDE DEF rest
<1>4. /\ s \o <<NUL>> \o rest \in [1..n -> Characters]
      /\ \A i \in 1..n :
           (s \o <<NUL>> \o rest)[i] = IF i <= Len(s) THEN s[i]
                                       ELSE IF i <= Len(s) + 1 THEN <<NUL>>[i - Len(s)]
                                       ELSE rest[i - Len(s) - 1]
  <2> DEFINE one == <<NUL>>
             whole == s \o one \o rest
             size == Len(s) + Len(one) + Len(rest)
  <2>1. size = n /\ Len(one) = 1
    BY <1>1, <1>2, <1>3
  <2>2. one \in Seq(Characters)
    BY <1>3
  <2> HIDE DEF one
  <2>3. /\ whole \in [1..size -> Characters]
        /\ \A i \in 1..size :
             whole[i] = IF i <= Len(s) THEN s[i]
                        ELSE IF i <= Len(s) + Len(one) THEN one[i - Len(s)]
                        ELSE rest[i - Len(s) - Len(one)]
    <3>1. s \in Seq(Characters) /\ rest \in Seq(Characters)
      BY <1>2
    <3> QED
      BY ONLY <2>2, <3>1, JoinProperties
  <2> QED
    BY <2>1, <2>3 DEF one
<1>5. Over(buf, s) = s \o <<NUL>> \o rest
  BY DEF Over, rest
<1>6. \A i \in 1..Len(s) : Over(buf, s)[i] = s[i]
  BY <1>1, <1>4, <1>5
<1>7. Over(buf, s)[Len(s) + 1] = NUL
  <2>1. Len(s) + 1 - Len(s) = 1 /\ Len(s) + 1 \in 1..n
    BY <1>1
  <2> QED
    BY <1>1, <1>3, <1>4, <1>5, <2>1
<1>8. ASSUME NEW i \in (Len(s) + 2)..n PROVE Over(buf, s)[i] = buf[i]
  <2>1. i - Len(s) - 1 \in 1..(n - Len(s) - 1) /\ Len(s) + 1 + (i - Len(s) - 1) = i
        /\ i \in 1..n /\ ~(i <= Len(s) + 1) /\ ~(i <= Len(s))
    BY <1>1
  <2> QED
    BY <1>2, <1>4, <1>5, <2>1
<1> QED
  BY <1>4, <1>5, <1>6, <1>7, <1>8

(* A string that fits is held after it was copied.                         *)
LEMMA CopyHolds ==
    ASSUME NEW buf \in Field, NEW s \in Seq(Chars), Len(s) < ArgsLen
    PROVE  /\ Over(buf, s) \in Field /\ Holds(Over(buf, s), s)
           /\ buf[ArgsLen] = NUL => Over(buf, s)[ArgsLen] = NUL
<1>1. /\ s \in Seq(Characters) /\ Len(s) \in Nat /\ ArgsLen \in Nat
      /\ buf \in [1..ArgsLen -> Characters]
  BY Constants, LenProperties, SeqMonotonic DEF Field
<1>2. /\ Over(buf, s) \in [1..ArgsLen -> Characters]
      /\ \A i \in 1..Len(s) : Over(buf, s)[i] = s[i]
      /\ Over(buf, s)[Len(s) + 1] = NUL
      /\ \A i \in (Len(s) + 2)..ArgsLen : Over(buf, s)[i] = buf[i]
  BY <1>1, OverProperties
<1>3. ArgsLen = Len(s) + 1 \/ ArgsLen \in (Len(s) + 2)..ArgsLen
  BY <1>1
<1> QED
  BY <1>2, <1>3 DEF Holds, Field

LEMMA ZerosHold == Zeros(ArgsLen) \in Field /\ Holds(Zeros(ArgsLen), <<>>)
                   /\ Zeros(ArgsLen)[ArgsLen] = NUL
<1>1. Len(<<>>) = 0 /\ 0 + 1 \in 1..ArgsLen /\ ArgsLen \in 1..ArgsLen /\ 1..0 = {}
  BY Constants
<1> QED
  BY <1>1, ZerosProperties, Constants DEF Field, Holds

LEMMA FilledHolds ==
    ASSUME NEW s \in Seq(Chars), Len(s) < ArgsLen
    PROVE  Filled(s) \in Field /\ Holds(Filled(s), s) /\ Filled(s)[ArgsLen] = NUL
BY ZerosHold, CopyHolds DEF Filled

-----------------------------------------------------------------------------
(* The line at the server.                                                 *)

(* What the back of a string is stripped of.                               *)
LEMMA StrippedProperties ==
    ASSUME NEW n \in Nat, NEW buf \in [1..n -> Characters], NEW last \in 1..n,
           NEW m \in 1..last, buf[m] \notin {Space, CR},
           \A i \in (m + 1)..last : buf[i] \in {Space, CR}
    PROVE  /\ Stripped(buf, last) \in [1..n -> Characters]
           /\ \A i \in 1..n : Stripped(buf, last)[i] =
                IF i <= m THEN buf[i] ELSE IF i <= last THEN NUL ELSE buf[i]
<1> DEFINE S == {i \in 1..last : buf[i] \notin {Space, CR}}
           front == SubSeq(buf, 1, m)
           back == SubSeq(buf, last + 1, Len(buf))
           none == Zeros(last - m)
<1>1. Max(S) = m
  <2>1. m \in S /\ last \in Nat /\ \A i \in S : i <= m
    OBVIOUS
  <2>2. S \subseteq 1..last
    OBVIOUS
  <2> HIDE DEF S
  <2> QED
    BY ONLY <2>1, <2>2, GreatestIs
<1>2. Stripped(buf, last) = front \o none \o back
  BY <1>1 DEF Stripped
<1>3. Len(buf) = n /\ \A i \in 1..n : buf[i] \in Characters
  BY BufferSeq
<1>4. /\ front \in Seq(Characters) /\ Len(front) = m
      /\ \A i \in 1..m : front[i] = buf[i]
  <2>1. \A i \in 1..m : buf[i] \in Characters
    BY <1>3
  <2>2. /\ SubSeq(buf, 1, m) \in Seq(Characters)
        /\ Len(SubSeq(buf, 1, m)) = IF 1 <= m THEN m - 1 + 1 ELSE 0
        /\ \A i \in 1..(m - 1 + 1) : SubSeq(buf, 1, m)[i] = buf[1 + i - 1]
    BY <2>1, SubSeqProperties
  <2>3. \A i \in 1..m : i \in 1..(m - 1 + 1) /\ 1 + i - 1 = i
    OBVIOUS
  <2> QED
    BY <2>2, <2>3
<1>5. none \in Seq(Characters) /\ Len(none) = last - m /\ \A i \in 1..(last - m) : none[i] = NUL
  <2>1. last - m \in Nat
    OBVIOUS
  <2> QED
    BY <2>1, ZerosProperties, BufferSeq
<1>6. /\ back \in Seq(Characters) /\ Len(back) = n - last
      /\ \A i \in 1..(n - last) : back[i] = buf[last + i]
  <2>1. \A i \in (last + 1)..n : buf[i] \in Characters
    BY <1>3
  <2>2. /\ back \in Seq(Characters)
        /\ Len(back) = IF last + 1 <= n THEN n - (last + 1) + 1 ELSE 0
        /\ \A i \in 1..(n - (last + 1) + 1) : back[i] = buf[(last + 1) + i - 1]
    BY <1>3, <2>1, SubSeqProperties
  <2>3. \A i \in 1..(n - last) : i \in 1..(n - (last + 1) + 1) /\ (last + 1) + i - 1 = last + i
    OBVIOUS
  <2> QED
    BY <2>2, <2>3
<1> DEFINE whole == front \o none \o back
           size == Len(front) + Len(none) + Len(back)
<1> HIDE DEF S, front, back, none
<1>7. /\ whole \in [1..size -> Characters]
      /\ \A i \in 1..size :
           whole[i] = IF i <= Len(front) THEN front[i]
                      ELSE IF i <= Len(front) + Len(none) THEN none[i - Len(front)]
                      ELSE back[i - Len(front) - Len(none)]
  <2>1. front \in Seq(Characters) /\ none \in Seq(Characters) /\ back \in Seq(Characters)
    BY <1>4, <1>5, <1>6
  <2> QED
    BY ONLY <2>1, JoinProperties
<1> HIDE DEF whole
<1>8. size = n /\ Len(front) + Len(none) = last
  BY <1>4, <1>5, <1>6
<1>9. ASSUME NEW i \in 1..n
      PROVE  whole[i] = IF i <= m THEN buf[i] ELSE IF i <= last THEN NUL ELSE buf[i]
  <2>1. CASE i <= m
    BY <1>4, <1>7, <1>8, <2>1
  <2>2. CASE ~(i <= m) /\ i <= last
    <3>1. i - m \in 1..(last - m)
      BY <2>2
    <3> QED
      BY <1>4, <1>5, <1>7, <1>8, <2>2, <3>1
  <2>3. CASE ~(i <= last)
    <3> DEFINE k == i - last
    <3>1. /\ k \in 1..(n - last) /\ last + k = i /\ ~(i <= m)
          /\ i - Len(front) - Len(none) = k
      BY <1>4, <1>5, <2>3
    <3> HIDE DEF k
    <3>2. whole[i] = back[k]
      BY <1>4, <1>7, <1>8, <2>3, <3>1
    <3> QED
      BY <1>6, <2>3, <3>1, <3>2
  <2> QED
    BY <2>1, <2>2, <2>3
<1> QED
  BY <1>2, <1>7, <1>8, <1>9 DEF whole

(* A line without its carriage return.                                     *)
LEMMA TypedProperties ==
    ASSUME NEW l \in Lines \ {<<CR>>}
    PROVE  /\ l \in Seq(Characters) /\ Len(l) \in Nat \ {0}
           /\ Typed(l) \in Seq(Chars) /\ Starts(Typed(l)) # {}
           /\ Min(Starts(Typed(l))) + Len(Typed(l)) <= StrLen
           /\ Len(Typed(l)) \in Nat /\ Len(Typed(l)) <= Len(l) /\ Len(l) <= Len(Typed(l)) + 1
           /\ \A i \in 1..Len(Typed(l)) : l[i] = Typed(l)[i]
           /\ Len(l) = Len(Typed(l)) + 1 => l[Len(l)] = CR
<1>1. /\ l \in Seq(Letters \cup {Space, CR}) /\ l # <<>>
      /\ Typed(l) \in Seq(Chars) /\ Starts(Typed(l)) # {}
      /\ Min(Starts(Typed(l))) + Len(Typed(l)) <= StrLen
  BY LinesAssumption DEF Chars
<1>2. l \in Seq(Characters) /\ Len(l) \in Nat \ {0} /\ \A i \in 1..Len(l) : l[i] \in Characters
  <2>1. Letters \cup {Space, CR} \subseteq Characters
    BY DEF Characters
  <2>2. l \in Seq(Characters)
    BY <1>1, <2>1, SeqMonotonic
  <2> QED
    BY <1>1, <2>2, EmptySeq, ElementOfSeq
<1>3. CASE Last(l) = CR
  <2>1. Typed(l) = SubSeq(l, 1, Len(l) - 1)
    BY <1>3 DEF Typed, Front
  <2>2. \A i \in 1..(Len(l) - 1) : l[i] \in Characters
    BY <1>2
  <2>3. /\ Len(Typed(l)) = IF 1 <= Len(l) - 1 THEN (Len(l) - 1) - 1 + 1 ELSE 0
        /\ \A i \in 1..((Len(l) - 1) - 1 + 1) : Typed(l)[i] = l[1 + i - 1]
    BY <1>2, <2>1, <2>2, SubSeqProperties
  <2>4. \A i \in 1..(Len(l) - 1) : i \in 1..((Len(l) - 1) - 1 + 1) /\ 1 + i - 1 = i
    BY <1>2
  <2>5. Len(Typed(l)) = Len(l) - 1
    <3>1. \A k \in Nat : k # 0 => (IF 1 <= k - 1 THEN (k - 1) - 1 + 1 ELSE 0) = k - 1
      OBVIOUS
    <3> QED
      BY <1>2, <2>3, <3>1
  <2>6. l[Len(l)] = CR
    BY <1>3 DEF Last
  <2> QED
    BY <1>1, <1>2, <2>3, <2>4, <2>5, <2>6
<1>4. CASE Last(l) # CR
  BY <1>1, <1>2, <1>4 DEF Typed
<1> QED
  BY <1>3, <1>4

(* The last letter of a string with a word.                                *)
LastLetter(s) == Max({i \in DOMAIN s : s[i] # Space})

LEMMA LastLetterProperties ==
    ASSUME NEW s \in Seq(Chars), Starts(s) # {}
    PROVE  /\ LastLetter(s) \in 1..Len(s) /\ s[LastLetter(s)] # Space
           /\ \A i \in (LastLetter(s) + 1)..Len(s) : s[i] = Space
           /\ \A i \in Starts(s) : i <= LastLetter(s)
<1> DEFINE S == {i \in DOMAIN s : s[i] # Space}
<1>1. Len(s) \in Nat /\ DOMAIN s = 1..Len(s)
  BY LenProperties
<1>2. S \subseteq 1..Len(s) /\ S # {} /\ Starts(s) \subseteq S
  BY <1>1 DEF Starts
<1>3. Max(S) \in S /\ \A k \in S : k <= Max(S)
  BY ONLY <1>1, <1>2, GreatestPosition
<1>4. \A i \in (Max(S) + 1)..Len(s) : i \in 1..Len(s) /\ ~(i <= Max(S))
  BY <1>1, <1>2, <1>3
<1>5. \A i \in (Max(S) + 1)..Len(s) : s[i] = Space
  BY <1>1, <1>3, <1>4
<1> QED
  BY <1>1, <1>2, <1>3, <1>5 DEF LastLetter

(* raw_str after the line was read and sanitized: the line up to its last  *)
(* letter.                                                                 *)
LEMMA SanitizedLine ==
    ASSUME NEW l \in Lines \ {<<CR>>}, Len(l) < StrLen,
           NEW r \in [1..StrLen -> Characters], \A i \in 2..StrLen : r[i] = NUL
    PROVE  LET z == Stripped(Over(r, l), Len(l))
               t == Typed(l)
           IN  /\ z \in [1..StrLen -> Characters]
               /\ \A i \in 1..LastLetter(t) : z[i] = t[i]
               /\ \A i \in (LastLetter(t) + 1)..StrLen : z[i] = NUL
<1> DEFINE z == Stripped(Over(r, l), Len(l))
           t == Typed(l)
           o == Over(r, l)
           m == LastLetter(t)
<1>1. /\ l \in Seq(Characters) /\ Len(l) \in Nat /\ StrLen \in Nat
      /\ t \in Seq(Chars) /\ Len(t) \in Nat /\ Len(t) <= Len(l) /\ Len(l) <= Len(t) + 1
      /\ \A i \in 1..Len(t) : l[i] = t[i] /\ t[i] \in Chars
      /\ Len(l) = Len(t) + 1 => l[Len(l)] = CR
  BY TypedProperties, Constants, ElementOfSeq
<1>2. /\ m \in 1..Len(t) /\ t[m] # Space
      /\ \A i \in (m + 1)..Len(t) : t[i] = Space
  BY TypedProperties, LastLetterProperties
<1>3. /\ o \in [1..StrLen -> Characters]
      /\ \A i \in 1..Len(l) : o[i] = l[i]
      /\ o[Len(l) + 1] = NUL
      /\ \A i \in (Len(l) + 2)..StrLen : o[i] = r[i]
  BY <1>1, OverProperties
<1> HIDE DEF o, m, z, t
<1>4. o[m] \notin {Space, CR}
  BY <1>1, <1>2, <1>3, Constants
<1>5. \A i \in (m + 1)..Len(l) : o[i] \in {Space, CR}
  <2> TAKE i \in (m + 1)..Len(l)
  <2>1. i \in 1..Len(l) /\ (i \in (m + 1)..Len(t) \/ (i = Len(l) /\ Len(l) = Len(t) + 1))
    BY <1>1, <1>2
  <2>2. CASE i \in (m + 1)..Len(t)
    BY <1>1, <1>2, <1>3, <2>1, <2>2
  <2>3. CASE i = Len(l) /\ Len(l) = Len(t) + 1
    BY <1>1, <1>3, <2>1, <2>3
  <2> QED
    BY <2>1, <2>2, <2>3
<1>6. Len(l) \in 1..StrLen /\ m \in 1..Len(l)
  BY <1>1, <1>2
<1>7. /\ z \in [1..StrLen -> Characters]
      /\ \A i \in 1..StrLen : z[i] =
           IF i <= m THEN o[i] ELSE IF i <= Len(l) THEN NUL ELSE o[i]
  <2>1. z = Stripped(o, Len(l))
    BY DEF o, z
  <2> QED
    <3>1. StrLen \in Nat /\ o \in [1..StrLen -> Characters]
      BY <1>1, <1>3
    <3>2. /\ Stripped(o, Len(l)) \in [1..StrLen -> Characters]
          /\ \A i \in 1..StrLen : Stripped(o, Len(l))[i] =
               IF i <= m THEN o[i] ELSE IF i <= Len(l) THEN NUL ELSE o[i]
      BY ONLY <1>4, <1>5, <1>6, <3>1, StrippedProperties
    <3> QED
      BY <2>1, <3>2
<1>8. \A i \in 1..m : z[i] = t[i]
  <2>1. \A i \in 1..m : i \in 1..StrLen /\ i \in 1..Len(l) /\ i \in 1..Len(t)
    BY <1>1, <1>2, <1>6
  <2> QED
    BY <1>1, <1>3, <1>7, <2>1
<1>9. ASSUME NEW i \in (m + 1)..StrLen PROVE z[i] = NUL
  <2>1. i \in 1..StrLen /\ ~(i <= m) /\ i \in 2..StrLen
    BY <1>1, <1>6
  <2>2. CASE i <= Len(l)
    BY <1>7, <2>1, <2>2
  <2>3. CASE i = Len(l) + 1
    BY <1>1, <1>3, <1>7, <2>1, <2>3
  <2>4. CASE i \in (Len(l) + 2)..StrLen
    BY <1>1, <1>3, <1>7, <2>1, <2>4
  <2> QED
    BY <1>1, <2>1, <2>2, <2>3, <2>4
<1> QED
  BY <1>7, <1>8, <1>9 DEF m, z, t

(* What follows the first word.                                            *)
LEMMA LaterProperties ==
    ASSUME NEW s \in Seq(Chars), Starts(s) # {}
    PROVE  /\ FirstStop(s) <= LastLetter(s) + 1
           /\ FirstStop(s) <= LastLetter(s) <=> Later(s) # {}
           /\ Later(s) # {} =>
                /\ Min(Later(s)) \in (FirstStop(s) + 1)..LastLetter(s)
                /\ s[Min(Later(s))] # Space
                /\ \A i \in FirstStop(s)..(Min(Later(s)) - 1) : s[i] = Space
<1> DEFINE f == Min(Starts(s))
           e == FirstStop(s)
           m == LastLetter(s)
<1>1. /\ f \in Starts(s) /\ f \in 1..Len(s) /\ e \in (f + 1)..(Len(s) + 1)
      /\ \A i \in Starts(s) : f <= i
      /\ e <= Len(s) => s[e] = Space
      /\ Len(s) \in Nat /\ Starts(s) \subseteq 1..Len(s)
      /\ \A i \in Starts(s) : s[i] # Space
  BY FirstStart, StartProperties, LenProperties
<1>2. /\ m \in 1..Len(s) /\ s[m] # Space
      /\ \A i \in (m + 1)..Len(s) : s[i] = Space
      /\ \A i \in Starts(s) : i <= m
  BY LastLetterProperties
<1>3. \A i \in Later(s) : i \in Starts(s) /\ f < i /\ e < i
  <2> TAKE i \in Later(s)
  <2>1. i \in Starts(s) /\ f < i
    BY <1>1 DEF Later
  <2> QED
    BY <1>1, <2>1, NoStartWithin DEF FirstStop
<1>4. \A k \in f..(e - 1) : s[k] # Space
  BY <1>1, StopProperties DEF FirstStop
<1> HIDE DEF f, e, m
<1>5. e <= m + 1
  <2>1. m + 1 \in f..(e - 1) => m + 1 \in 1..Len(s)
    BY <1>1, <1>2
  <2>2. m + 1 \notin f..(e - 1)
    BY <1>1, <1>2, <1>4, <2>1
  <2>3. f <= m
    BY <1>1, <1>2
  <2> QED
    BY <1>1, <1>2, <2>2, <2>3
<1>6. CASE e <= m
  <2>1. e + 1 \in 1..(Len(s) + 1) /\ e \in 1..Len(s) /\ s[e] = Space /\ m # e
    BY <1>1, <1>2, <1>6
  <2>2. m \in (e + 1)..Len(s) /\ e + 1 - 1 = e
    BY <1>1, <1>2, <1>6, <2>1
  <2>3. PICK g \in Starts(s) : /\ e + 1 <= g /\ g <= m
                               /\ \A i \in (e + 1)..(g - 1) : s[i] = Space
    <3> PICK n : n = e + 1
      OBVIOUS
    <3>1. n \in 1..(Len(s) + 1) /\ n - 1 = e /\ s[n - 1] = Space
      BY <2>1, <2>2
    <3>2. m \in n..Len(s) /\ s[m] # Space
      BY <1>2, <2>2
    <3>3. \E g \in Starts(s) : /\ n <= g /\ g <= m
                               /\ \A i \in n..(g - 1) : s[i] = Space
      BY ONLY <3>1, <3>2, s \in Seq(Chars), StartBefore
    <3> QED
      BY <3>3
  <2>4. g \in Later(s) /\ Later(s) \subseteq Nat /\ g \in Nat
    BY <1>1, <1>3, <2>1, <2>3 DEF Later, f
  <2>5. \A i \in Later(s) : g <= i
    <3> TAKE i \in Later(s)
    <3>1. i \in Starts(s) /\ e + 1 <= i /\ i \in 1..Len(s) /\ s[i] # Space
      BY <1>1, <1>3
    <3>2. i \notin (e + 1)..(g - 1)
      BY <2>3, <3>1
    <3> QED
      BY <1>1, <2>3, <2>4, <3>1, <3>2
  <2>6. Min(Later(s)) = g
    BY <2>4, <2>5, LeastIs
  <2>7. \A i \in e..(g - 1) : s[i] = Space
    BY <1>1, <2>1, <2>3, <2>4
  <2>8. g \in (e + 1)..m /\ s[g] # Space
    BY <1>1, <1>2, <2>1, <2>3, <2>4
  <2> QED
    BY <1>5, <1>6, <2>4, <2>6, <2>7, <2>8 DEF e, m
<1>7. CASE ~(e <= m)
  <2>1. Later(s) = {}
    <3> SUFFICES ASSUME NEW i \in Later(s) PROVE FALSE
      OBVIOUS
    <3>1. i <= m /\ e < i /\ i \in 1..Len(s)
      BY <1>1, <1>2, <1>3
    <3> QED
      BY <1>1, <1>2, <1>7, <3>1
  <2> QED
    BY <1>5, <1>7, <2>1 DEF e, m
<1> QED
  BY <1>6, <1>7

LEMMA TextProperties ==
    ASSUME NEW s \in Seq(Chars), Starts(s) # {}
    PROVE  /\ FirstWord(s) = SubSeq(s, Min(Starts(s)), FirstStop(s) - 1)
           /\ Later(s) # {} => Text(s) = SubSeq(s, Min(Later(s)), LastLetter(s))
           /\ Later(s) = {} => Text(s) = <<>>
           /\ Text(s) \in Seq(Chars)
<1>1. CASE Later(s) = {}
  BY <1>1, EmptySeq DEF Text, FirstWord, WordAt, FirstStop
<1>2. CASE Later(s) # {}
  <2>1. Text(s) = SubSeq(s, Min(Later(s)), LastLetter(s))
    BY <1>2 DEF Text, LastLetter
  <2>2. /\ Min(Later(s)) \in (FirstStop(s) + 1)..LastLetter(s)
        /\ LastLetter(s) \in 1..Len(s) /\ FirstStop(s) \in 1..(Len(s) + 1)
        /\ Len(s) \in Nat
    BY <1>2, LaterProperties, LastLetterProperties, FirstStart, LenProperties
  <2>3. \A i \in Min(Later(s))..LastLetter(s) : s[i] \in Chars
    BY <2>2, ElementOfSeq
  <2>4. Text(s) \in Seq(Chars)
    BY <2>1, <2>2, <2>3, SubSeqProperties
  <2> QED
    BY <1>2, <2>1, <2>4 DEF FirstWord, WordAt, FirstStop
<1> QED
  BY <1>1, <1>2

(* Command and arguments of a sanitized line.                              *)
LEMMA SplitLine ==
    ASSUME NEW t \in Seq(Chars), Starts(t) # {}, Len(t) < StrLen,
           NEW z \in [1..StrLen -> Characters],
           \A i \in 1..LastLetter(t) : z[i] = t[i],
           \A i \in (LastLetter(t) + 1)..StrLen : z[i] = NUL,
           NEW n \in Nat, Len(t) <= n, Min(Starts(t)) + n - 1 <= StrLen
    PROVE  /\ Clean(z) = Min(Starts(t))
           /\ Split(z, Min(Starts(t)), n) =
                [name |-> FirstWord(t), args |-> IF Later(t) = {} THEN NULL ELSE Text(t)]
<1> DEFINE f == Min(Starts(t))
           e == FirstStop(t)
           m == LastLetter(t)
           last == f + n - 1
<1>1. /\ f \in Starts(t) /\ f \in 1..Len(t) /\ e \in (f + 1)..(Len(t) + 1)
      /\ e <= Len(t) => t[e] = Space
      /\ Len(t) \in Nat /\ StrLen \in Nat
      /\ \A i \in 1..Len(t) : t[i] \in Chars
      /\ DOMAIN z = 1..StrLen
  BY FirstStart, LenProperties, ElementOfSeq, Constants
<1>2. m \in 1..Len(t) /\ t[m] # Space /\ f <= m
  BY <1>1, LastLetterProperties
<1>3. /\ e <= m + 1 /\ (e <= m <=> Later(t) # {})
      /\ Later(t) # {} =>
           /\ Min(Later(t)) \in (e + 1)..m
           /\ t[Min(Later(t))] # Space
           /\ \A i \in e..(Min(Later(t)) - 1) : t[i] = Space
  BY LaterProperties
<1>4. \A k \in f..(e - 1) : t[k] # Space
  BY <1>1, StopProperties DEF FirstStop
<1>5. \A i \in 1..(f - 1) : t[i] = Space
  <2> SUFFICES ASSUME NEW i \in 1..(f - 1), t[i] # Space PROVE FALSE
    OBVIOUS
  <2>1. i \in 1..Len(t) /\ 1 \in 1..(Len(t) + 1)
    BY <1>1
  <2>2. PICK g \in Starts(t) : 1 <= g /\ g <= i
    BY <2>1, StartBefore
  <2>3. f <= g /\ g \in Nat
    BY <2>2, FirstStart, StartProperties
  <2> QED
    BY <1>1, <2>2, <2>3
<1> HIDE DEF f, e, m
<1>6. /\ \A i \in 1..m : z[i] = t[i] /\ t[i] \in Chars
      /\ \A i \in (m + 1)..StrLen : z[i] = NUL
      /\ m + 1 \in 1..StrLen
  BY <1>1, <1>2 DEF m
<1>7. NUL \notin {Space, CR} /\ CR \notin Chars /\ NUL \notin Chars /\ Space # NUL
  BY Constants DEF Space, CR, NUL
<1>8. Clean(z) = f
  <2> DEFINE S == {i \in DOMAIN z : i >= 1 /\ z[i] # Space}
  <2>1. f \in S /\ S \subseteq Nat
    BY <1>1, <1>2, <1>4, <1>6
  <2>2. \A i \in S : f <= i
    BY <1>1, <1>2, <1>5, <1>6
  <2> HIDE DEF S
  <2>3. Min(S) = f
    BY <2>1, <2>2, LeastIs
  <2> QED
    BY <2>3 DEF Clean, SkipBlanks, S
<1> DEFINE blanks == BlanksAfter(z, f, n)
<1>9. last \in f..StrLen /\ m <= last
  <2>1. f + n - 1 <= StrLen
    BY DEF f
  <2> QED
    BY <1>1, <1>2, <2>1
<1>10. \A i \in Nat : i \in blanks <=> i \in f..m /\ t[i] = Space
  <2>1. ASSUME NEW i \in f..last
        PROVE  z[i] = Space <=> i <= m /\ t[i] = Space
    <3>1. CASE i <= m
      BY <1>1, <1>2, <1>6, <2>1, <3>1
    <3>2. CASE ~(i <= m)
      BY <1>1, <1>2, <1>6, <1>7, <1>9, <2>1, <3>2
    <3> QED
      BY <3>1, <3>2
  <2> QED
    BY <1>1, <1>2, <1>9, <2>1 DEF BlanksAfter
<1>11. blanks \subseteq Nat
  BY <1>1 DEF BlanksAfter
<1> HIDE DEF blanks
<1>12. End(z, f) = m + 1
  <2> DEFINE S == {i \in DOMAIN z : i >= f /\ z[i] = NUL}
  <2>1. m + 1 \in S /\ S \subseteq Nat
    BY <1>1, <1>2, <1>6
  <2>2. \A i \in S : m + 1 <= i
    BY <1>1, <1>2, <1>6, <1>7
  <2> HIDE DEF S
  <2>3. Min(S) = m + 1
    BY <2>1, <2>2, LeastIs
  <2> QED
    BY <2>3 DEF End, S
<1>13. e \in blanks <=> e <= m
  <2>1. e \in Nat /\ f <= e
    BY <1>1
  <2>2. e <= m => t[e] = Space
    BY <1>1, <1>2
  <2> QED
    BY <1>1, <1>2, <1>10, <2>1, <2>2
<1>14. \A i \in blanks : e <= i /\ i <= m
  <2> TAKE i \in blanks
  <2>1. i \in Nat /\ i \in f..m /\ t[i] = Space
    BY <1>10, <1>11
  <2>2. i \notin f..(e - 1)
    BY <1>4, <2>1
  <2> QED
    BY <1>1, <1>2, <2>1, <2>2
<1>15. Min(blanks \cup {End(z, f)}) = e
  <2> DEFINE S == blanks \cup {m + 1}
  <2>1. e \in S
    BY <1>1, <1>2, <1>3, <1>13
  <2>2. S \subseteq Nat /\ \A i \in S : e <= i
    BY <1>2, <1>3, <1>11, <1>14
  <2> HIDE DEF S
  <2>3. Min(S) = e
    BY <2>1, <2>2, LeastIs
  <2> QED
    BY <1>12, <2>3 DEF S
<1>16. SubSeq(z, f, e - 1) = FirstWord(t)
  <2>1. \A i \in f..(e - 1) : i \in 1..m
    BY <1>1, <1>2, <1>3
  <2>2. \A i \in f..(e - 1) : z[i] = t[i] /\ z[i] \in Characters
    <3> TAKE i \in f..(e - 1)
    <3>1. i \in 1..m
      BY <2>1
    <3>2. z[i] = t[i] /\ t[i] \in Chars
      BY <1>6, <3>1
    <3> QED
      BY <3>2, Constants
  <2>3. f \in Int /\ e - 1 \in Int
    BY <1>1
  <2>4. SubSeq(z, f, e - 1) = SubSeq(t, f, e - 1)
    BY ONLY <2>2, <2>3, SubSeqAgree
  <2> QED
    BY <2>4, TextProperties DEF f, e
<1>17. CASE Later(t) = {}
  <2>1. blanks = {}
    BY <1>1, <1>2, <1>3, <1>14, <1>17, <1>11
  <2>2. Split(z, f, n) = [name |-> FirstWord(t), args |-> NULL]
    BY <1>15, <1>16, <2>1 DEF Split, blanks
  <2> QED
    BY <1>8, <1>17, <2>2 DEF f
<1>18. CASE Later(t) # {}
  <2> DEFINE g == Min(Later(t))
  <2>1. e <= m /\ g \in (e + 1)..m /\ t[g] # Space /\ \A i \in e..(g - 1) : t[i] = Space
    BY <1>3, <1>18
  <2>2. Min(blanks) = e /\ blanks # {}
    BY <1>11, <1>13, <1>14, <2>1, LeastIs
  <2>3. Stripped(z, last) = z
    <3>1. last \in 1..StrLen /\ last \in 1..last
      BY <1>1, <1>2, <1>9
    <3>2. z[last] \notin {Space, CR}
      <4>1. CASE last = m
        BY <1>1, <1>2, <1>6, <1>7, <4>1
      <4>2. CASE last > m
        BY <1>1, <1>2, <1>6, <1>7, <1>9, <4>2
      <4> QED
        BY <1>1, <1>2, <1>9, <4>1, <4>2
    <3>3. \A i \in (last + 1)..last : z[i] \in {Space, CR}
      BY <3>1
    <3> HIDE DEF last
    <3>4. /\ Stripped(z, last) \in [1..StrLen -> Characters]
          /\ \A i \in 1..StrLen : Stripped(z, last)[i] =
               IF i <= last THEN z[i] ELSE IF i <= last THEN NUL ELSE z[i]
      <4>1. StrLen \in Nat /\ z \in [1..StrLen -> Characters]
        BY <1>1, Constants
      <4> QED
        BY ONLY <3>1, <3>2, <3>3, <4>1, StrippedProperties
    <3>5. \A i \in 1..StrLen : Stripped(z, last)[i] = z[i]
      BY <3>4
    <3> DEFINE w == Stripped(z, last)
    <3>6. w \in [1..StrLen -> Characters] /\ \A i \in 1..StrLen : w[i] = z[i]
      BY <3>4, <3>5
    <3> HIDE DEF w
    <3>7. w = [i \in 1..StrLen |-> w[i]] /\ z = [i \in 1..StrLen |-> z[i]]
      BY <3>6
    <3>8. w = z
      BY <3>6, <3>7
    <3> QED
      BY <3>8 DEF w
  <2> HIDE DEF g
  <2>4. SkipBlanks(z, e) = g
    <3> DEFINE S == {i \in DOMAIN z : i >= e /\ z[i] # Space}
    <3>1. g \in S /\ S \subseteq Nat
      BY <1>1, <1>2, <1>6, <2>1
    <3>2. \A i \in S : g <= i
      BY <1>1, <1>2, <1>6, <2>1
    <3> HIDE DEF S
    <3>3. Min(S) = g
      BY <3>1, <3>2, LeastIs
    <3> QED
      BY <3>3 DEF SkipBlanks, S
  <2>5. End(z, g) = m + 1
    <3> DEFINE S == {i \in DOMAIN z : i >= g /\ z[i] = NUL}
    <3>1. m + 1 \in S /\ S \subseteq Nat
      BY <1>1, <1>2, <1>6, <2>1
    <3>2. \A i \in S : m + 1 <= i
      BY <1>1, <1>2, <1>6, <1>7, <2>1
    <3> HIDE DEF S
    <3>3. Min(S) = m + 1
      BY <3>1, <3>2, LeastIs
    <3> QED
      BY <3>3 DEF End, S
  <2>6. StringAt(z, g) = Text(t)
    <3>1. m + 1 - 1 = m /\ g \in Int /\ m \in Int
      BY <1>1, <1>2, <2>1
    <3>2. \A i \in g..m : i \in 1..m
      BY <1>1, <1>2, <2>1
    <3>3. \A i \in g..m : z[i] = t[i] /\ z[i] \in Characters
      BY <1>1, <1>2, <1>6, <3>2
    <3>4. SubSeq(z, g, m) = SubSeq(t, g, m)
      BY ONLY <3>1, <3>3, SubSeqAgree
    <3>5. Text(t) = SubSeq(t, g, m)
      BY <1>18, TextProperties DEF g, m
    <3> QED
      BY <2>5, <3>1, <3>4, <3>5 DEF StringAt
  <2>7. Split(z, f, n) = [name |-> FirstWord(t), args |-> Text(t)]
    BY <1>15, <1>16, <2>2, <2>3, <2>4, <2>6 DEF Split, blanks
  <2> QED
    BY <1>8, <1>18, <2>7 DEF f
<1> QED
  BY <1>17, <1>18

-----------------------------------------------------------------------------
(* The invariant.                                                          *)

(* Behind what is read next raw_str is empty.                              *)
RawEmpty == \A i \in 2..StrLen : raw[i] = NUL

(* The tokenizer serves the job that reads, or nobody.                     *)
ReadingJob(j) ==
    /\ input = j
    /\ Starts(given[j]) # {}
    /\ saved = NULL => ArePartOf(got[j], given[j], Len(given[j]) + 1)
    /\ saved # NULL =>
         /\ saved.job = j
         /\ saved.index > FirstStop(given[j])
         /\ Rests(args[j], given[j], saved.index)
         /\ ArePartOf(got[j], given[j], saved.index)
NobodyReads == (\A j \in Jobs : at[j] # "reading") => input = NULL

(* What the field of a job holds of what was given to it.                  *)
JobOK(j) ==
    /\ Len(given[j]) < ArgsLen
    /\ at[j] \in {"idle", "running", "written"} => Holds(args[j], given[j])
    /\ at[j] \in {"idle", "running"} => got[j] = <<>>
    /\ at[j] \in {"reading", "read"} => Holds(args[j], Kept(given[j]))
    /\ at[j] = "reading" => ReadingJob(j)
    /\ at[j] = "read" => AreWordsOf(got[j], given[j])

Histories ==
    /\ given \in [Jobs -> Seq(Chars)]
    /\ got \in [Jobs -> Seq(Seq(Characters))]

LineInv == /\ TypeOK /\ Histories /\ RawEmpty /\ NobodyReads /\ NamedIsLaunched
           /\ \A j \in Jobs : JobOK(j)

LEMMA JobUntouched ==
    ASSUME NEW j \in Jobs, JobOK(j),
           at'[j] = at[j], args'[j] = args[j], given'[j] = given[j], got'[j] = got[j],
           at[j] = "reading" => UNCHANGED <<input, saved>>
    PROVE  JobOK(j)'
BY DEF JobOK, ReadingJob

LEMMA InitInv == Init => LineInv
<1> SUFFICES ASSUME Init PROVE LineInv
  OBVIOUS
<1>1. Zeros(StrLen) \in [1..StrLen -> Characters] /\ \A i \in 1..StrLen : Zeros(StrLen)[i] = NUL
  BY Constants, ZerosProperties
<1>2. TypeOK
  BY <1>1, ZerosHold, Constants DEF Init, TypeOK, Field
<1>3. RawEmpty
  BY <1>1, Constants DEF Init, RawEmpty
<1>4. ASSUME NEW j \in Jobs PROVE JobOK(j)
  <2>1. <<>> \in Seq(Chars) /\ <<>> \in Seq(Seq(Characters)) /\ Len(<<>>) = 0 /\ 0 < ArgsLen
    BY EmptySeq, Constants
  <2> QED
    BY <2>1, ZerosHold DEF Init, JobOK
<1>5. Histories
  BY EmptySeq DEF Init, Histories
<1> QED
  BY <1>2, <1>3, <1>4, <1>5 DEF LineInv, Init, NobodyReads, NamedIsLaunched

-----------------------------------------------------------------------------
(* The steps of the server.                                                *)

LEMMA CrAlone ==
    ASSUME NEW l \in Lines
    PROVE  Head(l) = CR <=> l = <<CR>>
<1>1. Head(<<CR>>) = CR
  OBVIOUS
<1>2. ASSUME l # <<CR>> PROVE Head(l) # CR
  <2>1. /\ l \in Seq(Characters) /\ Len(l) \in Nat \ {0}
        /\ Typed(l) \in Seq(Chars) /\ Starts(Typed(l)) # {}
        /\ \A i \in 1..Len(Typed(l)) : l[i] = Typed(l)[i]
    BY <1>2, TypedProperties
  <2>2. 1 \in 1..Len(Typed(l))
    BY <2>1, FirstStart, LenProperties
  <2>3. l[1] = Typed(l)[1] /\ Typed(l)[1] \in Chars
    BY <2>1, <2>2, ElementOfSeq
  <2> QED
    BY <2>1, <2>3, Constants
<1> QED
  BY <1>1, <1>2

LEMMA ServerBlankInv ==
    ASSUME LineInv, NEW l \in Lines, ServerBlank(l)
    PROVE  LineInv'
<1>1. l = <<CR>> /\ Len(l) = 1 /\ l \in Seq(Characters) /\ 1 < StrLen
  <2>1. l = <<CR>>
    BY CrAlone DEF ServerBlank
  <2> QED
    BY <2>1, Constants DEF ServerBlank
<1>2. /\ raw' = Over(raw, l) /\ UNCHANGED <<named, launched, args, at, tokenVars, got, given>>
      /\ raw \in [1..StrLen -> Characters] /\ StrLen \in Nat
  BY Constants DEF ServerBlank, LineInv, TypeOK
<1>3. /\ raw' \in [1..StrLen -> Characters]
      /\ raw'[2] = NUL
      /\ \A i \in 3..StrLen : raw'[i] = raw[i]
  <2>1. /\ Over(raw, l) \in [1..StrLen -> Characters]
        /\ Over(raw, l)[Len(l) + 1] = NUL
        /\ \A i \in (Len(l) + 2)..StrLen : Over(raw, l)[i] = raw[i]
    BY <1>1, <1>2, OverProperties
  <2>2. Len(l) + 1 = 2 /\ Len(l) + 2 = 3
    BY <1>1
  <2> QED
    BY <1>2, <2>1, <2>2
<1>4. \A i \in 2..StrLen : raw'[i] = NUL
  <2> TAKE i \in 2..StrLen
  <2>1. CASE i = 2
    BY <1>3, <2>1
  <2>2. CASE i # 2
    <3>1. i \in 3..StrLen
      BY <1>2, <2>2
    <3> QED
      BY <1>3, <3>1 DEF LineInv, RawEmpty
  <2> QED
    BY <2>1, <2>2
<1>5. raw'[StrLen] = NUL
  BY <1>1, <1>2, <1>4
<1>6. TypeOK'
  BY <1>2, <1>3, <1>5 DEF LineInv, TypeOK, tokenVars
<1>7. ASSUME NEW j \in Jobs PROVE JobOK(j)'
  BY <1>2, JobUntouched DEF LineInv, tokenVars
<1> QED
  BY <1>2, <1>4, <1>6, <1>7
  DEF LineInv, Histories, RawEmpty, NobodyReads, NamedIsLaunched, tokenVars

LEMMA FirstCharsProperties ==
    ASSUME NEW s \in Seq(Chars)
    PROVE  FirstChars(s) \in Seq(Chars) /\ Len(FirstChars(s)) < ArgsLen
<1> DEFINE n == Min({Len(s), ArgsLen - 1})
<1>1. Len(s) \in Nat /\ ArgsLen - 1 \in Nat /\ ArgsLen \in Nat
  BY LenProperties, Constants
<1>2. n \in {Len(s), ArgsLen - 1} /\ \A k \in {Len(s), ArgsLen - 1} : n <= k
  <2> DEFINE S == {Len(s), ArgsLen - 1}
  <2>1. S \subseteq Nat /\ S # {}
    BY <1>1
  <2> HIDE DEF S
  <2>2. Min(S) \in S /\ \A k \in S : Min(S) <= k
    BY <2>1, LeastPosition
  <2> QED
    BY <2>2 DEF S
<1> HIDE DEF n
<1>3. n \in Nat /\ n <= Len(s) /\ n < ArgsLen
  BY <1>1, <1>2
<1>4. \A i \in 1..n : s[i] \in Chars
  BY <1>1, <1>3, ElementOfSeq
<1>5. /\ SubSeq(s, 1, n) \in Seq(Chars)
      /\ Len(SubSeq(s, 1, n)) = IF 1 <= n THEN n - 1 + 1 ELSE 0
  BY <1>3, <1>4, SubSeqProperties
<1>6. FirstChars(s) = SubSeq(s, 1, n)
  BY DEF FirstChars, n
<1> QED
  BY <1>1, <1>3, <1>5, <1>6

(* The command of a line is what it says first, and the field of its job   *)
(* then holds the rest of it.                                              *)
LEMMA CommandIs ==
    ASSUME NEW l \in Lines \ {<<CR>>}, Len(l) < StrLen,
           raw \in [1..StrLen -> Characters], RawEmpty,
           NEW clean, clean = Stripped(Over(raw, l), Len(l)),
           NEW split, split = Split(clean, Clean(clean), Len(l)),
           NEW buf \in Field, buf[ArgsLen] = NUL,
           NEW new, new = IF split.args = NULL THEN Zeros(ArgsLen) ELSE Over(buf, Cut(split.args))
    PROVE  /\ split.name = Saying[l].name
           /\ Saying[l].args \in Seq(Chars) /\ Len(Saying[l].args) < ArgsLen
           /\ new \in Field /\ new[ArgsLen] = NUL /\ Holds(new, Saying[l].args)
<1> DEFINE t == Typed(l)
<1>1. /\ Len(l) \in Nat
      /\ t \in Seq(Chars) /\ Starts(t) # {}
      /\ Min(Starts(t)) + Len(t) <= StrLen
      /\ Len(t) \in Nat /\ Len(t) <= Len(l) /\ Len(l) <= Len(t) + 1
  BY TypedProperties
<1>2. /\ clean \in [1..StrLen -> Characters]
      /\ \A i \in 1..LastLetter(t) : clean[i] = t[i]
      /\ \A i \in (LastLetter(t) + 1)..StrLen : clean[i] = NUL
  <2>1. \A i \in 2..StrLen : raw[i] = NUL
    BY DEF RawEmpty
  <2>2. LET z == Stripped(Over(raw, l), Len(l))
            u == Typed(l)
        IN  /\ z \in [1..StrLen -> Characters]
            /\ \A i \in 1..LastLetter(u) : z[i] = u[i]
            /\ \A i \in (LastLetter(u) + 1)..StrLen : z[i] = NUL
    BY <2>1, SanitizedLine
  <2> QED
    BY <2>2
<1> HIDE DEF t
<1>3. Min(Starts(t)) \in Nat /\ StrLen \in Nat
  <2>1. Min(Starts(t)) \in 1..Len(t)
    BY ONLY <1>1, FirstStart
  <2> QED
    BY <1>1, <2>1, Constants
<1>4. Len(t) < StrLen /\ Min(Starts(t)) + Len(l) - 1 <= StrLen
  BY <1>1, <1>3
<1>5. split = [name |-> FirstWord(t), args |-> IF Later(t) = {} THEN NULL ELSE Text(t)]
  <2>1. /\ Clean(clean) = Min(Starts(t))
        /\ Split(clean, Min(Starts(t)), Len(l)) =
             [name |-> FirstWord(t), args |-> IF Later(t) = {} THEN NULL ELSE Text(t)]
    BY ONLY <1>1, <1>2, <1>4, SplitLine
  <2>2. split = Split(clean, Clean(clean), Len(l))
    OBVIOUS
  <2> QED
    BY ONLY <2>1, <2>2
<1>6. Saying[l] = [name |-> FirstWord(t), args |-> FirstChars(Text(t))]
  BY DEF Saying, t
<1>7. Text(t) \in Seq(Chars) /\ (Later(t) = {} => Text(t) = <<>>)
  BY <1>1, TextProperties
<1>8. FirstChars(Text(t)) \in Seq(Chars) /\ Len(FirstChars(Text(t))) < ArgsLen
  BY <1>7, FirstCharsProperties
<1>9. CASE Later(t) = {}
  <2>1. new = Zeros(ArgsLen)
    BY <1>5, <1>9
  <2>2. FirstChars(Text(t)) = <<>>
    <3>1. Min({0, ArgsLen - 1}) = 0
      <4> DEFINE S == {0, ArgsLen - 1}
      <4>1. S \subseteq Nat /\ 0 \in S /\ \A k \in S : 0 <= k
        BY Constants
      <4> HIDE DEF S
      <4>2. Min(S) = 0
        BY <4>1, LeastIs
      <4> QED
        BY <4>2 DEF S
    <3>2. FirstChars(<<>>) = SubSeq(<<>>, 1, 0)
      BY <3>1 DEF FirstChars
    <3>3. SubSeq(<<>>, 1, 0) = <<>>
      BY SubSeqEmpty
    <3> QED
      BY <1>7, <1>9, <3>2, <3>3
  <2> QED
    BY <1>5, <1>6, <1>8, <2>1, <2>2, ZerosHold
<1>10. CASE Later(t) # {}
  <2>1. Text(t) # NULL
    BY <1>7, CommandLineAssumption DEF Chars
  <2>2. new = Over(buf, Cut(Text(t)))
    BY <1>5, <1>10, <2>1
  <2>3. Cut(Text(t)) = FirstChars(Text(t))
    BY DEF Cut, FirstChars
  <2> QED
    BY <1>5, <1>6, <1>8, <2>2, <2>3, CopyHolds
<1> QED
  BY <1>9, <1>10

(* A step that touches one job and leaves the tokenizer alone.             *)
LEMMA OneJobInv ==
    ASSUME LineInv, TypeOK', Histories', RawEmpty', NamedIsLaunched', NEW j \in Jobs,
           UNCHANGED tokenVars, at[j] # "reading", at'[j] # "reading", JobOK(j)',
           \A k \in Jobs \ {j} : /\ at'[k] = at[k] /\ args'[k] = args[k]
                                 /\ given'[k] = given[k] /\ got'[k] = got[k]
    PROVE  LineInv'
<1>1. ASSUME NEW k \in Jobs PROVE JobOK(k)'
  <2>1. CASE k = j
    BY <2>1
  <2>2. CASE k # j
    BY <2>2, JobUntouched DEF LineInv, tokenVars
  <2> QED
    BY <2>1, <2>2
<1>2. NobodyReads'
  <2>1. (\A k \in Jobs : at'[k] # "reading") => (\A k \in Jobs : at[k] # "reading")
    OBVIOUS
  <2> QED
    BY <2>1 DEF LineInv, NobodyReads, tokenVars
<1> QED
  BY <1>1, <1>2 DEF LineInv

LEMMA ServerCommandInv ==
    ASSUME LineInv, NEW l \in Lines, ServerCommand(l)
    PROVE  LineInv'
<1> DEFINE clean == Stripped(Over(raw, l), Len(l))
           split == Split(clean, Clean(clean), Len(l))
           name == split.name
           new == IF split.args = NULL THEN Zeros(ArgsLen) ELSE Over(args[name], Cut(split.args))
<1>1. /\ Len(l) < StrLen /\ l \in Lines \ {<<CR>>}
      /\ \A j \in Jobs : at[j] # "idle" => ~Names(l, j)
      /\ raw' = Zeros(StrLen)
      /\ named' = IF \E j \in Jobs : Names(l, j) THEN Saying[l].name ELSE NULL
      /\ given' = [j \in Jobs |-> IF Names(l, j) THEN Saying[l].args ELSE given[j]]
      /\ UNCHANGED <<got, tokenVars>>
  BY CrAlone DEF ServerCommand
<1>2. IF name \in Jobs
      THEN /\ args' = [args EXCEPT ![name] = new]
           /\ at' = [at EXCEPT ![name] = "running"]
           /\ launched' = name
      ELSE launched' = NULL /\ UNCHANGED <<args, at>>
  BY DEF ServerCommand
<1>3. /\ TypeOK /\ RawEmpty
      /\ raw \in [1..StrLen -> Characters]
      /\ args \in [Jobs -> Field]
      /\ \A j \in Jobs : args[j][ArgsLen] = NUL
  BY DEF LineInv, TypeOK, Field
<1>4. /\ \A i \in 1..StrLen : raw'[i] = NUL
      /\ raw' \in [1..StrLen -> Characters]
      /\ StrLen \in 1..StrLen
      /\ \A i \in 2..StrLen : i \in 1..StrLen
  BY <1>1, ZerosProperties, Constants
<1>5. RawEmpty'
  BY <1>4 DEF RawEmpty
<1>6. name = Saying[l].name
  <2> HIDE DEF clean, split, name, new
  <2>1. Zeros(ArgsLen) \in Field /\ Zeros(ArgsLen)[ArgsLen] = NUL
    BY ZerosHold
  <2>2. clean = Stripped(Over(raw, l), Len(l)) /\ split = Split(clean, Clean(clean), Len(l))
    BY DEF clean, split
  <2>3. split.name = Saying[l].name
    BY <1>1, <1>3, <2>1, <2>2, CommandIs
  <2> QED
    BY <2>3 DEF name
<1>7. \A j \in Jobs : Names(l, j) <=> name = j
  BY <1>6 DEF Names
<1> HIDE DEF name
<1>8. CASE name \in Jobs
  <2>0. PICK j \in Jobs : j = name
    BY <1>8
  <2>1. at[name] = "idle"
    BY <1>1, <1>7, <1>8
  <2>2. /\ Saying[l].args \in Seq(Chars) /\ Len(Saying[l].args) < ArgsLen
        /\ new \in Field /\ new[ArgsLen] = NUL /\ Holds(new, Saying[l].args)
    <3>1. args[name] \in Field /\ args[name][ArgsLen] = NUL
      BY <1>3, <1>8
    <3>2. clean = Stripped(Over(raw, l), Len(l)) /\ split = Split(clean, Clean(clean), Len(l))
      BY DEF clean, split
    <3>3. new = IF split.args = NULL THEN Zeros(ArgsLen) ELSE Over(args[name], Cut(split.args))
      BY DEF new
    <3> HIDE DEF clean, split, new
    <3> QED
      BY <1>1, <1>3, <3>1, <3>2, <3>3, CommandIs
  <2> HIDE DEF clean, split, new
  <2>3. named' = name /\ launched' = name
    BY <1>1, <1>2, <1>6, <1>7, <1>8
  <2>4. /\ args' = [args EXCEPT ![name] = new] /\ at' = [at EXCEPT ![name] = "running"]
        /\ at \in [Jobs -> {"idle", "running", "reading", "read", "written"}]
    BY <1>2, <1>3, <1>8 DEF TypeOK
  <2>5. args'[j] = new /\ at'[j] = "running" /\ given'[j] = Saying[l].args
    BY <2>0, <1>1, <1>3, <1>7, <1>8, <2>4
  <2>6. \A k \in Jobs \ {j} : /\ at'[k] = at[k] /\ args'[k] = args[k]
                                 /\ given'[k] = given[k] /\ got'[k] = got[k]
    BY <1>1, <1>3, <1>7, <2>0, <2>4
  <2>7. args' \in [Jobs -> Field] /\ \A k \in Jobs : args'[k][ArgsLen] = NUL
    <3>1. args' \in [Jobs -> Field]
      BY <1>3, <2>2, <2>4
    <3>2. \A k \in Jobs : args'[k][ArgsLen] = NUL
      BY <1>3, <2>0, <2>2, <2>5, <2>6
    <3> QED
      BY <3>1, <3>2
  <2>8. at' \in [Jobs -> {"idle", "running", "reading", "read", "written"}]
    BY <2>4
  <2>9. TypeOK'
    BY <1>1, <1>3, <1>4, <2>0, <2>3, <2>7, <2>8 DEF TypeOK, Field, tokenVars
  <2>10. JobOK(j)'
    <3>1. got[j] = <<>>
      BY <2>0, <2>1 DEF LineInv, JobOK
    <3> QED
      BY <1>1, <2>0, <2>2, <2>5, <3>1 DEF JobOK
  <2>11. Histories'
    BY <1>1, <1>7, <1>8, <2>2 DEF LineInv, Histories
  <2>12. /\ NamedIsLaunched' /\ UNCHANGED tokenVars
         /\ at[j] # "reading" /\ at'[j] # "reading"
    BY <1>1, <2>0, <2>1, <2>3, <2>5 DEF NamedIsLaunched
  <2> QED
    BY ONLY LineInv, <1>5, <2>0, <2>6, <2>9, <2>10, <2>11, <2>12, OneJobInv
<1>9. CASE name \notin Jobs
  <2>1. launched' = NULL /\ UNCHANGED <<args, at>>
    BY <1>2, <1>9
  <2>2. /\ named' = NULL
        /\ \A j \in Jobs : given'[j] = given[j]
    BY <1>1, <1>7, <1>9
  <2>3. TypeOK'
    BY <1>1, <1>3, <1>4, <2>1, <2>2 DEF TypeOK, tokenVars
  <2>4. ASSUME NEW j \in Jobs PROVE JobOK(j)'
    BY <1>1, <2>1, <2>2, JobUntouched DEF LineInv, tokenVars
  <2>5. Histories'
    BY <1>1, <1>7, <1>9 DEF LineInv, Histories
  <2> QED
    BY <1>1, <1>5, <2>1, <2>2, <2>3, <2>4, <2>5
    DEF LineInv, NobodyReads, NamedIsLaunched, tokenVars
<1> QED
  BY <1>8, <1>9

-----------------------------------------------------------------------------
(* The steps of the API.                                                   *)

LEMMA JobSetArgsHolds ==
    ASSUME LineInv, NEW j \in Jobs, NEW s \in ArgStrings, JobSetArgs(j, s)
    PROVE  /\ s \in Seq(Chars) /\ Len(s) < ArgsLen
           /\ args' \in [Jobs -> Field] /\ \A k \in Jobs : args'[k][ArgsLen] = NUL
           /\ given' \in [Jobs -> Seq(Chars)]
           /\ given'[j] = s /\ Holds(args'[j], s)
           /\ \A k \in Jobs \ {j} : args'[k] = args[k] /\ given'[k] = given[k]
<1>1. s \in Seq(Chars)
  BY CommandLineAssumption DEF Chars
<1>2. Len(s) < ArgsLen
  BY DEF JobSetArgs, FitsArgs
<1>3. Filled(s) \in Field /\ Holds(Filled(s), s) /\ Filled(s)[ArgsLen] = NUL
  BY <1>1, <1>2, FilledHolds
<1>4. args \in [Jobs -> Field] /\ \A k \in Jobs : args[k][ArgsLen] = NUL
  BY DEF LineInv, TypeOK, Field
<1>5. args' = [args EXCEPT ![j] = Filled(s)] /\ given' = [given EXCEPT ![j] = s]
  BY DEF JobSetArgs
<1>6. given \in [Jobs -> Seq(Chars)]
  BY DEF LineInv, Histories
<1>7. given' \in [Jobs -> Seq(Chars)] /\ given'[j] = s
  BY <1>1, <1>5, <1>6
<1>8. args' \in [Jobs -> Field] /\ args'[j] = Filled(s)
  BY <1>3, <1>4, <1>5
<1>9. \A k \in Jobs \ {j} : args'[k] = args[k] /\ given'[k] = given[k]
  BY <1>4, <1>5, <1>6
<1> QED
  BY <1>1, <1>2, <1>3, <1>4, <1>7, <1>8, <1>9

LEMMA JesLaunchJobArgsInv ==
    ASSUME LineInv, NEW j \in Jobs, NEW s \in ArgStrings, JesLaunchJobArgs(j, s)
    PROVE  LineInv'
<1>1. /\ at[j] = "idle" /\ JobSetArgs(j, s) /\ at' = [at EXCEPT ![j] = "running"]
      /\ UNCHANGED <<serverVars, tokenVars, got>>
  BY DEF JesLaunchJobArgs
<1>2. /\ s \in Seq(Chars) /\ Len(s) < ArgsLen
      /\ args' \in [Jobs -> Field] /\ \A k \in Jobs : args'[k][ArgsLen] = NUL
      /\ given' \in [Jobs -> Seq(Chars)]
      /\ given'[j] = s /\ Holds(args'[j], s)
      /\ \A k \in Jobs \ {j} : args'[k] = args[k] /\ given'[k] = given[k]
  BY <1>1, JobSetArgsHolds
<1>3. at \in [Jobs -> {"idle", "running", "reading", "read", "written"}]
  BY DEF LineInv, TypeOK
<1>4. /\ at'[j] = "running" /\ \A k \in Jobs \ {j} : at'[k] = at[k]
      /\ at' \in [Jobs -> {"idle", "running", "reading", "read", "written"}]
  BY <1>1, <1>3
<1>5. TypeOK'
  BY <1>1, <1>2, <1>4 DEF LineInv, TypeOK, Field, serverVars, tokenVars
<1>6. Histories' /\ RawEmpty' /\ NamedIsLaunched'
  BY <1>1, <1>2 DEF LineInv, Histories, RawEmpty, NamedIsLaunched, serverVars
<1>7. JobOK(j)'
  <2>1. got[j] = <<>>
    BY <1>1 DEF LineInv, JobOK
  <2> QED
    BY <1>1, <1>2, <1>4, <2>1 DEF JobOK
<1>8. /\ \A k \in Jobs \ {j} : /\ at'[k] = at[k] /\ args'[k] = args[k]
                               /\ given'[k] = given[k] /\ got'[k] = got[k]
      /\ UNCHANGED tokenVars /\ at[j] # "reading" /\ at'[j] # "reading"
  BY <1>1, <1>2, <1>4
<1> QED
  BY ONLY LineInv, <1>5, <1>6, <1>7, <1>8, OneJobInv

LEMMA JesJobSetArgsInv ==
    ASSUME LineInv, NEW j \in Jobs, NEW s \in ArgStrings, JesJobSetArgs(j, s)
    PROVE  LineInv'
<1>1. /\ at[j] \in {"running", "read"} /\ JobSetArgs(j, s)
      /\ at' = [at EXCEPT ![j] = "written"]
      /\ UNCHANGED <<serverVars, tokenVars, got>>
  BY DEF JesJobSetArgs
<1>2. /\ s \in Seq(Chars) /\ Len(s) < ArgsLen
      /\ args' \in [Jobs -> Field] /\ \A k \in Jobs : args'[k][ArgsLen] = NUL
      /\ given' \in [Jobs -> Seq(Chars)]
      /\ given'[j] = s /\ Holds(args'[j], s)
      /\ \A k \in Jobs \ {j} : args'[k] = args[k] /\ given'[k] = given[k]
  BY <1>1, JobSetArgsHolds
<1>3. at \in [Jobs -> {"idle", "running", "reading", "read", "written"}]
  BY DEF LineInv, TypeOK
<1>4. /\ at'[j] = "written" /\ \A k \in Jobs \ {j} : at'[k] = at[k]
      /\ at' \in [Jobs -> {"idle", "running", "reading", "read", "written"}]
  BY <1>1, <1>3
<1>5. TypeOK'
  BY <1>1, <1>2, <1>4 DEF LineInv, TypeOK, Field, serverVars, tokenVars
<1>6. Histories' /\ RawEmpty' /\ NamedIsLaunched'
  BY <1>1, <1>2 DEF LineInv, Histories, RawEmpty, NamedIsLaunched, serverVars
<1>7. JobOK(j)'
  BY <1>2, <1>4 DEF JobOK
<1>8. /\ \A k \in Jobs \ {j} : /\ at'[k] = at[k] /\ args'[k] = args[k]
                               /\ given'[k] = given[k] /\ got'[k] = got[k]
      /\ UNCHANGED tokenVars /\ at[j] # "reading" /\ at'[j] # "reading"
  BY <1>1, <1>2, <1>4
<1> QED
  BY ONLY LineInv, <1>5, <1>6, <1>7, <1>8, OneJobInv

LEMMA JesLaunchJobInv ==
    ASSUME LineInv, NEW j \in Jobs, JesLaunchJob(j)
    PROVE  LineInv'
<1>1. /\ at[j] = "idle" /\ at' = [at EXCEPT ![j] = "running"]
      /\ UNCHANGED <<serverVars, args, tokenVars, got, given>>
  BY DEF JesLaunchJob
<1>2. at \in [Jobs -> {"idle", "running", "reading", "read", "written"}]
  BY DEF LineInv, TypeOK
<1>3. /\ at'[j] = "running" /\ \A k \in Jobs \ {j} : at'[k] = at[k]
      /\ at' \in [Jobs -> {"idle", "running", "reading", "read", "written"}]
  BY <1>1, <1>2
<1>4. TypeOK'
  BY <1>1, <1>3 DEF LineInv, TypeOK, serverVars, tokenVars
<1>5. Histories' /\ RawEmpty' /\ NamedIsLaunched'
  BY <1>1 DEF LineInv, Histories, RawEmpty, NamedIsLaunched, serverVars
<1>6. JobOK(j)'
  BY <1>1, <1>3 DEF LineInv, JobOK
<1>7. /\ \A k \in Jobs \ {j} : /\ at'[k] = at[k] /\ args'[k] = args[k]
                               /\ given'[k] = given[k] /\ got'[k] = got[k]
      /\ UNCHANGED tokenVars /\ at[j] # "reading" /\ at'[j] # "reading"
  BY <1>1, <1>3
<1> QED
  BY ONLY LineInv, <1>4, <1>5, <1>6, <1>7, OneJobInv

(* What strtok left of the string is what the field holds from now on.     *)
LEMMA ReturnInv ==
    ASSUME LineInv, NEW j \in Jobs, Return(j)
    PROVE  LineInv'
<1>1. /\ at[j] \in {"running", "read", "written"}
      /\ at' = [at EXCEPT ![j] = "idle"]
      /\ given' = [given EXCEPT ![j] = IF at[j] = "read" THEN Kept(@) ELSE @]
      /\ got' = [got EXCEPT ![j] = <<>>]
      /\ UNCHANGED <<serverVars, args, tokenVars>>
  BY DEF Return
<1>2. /\ at \in [Jobs -> {"idle", "running", "reading", "read", "written"}]
      /\ given \in [Jobs -> Seq(Chars)] /\ got \in [Jobs -> Seq(Seq(Characters))]
      /\ ArgsLen \in Nat
  BY Constants DEF LineInv, TypeOK, Histories
<1>3. /\ Len(given[j]) < ArgsLen
      /\ at[j] \in {"running", "written"} => Holds(args[j], given[j])
      /\ at[j] = "read" => Holds(args[j], Kept(given[j]))
  BY DEF LineInv, JobOK
<1>4. /\ Kept(given[j]) \in Seq(Chars) /\ Len(Kept(given[j])) < ArgsLen
  <2>1. given[j] \in Seq(Chars)
    BY <1>2
  <2>2. /\ Kept(given[j]) \in Seq(Chars) /\ Len(Kept(given[j])) <= Len(given[j])
        /\ Len(Kept(given[j])) \in Nat /\ Len(given[j]) \in Nat
    BY <2>1, KeptProperties, LenProperties
  <2> QED
    BY <1>2, <1>3, <2>2
<1>5. /\ at'[j] = "idle" /\ got'[j] = <<>>
      /\ given'[j] = IF at[j] = "read" THEN Kept(given[j]) ELSE given[j]
      /\ \A k \in Jobs \ {j} : /\ at'[k] = at[k] /\ args'[k] = args[k]
                               /\ given'[k] = given[k] /\ got'[k] = got[k]
      /\ at' \in [Jobs -> {"idle", "running", "reading", "read", "written"}]
  BY <1>1, <1>2
<1>6. given'[j] \in Seq(Chars) /\ Len(given'[j]) < ArgsLen /\ Holds(args[j], given'[j])
  BY <1>1, <1>2, <1>3, <1>4, <1>5
<1>7. JobOK(j)'
  BY <1>1, <1>5, <1>6 DEF JobOK
<1>8. Histories'
  <2>1. got' \in [Jobs -> Seq(Seq(Characters))]
    BY <1>1, <1>2, EmptySeq
  <2>2. given' \in [Jobs -> Seq(Chars)]
    BY <1>1, <1>2, <1>4
  <2> QED
    BY <2>1, <2>2 DEF Histories
<1>9. TypeOK' /\ RawEmpty' /\ NamedIsLaunched'
  BY <1>1, <1>5 DEF LineInv, TypeOK, RawEmpty, NamedIsLaunched, serverVars, tokenVars
<1>10. UNCHANGED tokenVars /\ at[j] # "reading" /\ at'[j] # "reading"
  BY <1>1, <1>5
<1> QED
  BY ONLY LineInv, <1>5, <1>7, <1>8, <1>9, <1>10, OneJobInv

-----------------------------------------------------------------------------
(* The steps of the tokenizer.                                             *)

(* A call finds a word at n or after it.                                   *)
LEMMA WordReadInv ==
    ASSUME LineInv, NEW j \in Jobs, Alone(j), NEW n,
           Rests(args[j], given[j], n), ArePartOf(got[j], given[j], n),
           n = 1 => Holds(args[j], given[j]),
           n # 1 => /\ Starts(given[j]) # {} /\ n > FirstStop(given[j])
                    /\ Holds(args[j], Kept(given[j])),
           NEW tok, tok = Token(args[j], n), tok.found,
           got' = [got EXCEPT ![j] = Append(@, tok.word)],
           args' = [args EXCEPT ![j][tok.end] = NUL],
           saved' = IF args[j][tok.end] = NUL THEN NULL
                    ELSE [job |-> j, index |-> tok.end + 1],
           input' = j,
           at' = [at EXCEPT ![j] = "reading"],
           UNCHANGED given, UNCHANGED serverVars
    PROVE  LineInv'
<1> DEFINE s == given[j]
           cut == [args[j] EXCEPT ![tok.end] = NUL]
           more == Append(got[j], tok.word)
<1>1. /\ TypeOK /\ RawEmpty /\ NamedIsLaunched
      /\ args \in [Jobs -> Field] /\ \A k \in Jobs : args[k][ArgsLen] = NUL
      /\ at \in [Jobs -> {"idle", "running", "reading", "read", "written"}]
      /\ given \in [Jobs -> Seq(Chars)] /\ got \in [Jobs -> Seq(Seq(Characters))]
  BY DEF LineInv, Histories, TypeOK, Field
<1>2. s \in Seq(Chars) /\ Len(s) < ArgsLen
  BY <1>1 DEF LineInv, JobOK
<1>3. /\ args'[j] = cut /\ got'[j] = more /\ at'[j] = "reading" /\ given'[j] = s
      /\ \A k \in Jobs \ {j} : /\ at'[k] = at[k] /\ args'[k] = args[k]
                               /\ given'[k] = given[k] /\ got'[k] = got[k]
  BY <1>1
<1>4. /\ args' = [args EXCEPT ![j] = cut] /\ got' = [got EXCEPT ![j] = more]
      /\ at' \in [Jobs -> {"idle", "running", "reading", "read", "written"}]
  BY <1>1
<1>5. /\ more \in Seq(Seq(Characters)) /\ cut \in Field /\ tok.end \in 1..ArgsLen
      /\ args[j][ArgsLen] = NUL => cut[ArgsLen] = NUL
      /\ Starts(s) # {} /\ Holds(cut, Kept(s))
      /\ args[j][tok.end] = NUL => ArePartOf(more, s, Len(s) + 1)
      /\ args[j][tok.end] # NUL =>
           /\ tok.end + 1 \in 1..ArgsLen /\ tok.end + 1 > FirstStop(s)
           /\ ArePartOf(more, s, tok.end + 1) /\ Rests(cut, s, tok.end + 1)
  <2>1. args[j] \in Field /\ got[j] \in Seq(Seq(Characters))
    BY <1>1
  <2>2. Rests(args[j], s, n) /\ ArePartOf(got[j], s, n)
    OBVIOUS
  <2>3. /\ n = 1 => Holds(args[j], s)
        /\ n # 1 => Starts(s) # {} /\ n > FirstStop(s) /\ Holds(args[j], Kept(s))
    OBVIOUS
  <2>4. tok = Token(args[j], n) /\ tok.found
    OBVIOUS
  <2>5. cut = [args[j] EXCEPT ![tok.end] = NUL] /\ more = Append(got[j], tok.word)
    OBVIOUS
  <2> HIDE DEF s, cut, more
  <2>6. Taken(s, args[j], tok, cut, more)
    BY ONLY <1>2, <2>1, <2>2, <2>3, <2>4, <2>5, TokenTaken
  <2>7. /\ more \in Seq(Seq(Characters)) /\ cut \in Field /\ tok.end \in 1..ArgsLen
        /\ args[j][ArgsLen] = NUL => cut[ArgsLen] = NUL
    BY ONLY <2>6 DEF Taken
  <2>8. Starts(s) # {} /\ Holds(cut, Kept(s))
    BY ONLY <2>6 DEF Taken
  <2>9. args[j][tok.end] = NUL => ArePartOf(more, s, Len(s) + 1)
    BY ONLY <2>6 DEF Taken
  <2>10. ASSUME args[j][tok.end] # NUL
         PROVE  /\ tok.end + 1 \in 1..ArgsLen /\ tok.end + 1 > FirstStop(s)
                /\ ArePartOf(more, s, tok.end + 1) /\ Rests(cut, s, tok.end + 1)
    BY ONLY <2>6, <2>10 DEF Taken
  <2> QED
    BY ONLY <2>7, <2>8, <2>9, <2>10
<1> HIDE DEF s, cut, more
<1>6. args' \in [Jobs -> Field] /\ \A k \in Jobs : args'[k][ArgsLen] = NUL
  <2>1. args' \in [Jobs -> Field]
    BY ONLY <1>1, <1>4, <1>5, j \in Jobs
  <2>2. \A k \in Jobs : args'[k][ArgsLen] = NUL
    BY <1>1, <1>3, <1>5
  <2> QED
    BY <2>1, <2>2
<1>7. saved' = NULL \/ saved' \in [job : Jobs, index : 1..ArgsLen]
  BY <1>5
<1>8. TypeOK'
  BY <1>1, <1>4, <1>6, <1>7 DEF TypeOK, Field, serverVars
<1>9. Histories' /\ RawEmpty' /\ NamedIsLaunched' /\ NobodyReads'
  <2>1. got' \in [Jobs -> Seq(Seq(Characters))]
    BY <1>1, <1>4, <1>5
  <2>2. NobodyReads'
    BY <1>3 DEF NobodyReads
  <2> QED
    BY <1>1, <2>1, <2>2 DEF Histories, RawEmpty, NamedIsLaunched, serverVars
<1>10. JobOK(j)'
  <2>1. ReadingJob(j)'
    <3>1. CASE args[j][tok.end] = NUL
      <4>1. saved' = NULL /\ ArePartOf(more, s, Len(s) + 1)
        BY <1>5, <3>1
      <4> QED
        BY <1>3, <1>5, <4>1 DEF ReadingJob
    <3>2. CASE args[j][tok.end] # NUL
      <4>1. saved' = [job |-> j, index |-> tok.end + 1]
        BY <3>2
      <4>2. saved'.job = j /\ saved'.index = tok.end + 1
        BY <4>1
      <4>3. saved' # NULL
        BY <1>5, <3>2, <4>1, CommandLineAssumption, Constants
      <4>4. /\ tok.end + 1 > FirstStop(s)
            /\ ArePartOf(more, s, tok.end + 1) /\ Rests(cut, s, tok.end + 1)
        BY <1>5, <3>2
      <4> QED
        BY <1>3, <1>5, <4>2, <4>3, <4>4 DEF ReadingJob
    <3> QED
      BY <3>1, <3>2
  <2> QED
    BY <1>2, <1>3, <1>5, <2>1 DEF JobOK
<1>11. ASSUME NEW k \in Jobs PROVE JobOK(k)'
  <2>1. CASE k = j
    BY <1>10, <2>1
  <2>2. CASE k # j
    <3>1. at[k] # "reading"
      BY <2>2 DEF Alone
    <3> QED
      BY <1>3, <2>2, <3>1, JobUntouched DEF LineInv
  <2> QED
    BY <2>1, <2>2
<1> QED
  BY <1>8, <1>9, <1>11 DEF LineInv

(* A call finds nothing more.                                              *)
LEMMA NothingLeftInv ==
    ASSUME LineInv, NEW j \in Jobs, Alone(j),
           Holds(args[j], Kept(given[j])), AreWordsOf(got[j], given[j]),
           input' = NULL, saved' = NULL,
           at' = [at EXCEPT ![j] = "read"],
           UNCHANGED <<args, got, given>>, UNCHANGED serverVars
    PROVE  LineInv'
<1>1. at \in [Jobs -> {"idle", "running", "reading", "read", "written"}]
  BY DEF LineInv, TypeOK
<1>2. /\ at'[j] = "read" /\ \A k \in Jobs \ {j} : at'[k] = at[k]
      /\ at' \in [Jobs -> {"idle", "running", "reading", "read", "written"}]
  BY <1>1
<1>3. TypeOK'
  BY <1>2 DEF LineInv, TypeOK, serverVars
<1>4. Histories' /\ RawEmpty' /\ NamedIsLaunched' /\ NobodyReads'
  BY DEF LineInv, Histories, RawEmpty, NamedIsLaunched, NobodyReads, serverVars
<1>5. JobOK(j)'
  <2>1. Len(given[j]) < ArgsLen
    BY DEF LineInv, JobOK
  <2> QED
    BY <1>2, <2>1 DEF JobOK
<1>6. ASSUME NEW k \in Jobs PROVE JobOK(k)'
  <2>1. CASE k = j
    BY <1>5, <2>1
  <2>2. CASE k # j
    <3>1. at[k] # "reading"
      BY <2>2 DEF Alone
    <3> QED
      BY <1>2, <2>2, <3>1, JobUntouched DEF LineInv
  <2> QED
    BY <2>1, <2>2
<1> QED
  BY <1>3, <1>4, <1>6 DEF LineInv

(* Where a call goes on, if there is a place.                              *)
LEMMA CallAtPlace ==
    ASSUME LineInv, NEW j \in Jobs, Alone(j), NEW n,
           Rests(args[j], given[j], n), ArePartOf(got[j], given[j], n),
           n = 1 => Holds(args[j], given[j]),
           n # 1 => /\ Starts(given[j]) # {} /\ n > FirstStop(given[j])
                    /\ Holds(args[j], Kept(given[j])),
           NEW tok, tok = Token(args[j], n),
           IF tok.found
           THEN /\ got' = [got EXCEPT ![j] = Append(@, tok.word)]
                /\ args' = [args EXCEPT ![j][tok.end] = NUL]
                /\ saved' = IF args[j][tok.end] = NUL THEN NULL
                            ELSE [job |-> j, index |-> tok.end + 1]
                /\ input' = j
                /\ at' = [at EXCEPT ![j] = "reading"]
                /\ UNCHANGED given
           ELSE /\ input' = NULL /\ saved' = NULL
                /\ at' = [at EXCEPT ![j] = "read"]
                /\ UNCHANGED <<args, got, given>>,
           UNCHANGED serverVars
    PROVE  LineInv'
<1>1. CASE tok.found
  BY <1>1, WordReadInv
<1>2. CASE ~tok.found
  <2>1. /\ given[j] \in Seq(Chars) /\ Len(given[j]) < ArgsLen
        /\ args[j] \in [1..ArgsLen -> Characters]
    BY DEF LineInv, Histories, JobOK, TypeOK
  <2>2. n \in 1..(Len(given[j]) + 1) /\ Len(given[j]) \in Nat /\ n \in Nat
    BY <2>1, LenProperties DEF Rests
  <2>3. From(given[j], n) = {}
    <3>1. /\ ArgsLen \in Nat /\ NUL \notin Chars
          /\ Rests(args[j], given[j], n) /\ tok = Token(args[j], n) /\ ~tok.found
      BY <1>2, Constants
    <3>2. From(given[j], n) # {} =>
            \E f \in From(given[j], n) :
               Token(args[j], n) =
                 [found |-> TRUE, word |-> WordAt(given[j], f), end |-> Stop(given[j], f)]
      BY ONLY <2>1, <3>1, TokenIsNext
    <3>3. ASSUME NEW f, tok = [found |-> TRUE, word |-> WordAt(given[j], f),
                               end |-> Stop(given[j], f)]
          PROVE  FALSE
      BY <3>1, <3>3
    <3> QED
      BY <3>1, <3>2, <3>3
  <2>4. \A i \in Starts(given[j]) : i < n
    BY <2>1, <2>2, <2>3, StartProperties DEF From
  <2>5. AreWordsOf(got[j], given[j])
    BY ONLY <2>1, <2>2, <2>4, WholeIsPart, ArePartOf(got[j], given[j], n)
  <2>6. Holds(args[j], Kept(given[j]))
    <3>1. CASE n = 1
      <4>1. Starts(given[j]) = {}
        BY <2>1, <2>4, <3>1, StartProperties, LenProperties
      <4> QED
        BY <2>1, <3>1, <4>1, KeptProperties
    <3>2. CASE n # 1
      BY <3>2
    <3> QED
      BY <3>1, <3>2
  <2>7. /\ input' = NULL /\ saved' = NULL
        /\ at' = [at EXCEPT ![j] = "read"]
        /\ UNCHANGED <<args, got, given>> /\ UNCHANGED serverVars
    BY <1>2
  <2> QED
    BY ONLY LineInv, j \in Jobs, Alone(j), <2>5, <2>6, <2>7, NothingLeftInv
<1> QED
  BY <1>1, <1>2

LEMMA JesJobArgNextInv ==
    ASSUME LineInv, NEW j \in Jobs, JesJobArgNext(j)
    PROVE  LineInv'
<1>1. /\ at[j] \in {"running", "reading"} /\ Alone(j) /\ UNCHANGED serverVars
      /\ given[j] \in Seq(Chars)
      /\ j # NULL /\ [job |-> j, index |-> 1] # NULL
  <2>1. j \in Seq(Chars) /\ [job |-> j, index |-> 1] \in [job : Jobs, index : Nat]
    BY CommandLineAssumption, SeqMonotonic DEF Chars
  <2> QED
    BY <2>1, CommandLineAssumption DEF JesJobArgNext, LineInv, Histories, Chars
<1>2. LET place == IF input = NULL THEN [job |-> j, index |-> 1] ELSE saved
          token == IF place = NULL THEN NoToken ELSE Token(args[place.job], place.index)
          k == place.job
      IN  IF token.found
          THEN /\ got' = [got EXCEPT ![j] = Append(@, token.word)]
               /\ args' = [args EXCEPT ![k][token.end] = NUL]
               /\ saved' = IF args[k][token.end] = NUL THEN NULL
                           ELSE [job |-> k, index |-> token.end + 1]
               /\ input' = IF input = NULL THEN j ELSE input
               /\ at' = [at EXCEPT ![j] = "reading"]
               /\ UNCHANGED given
          ELSE /\ input' = NULL /\ saved' = NULL
               /\ at' = [at EXCEPT ![j] = "read"]
               /\ UNCHANGED <<args, got, given>>
  BY DEF JesJobArgNext, InputAfterLast
<1>3. CASE at[j] = "running"
  <2>1. input = NULL
    BY <1>1, <1>3 DEF LineInv, NobodyReads, Alone
  <2>2. Holds(args[j], given[j]) /\ got[j] = <<>>
    BY <1>3 DEF LineInv, JobOK
  <2>3. Rests(args[j], given[j], 1) /\ ArePartOf(got[j], given[j], 1)
    BY <1>1, <2>2, HeldRests, NoPart
  <2>4. PICK tok : tok = Token(args[j], 1)
    OBVIOUS
  <2>5. IF tok.found
        THEN /\ got' = [got EXCEPT ![j] = Append(@, tok.word)]
             /\ args' = [args EXCEPT ![j][tok.end] = NUL]
             /\ saved' = IF args[j][tok.end] = NUL THEN NULL
                         ELSE [job |-> j, index |-> tok.end + 1]
             /\ input' = j
             /\ at' = [at EXCEPT ![j] = "reading"]
             /\ UNCHANGED given
        ELSE /\ input' = NULL /\ saved' = NULL
             /\ at' = [at EXCEPT ![j] = "read"]
             /\ UNCHANGED <<args, got, given>>
    BY <1>1, <1>2, <2>1, <2>4
  <2> QED
    BY ONLY LineInv, j \in Jobs, <1>1, <2>2, <2>3, <2>4, <2>5, CallAtPlace
<1>4. CASE at[j] = "reading"
  <2>1. Holds(args[j], Kept(given[j])) /\ ReadingJob(j)
    BY <1>4 DEF LineInv, JobOK
  <2>2. input = j /\ input # NULL
    BY <1>1, <2>1 DEF ReadingJob
  <2>3. CASE saved = NULL
    <3>1. /\ input' = NULL /\ saved' = NULL
          /\ at' = [at EXCEPT ![j] = "read"]
          /\ UNCHANGED <<args, got, given>>
      BY <1>2, <2>2, <2>3 DEF NoToken
    <3>2. ArePartOf(got[j], given[j], Len(given[j]) + 1)
      BY <2>1, <2>3 DEF ReadingJob
    <3>3. /\ Len(given[j]) + 1 \in Nat
          /\ \A i \in Starts(given[j]) : i < Len(given[j]) + 1
      BY <1>1, StartProperties, LenProperties
    <3>4. AreWordsOf(got[j], given[j])
      BY ONLY <1>1, <3>2, <3>3, WholeIsPart
    <3> QED
      BY ONLY LineInv, j \in Jobs, <1>1, <2>1, <3>1, <3>4, NothingLeftInv
  <2>4. CASE saved # NULL
    <3>1. /\ saved.job = j /\ saved.index > FirstStop(given[j])
          /\ Starts(given[j]) # {}
          /\ Rests(args[j], given[j], saved.index)
          /\ ArePartOf(got[j], given[j], saved.index)
      BY <2>1, <2>4 DEF ReadingJob
    <3>2. PICK n, tok : n = saved.index /\ tok = Token(args[j], n)
      OBVIOUS
    <3>3. n # 1
      <4>1. FirstStop(given[j]) \in Nat /\ FirstStop(given[j]) > 1
        BY <1>1, <3>1, FirstStart, LenProperties
      <4>2. n > FirstStop(given[j])
        BY <3>1, <3>2
      <4> QED
        BY <4>1, <4>2
    <3>4. IF tok.found
          THEN /\ got' = [got EXCEPT ![j] = Append(@, tok.word)]
               /\ args' = [args EXCEPT ![j][tok.end] = NUL]
               /\ saved' = IF args[j][tok.end] = NUL THEN NULL
                           ELSE [job |-> j, index |-> tok.end + 1]
               /\ input' = j
               /\ at' = [at EXCEPT ![j] = "reading"]
               /\ UNCHANGED given
          ELSE /\ input' = NULL /\ saved' = NULL
               /\ at' = [at EXCEPT ![j] = "read"]
               /\ UNCHANGED <<args, got, given>>
      BY <1>2, <2>2, <2>4, <3>1, <3>2
    <3>5. /\ Rests(args[j], given[j], n) /\ ArePartOf(got[j], given[j], n)
          /\ n > FirstStop(given[j])
      BY <3>1, <3>2
    <3> QED
      BY ONLY LineInv, j \in Jobs, <1>1, <2>1, <3>1, <3>2, <3>3, <3>4, <3>5, CallAtPlace
  <2> QED
    BY <2>3, <2>4
<1> QED
  BY <1>1, <1>3, <1>4

-----------------------------------------------------------------------------
(* The theorems.                                                           *)

LEMMA StutterInv ==
    ASSUME LineInv, UNCHANGED vars
    PROVE  LineInv'
<1>1. UNCHANGED <<raw, named, launched, args, at, input, saved, got, given>>
  BY DEF vars, serverVars, tokenVars
<1>2. ASSUME NEW j \in Jobs PROVE JobOK(j)'
  BY <1>1, JobUntouched DEF LineInv
<1> QED
  BY <1>1, <1>2 DEF LineInv, TypeOK, Histories, RawEmpty, NobodyReads, NamedIsLaunched

LEMMA NextInv == LineInv /\ [Next]_vars => LineInv'
<1> SUFFICES ASSUME LineInv, [Next]_vars PROVE LineInv'
  OBVIOUS
<1>1. CASE UNCHANGED vars
  BY <1>1, StutterInv
<1>2. ASSUME NEW l \in Lines, ServerBlank(l) PROVE LineInv'
  BY <1>2, ServerBlankInv
<1>3. ASSUME NEW l \in Lines, ServerCommand(l) PROVE LineInv'
  BY <1>3, ServerCommandInv
<1>4. ASSUME NEW j \in Jobs, NEW s \in ArgStrings, JesLaunchJobArgs(j, s) PROVE LineInv'
  BY <1>4, JesLaunchJobArgsInv
<1>5. ASSUME NEW j \in Jobs, NEW s \in ArgStrings, JesJobSetArgs(j, s) PROVE LineInv'
  BY <1>5, JesJobSetArgsInv
<1>6. ASSUME NEW j \in Jobs, JesLaunchJob(j) PROVE LineInv'
  BY <1>6, JesLaunchJobInv
<1>7. ASSUME NEW j \in Jobs, JesJobArgNext(j) PROVE LineInv'
  BY <1>7, JesJobArgNextInv
<1>8. ASSUME NEW j \in Jobs, Return(j) PROVE LineInv'
  BY <1>8, ReturnInv
<1> QED
  BY <1>1, <1>2, <1>3, <1>4, <1>5, <1>6, <1>7, <1>8 DEF Next

LEMMA LineInvariant == Spec => []LineInv
<1>1. Init => LineInv
  BY InitInv
<1>2. LineInv /\ [Next]_vars => LineInv'
  BY NextInv
<1> QED
  BY <1>1, <1>2, PTL DEF Spec

(* Every copy of a line or of an argument stays within raw_str and the     *)
(* args field of the job and leaves a NUL at their ends, strtok writes     *)
(* within the field, and its saved place is one in the field of a job      *)
(* (cli_server, __job_copy_str, jes_job_arg_next).                         *)
THEOREM StringsStayInBuffers == Spec => []TypeOK
<1>1. LineInv => TypeOK
  BY DEF LineInv
<1> QED
  BY <1>1, LineInvariant, PTL

(* A job that calls jes_job_arg_next until it gets NULL has got every word *)
(* of what the terminal or the API gave it, unchanged, in order and none   *)
(* twice, though the field is cut while it is read, and though the next    *)
(* launch may find it as it was left.                                      *)
THEOREM WordsArriveAsGiven == Spec => []WordsAsGiven
<1>1. LineInv => WordsAsGiven
  BY DEF LineInv, JobOK, WordsAsGiven
<1> QED
  BY <1>1, LineInvariant, PTL

(* cli_server launches the job a line names, whatever blanks are around    *)
(* the name and whatever follows it, and none when it names no job.        *)
THEOREM TheNamedJobIsLaunched == Spec => []NamedIsLaunched
<1>1. LineInv => NamedIsLaunched
  BY DEF LineInv
<1> QED
  BY <1>1, LineInvariant, PTL

=============================================================================
