--------------------------- MODULE JobListProofs ---------------------------
(***************************************************************************)
(* Proofs about JobList for every set of tasks, names and cells.  What     *)
(* holds of types holds always; the list itself stays sound when removals  *)
(* keep to the rule of Careful or nobody unregisters, since a removal      *)
(* finds the pointer it will write in one critical section and writes it   *)
(* in another, and registrations may come between the two.                 *)
(***************************************************************************)
EXTENDS JobList, SequenceTheorems, TLAPS

(* Removals keep to the rule, or there are none. *)
Orderly == Careful \/ MayUnregister = {}

AdminPlaces == {"insert", "log", "test", "unlink", "free"}
WalkPlaces == {"walk", "printed", "walked"}

-----------------------------------------------------------------------------
(* Chains of pointers. *)
Pointers == [Cells -> Cells \cup {NULL}]

(* What a chain is: it starts at x, follows p, and holds nothing more.     *)
LEMMA ChainBasics ==
    ASSUME NEW p \in Pointers, NEW x \in Cells \cup {NULL}
    PROVE  /\ Chain(p, x) \subseteq Cells
           /\ x \in Chain(p, x) \cup {NULL}
           /\ Closed(p, Chain(p, x))
           /\ \A S \in SUBSET Cells :
                x \in S \cup {NULL} /\ Closed(p, S) => Chain(p, x) \subseteq S
BY JobListAssumption DEF Chain, Closed, Pointers

LEMMA ChainOfNull ==
    ASSUME NEW p \in Pointers
    PROVE  Chain(p, NULL) = {}
<1>1. {} \in SUBSET Cells /\ NULL \in {} \cup {NULL} /\ Closed(p, {})
  BY DEF Closed
<1> QED
  BY <1>1, ChainBasics

LEMMA ChainOfNext ==
    ASSUME NEW p \in Pointers, NEW x \in Cells \cup {NULL}, NEW y \in Chain(p, x)
    PROVE  /\ y \in Cells /\ p[y] \in Chain(p, x) \cup {NULL}
           /\ Chain(p, y) \subseteq Chain(p, x)
           /\ Chain(p, p[y]) \subseteq Chain(p, x)
<1>1. Chain(p, x) \subseteq Cells /\ Closed(p, Chain(p, x))
  BY ChainBasics
<1>2. y \in Cells /\ p[y] \in Chain(p, x) \cup {NULL} /\ p[y] \in Cells \cup {NULL}
  BY <1>1 DEF Closed, Pointers
<1>3. Chain(p, y) \subseteq Chain(p, x)
  BY <1>1, <1>2, ChainBasics
<1>4. Chain(p, p[y]) \subseteq Chain(p, x)
  BY <1>1, <1>2, ChainBasics
<1> QED
  BY <1>2, <1>3, <1>4

LEMMA ChainStep ==
    ASSUME NEW p \in Pointers, NEW x \in Cells
    PROVE  Chain(p, x) = {x} \cup Chain(p, p[x])
<1> DEFINE S == {x} \cup Chain(p, p[x])
<1>1. p[x] \in Cells \cup {NULL} /\ x # NULL
  BY JobListAssumption DEF Pointers
<1>2. /\ Chain(p, p[x]) \subseteq Cells
      /\ p[x] \in Chain(p, p[x]) \cup {NULL}
      /\ Closed(p, Chain(p, p[x]))
  BY <1>1, ChainBasics
<1>3. S \in SUBSET Cells /\ Closed(p, S) /\ x \in S
  BY <1>2 DEF Closed
<1>4. Chain(p, x) \subseteq S
  BY <1>3, ChainBasics
<1>5. x \in Chain(p, x)
  BY <1>1, ChainBasics
<1>6. Chain(p, p[x]) \subseteq Chain(p, x)
  BY <1>5, ChainOfNext
<1> QED
  BY <1>4, <1>5, <1>6

(* A pointer outside a chain does not matter to it.                        *)
LEMMA ChainElsewhere ==
    ASSUME NEW p \in Pointers, NEW q \in Pointers, NEW x \in Cells \cup {NULL},
           \A y \in Chain(p, x) : q[y] = p[y]
    PROVE  Chain(q, x) = Chain(p, x)
<1>1. /\ Chain(p, x) \subseteq Cells
      /\ x \in Chain(p, x) \cup {NULL}
      /\ Closed(p, Chain(p, x))
  BY ChainBasics
<1>2. Closed(q, Chain(p, x))
  BY <1>1 DEF Closed
<1>3. Chain(q, x) \subseteq Chain(p, x)
  BY <1>1, <1>2, ChainBasics
<1>4. /\ x \in Chain(q, x) \cup {NULL}
      /\ Closed(q, Chain(q, x))
  BY ChainBasics
<1>5. Closed(p, Chain(q, x)) /\ Chain(q, x) \in SUBSET Cells
  BY <1>1, <1>3, <1>4 DEF Closed
<1>6. Chain(p, x) \subseteq Chain(q, x)
  BY <1>4, <1>5, ChainBasics
<1> QED
  BY <1>3, <1>6

(* Of two cells in a chain, one is met from the other.                     *)
LEMMA ChainOrdered ==
    ASSUME NEW p \in Pointers, NEW x \in Cells \cup {NULL},
           NEW y \in Chain(p, x), NEW z \in Chain(p, x)
    PROVE  y \in Chain(p, z) \/ z \in Chain(p, y)
<1> DEFINE S == {u \in Chain(p, x) : z \in Chain(p, u)} \cup Chain(p, z)
<1>1. Chain(p, x) \subseteq Cells /\ z \in Cells /\ x \in Chain(p, x)
  BY ChainBasics, ChainOfNull
<1>2. Chain(p, z) \subseteq Cells /\ z \in Chain(p, z) /\ Closed(p, Chain(p, z))
  BY <1>1, ChainBasics, JobListAssumption
<1>3. S \in SUBSET Cells /\ x \in S
  BY <1>1, <1>2
<1>4. ASSUME NEW u \in Chain(p, x), z \in Chain(p, u)
      PROVE  p[u] \in S \cup {NULL}
  <2>1. u \in Cells /\ p[u] \in Chain(p, x) \cup {NULL}
    BY ChainOfNext
  <2>2. z = u \/ z \in Chain(p, p[u])
    BY <1>4, <2>1, ChainStep
  <2> QED
    BY <1>2, <2>1, <2>2 DEF Closed
<1>5. Closed(p, S)
  BY <1>2, <1>4 DEF Closed
<1>6. Chain(p, x) \subseteq S
  BY <1>3, <1>5, ChainBasics
<1> QED
  BY <1>6

(* The chain of x ends: no cell is met again after itself.                 *)
Ends(p, x) == \A y \in Chain(p, x) : y \notin Chain(p, p[y])

(* A cell points to each cell of a chain but the first.                    *)
LEMMA SomePointer ==
    ASSUME NEW p \in Pointers, NEW x \in Cells \cup {NULL}, NEW y \in Chain(p, x), y # x
    PROVE  \E z \in Chain(p, x) : p[z] = y
<1> SUFFICES ASSUME \A z \in Chain(p, x) : p[z] # y PROVE FALSE
  OBVIOUS
<1> DEFINE S == Chain(p, x) \ {y}
<1>1. x \in Chain(p, x) \cup {NULL} /\ Chain(p, x) \subseteq Cells /\ Closed(p, Chain(p, x))
  BY ChainBasics
<1>2. S \in SUBSET Cells /\ x \in S \cup {NULL} /\ Closed(p, S)
  BY <1>1 DEF Closed
<1>3. Chain(p, x) \subseteq S
  BY <1>2, ChainBasics
<1> QED
  BY <1>3

(* In a chain that ends, at most one does, and none points to the first.   *)
LEMMA OnePointer ==
    ASSUME NEW p \in Pointers, NEW x \in Cells \cup {NULL}, Ends(p, x)
    PROVE  /\ \A y \in Chain(p, x) : p[y] # x
           /\ \A y, z \in Chain(p, x) : p[y] = p[z] /\ p[y] # NULL => y = z
<1>0. x \in Chain(p, x) \cup {NULL} /\ Chain(p, x) \subseteq Cells
  BY ChainBasics
<1>1. ASSUME NEW y \in Chain(p, x), p[y] = x PROVE FALSE
  BY <1>1 DEF Ends
<1>2. ASSUME NEW y \in Chain(p, x), NEW z \in Chain(p, x), p[y] = p[z], p[y] # NULL, y # z
      PROVE  FALSE
  <2>1. y \in Cells /\ z \in Cells
    BY <1>0
  <2>2. y \in Chain(p, z) \/ z \in Chain(p, y)
    BY ChainOrdered
  <2>3. y \in Chain(p, p[z]) \/ z \in Chain(p, p[y])
    BY <1>2, <2>1, <2>2, ChainStep
  <2> QED
    BY <1>2, <2>3 DEF Ends
<1> QED
  BY <1>1, <1>2

(* *job_list = pj with pj->pn = the old head: one more cell, in front.     *)
LEMMA ChainInsert ==
    ASSUME NEW p \in Pointers, NEW h \in Cells \cup {NULL}, Ends(p, h),
           NEW c \in Cells, c \notin Chain(p, h),
           NEW q \in Pointers,
           q[c] = h, \A y \in Cells \ {c} : q[y] = p[y]
    PROVE  /\ Chain(q, c) = {c} \cup Chain(p, h)
           /\ \A y \in Chain(p, h) : q[y] = p[y] /\ Chain(q, y) = Chain(p, y)
           /\ \A y \in Chain(p, h) : Chain(q, p[y]) = Chain(p, p[y])
           /\ Ends(q, c)
<1>1. q \in Pointers /\ q[c] = h /\ \A y \in Cells \ {c} : q[y] = p[y]
  OBVIOUS
<1>2. ASSUME NEW y \in Cells \cup {NULL}, Chain(p, y) \subseteq Chain(p, h)
      PROVE  Chain(q, y) = Chain(p, y)
  <2>1. \A z \in Chain(p, y) : q[z] = p[z]
    BY <1>1, <1>2, ChainBasics
  <2> QED
    BY <1>1, <2>1, ChainElsewhere
<1>3. Chain(q, h) = Chain(p, h)
  BY <1>2
<1>4. Chain(q, c) = {c} \cup Chain(p, h)
  <2>1. Chain(q, c) = {c} \cup Chain(q, q[c])
    BY <1>1, ChainStep
  <2> QED
    BY <1>1, <1>3, <2>1
<1>5. \A y \in Chain(p, h) : /\ y \in Cells /\ y # c /\ p[y] \in Cells \cup {NULL}
                             /\ Chain(p, y) \subseteq Chain(p, h)
                             /\ Chain(p, p[y]) \subseteq Chain(p, h)
  BY ChainOfNext DEF Pointers
<1>6. \A y \in Chain(p, h) : /\ q[y] = p[y] /\ Chain(q, y) = Chain(p, y)
                             /\ Chain(q, p[y]) = Chain(p, p[y])
  BY <1>1, <1>2, <1>5
<1>7. \A y \in Chain(q, c) : y \notin Chain(q, q[y])
  BY <1>1, <1>3, <1>4, <1>6 DEF Ends
<1> QED
  BY <1>1, <1>4, <1>6, <1>7 DEF Ends

(* *prev_pn = pj_to_remove->pn for the head: the rest of the chain stays.  *)
LEMMA ChainBehead ==
    ASSUME NEW p \in Pointers, NEW h \in Cells, Ends(p, h)
    PROVE  Chain(p, p[h]) = Chain(p, h) \ {h} /\ Ends(p, p[h])
<1>1. h \in Chain(p, h) /\ Chain(p, h) = {h} \cup Chain(p, p[h])
  BY ChainBasics, ChainStep, JobListAssumption
<1>2. h \notin Chain(p, p[h])
  BY <1>1 DEF Ends
<1> QED
  BY <1>1, <1>2 DEF Ends

(* *prev_pn = pj_to_remove->pn behind cell b: only b's next one goes.      *)
LEMMA ChainUnlink ==
    ASSUME NEW p \in Pointers, NEW h \in Cells \cup {NULL}, Ends(p, h),
           NEW b \in Chain(p, h), NEW c \in Chain(p, h), p[b] = c,
           NEW q \in Pointers,
           q[b] = p[c], \A y \in Cells \ {b} : q[y] = p[y]
    PROVE  /\ Chain(q, h) = Chain(p, h) \ {c}
           /\ Ends(q, h)
<1>0. /\ h \in Chain(p, h) \cup {NULL} /\ Chain(p, h) \subseteq Cells /\ Closed(p, Chain(p, h))
      /\ b \in Cells /\ c \in Cells /\ h # NULL
      /\ \A y \in Cells \cup {NULL} : Chain(p, y) \subseteq Cells
  BY ChainBasics, ChainOfNull
<1>1. q \in Pointers /\ q[b] = p[c] /\ \A y \in Cells \ {b} : q[y] = p[y]
  OBVIOUS
<1>2. h # c /\ p[c] # c /\ \A y \in Chain(p, h) : p[y] = c => y = b
  <2>1. p[c] # c
    <3>1. c \in Chain(p, c)
      BY <1>0, ChainBasics, JobListAssumption
    <3> QED
      BY <3>1 DEF Ends
  <2> QED
    BY <1>0, <2>1, OnePointer, JobListAssumption
<1>3. ASSUME NEW y \in Cells \cup {NULL}
      PROVE  Chain(q, y) \subseteq Chain(p, y)
  <2>1. Closed(q, Chain(p, y))
    <3> SUFFICES ASSUME NEW z \in Chain(p, y) PROVE q[z] \in Chain(p, y) \cup {NULL}
      BY DEF Closed
    <3>1. z \in Cells /\ p[z] \in Chain(p, y) \cup {NULL}
      BY ChainOfNext
    <3>2. CASE z # b
      BY <1>1, <3>1, <3>2
    <3>3. CASE z = b
      <4>1. c \in Chain(p, y)
        BY <1>0, <3>1, <3>3, JobListAssumption
      <4>2. p[c] \in Chain(p, y) \cup {NULL}
        BY <4>1, ChainOfNext
      <4> QED
        BY <1>1, <3>3, <4>2
    <3> QED
      BY <3>2, <3>3
  <2> QED
    BY <1>0, <1>1, <2>1, ChainBasics
<1>4. Chain(q, h) \subseteq Chain(p, h) \ {c}
  <2>1. Closed(q, Chain(p, h) \ {c})
    <3> SUFFICES ASSUME NEW z \in Chain(p, h) \ {c}
                 PROVE  q[z] \in (Chain(p, h) \ {c}) \cup {NULL}
      BY DEF Closed
    <3>1. p[c] \in Chain(p, h) \cup {NULL} /\ p[z] \in Chain(p, h) \cup {NULL} /\ z \in Cells
      BY ChainOfNext
    <3> QED
      BY <1>1, <1>2, <3>1
  <2> QED
    BY <1>0, <1>1, <1>2, <2>1, ChainBasics
<1>5. Chain(p, h) \subseteq Chain(q, h) \cup {c}
  <2>0. h \in Chain(q, h) \cup {NULL} /\ Closed(q, Chain(q, h)) /\ Chain(q, h) \subseteq Cells
    BY <1>1, ChainBasics
  <2>1. b \in Chain(q, h)
    <3> SUFFICES ASSUME b \notin Chain(q, h) PROVE FALSE
      OBVIOUS
    <3>1. \A y \in Chain(q, h) : p[y] = q[y]
      BY <1>1, <2>0
    <3>2. Chain(p, h) = Chain(q, h)
      BY <1>1, <3>1, ChainElsewhere
    <3> QED
      BY <3>2
  <2>2. p[c] \in Chain(q, h) \cup {NULL}
    BY <1>1, <2>0, <2>1 DEF Closed
  <2>3. Closed(p, Chain(q, h) \cup {c})
    BY <1>1, <2>0, <2>2 DEF Closed
  <2>4. Chain(q, h) \cup {c} \in SUBSET Cells
    BY <1>0, <2>0
  <2>5. h \in (Chain(q, h) \cup {c}) \cup {NULL}
    BY <2>0
  <2> QED
    BY <2>3, <2>4, <2>5, ChainBasics
<1>6. Ends(q, h)
  <2> SUFFICES ASSUME NEW y \in Chain(p, h), y \in Chain(q, q[y]) PROVE FALSE
    BY <1>4 DEF Ends
  <2>1. y \in Cells /\ p[y] \in Cells \cup {NULL} /\ p[c] \in Cells \cup {NULL}
    BY <1>0 DEF Pointers
  <2>2. CASE y # b
    BY <1>1, <1>3, <2>1, <2>2 DEF Ends
  <2>3. CASE y = b
    <3>1. b \in Chain(p, p[c])
      BY <1>1, <1>3, <2>1, <2>3
    <3>2. b \in Chain(p, p[b])
      BY <1>0, <3>1, ChainStep
    <3> QED
      BY <3>2 DEF Ends
  <2> QED
    BY <2>2, <2>3
<1> QED
  BY <1>1, <1>4, <1>5, <1>6

(* The first cell of a chain that is in a set: the one from which all      *)
(* others of the set are met.                                              *)
LEMMA FirstOfSet ==
    ASSUME NEW p \in Pointers, NEW x \in Cells \cup {NULL},
           NEW M \in SUBSET Chain(p, x), M # {}
    PROVE  \E y \in M : M \subseteq Chain(p, y)
<1> DEFINE S == {y \in Chain(p, x) : M \subseteq Chain(p, y)}
<1> SUFFICES ASSUME \A y \in S : y \notin M PROVE FALSE
  OBVIOUS
<1>1. x \in Chain(p, x) /\ Chain(p, x) \subseteq Cells
  BY ChainBasics, ChainOfNull
<1>2. ASSUME NEW y \in S PROVE p[y] \in S \cup {NULL}
  <2>1. y \in Cells /\ p[y] \in Chain(p, x) \cup {NULL} /\ M \subseteq {y} \cup Chain(p, p[y])
    BY <1>1, ChainOfNext, ChainStep
  <2> QED
    BY <1>2, <2>1
<1>3. S \in SUBSET Cells /\ x \in S /\ Closed(p, S)
  BY <1>1, <1>2 DEF Closed
<1>4. Chain(p, x) \subseteq S
  BY <1>3, ChainBasics
<1> QED
  BY <1>4

-----------------------------------------------------------------------------
(* Tasks are where their kind may be. *)
Kinds ==
    \A t \in Tasks :
        /\ pc[t] \in AdminPlaces => t \in Admins
        /\ pc[t] \in {"test", "unlink", "free"} => t \in MayUnregister
        /\ pc[t] \in WalkPlaces => t \in Walkers

(* Every cell that can be met was given a name. *)
Named ==
    /\ head # NULL => name[head] # NULL
    /\ \A x \in Cells : pn[x] # NULL => name[pn[x]] # NULL
    /\ \A t \in Tasks : cell[t] # NULL => name[cell[t]] # NULL

TypeInv == TypeOK /\ Kinds /\ Named

LEMMA InitTypeInv == Init => TypeInv
BY JobListAssumption DEF Init, TypeInv, TypeOK, Kinds, Named, AdminPlaces, WalkPlaces, Tasks

(* The list and the pointers into it. *)
LEMMA ListTyped ==
    ASSUME TypeInv
    PROVE  /\ pn \in Pointers /\ head \in Cells \cup {NULL}
           /\ Listed \subseteq Cells
           /\ \A x \in Listed : name[x] \in Names /\ pn[x] \in Listed \cup {NULL}
           /\ head \in Listed \cup {NULL}
<1>1. pn \in Pointers /\ head \in Cells \cup {NULL}
  BY DEF TypeInv, TypeOK, Pointers
<1>2. Listed \subseteq Cells /\ head \in Listed \cup {NULL} /\ Closed(pn, Listed)
  BY <1>1, ChainBasics DEF Listed
<1> DEFINE S == {x \in Cells : name[x] # NULL}
<1>3. S \in SUBSET Cells /\ head \in S \cup {NULL} /\ Closed(pn, S)
  BY <1>1 DEF TypeInv, Named, Closed, Pointers
<1>4. Listed \subseteq S
  BY <1>1, <1>3, ChainBasics DEF Listed
<1>5. \A x \in S : name[x] \in Names
  BY DEF TypeInv, TypeOK
<1> QED
  BY <1>1, <1>2, <1>4, <1>5 DEF Closed

(* The walk of __job_unregister_job finds the job and who points to it.    *)
LEMMA FoundAndBefore ==
    ASSUME TypeInv, NEW n \in Names, Match(n) # {}
    PROVE  /\ Found(n) \in Listed /\ name[Found(n)] = n
           /\ Before(Found(n)) \in Listed \cup {NULL}
           /\ Before(Found(n)) = NULL => head = Found(n)
           /\ Before(Found(n)) # NULL => pn[Before(Found(n))] = Found(n)
<1>1. pn \in Pointers /\ head \in Cells \cup {NULL} /\ Listed \subseteq Cells
  BY ListTyped
<1>2. Match(n) \in SUBSET Chain(pn, head)
  BY DEF Match, Listed
<1>3. \E x \in Match(n) : Match(n) \subseteq Chain(pn, x)
  BY <1>1, <1>2, FirstOfSet
<1>4. Found(n) \in Match(n)
  BY <1>3 DEF Found
<1>5. Found(n) \in Listed /\ name[Found(n)] = n
  BY <1>4 DEF Match
<1>6. CASE head = Found(n)
  BY <1>5, <1>6 DEF Before
<1>7. CASE head # Found(n)
  <2>1. \E y \in Listed : pn[y] = Found(n)
    BY <1>1, <1>5, <1>7, SomePointer DEF Listed
  <2>2. Before(Found(n)) \in Listed /\ pn[Before(Found(n))] = Found(n)
    BY <1>7, <2>1 DEF Before
  <2> QED
    BY <1>1, <1>5, <2>2, JobListAssumption
<1> QED
  BY <1>6, <1>7

LEMMA AdminTypeInv ==
    ASSUME TypeInv, NEW t \in Admins, Admin(t)
    PROVE  TypeInv'
<1> USE JobListAssumption
        DEF TypeInv, TypeOK, Kinds, Named, AdminPlaces, WalkPlaces, Tasks, Goto, Return, heapVars, walkVars
<1>1. ASSUME NEW n \in Names, NEW x \in Cells, RegisterAlloc(t, n, x) PROVE TypeInv'
  BY <1>1 DEF RegisterAlloc, Begin
<1>2. ASSUME NEW n \in Names, UnregisterFind(t, n) PROVE TypeInv'
  <2>1. Found(n) \in Cells /\ name[Found(n)] = n /\ Before(Found(n)) \in Cells \cup {NULL}
    BY <1>2, FoundAndBefore, ListTyped DEF UnregisterFind
  <2> QED
    BY <1>2, <2>1 DEF UnregisterFind, Begin
<1>3. CASE RegisterInsert(t)
  BY <1>3 DEF RegisterInsert, Inserted
<1>4. CASE RegisterDuplicate(t)
  BY <1>4 DEF RegisterDuplicate
<1>5. CASE RegisterLog(t)
  BY <1>5 DEF RegisterLog
<1>6. CASE UnregisterProhibited(t)
  BY <1>6 DEF UnregisterProhibited
<1>7. CASE UnregisterTest(t)
  BY <1>7 DEF UnregisterTest
<1>8. CASE UnregisterUnlink(t)
  <2>1. cell[t] \in Cells /\ pn[cell[t]] \in Cells \cup {NULL}
    BY <1>8 DEF UnregisterUnlink
  <2>2. CASE prev[t] = NULL
    BY <1>8, <2>1, <2>2 DEF UnregisterUnlink, Unlinked
  <2>3. CASE prev[t] # NULL
    <3>1. pn' = [pn EXCEPT ![prev[t]] = pn[cell[t]]] /\ prev[t] \in Cells /\ head' = head
      BY <1>8, <2>3 DEF UnregisterUnlink, Unlinked
    <3>2. TypeOK'
      BY <1>8, <2>1, <3>1 DEF UnregisterUnlink
    <3>3. Kinds'
      BY <1>8 DEF UnregisterUnlink
    <3>4. Named'
      BY <1>8, <2>1, <3>1 DEF UnregisterUnlink
    <3> QED
      BY <3>2, <3>3, <3>4
  <2> QED
    BY <2>2, <2>3
<1>9. CASE UnregisterFree(t)
  BY <1>9 DEF UnregisterFree
<1> QED
  BY <1>1, <1>2, <1>3, <1>4, <1>5, <1>6, <1>7, <1>8, <1>9 DEF Admin

LEMMA ReaderTypeInv ==
    ASSUME TypeInv, NEW t \in Readers,
           LookupJob(t) \/ \E n \in Names : LookupCall(t, n)
    PROVE  TypeInv'
<1> USE JobListAssumption
        DEF TypeInv, TypeOK, Kinds, Named, AdminPlaces, WalkPlaces, Tasks, Goto, Return, heapVars, walkVars
<1>1. ASSUME NEW n \in Names, LookupCall(t, n) PROVE TypeInv'
  BY <1>1 DEF LookupCall
<1>2. CASE LookupJob(t)
  BY <1>2 DEF LookupJob
<1> QED
  BY <1>1, <1>2

LEMMA WalkerTypeInv ==
    ASSUME TypeInv, NEW t \in Walkers,
           (\E w \in Walks : WalkStart(t, w)) \/ WalkPrint(t) \/ WalkNext(t) \/ WalkReturn(t)
    PROVE  TypeInv'
<1> USE JobListAssumption
        DEF TypeInv, TypeOK, Kinds, Named, AdminPlaces, WalkPlaces, Tasks, Goto, Return, heapVars, walkVars
<1>1. ASSUME NEW w \in Walks, WalkStart(t, w) PROVE TypeInv'
  <2>1. {name[x] : x \in Listed} \in SUBSET Names
    BY ListTyped
  <2> QED
    BY <1>1, <2>1 DEF WalkStart
<1>2. CASE WalkPrint(t)
  <2>1. name[cell[t]] \in Names
    BY <1>2 DEF WalkPrint
  <2>2. Append(rows[t], name[cell[t]]) \in Seq(Names)
    BY <2>1
  <2>3. rows' \in [Walkers -> Seq(Names)]
    BY <1>2, <2>2 DEF WalkPrint
  <2> QED
    BY <1>2, <2>3 DEF WalkPrint
<1>3. CASE WalkNext(t)
  BY <1>3 DEF WalkNext, Advanced
<1>4. CASE WalkReturn(t)
  BY <1>4 DEF WalkReturn
<1> QED
  BY <1>1, <1>2, <1>3, <1>4

LEMMA TypeInvInvariant == Spec => []TypeInv
<1>1. TypeInv /\ [Next]_vars => TypeInv'
  <2> SUFFICES ASSUME TypeInv, [Next]_vars PROVE TypeInv'
    OBVIOUS
  <2>1. CASE UNCHANGED vars
    BY <2>1 DEF vars, walkVars, TypeInv, TypeOK, Kinds, Named, Tasks
  <2> QED
    BY <2>1, AdminTypeInv, ReaderTypeInv, WalkerTypeInv DEF Next
<1> QED
  BY <1>1, InitTypeInv, PTL DEF Spec

(* Every task past the start of a call has a cell to work on, and every    *)
(* cell that can be met has a name, whoever registers and unregisters      *)
(* when (the NULL tests of __job_unregister_job and of the walks).         *)
THEOREM TypeCorrect == Spec => []TypeOK
BY TypeInvInvariant, PTL DEF TypeInv

-----------------------------------------------------------------------------
(* A new cell is not in the list before its insertion, and is nobody       *)
(* else's; afterwards it is.                                               *)
Inserting ==
    \A t \in Tasks :
        /\ pc[t] = "insert" =>
            /\ cell[t] \in allocated \ Listed
            /\ \A u \in Tasks \ {t} : pc[u] = "insert" => cell[u] # cell[t]
        /\ pc[t] = "log" => cell[t] \in Listed
        /\ pc[t] \in {"insert", "log"} => name[cell[t]] = arg[t]

(* Until it unlinks its cell, a removal knows who points to it.            *)
Removing ==
    \A t \in Tasks :
        /\ pc[t] \in {"test", "unlink"} =>
            /\ cell[t] \in Listed
            /\ prev[t] = NULL => head = cell[t]
            /\ prev[t] # NULL => prev[t] \in Listed /\ pn[prev[t]] = cell[t]
        /\ pc[t] = "unlink" => cell[t] \notin promised
        /\ pc[t] = "free" => cell[t] \in allocated \ Listed

(* One removal at a time; what it removes nobody is registering; and       *)
(* nobody inserts before a job that is removed as the head of the list.    *)
Rule ==
    \A t, u \in Tasks : InRemoval(t) =>
        /\ InRemoval(u) => t = u
        /\ pc[u] \in {"insert", "log"} => cell[u] # cell[t]
        /\ pc[u] = "insert" => prev[t] # NULL

ListInv == ListSound /\ NamesUnique /\ NoJobLost /\ Inserting /\ Removing /\ Rule

LEMMA InitListInv == Init => ListInv
<1> SUFFICES ASSUME Init PROVE ListInv
  OBVIOUS
<1>1. Listed = {}
  BY InitTypeInv, ChainOfNull, ListTyped DEF Init, Listed
<1> QED
  BY <1>1 DEF Init, ListInv, ListSound, NamesUnique, NoJobLost, Inserting, Removing, Rule, InRemoval

LEMMA ListSoundEnds == ListSound <=> Listed \subseteq allocated /\ Ends(pn, head)
BY DEF ListSound, Ends, Listed

LEMMA ListSoundEndsNext == ListSound' <=> Listed' \subseteq allocated' /\ Ends(pn', head')
BY DEF ListSound, Ends, Listed

(* Steps that touch no pointer. *)
LEMMA ListKept ==
    ASSUME UNCHANGED <<head, pn>>
    PROVE  Listed' = Listed /\ (Ends(pn', head') <=> Ends(pn, head))
BY DEF Listed

(* A task that is at no place of an admin afterwards says nothing about    *)
(* the list.                                                               *)
LEMMA LeavingListInv ==
    ASSUME ListInv, NEW t \in Tasks, pc'[t] \notin AdminPlaces,
           \A u \in Tasks \ {t} : /\ pc'[u] = pc[u] /\ arg'[u] = arg[u]
                                  /\ cell'[u] = cell[u] /\ prev'[u] = prev[u],
           UNCHANGED <<heapVars, promised>>
    PROVE  ListInv'
<1> USE DEF ListInv, heapVars
<1>1. Listed' = Listed /\ (Ends(pn', head') <=> Ends(pn, head))
  BY ListKept
<1>2. ListSound' /\ NamesUnique' /\ NoJobLost'
  BY <1>1, ListSoundEnds, ListSoundEndsNext DEF NamesUnique, NoJobLost
<1>3. \A u \in Tasks : pc'[u] \in AdminPlaces =>
        u # t /\ pc'[u] = pc[u] /\ arg'[u] = arg[u] /\ cell'[u] = cell[u] /\ prev'[u] = prev[u]
  OBVIOUS
<1>4. Inserting'
  BY <1>1, <1>3 DEF Inserting, AdminPlaces
<1>5. Removing'
  BY <1>1, <1>3 DEF Removing, AdminPlaces
<1>6. Rule'
  BY <1>3 DEF Rule, InRemoval, AdminPlaces
<1> QED
  BY <1>2, <1>4, <1>5, <1>6

(* The critical section of a registration that succeeds. *)
LEMMA InsertList ==
    ASSUME TypeInv, ListInv, NEW t \in Tasks, RegisterInsert(t)
    PROVE  /\ Listed' = Listed \cup {cell[t]} /\ Ends(pn', head')
           /\ \A y \in Listed : /\ pn'[y] = pn[y] /\ Chain(pn', y) = Chain(pn, y)
                                /\ Chain(pn', pn[y]) = Chain(pn, pn[y])
<1>1. /\ head' = cell[t] /\ pn' = [pn EXCEPT ![cell[t]] = head]
      /\ cell[t] \notin Listed /\ cell[t] \in Cells
  BY DEF RegisterInsert, Inserted, ListInv, Inserting, TypeInv, TypeOK
<1>2. pn \in Pointers /\ head \in Cells \cup {NULL}
  BY ListTyped
<1>3. Ends(pn, head)
  BY ListSoundEnds DEF ListInv
<1> DEFINE c == cell[t]
           q == pn'
<1>4. /\ c \in Cells /\ c \notin Chain(pn, head)
      /\ q \in Pointers /\ q[c] = head /\ \A y \in Cells \ {c} : q[y] = pn[y]
  BY <1>1, <1>2 DEF Listed, Pointers
<1> HIDE DEF c, q
<1>5. /\ Chain(q, c) = {c} \cup Chain(pn, head)
      /\ \A y \in Chain(pn, head) : q[y] = pn[y] /\ Chain(q, y) = Chain(pn, y)
      /\ \A y \in Chain(pn, head) : Chain(q, pn[y]) = Chain(pn, pn[y])
      /\ Ends(q, c)
  BY <1>2, <1>3, <1>4, ChainInsert
<1> QED
  BY <1>1, <1>5 DEF Listed, c, q

(* The second critical section of a removal. *)
LEMMA UnlinkList ==
    ASSUME TypeInv, ListInv, NEW t \in Tasks, UnregisterUnlink(t)
    PROVE  Listed' = Listed \ {cell[t]} /\ Ends(pn', head')
<1>1. /\ cell[t] \in Listed /\ cell[t] \in Cells
      /\ prev[t] = NULL => head = cell[t]
      /\ prev[t] # NULL => prev[t] \in Listed /\ pn[prev[t]] = cell[t]
  BY ListTyped DEF UnregisterUnlink, ListInv, Removing
<1>2. pn \in Pointers /\ head \in Cells \cup {NULL}
  BY ListTyped
<1>3. Ends(pn, head)
  BY ListSoundEnds DEF ListInv
<1>4. CASE prev[t] = NULL
  <2>1. head' = pn[head] /\ pn' = pn /\ head = cell[t]
    BY <1>1, <1>4 DEF UnregisterUnlink, Unlinked
  <2> QED
    BY <1>1, <1>2, <1>3, <2>1, ChainBehead DEF Listed
<1>5. CASE prev[t] # NULL
  <2>1. head' = head /\ pn' = [pn EXCEPT ![prev[t]] = pn[cell[t]]]
    BY <1>5 DEF UnregisterUnlink, Unlinked
  <2> DEFINE b == prev[t]
             c == cell[t]
             q == pn'
  <2>2. /\ b \in Chain(pn, head) /\ c \in Chain(pn, head) /\ pn[b] = c
        /\ b \in Cells /\ c \in Cells
    BY <1>1, <1>5, ListTyped DEF Listed
  <2>4. q \in Pointers /\ q[b] = pn[c] /\ \A y \in Cells \ {b} : q[y] = pn[y]
    BY <1>2, <2>1, <2>2 DEF Pointers
  <2> HIDE DEF b, c, q
  <2>3. Chain(q, head) = Chain(pn, head) \ {c} /\ Ends(q, head)
    BY <1>2, <1>3, <2>2, <2>4, ChainUnlink
  <2> QED
    BY <2>1, <2>3 DEF Listed, c, q
<1> QED
  BY <1>4, <1>5

(* What the rule asks of an admin that begins a call. *)
LEMMA BeginsByRule ==
    ASSUME TypeInv, Orderly, NEW t \in Admins
    PROVE  /\ \A n \in Names, x \in Cells :
                RegisterAlloc(t, n, x) => \A u \in Tasks : InRemoval(u) => prev[u] # NULL
           /\ \A n \in Names : UnregisterFind(t, n) => \A u \in Tasks :
                /\ ~InRemoval(u)
                /\ pc[u] \in {"insert", "log"} => arg[u] # n
                /\ Before(Found(n)) = NULL => pc[u] # "insert"
<1>1. \A u \in Tasks : InRemoval(u) => u \in Admins /\ u \in MayUnregister
  BY DEF TypeInv, Kinds, AdminPlaces, InRemoval
<1>2. \A u \in Tasks : pc[u] \in {"insert", "log"} => u \in Admins
  BY DEF TypeInv, Kinds, AdminPlaces
<1>3. ASSUME NEW n \in Names, UnregisterFind(t, n) PROVE MayRemove(n)
  BY <1>3 DEF UnregisterFind, Orderly
<1>4. ASSUME NEW n \in Names, NEW x \in Cells, RegisterAlloc(t, n, x)
      PROVE  \A u \in Tasks : InRemoval(u) => prev[u] # NULL
  BY <1>1, <1>4 DEF RegisterAlloc, Orderly, MayAllocate
<1> QED
  BY <1>1, <1>2, <1>3, <1>4 DEF MayRemove

LEMMA AdminListInv ==
    ASSUME TypeInv, ListInv, Orderly, NEW t \in Admins, Admin(t)
    PROVE  ListInv'
<1> USE DEF ListInv
<1>0. /\ t \in Tasks /\ Listed \subseteq Cells
      /\ pc \in [Tasks -> {"idle", "insert", "log", "test", "unlink", "free", "lookup", "walk", "printed", "walked"}]
      /\ arg \in [Tasks -> Names \cup Walks \cup {NULL}]
      /\ cell \in [Tasks -> Cells \cup {NULL}]
      /\ prev \in [Tasks -> Cells \cup {NULL}]
      /\ name \in [Cells -> Names \cup {NULL}]
      /\ Listed \subseteq allocated /\ Ends(pn, head)
  BY ListTyped, ListSoundEnds DEF TypeInv, TypeOK, Tasks
<1>1. ASSUME NEW n \in Names, NEW x \in Cells, RegisterAlloc(t, n, x) PROVE ListInv'
  <2>1. /\ x \notin allocated /\ allocated' = allocated \cup {x}
        /\ name' = [name EXCEPT ![x] = n]
        /\ arg'[t] = n /\ cell'[t] = x /\ pc'[t] = "insert"
        /\ \A u \in Tasks \ {t} : /\ pc'[u] = pc[u] /\ arg'[u] = arg[u]
                                  /\ cell'[u] = cell[u] /\ prev'[u] = prev[u]
        /\ UNCHANGED <<head, pn, promised>>
    BY <1>0, <1>1 DEF RegisterAlloc, Goto
  <2>2. Listed' = Listed /\ Ends(pn', head')
    BY <1>0, <2>1, ListKept
  <2>3. \A y \in allocated : y \in Cells => name'[y] = name[y]
    BY <1>0, <2>1
  <2>4. ListSound' /\ NamesUnique' /\ NoJobLost'
    BY <1>0, <2>1, <2>2, <2>3, ListSoundEndsNext DEF NamesUnique, NoJobLost
  <2>5. Inserting'
    <3>1. name'[x] = n
      BY <1>0, <2>1
    <3>2. \A u \in Tasks \ {t} : pc[u] = "insert" => cell[u] \in allocated /\ cell[u] \in Cells
      BY DEF Inserting, TypeInv, TypeOK
    <3> QED
      BY <1>0, <2>1, <2>2, <2>3, <3>1, <3>2 DEF Inserting
  <2>6. Removing'
    BY <2>1, <2>2 DEF Removing
  <2>7. Rule'
    <3>1. \A u \in Tasks : InRemoval(u) => prev[u] # NULL /\ cell[u] # x
      BY <1>1, <2>1, BeginsByRule, ListTyped DEF Removing, ListSound, InRemoval
    <3> QED
      BY <2>1, <3>1 DEF Rule, InRemoval
  <2> QED
    BY <2>4, <2>5, <2>6, <2>7
<1>2. ASSUME NEW n \in Names, UnregisterFind(t, n) PROVE ListInv'
  <2>1. /\ cell'[t] = Found(n) /\ prev'[t] = Before(Found(n)) /\ pc'[t] = "test"
        /\ \A u \in Tasks \ {t} : /\ pc'[u] = pc[u] /\ arg'[u] = arg[u]
                                  /\ cell'[u] = cell[u] /\ prev'[u] = prev[u]
        /\ UNCHANGED <<head, pn, name, allocated, promised>>
    BY <1>0, <1>2 DEF UnregisterFind, Goto, heapVars
  <2>2. Listed' = Listed /\ Ends(pn', head')
    BY <1>0, <2>1, ListKept
  <2>3. ListSound' /\ NamesUnique' /\ NoJobLost'
    BY <1>0, <2>1, <2>2, ListSoundEndsNext DEF NamesUnique, NoJobLost
  <2>4. Inserting'
    BY <2>1, <2>2 DEF Inserting
  <2>5. Removing'
    BY <1>2, <2>1, <2>2, FoundAndBefore DEF Removing, UnregisterFind
  <2>6. Rule'
    <3>1. Found(n) \in Listed /\ name[Found(n)] = n
      BY <1>2, FoundAndBefore DEF UnregisterFind
    <3>2. \A u \in Tasks : /\ ~InRemoval(u)
                           /\ pc[u] \in {"insert", "log"} => arg[u] # n
                           /\ Before(Found(n)) = NULL => pc[u] # "insert"
      BY <1>2, BeginsByRule
    <3>3. \A u \in Tasks : pc[u] \in {"insert", "log"} => cell[u] # Found(n)
      BY <3>1, <3>2 DEF Inserting
    <3> QED
      BY <2>1, <3>2, <3>3 DEF Rule, InRemoval
  <2> QED
    BY <2>3, <2>4, <2>5, <2>6
<1>3. CASE RegisterInsert(t)
  <2>1. /\ pc[t] = "insert" /\ pc'[t] = "log" /\ ~Duplicate(t)
        /\ promised' = promised \cup {cell[t]}
        /\ \A u \in Tasks \ {t} : pc'[u] = pc[u]
        /\ UNCHANGED <<name, allocated, arg, cell, prev>>
    BY <1>0, <1>3 DEF RegisterInsert, Goto
  <2>2. Listed' = Listed \cup {cell[t]} /\ Ends(pn', head')
    BY <1>0, <1>3, InsertList
  <2>3. \A u \in Tasks : InRemoval(u) => u # t /\ cell[u] # cell[t] /\ prev[u] # NULL
    BY <1>0, <2>1 DEF Rule, InRemoval
  <2>4. \A y \in Listed : name[y] # name[cell[t]]
    BY <1>0, <2>1 DEF Duplicate, Match, Inserting
  <2>5. ListSound' /\ NamesUnique' /\ NoJobLost'
    BY <1>0, <2>1, <2>2, <2>4, ListSoundEndsNext DEF NamesUnique, NoJobLost, Inserting
  <2>6. Inserting'
    <3>1. \A u \in Tasks \ {t} : pc[u] = "insert" => cell[u] # cell[t]
      BY <1>0, <2>1 DEF Inserting
    <3>2. cell[t] \in Listed'
      BY <2>2
    <3> QED
      BY <1>0, <2>1, <2>2, <3>1, <3>2 DEF Inserting
  <2>7. Removing'
    <3>1. \A y \in Listed : pn'[y] = pn[y]
      BY <1>0, <1>3, InsertList
    <3> QED
      BY <2>1, <2>2, <2>3, <3>1 DEF Removing, InRemoval
  <2>8. Rule'
    BY <2>1, <2>3 DEF Rule, InRemoval
  <2> QED
    BY <2>5, <2>6, <2>7, <2>8
<1>4. CASE RegisterDuplicate(t)
  <2>1. /\ pc[t] = "insert" /\ pc'[t] = "idle"
        /\ allocated' = allocated \ {cell[t]}
        /\ \A u \in Tasks \ {t} : /\ pc'[u] = pc[u] /\ arg'[u] = arg[u]
                                  /\ cell'[u] = cell[u] /\ prev'[u] = prev[u]
        /\ UNCHANGED <<head, pn, name, promised>>
    BY <1>0, <1>4 DEF RegisterDuplicate, Goto, Return
  <2>2. Listed' = Listed /\ Ends(pn', head')
    BY <1>0, <2>1, ListKept
  <2>3. \A u \in Tasks : InRemoval(u) => u # t /\ cell[u] # cell[t]
    BY <1>0, <2>1 DEF Rule, InRemoval
  <2>4. ListSound' /\ NamesUnique' /\ NoJobLost'
    BY <1>0, <2>1, <2>2, ListSoundEndsNext DEF NamesUnique, NoJobLost, Inserting
  <2>5. Inserting'
    BY <1>0, <2>1, <2>2 DEF Inserting
  <2>6. Removing'
    BY <1>0, <2>1, <2>2, <2>3 DEF Removing, InRemoval, TypeInv, TypeOK
  <2>7. Rule'
    BY <2>1 DEF Rule, InRemoval
  <2> QED
    BY <2>4, <2>5, <2>6, <2>7
<1>5. CASE RegisterLog(t) \/ UnregisterProhibited(t)
  <2>1. /\ pc'[t] = "idle"
        /\ \A u \in Tasks \ {t} : /\ pc'[u] = pc[u] /\ arg'[u] = arg[u]
                                  /\ cell'[u] = cell[u] /\ prev'[u] = prev[u]
        /\ UNCHANGED <<heapVars, promised>>
    BY <1>0, <1>5 DEF RegisterLog, UnregisterProhibited, Goto, Return
  <2> QED
    BY <1>0, <2>1, LeavingListInv DEF AdminPlaces
<1>6. CASE UnregisterTest(t)
  <2>1. /\ pc[t] = "test" /\ pc'[t] = "unlink"
        /\ promised' = promised \ {cell[t]}
        /\ \A u \in Tasks \ {t} : pc'[u] = pc[u]
        /\ UNCHANGED <<head, pn, name, allocated, arg, cell, prev>>
    BY <1>0, <1>6 DEF UnregisterTest, Goto, heapVars
  <2>2. Listed' = Listed /\ Ends(pn', head')
    BY <1>0, <2>1, ListKept
  <2>3. ListSound' /\ NamesUnique' /\ NoJobLost'
    BY <1>0, <2>1, <2>2, ListSoundEndsNext DEF NamesUnique, NoJobLost
  <2>4. Inserting' /\ Removing' /\ Rule'
    BY <1>0, <2>1, <2>2 DEF Inserting, Removing, Rule, InRemoval
  <2> QED
    BY <2>3, <2>4
<1>7. CASE UnregisterUnlink(t)
  <2>1. /\ pc[t] = "unlink" /\ pc'[t] = "free"
        /\ \A u \in Tasks \ {t} : pc'[u] = pc[u]
        /\ UNCHANGED <<name, allocated, arg, cell, prev, promised>>
    BY <1>0, <1>7 DEF UnregisterUnlink, Goto
  <2>2. Listed' = Listed \ {cell[t]} /\ Ends(pn', head')
    BY <1>0, <1>7, UnlinkList
  <2>3. \A u \in Tasks \ {t} : /\ ~InRemoval(u)
                               /\ pc[u] \in {"insert", "log"} => cell[u] # cell[t]
    BY <1>0, <2>1 DEF Rule, InRemoval
  <2>4. cell[t] \in Listed /\ cell[t] \notin promised
    BY <1>0, <2>1 DEF Removing
  <2>5. ListSound' /\ NamesUnique' /\ NoJobLost'
    BY <1>0, <2>1, <2>2, <2>4, ListSoundEndsNext DEF NamesUnique, NoJobLost
  <2>6. Inserting' /\ Removing' /\ Rule'
    BY <1>0, <2>1, <2>2, <2>3, <2>4 DEF Inserting, Removing, Rule, InRemoval
  <2> QED
    BY <2>5, <2>6
<1>8. CASE UnregisterFree(t)
  <2>1. /\ pc[t] = "free" /\ pc'[t] = "idle"
        /\ allocated' = allocated \ {cell[t]}
        /\ \A u \in Tasks \ {t} : pc'[u] = pc[u]
        /\ UNCHANGED <<head, pn, name, promised>>
    BY <1>0, <1>8 DEF UnregisterFree, Goto, Return
  <2>2. Listed' = Listed /\ Ends(pn', head')
    BY <1>0, <2>1, ListKept
  <2>3. \A u \in Tasks \ {t} : /\ ~InRemoval(u)
                               /\ pc[u] \in {"insert", "log"} => cell[u] # cell[t]
    BY <1>0, <2>1 DEF Rule, InRemoval
  <2>4. ListSound' /\ NamesUnique' /\ NoJobLost'
    BY <1>0, <2>1, <2>2, ListSoundEndsNext DEF NamesUnique, NoJobLost, Removing
  <2>5. Inserting'
    <3>1. \A u \in Tasks : pc'[u] \in {"insert", "log"} =>
            u # t /\ pc'[u] = pc[u] /\ cell[u] # cell[t]
      BY <2>1, <2>3
    <3>2. arg' = [arg EXCEPT ![t] = NULL] /\ cell' = [cell EXCEPT ![t] = NULL]
      BY <1>8 DEF UnregisterFree, Return
    <3>3. \A u \in Tasks \ {t} : arg'[u] = arg[u] /\ cell'[u] = cell[u]
      BY <1>0, <3>2
    <3> QED
      BY <2>1, <2>2, <3>1, <3>3 DEF Inserting
  <2>6. Removing'
    BY <2>1, <2>3 DEF Removing, InRemoval
  <2>7. Rule'
    BY <2>1, <2>3 DEF Rule, InRemoval
  <2> QED
    BY <2>4, <2>5, <2>6, <2>7
<1> QED
  BY <1>1, <1>2, <1>3, <1>4, <1>5, <1>6, <1>7, <1>8 DEF Admin

LEMMA OtherListInv ==
    ASSUME TypeInv, ListInv
    PROVE  /\ \A t \in Readers : (LookupJob(t) \/ \E n \in Names : LookupCall(t, n)) => ListInv'
           /\ \A t \in Walkers : ((\E w \in Walks : WalkStart(t, w)) \/ WalkPrint(t)
                                    \/ WalkNext(t) \/ WalkReturn(t)) => ListInv'
           /\ UNCHANGED vars => ListInv'
<1>0. /\ pc \in [Tasks -> {"idle", "insert", "log", "test", "unlink", "free", "lookup", "walk", "printed", "walked"}]
      /\ arg \in [Tasks -> Names \cup Walks \cup {NULL}]
      /\ cell \in [Tasks -> Cells \cup {NULL}]
      /\ prev \in [Tasks -> Cells \cup {NULL}]
      /\ Readers \subseteq Tasks /\ Walkers \subseteq Tasks
  BY DEF TypeInv, TypeOK, Tasks
<1>1. ASSUME NEW t \in Readers, LookupJob(t) \/ \E n \in Names : LookupCall(t, n)
      PROVE  ListInv'
  <2>1. /\ pc'[t] \in {"idle", "lookup"}
        /\ \A u \in Tasks \ {t} : /\ pc'[u] = pc[u] /\ arg'[u] = arg[u]
                                  /\ cell'[u] = cell[u] /\ prev'[u] = prev[u]
        /\ UNCHANGED <<heapVars, promised>>
    BY <1>0, <1>1 DEF LookupJob, LookupCall, Goto, Return
  <2> QED
    BY <1>0, <2>1, LeavingListInv DEF AdminPlaces
<1>2. ASSUME NEW t \in Walkers,
             (\E w \in Walks : WalkStart(t, w)) \/ WalkPrint(t) \/ WalkNext(t) \/ WalkReturn(t)
      PROVE  ListInv'
  <2>1. /\ pc'[t] \in {"idle", "walk", "printed", "walked"}
        /\ \A u \in Tasks \ {t} : /\ pc'[u] = pc[u] /\ arg'[u] = arg[u]
                                  /\ cell'[u] = cell[u] /\ prev'[u] = prev[u]
        /\ UNCHANGED <<heapVars, promised>>
    BY <1>0, <1>2 DEF WalkStart, WalkPrint, WalkNext, WalkReturn, Goto, Return
  <2> QED
    BY <1>0, <2>1, LeavingListInv DEF AdminPlaces
<1>3. ASSUME UNCHANGED vars PROVE ListInv'
  <2>1. UNCHANGED <<heapVars, pc, arg, cell, prev, promised>>
    BY <1>3 DEF vars, heapVars
  <2>2. Listed' = Listed
    BY <2>1, ListKept DEF heapVars
  <2> QED
    BY <2>1, <2>2 DEF ListInv, ListSound, NamesUnique, NoJobLost, Inserting, Removing, Rule, InRemoval, heapVars
<1> QED
  BY <1>1, <1>2, <1>3

LEMMA ListInvInvariant ==
    ASSUME Orderly
    PROVE  Spec => []ListInv
<1>1. TypeInv /\ ListInv /\ [Next]_vars => ListInv'
  BY AdminListInv, OtherListInv DEF Next
<1> QED
  BY <1>1, InitListInv, TypeInvInvariant, PTL DEF Spec

(* Walking the list ends and meets live jobs only, whatever is registered  *)
(* and removed, as long as removals keep to the rule or there are none     *)
(* (__job_unregister_job unlinks before it releases).                      *)
THEOREM ListStaysSound ==
    ASSUME Orderly
    PROVE  Spec => []ListSound
BY ListInvInvariant, PTL DEF ListInv

(* No two jobs in the list have the same name: the walk in                 *)
(* __job_register_job and the insertion are one critical section.          *)
THEOREM NamesAreUnique ==
    ASSUME Orderly
    PROVE  Spec => []NamesUnique
BY ListInvInvariant, PTL DEF ListInv

(* A job whose registration succeeded stays in the list until someone      *)
(* begins to remove it.                                                    *)
THEOREM JobsAreKept ==
    ASSUME Orderly
    PROVE  Spec => []NoJobLost
BY ListInvInvariant, PTL DEF ListInv

-----------------------------------------------------------------------------
(* The cells a walk has yet to print. *)
ToCome(t) ==
    IF pc[t] = "walk" THEN Chain(pn, cell[t])
    ELSE IF pc[t] = "printed" THEN Chain(pn, pn[cell[t]])
    ELSE {}

(* A walk is in the list; what it has to print and has not printed is yet  *)
(* to come; what it has printed is not to come again.                      *)
WalkSound(t) ==
    /\ pc[t] # "walked" => cell[t] \in Listed
    /\ \A n \in stayed[t] :
         \/ RoleOf[n] \notin Shown[arg[t]]
         \/ \E i \in 1..Len(rows[t]) : rows[t][i] = n
         \/ \E x \in ToCome(t) : name[x] = n
    /\ \A i \in 1..Len(rows[t]) :
         /\ RoleOf[rows[t][i]] \in Shown[arg[t]]
         /\ \E x \in Listed \ ToCome(t) : name[x] = rows[t][i]
         /\ \A k \in 1..Len(rows[t]) : rows[t][i] = rows[t][k] => i = k

Walking == \A t \in Walkers : pc[t] \in WalkPlaces => WalkSound(t)

(* While nothing is removed, what a walk has seen and will see stays.      *)
LEMMA ListGrows ==
    ASSUME TypeInv, ListInv, MayUnregister = {}, NEW t \in Admins, Admin(t)
    PROVE  /\ pc[t] \notin WalkPlaces /\ pc'[t] \notin WalkPlaces
           /\ \A u \in Tasks \ {t} : pc'[u] = pc[u] /\ arg'[u] = arg[u] /\ cell'[u] = cell[u]
           /\ UNCHANGED <<rows, stayed>>
           /\ Listed \subseteq Listed'
           /\ \A x \in Listed : /\ name'[x] = name[x] /\ pn'[x] = pn[x]
                                /\ Chain(pn', x) = Chain(pn, x)
                                /\ Chain(pn', pn[x]) = Chain(pn, pn[x])
<1>0. /\ t \in Tasks /\ Listed \subseteq Cells /\ Listed \subseteq allocated
      /\ pc \in [Tasks -> {"idle", "insert", "log", "test", "unlink", "free", "lookup", "walk", "printed", "walked"}]
      /\ arg \in [Tasks -> Names \cup Walks \cup {NULL}]
      /\ cell \in [Tasks -> Cells \cup {NULL}]
      /\ name \in [Cells -> Names \cup {NULL}]
      /\ pc[t] \notin {"test", "unlink", "free"}
  BY ListTyped DEF TypeInv, TypeOK, Kinds, Tasks, ListInv, ListSound
<1>1. ASSUME NEW n \in Names, NEW x \in Cells, RegisterAlloc(t, n, x)
      PROVE  /\ pc[t] = "idle" /\ pc'[t] = "insert"
             /\ \A u \in Tasks \ {t} : pc'[u] = pc[u] /\ arg'[u] = arg[u] /\ cell'[u] = cell[u]
             /\ UNCHANGED <<rows, stayed, head, pn>>
             /\ \A y \in Listed : name'[y] = name[y]
  BY <1>0, <1>1 DEF RegisterAlloc, Begin, Goto, walkVars
<1>2. ASSUME RegisterDuplicate(t) \/ RegisterLog(t)
      PROVE  /\ pc[t] \in AdminPlaces /\ pc'[t] = "idle"
             /\ \A u \in Tasks \ {t} : pc'[u] = pc[u] /\ arg'[u] = arg[u] /\ cell'[u] = cell[u]
             /\ UNCHANGED <<rows, stayed, head, pn, name>>
  BY <1>0, <1>2 DEF RegisterDuplicate, RegisterLog, Goto, Return, walkVars, heapVars, AdminPlaces
<1>3. CASE RegisterInsert(t)
  <2>1. /\ pc[t] = "insert" /\ pc'[t] = "log"
        /\ \A u \in Tasks \ {t} : pc'[u] = pc[u]
        /\ UNCHANGED <<rows, stayed, name, arg, cell>>
    BY <1>0, <1>3 DEF RegisterInsert, Goto, walkVars
  <2> QED
    BY <1>0, <1>3, <2>1, InsertList DEF WalkPlaces
<1>4. ASSUME UNCHANGED <<head, pn>>
      PROVE  /\ Listed' = Listed
             /\ \A x \in Listed : /\ pn'[x] = pn[x] /\ Chain(pn', x) = Chain(pn, x)
                                  /\ Chain(pn', pn[x]) = Chain(pn, pn[x])
  BY <1>4, ListKept
<1>5. ~\E n \in Names : UnregisterFind(t, n)
  BY DEF UnregisterFind
<1>6. ~(UnregisterProhibited(t) \/ UnregisterTest(t) \/ UnregisterUnlink(t) \/ UnregisterFree(t))
  BY <1>0 DEF UnregisterProhibited, UnregisterTest, UnregisterUnlink, UnregisterFree
<1> QED
  BY <1>1, <1>2, <1>3, <1>4, <1>5, <1>6 DEF Admin, WalkPlaces, AdminPlaces

LEMMA WalkUndisturbed ==
    ASSUME NEW u \in Walkers, pc[u] \in WalkPlaces, WalkSound(u),
           pc'[u] = pc[u], arg'[u] = arg[u], cell'[u] = cell[u],
           rows'[u] = rows[u], stayed'[u] = stayed[u],
           TypeInv, ListInv, Listed \subseteq Listed',
           \A x \in Listed : /\ name'[x] = name[x] /\ pn'[x] = pn[x]
                             /\ Chain(pn', x) = Chain(pn, x)
                             /\ Chain(pn', pn[x]) = Chain(pn, pn[x])
    PROVE  WalkSound(u)'
<1>1. pc[u] # "walked" => cell[u] \in Listed
  BY DEF WalkSound
<1>2. ToCome(u)' = ToCome(u)
  BY <1>1 DEF ToCome, WalkPlaces
<1>3. ToCome(u) \subseteq Listed
  <2>1. \A x \in Listed : Chain(pn, x) \subseteq Listed /\ Chain(pn, pn[x]) \subseteq Listed
    BY ListTyped, ChainOfNext DEF Listed
  <2> QED
    BY <1>1, <2>1 DEF ToCome, WalkPlaces
<1> QED
  BY <1>1, <1>2, <1>3 DEF WalkSound

(* A step of the walk itself. *)
LEMMA WalkStep ==
    ASSUME TypeInv, ListInv, Walking, NEW t \in Walkers,
           (\E w \in Walks : WalkStart(t, w)) \/ WalkPrint(t) \/ WalkNext(t)
    PROVE  WalkSound(t)'
<1>0. /\ t \in Tasks /\ Listed \subseteq Cells /\ pn \in Pointers
      /\ pc \in [Tasks -> {"idle", "insert", "log", "test", "unlink", "free", "lookup", "walk", "printed", "walked"}]
      /\ arg \in [Tasks -> Names \cup Walks \cup {NULL}]
      /\ cell \in [Tasks -> Cells \cup {NULL}]
      /\ rows \in [Walkers -> Seq(Names)]
      /\ stayed \in [Walkers -> SUBSET Names]
      /\ \A x \in Listed : name[x] \in Names /\ pn[x] \in Listed \cup {NULL}
  BY ListTyped DEF TypeInv, TypeOK, Tasks
<1>1. ASSUME NEW w \in Walks, WalkStart(t, w) PROVE WalkSound(t)'
  <2>1. /\ pc'[t] = "walk" /\ cell'[t] = head /\ head # NULL
        /\ rows'[t] = <<>> /\ stayed'[t] = {name[x] : x \in Listed}
        /\ UNCHANGED <<head, pn, name>>
    BY <1>0, <1>1 DEF WalkStart, Goto, heapVars
  <2>2. Listed' = Listed /\ ToCome(t)' = Listed
    BY <2>1, ListKept DEF ToCome, Listed
  <2>3. head \in Listed
    BY <2>1, ListTyped
  <2> QED
    BY <2>1, <2>2, <2>3 DEF WalkSound
<1>2. CASE WalkPrint(t)
  <2> DEFINE x == cell[t]
             n == name[x]
  <2>1. /\ pc[t] = "walk" /\ pc'[t] = "printed" /\ cell'[t] = x /\ arg'[t] = arg[t]
        /\ stayed'[t] = stayed[t]
        /\ rows'[t] = IF RoleOf[n] \in Shown[arg[t]] THEN Append(rows[t], n) ELSE rows[t]
        /\ UNCHANGED <<head, pn, name>>
    BY <1>0, <1>2 DEF WalkPrint, Goto, heapVars
  <2>2. WalkSound(t)
    BY <2>1 DEF Walking, WalkPlaces
  <2>3. x \in Listed /\ n \in Names
    BY <1>0, <2>1, <2>2 DEF WalkSound
  <2>4. ToCome(t) = {x} \cup ToCome(t)' /\ x \notin ToCome(t)' /\ ToCome(t) \subseteq Listed
    <3>1. ToCome(t) = Chain(pn, x) /\ ToCome(t)' = Chain(pn, pn[x])
      BY <2>1 DEF ToCome
    <3>2. x \notin Chain(pn, pn[x])
      BY <2>3 DEF ListInv, ListSound
    <3>3. Chain(pn, x) = {x} \cup Chain(pn, pn[x])
      BY <1>0, <2>3, ChainStep
    <3>4. Chain(pn, x) \subseteq Listed
      BY <1>0, <2>3, ListTyped, ChainOfNext DEF Listed
    <3> QED
      BY <3>1, <3>2, <3>3, <3>4
  <2>5. Listed' = Listed
    BY <2>1, ListKept
  <2>6. rows[t] \in Seq(Names) /\ Len(rows[t]) \in Nat
    BY <1>0
  <2> HIDE DEF x, n
  <2>7. CASE RoleOf[n] \notin Shown[arg[t]]
    <3>1. \A m \in stayed[t] :
             \/ RoleOf[m] \notin Shown[arg[t]]
             \/ \E i \in 1..Len(rows[t]) : rows[t][i] = m
             \/ \E y \in ToCome(t)' : name[y] = m
      BY <2>2, <2>4, <2>7 DEF WalkSound, n
    <3> QED
      BY <2>1, <2>2, <2>3, <2>4, <2>5, <2>7, <3>1 DEF WalkSound
  <2>8. CASE RoleOf[n] \in Shown[arg[t]]
    <3> DEFINE l == Len(rows[t])
    <3>1. /\ Len(rows'[t]) = l + 1 /\ rows'[t][l + 1] = n
          /\ \A i \in 1..l : rows'[t][i] = rows[t][i]
          /\ 1..(l + 1) = 1..l \cup {l + 1} /\ l + 1 \notin 1..l
      BY <2>1, <2>3, <2>6, <2>8
    <3>2. \A i \in 1..l : rows[t][i] # n
      BY <2>2, <2>3, <2>4 DEF WalkSound, ListInv, NamesUnique, n
    <3>3. \A m \in stayed[t] :
             \/ RoleOf[m] \notin Shown[arg[t]]
             \/ \E i \in 1..Len(rows'[t]) : rows'[t][i] = m
             \/ \E y \in ToCome(t)' : name[y] = m
      <4> SUFFICES ASSUME NEW m \in stayed[t], RoleOf[m] \in Shown[arg[t]],
                          \A y \in ToCome(t)' : name[y] # m
                   PROVE  \E i \in 1..Len(rows'[t]) : rows'[t][i] = m
        OBVIOUS
      <4>1. m = n \/ \E i \in 1..l : rows[t][i] = m
        BY <2>2, <2>4 DEF WalkSound, n
      <4> HIDE DEF l
      <4> QED
        BY <3>1, <4>1
    <3> HIDE DEF l
    <3>4. \A i \in 1..(l + 1) :
             /\ RoleOf[rows'[t][i]] \in Shown[arg[t]]
             /\ \E y \in Listed \ ToCome(t)' : name[y] = rows'[t][i]
      BY <2>2, <2>3, <2>4, <2>8, <3>1 DEF WalkSound, l, n
    <3>5. \A i, k \in 1..(l + 1) : rows'[t][i] = rows'[t][k] => i = k
      BY <2>2, <3>1, <3>2 DEF WalkSound, l
    <3> QED
      BY <2>1, <2>3, <2>5, <3>1, <3>3, <3>4, <3>5 DEF WalkSound
  <2> QED
    BY <2>7, <2>8
<1>3. CASE WalkNext(t)
  <2>1. /\ pc[t] = "printed" /\ cell'[t] = pn[cell[t]]
        /\ pc'[t] = IF pn[cell[t]] = NULL THEN "walked" ELSE "walk"
        /\ arg'[t] = arg[t] /\ stayed'[t] = stayed[t] /\ rows'[t] = rows[t]
        /\ UNCHANGED <<head, pn, name>>
    BY <1>0, <1>3 DEF WalkNext, Advanced, Goto, heapVars, walkVars
  <2>2. WalkSound(t)
    BY <2>1 DEF Walking, WalkPlaces
  <2>3. cell[t] \in Listed /\ pn[cell[t]] \in Listed \cup {NULL}
    BY <1>0, <2>1, <2>2 DEF WalkSound
  <2>4. ToCome(t)' = ToCome(t)
    BY <1>0, <2>1, ChainOfNull DEF ToCome
  <2>5. Listed' = Listed
    BY <2>1, ListKept
  <2> QED
    BY <2>1, <2>2, <2>3, <2>4, <2>5 DEF WalkSound
<1> QED
  BY <1>1, <1>2, <1>3

LEMMA WalkingStep ==
    ASSUME TypeInv, ListInv, Walking, MayUnregister = {}, [Next]_vars
    PROVE  Walking'
<1> SUFFICES ASSUME NEW u \in Walkers, pc'[u] \in WalkPlaces
             PROVE  WalkSound(u)'
  BY DEF Walking
<1>0. /\ pc \in [Tasks -> {"idle", "insert", "log", "test", "unlink", "free", "lookup", "walk", "printed", "walked"}]
      /\ arg \in [Tasks -> Names \cup Walks \cup {NULL}]
      /\ cell \in [Tasks -> Cells \cup {NULL}]
      /\ rows \in [Walkers -> Seq(Names)]
      /\ stayed \in [Walkers -> SUBSET Names]
      /\ u \in Tasks /\ Readers \subseteq Tasks /\ Walkers \subseteq Tasks
  BY DEF TypeInv, TypeOK, Tasks
<1>1. ASSUME UNCHANGED <<head, pn, name>>,
             pc'[u] = pc[u], arg'[u] = arg[u], cell'[u] = cell[u],
             rows'[u] = rows[u], stayed'[u] = stayed[u]
      PROVE  WalkSound(u)'
  <2>1. WalkSound(u)
    BY <1>1 DEF Walking
  <2>2. Listed' = Listed
    BY <1>1, ListKept
  <2> QED
    BY <1>1, <2>1, <2>2, WalkUndisturbed
<1>2. CASE UNCHANGED vars
  BY <1>1, <1>2 DEF vars, walkVars
<1>3. ASSUME NEW t \in Admins, Admin(t) PROVE WalkSound(u)'
  <2>1. u # t /\ pc'[u] = pc[u] /\ arg'[u] = arg[u] /\ cell'[u] = cell[u]
        /\ rows'[u] = rows[u] /\ stayed'[u] = stayed[u]
    BY <1>0, <1>3, ListGrows
  <2>2. WalkSound(u)
    BY <2>1 DEF Walking
  <2> QED
    BY <1>3, <2>1, <2>2, ListGrows, WalkUndisturbed
<1>4. ASSUME NEW t \in Readers, LookupJob(t) \/ \E n \in Names : LookupCall(t, n)
      PROVE  WalkSound(u)'
  <2>1. /\ pc'[t] \notin WalkPlaces
        /\ \A v \in Tasks \ {t} : pc'[v] = pc[v] /\ arg'[v] = arg[v] /\ cell'[v] = cell[v]
        /\ UNCHANGED <<head, pn, name, rows, stayed>>
    BY <1>0, <1>4 DEF LookupJob, LookupCall, Goto, Return, heapVars, walkVars, WalkPlaces
  <2> QED
    BY <1>0, <1>1, <2>1
<1>5. ASSUME NEW t \in Walkers,
             (\E w \in Walks : WalkStart(t, w)) \/ WalkPrint(t) \/ WalkNext(t) \/ WalkReturn(t)
      PROVE  WalkSound(u)'
  <2>1. /\ \A v \in Tasks \ {t} : pc'[v] = pc[v] /\ arg'[v] = arg[v] /\ cell'[v] = cell[v]
        /\ \A v \in Walkers \ {t} : rows'[v] = rows[v] /\ stayed'[v] = stayed[v]
        /\ UNCHANGED <<head, pn, name>>
    BY <1>0, <1>5 DEF WalkStart, WalkPrint, WalkNext, WalkReturn, Goto, Return, heapVars, walkVars
  <2>2. CASE u # t
    BY <1>0, <1>1, <2>1, <2>2
  <2>3. CASE u = t
    <3>1. ~WalkReturn(t)
      BY <1>0, <2>3 DEF WalkReturn, Return, Goto, WalkPlaces
    <3> QED
      BY <1>5, <2>3, <3>1, WalkStep
  <2> QED
    BY <2>2, <2>3
<1> QED
  BY <1>2, <1>3, <1>4, <1>5 DEF Next

LEMMA WalkingInvariant ==
    ASSUME MayUnregister = {}
    PROVE  Spec => []Walking
<1>1. Init => Walking
  BY DEF Init, Walking, WalkPlaces, Tasks
<1>2. Orderly
  BY DEF Orderly
<1> QED
  BY <1>1, <1>2, WalkingStep, TypeInvInvariant, ListInvInvariant, PTL DEF Spec

(* While jobs are registered and none is removed, help and stats print     *)
(* every job that was there when they began and whose role they show, no   *)
(* job twice and no other role (base_jobs.h), although they hold no lock.  *)
THEOREM ReportsAreComplete ==
    ASSUME MayUnregister = {}
    PROVE  Spec => []ReportComplete
<1>1. TypeInv /\ Walking => ReportComplete
  <2> SUFFICES ASSUME TypeInv, Walking, NEW t \in Walkers, pc[t] = "walked"
               PROVE  /\ {n \in stayed[t] : RoleOf[n] \in Shown[arg[t]]}
                           \subseteq {rows[t][i] : i \in DOMAIN rows[t]}
                      /\ \A i, k \in DOMAIN rows[t] :
                           RoleOf[rows[t][i]] \in Shown[arg[t]] /\ (rows[t][i] = rows[t][k] => i = k)
    BY DEF ReportComplete
  <2>1. WalkSound(t) /\ ToCome(t) = {}
    BY DEF Walking, WalkPlaces, ToCome
  <2>2. DOMAIN rows[t] = 1..Len(rows[t])
    BY LenProperties DEF TypeInv, TypeOK
  <2> QED
    BY <2>1, <2>2 DEF WalkSound
<1> QED
  BY <1>1, WalkingInvariant, TypeInvInvariant, PTL

-----------------------------------------------------------------------------
(* The list is a set of names. *)

(* Only an insertion and an unlinking change the list; name it.            *)
LEMMA OtherwiseListed ==
    ASSUME TypeInv, ListInv, [Next]_vars,
           \A t \in Tasks : ~RegisterInsert(t) /\ ~UnregisterUnlink(t)
    PROVE  Listed' = Listed /\ \A x \in Listed : name'[x] = name[x]
<1>0. Listed \subseteq Cells /\ Listed \subseteq allocated
  BY ListTyped DEF ListInv, ListSound
<1>1. UNCHANGED <<head, pn>> /\ \A x \in Listed : name'[x] = name[x]
  <2>1. CASE UNCHANGED vars
    BY <2>1 DEF vars
  <2>2. ASSUME NEW t \in Admins, Admin(t)
        PROVE  UNCHANGED <<head, pn>> /\ \A x \in Listed : name'[x] = name[x]
    <3>1. ASSUME NEW n \in Names, NEW x \in Cells, RegisterAlloc(t, n, x)
          PROVE  UNCHANGED <<head, pn>> /\ \A y \in Listed : name'[y] = name[y]
      <4>1. x \notin Listed /\ UNCHANGED <<head, pn>> /\ name' = [name EXCEPT ![x] = n]
        BY <1>0, <3>1 DEF RegisterAlloc
      <4>2. name \in [Cells -> Names \cup {NULL}]
        BY DEF TypeInv, TypeOK
      <4> QED
        BY <1>0, <4>1, <4>2
    <3>2. ASSUME \/ \E n \in Names : UnregisterFind(t, n)
                 \/ RegisterLog(t) \/ UnregisterProhibited(t) \/ UnregisterTest(t)
          PROVE  UNCHANGED <<head, pn, name>>
      BY <3>2 DEF UnregisterFind, RegisterLog, UnregisterProhibited, UnregisterTest, heapVars
    <3>3. ASSUME RegisterDuplicate(t) \/ UnregisterFree(t)
          PROVE  UNCHANGED <<head, pn, name>>
      BY <3>3 DEF RegisterDuplicate, UnregisterFree
    <3>4. t \in Tasks
      BY DEF Tasks
    <3> QED
      BY <2>2, <3>1, <3>2, <3>3, <3>4 DEF Admin
  <2>3. ASSUME NEW t \in Tasks,
               \/ LookupJob(t) \/ \E n \in Names : LookupCall(t, n)
               \/ \E w \in Walks : WalkStart(t, w)
               \/ WalkPrint(t) \/ WalkNext(t) \/ WalkReturn(t)
        PROVE  UNCHANGED <<head, pn, name>>
    BY <2>3 DEF LookupJob, LookupCall, WalkStart, WalkPrint, WalkNext, WalkReturn, heapVars
  <2> QED
    BY <2>1, <2>2, <2>3 DEF Next, Tasks
<1> QED
  BY <1>1, ListKept

LEMMA RegistryStep ==
    ASSUME TypeInv, ListInv, [Next]_vars
    PROVE  [Registry!Next]_({name[x] : x \in Listed})
<1> DEFINE names == {name[x] : x \in Listed}
<1> SUFFICES \/ names' = names
             \/ \E n \in Names : \/ n \notin names /\ names' = names \cup {n}
                                 \/ n \in names /\ names' = names \ {n}
  BY DEF Registry!Next, Registry!Add, Registry!Remove
<1>1. ASSUME NEW t \in Tasks, RegisterInsert(t)
      PROVE  \E n \in Names : n \notin names /\ names' = names \cup {n}
  <2>1. Listed' = Listed \cup {cell[t]} /\ name' = name
    BY <1>1, InsertList DEF RegisterInsert
  <2>2. name[cell[t]] = arg[t] /\ ~Duplicate(t)
    BY <1>1 DEF RegisterInsert, ListInv, Inserting
  <2>3. name[cell[t]] \in Names
    BY <1>1 DEF RegisterInsert, TypeInv, TypeOK, Named
  <2>4. name[cell[t]] \notin names
    BY <2>2 DEF Duplicate, Match
  <2>5. names' = names \cup {name[cell[t]]}
    BY <2>1
  <2> QED
    BY <2>3, <2>4, <2>5
<1>2. ASSUME NEW t \in Tasks, UnregisterUnlink(t)
      PROVE  \E n \in Names : n \in names /\ names' = names \ {n}
  <2>1. Listed' = Listed \ {cell[t]} /\ name' = name
    BY <1>2, UnlinkList DEF UnregisterUnlink
  <2>2. cell[t] \in Listed
    BY <1>2 DEF UnregisterUnlink, ListInv, Removing
  <2>3. name[cell[t]] \in names /\ name[cell[t]] \in Names
    BY <2>2, ListTyped
  <2>4. names' = names \ {name[cell[t]]}
    BY <2>1, <2>2 DEF ListInv, NamesUnique
  <2> QED
    BY <2>3, <2>4
<1>3. CASE \A t \in Tasks : ~RegisterInsert(t) /\ ~UnregisterUnlink(t)
  BY <1>3, OtherwiseListed
<1> QED
  BY <1>1, <1>2, <1>3

(* The list implements a set of names: a name is added at most once, stays *)
(* until it is removed, and every other step leaves the set alone.         *)
THEOREM ListImplementsRegistry ==
    ASSUME Orderly
    PROVE  Spec => ImplementsRegistry
<1>1. Init => Registry!Init
  <2> SUFFICES ASSUME Init PROVE Listed = {}
    BY DEF Registry!Init
  <2> QED
    BY InitTypeInv, ChainOfNull, ListTyped DEF Init, Listed
<1>2. TypeInv /\ ListInv /\ [Next]_vars => [Registry!Next]_({name[x] : x \in Listed})
  BY RegistryStep
<1> QED
  BY <1>1, <1>2, TypeInvInvariant, ListInvInvariant, PTL DEF Spec, ImplementsRegistry, Registry!Spec

=============================================================================
