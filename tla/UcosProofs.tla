----------------------------- MODULE UcosProofs -----------------------------
(***************************************************************************)
(* Proofs about UcosEvents for every number of tasks, priorities, events   *)
(* and messages, every delay and two kinds of programs: those without a    *)
(* mutex in which a task changes no priority but its own, and those with   *)
(* one mutex whose tasks wait without a timeout, are not suspended, keep   *)
(* their priorities and do not sleep with the scheduler locked.  Without   *)
(* any one of these limits TLC finds an invariant of UcosEvents violated.  *)
(***************************************************************************)
EXTENDS UcosEvents, WellFoundedInduction, FiniteSetTheorems, SequenceTheorems, TLAPS

-----------------------------------------------------------------------------

\* Programs without a mutex.
Plain(a) ==
    /\ "changePrio" \notin a.calls
    /\ \A e \in Events : a.kinds[e] # "mutex"

\* Programs with a mutex: it lends a priority above every task's, a task waits
\* without a timeout, is not suspended, keeps the priority it was created with
\* and does not sleep with the scheduler locked.
Inheriting(a) ==
    /\ a.calls \cap {"suspend", "changePrio", "changeOwnPrio"} = {}
    /\ ~({"lock", "delay"} \subseteq a.calls)
    /\ a.timeouts \subseteq {0}
    /\ \A d, e \in Events : a.kinds[d] = "mutex" /\ a.kinds[e] = "mutex" => d = e
    /\ \A e \in Events : a.kinds[e] = "mutex" =>
          a.pip[e] \in 0 .. (Lowest - 1) /\ \A t \in Tasks : a.pip[e] < FirstPrio[t]

\* The programs the theorems are about.
Sound(a) == a \in App /\ (Plain(a) \/ Inheriting(a))

(***************************************************************************)
(* The parts of the inductive invariant.                                   *)
(***************************************************************************)
Types ==
    /\ tcb \in [Tasks -> TaskBlocks]
    /\ rdy \in SUBSET Prios
    /\ prioTbl \in [Prios -> Tasks \cup {Nil, Idle, Reserved}]
    /\ cur \in Tasks \cup {Idle}
    /\ prioCur \in Prios
    /\ lock \in 0 .. MaxNesting
    /\ pos \in [Tasks -> {"user", "sched", "schedPend", "pend"}]
    /\ evt \in [Events -> EventBlocks]
    /\ owed \in [Events -> [Messages -> Int]]

\* What an event stores fits, and a semaphore stores nothing but its units.
Buffers ==
    \A e \in Events :
       /\ evt[e].kind = app.kinds[e]
       /\ evt[e].kind # "unused" => Len(evt[e].buf) <= Capacity[evt[e].kind]
       /\ evt[e].kind = "sem" => \A i \in 1 .. Len(evt[e].buf) : evt[e].buf[i] = Token

\* The priority table and the tasks' blocks are inverse to each other (but for
\* the priority an owner has while it runs at its mutex's), and the ready list
\* holds priorities of tasks.
Tables ==
    /\ Plain(app) => \A p \in Prios : prioTbl[p] \in Tasks => tcb[prioTbl[p]].prio = p
    /\ \A p \in rdy : /\ prioTbl[p] \in Tasks \cup {Idle}
                      /\ prioTbl[p] \in Tasks => tcb[prioTbl[p]].prio = p
    /\ Lowest \in rdy /\ prioTbl[Lowest] = Idle

\* The running task.  OSPrioCur is stale after a task has changed its own
\* priority or gone back to it, and then no task has the priority it names.
Processor ==
    /\ prioTbl[prioCur] \in {cur, Nil, Reserved}
    /\ lock = 0 /\ (cur \in Tasks => pos[cur] \in {"user", "pend"}) =>
          prioCur = Highest(rdy) /\ cur = prioTbl[prioCur]
    /\ lock > 0 => cur \in Tasks /\ pos[cur] \in {"user", "sched"}

InPend(t) == pos[t] \in {"schedPend", "pend"}

Mutex(e) == app.kinds[e] = "mutex"

\* A block points at an event exactly while its task is in a Pend.
Block(t) ==
    /\ tcb[t].evp = Nil <=> ~InPend(t)
    /\ tcb[t].evp = Nil => ~Pending(t) /\ tcb[t].outcome = "ok"
    /\ Pending(t) => tcb[t].outcome = "ok"
    /\ tcb[t].evp # Nil /\ ~Pending(t) => tcb[t].dly = 0
    /\ tcb[t].evp # Nil /\ ~Mutex(tcb[t].evp) /\ ~Pending(t) /\ tcb[t].outcome = "ok" =>
          tcb[t].msg \in Messages

Blocks == \A t \in Tasks : Block(t)

Kernel == Tables /\ ReadyListTruthful /\ Processor

\* What holds whether the program has a mutex or not.
Common ==
    /\ Sound(app)
    /\ Types /\ Buffers
    /\ Kernel
    /\ Blocks /\ WaitListTruthful /\ NothingLost

\* In a program with a mutex every wait is for an event and ends with it.
Calm ==
    /\ \A t \in Tasks : /\ ~Suspended(t) /\ tcb[t].outcome # "to"
                        /\ Pending(t) => tcb[t].dly = 0
    /\ lock > 0 => "lock" \in app.calls /\ tcb[cur].dly = 0

\* The owner has its own priority, or somebody waits and it has the mutex's.
Owned(e) ==
    /\ evt[e].mprio = FirstPrio[evt[e].owner]
    /\ \/ tcb[evt[e].owner].prio = evt[e].mprio /\ prioTbl[evt[e].pip] = Reserved
       \/ tcb[evt[e].owner].prio = evt[e].pip /\ evt[e].wait # {}
    /\ \A p \in evt[e].wait : tcb[evt[e].owner].prio <= p

Free(e) == evt[e].wait = {} /\ prioTbl[evt[e].pip] = Reserved

\* Everybody else keeps the priority it was created with.
MutexTruthful(e) ==
    /\ evt[e].pip = app.pip[e]
    /\ evt[e].owner = Nil <=> evt[e].mprio = Available
    /\ IF evt[e].owner = Nil THEN Free(e) ELSE Owned(e)
    /\ \A t \in Tasks : /\ t # evt[e].owner => tcb[t].prio = FirstPrio[t]
                        /\ prioTbl[FirstPrio[t]] = t
    /\ \A m \in Messages : owed[e][m] \in Nat

Lending == Inheriting(app) => Calm /\ \A e \in Events : Mutex(e) => MutexTruthful(e)

IInv == Common /\ Lending

-----------------------------------------------------------------------------
(***************************************************************************)
(* Constants, minima and counts.                                           *)
(***************************************************************************)

LEMMA Constants ==
    /\ Nil \notin Tasks /\ Idle \notin Tasks /\ Reserved \notin Tasks
    /\ Nil # Idle /\ Nil # Reserved /\ Idle # Reserved
    /\ Nil \notin Events /\ Nil \notin Messages /\ Token \in Messages
    /\ Lowest \in Nat /\ MaxDelay \in Nat /\ MaxDelay >= 1 /\ MaxNesting \in Nat
    /\ FirstPrio \in [Tasks -> 0 .. (Lowest - 1)]
    /\ \A t, u \in Tasks : FirstPrio[t] = FirstPrio[u] => t = u
  BY KernelAssumption DEF KernelAssumption

LEMMA Capacities ==
    ASSUME NEW k \in Kinds \ {"unused"}
    PROVE  Capacity[k] \in Nat
  BY EventsAssumption DEF EventsAssumption, Kinds

\* No two tasks are created with the same priority, so there are finitely many.
LEMMA TasksFinite == IsFiniteSet(Tasks)
<1>1. IsFiniteSet(0 .. (Lowest - 1))
  BY Constants, FS_Interval
<1>2. FirstPrio \in Injection(Tasks, 0 .. (Lowest - 1))
  BY Constants DEF Injection, IsInjective
<1>. QED  BY <1>1, <1>2, FS_Injection

\* A set of natural numbers that is not empty has a least element.
LEMMA Least ==
  ASSUME NEW S \in SUBSET Nat, S # {}
  PROVE  Min(S) \in S /\ \A n \in S : Min(S) <= n
<1>1. PICK x \in S : \A y \in S : ~ (<<y, x>> \in OpToRel(<, Nat))
  BY NatLessThanWellFounded, WFMin, Zenon
<1>2. ASSUME NEW y \in S PROVE x <= y
  <2>1. ~ (<<y, x>> \in {ss \in Nat \X Nat : ss[1] < ss[2]})
    BY <1>1 DEF OpToRel
  <2>. QED  BY <2>1
<1>. QED  BY <1>2 DEF Min

LEMMA HighestIs ==
  ASSUME NEW ready \in SUBSET Prios, ready # {}
  PROVE  Highest(ready) \in ready /\ \A p \in ready : Highest(ready) <= p
<1>1. ready \in SUBSET Nat
  BY Constants DEF Prios
<1>. QED  BY <1>1, Least DEF Highest

LEMMA HighestWithout ==
  ASSUME NEW ready \in SUBSET Prios, ready # {}, NEW p, p # Highest(ready)
  PROVE  Highest(ready \ {p}) = Highest(ready)
<1>. DEFINE rest == ready \ {p}
<1>1. Highest(ready) \in ready /\ \A q \in ready : Highest(ready) <= q
  BY HighestIs
<1>2. rest \in SUBSET Prios /\ Highest(ready) \in rest
  BY <1>1
<1>3. rest \subseteq ready
  OBVIOUS
<1>. HIDE DEF rest
<1>4. Highest(rest) \in rest /\ \A q \in rest : Highest(rest) <= q
  BY <1>2, HighestIs
<1>5. Highest(rest) <= Highest(ready) /\ Highest(ready) <= Highest(rest)
  BY <1>1, <1>2, <1>3, <1>4
<1>6. Highest(ready) \in Int /\ Highest(rest) \in Int
  <2>1. Prios \subseteq Int
    BY DEF Prios
  <2>. QED  BY <1>2, <1>4, <2>1
<1>7. Highest(rest) = Highest(ready)
  BY <1>5, <1>6
<1>. QED  BY <1>7 DEF rest

\* How often m occurs in s.
Count(s, m) == Cardinality({i \in DOMAIN s : s[i] = m})

LEMMA CountEmpty == ASSUME NEW m PROVE Count(<<>>, m) = 0
<1>1. {i \in DOMAIN <<>> : <<>>[i] = m} = {}
  OBVIOUS
<1>. QED  BY <1>1, FS_EmptySet DEF Count

LEMMA PlacesFinite ==
  ASSUME NEW s \in Seq(Messages), NEW m
  PROVE  IsFiniteSet({i \in DOMAIN s : s[i] = m}) /\ Count(s, m) \in Nat
<1>1. DOMAIN s = 1 .. Len(s) /\ Len(s) \in Nat
  OBVIOUS
<1>2. IsFiniteSet(1 .. Len(s))
  BY <1>1, FS_Interval
<1>3. IsFiniteSet({i \in DOMAIN s : s[i] = m})
  BY <1>1, <1>2, FS_Subset
<1>. QED  BY <1>3, FS_CardinalityType DEF Count

LEMMA CountAppend ==
  ASSUME NEW s \in Seq(Messages), NEW x \in Messages, NEW m
  PROVE  Count(Append(s, x), m) = IF x = m THEN Count(s, m) + 1 ELSE Count(s, m)
<1>. DEFINE P == {i \in DOMAIN s : s[i] = m}
            Q == {i \in DOMAIN Append(s, x) : Append(s, x)[i] = m}
<1>1. Q = IF x = m THEN P \cup {Len(s) + 1} ELSE P
  OBVIOUS
<1>2. Len(s) + 1 \notin P
  OBVIOUS
<1>3. IsFiniteSet(P)
  BY PlacesFinite
<1>. QED  BY <1>1, <1>2, <1>3, FS_AddElement DEF Count

LEMMA CountTail ==
  ASSUME NEW s \in Seq(Messages), s # <<>>, NEW m
  PROVE  Count(s, m) = IF Head(s) = m THEN Count(Tail(s), m) + 1 ELSE Count(Tail(s), m)
<1>. DEFINE P == {i \in DOMAIN Tail(s) : Tail(s)[i] = m}
            Q == {i \in DOMAIN s : s[i] = m}
            f == [i \in P |-> i + 1]
<1>1. Tail(s) \in Seq(Messages) /\ Len(Tail(s)) = Len(s) - 1 /\ Len(s) \in Nat
  OBVIOUS
<1>2. \A i \in 1 .. Len(s) - 1 : Tail(s)[i] = s[i + 1]
  OBVIOUS
<1>3. DOMAIN s = 1 .. Len(s) /\ DOMAIN Tail(s) = 1 .. Len(s) - 1
  BY <1>1
<1>4. f \in Bijection(P, Q \ {1})
  <2>1. f \in [P -> Q \ {1}]
    BY <1>1, <1>2, <1>3
  <2>2. \A i, j \in P : f[i] = f[j] => i = j
    BY <1>1, <1>3
  <2>3. ASSUME NEW j \in Q \ {1} PROVE \E i \in P : f[i] = j
    <3>1. j - 1 \in P
      BY <1>1, <1>2, <1>3
    <3>. QED  BY <3>1, <1>1, <1>3
  <2>. QED  BY <2>1, <2>2, <2>3 DEF Bijection, Injection, IsInjective, Surjection
<1>5. IsFiniteSet(P) /\ Cardinality(P) = Count(Tail(s), m)
  BY <1>1, PlacesFinite DEF Count
<1>6. Cardinality(Q \ {1}) = Cardinality(P)
  BY <1>4, <1>5, FS_Bijection DEF ExistsBijection
<1>7. IsFiniteSet(Q) /\ Cardinality(Q) = Count(s, m) /\ Count(s, m) \in Nat
  BY PlacesFinite DEF Count
<1>8. Cardinality(Q \ {1}) = IF 1 \in Q THEN Cardinality(Q) - 1 ELSE Cardinality(Q)
  BY <1>7, FS_RemoveElement
<1>9. 1 \in Q <=> Head(s) = m
  BY <1>1, <1>3
<1>. HIDE DEF P, Q
<1>. QED  BY <1>5, <1>6, <1>7, <1>8, <1>9

LEMMA CountPrepend ==
  ASSUME NEW s \in Seq(Messages), NEW x \in Messages, NEW m
  PROVE  Count(<<x>> \o s, m) = IF x = m THEN Count(s, m) + 1 ELSE Count(s, m)
<1>. DEFINE r == <<x>> \o s
<1>1. r \in Seq(Messages) /\ Len(r) = Len(s) + 1 /\ Head(r) = x /\ r # <<>>
  OBVIOUS
<1>2. Tail(r) = s
  <2>1. Tail(r) \in Seq(Messages) /\ Len(Tail(r)) = Len(s)
    BY <1>1
  <2>2. \A i \in 1 .. Len(s) : Tail(r)[i] = s[i]
    BY <1>1
  <2>. QED  BY <2>1, <2>2, SeqEqual
<1>. HIDE DEF r
<1>3. Count(r, m) = IF Head(r) = m THEN Count(Tail(r), m) + 1 ELSE Count(Tail(r), m)
  BY <1>1, CountTail
<1>. QED  BY <1>1, <1>2, <1>3 DEF r

\* A semaphore's units are its count.
LEMMA CountUnits ==
  ASSUME NEW s \in Seq(Messages), \A i \in 1 .. Len(s) : s[i] = Token, NEW m \in Messages
  PROVE  Count(s, m) = IF m = Token THEN Len(s) ELSE 0
<1>1. DOMAIN s = 1 .. Len(s) /\ Len(s) \in Nat
  OBVIOUS
<1>2. CASE m = Token
  <2>1. {i \in DOMAIN s : s[i] = m} = 1 .. Len(s)
    BY <1>1, <1>2
  <2>2. Cardinality(1 .. Len(s)) = Len(s)
    BY <1>1, FS_Interval
  <2>. QED  BY <1>2, <2>1, <2>2 DEF Count
<1>3. CASE m # Token
  <2>1. {i \in DOMAIN s : s[i] = m} = {}
    BY <1>1, <1>3
  <2>. QED  BY <1>3, <2>1, FS_EmptySet DEF Count
<1>. QED  BY <1>2, <1>3

-----------------------------------------------------------------------------
(***************************************************************************)
(* The initial state.                                                      *)
(***************************************************************************)

\* The priority table as OSStart finds it: no task has a mutex's priority.
LEMMA InitTable ==
  ASSUME Init, Sound(app)
  PROVE  /\ \A t \in Tasks : prioTbl[FirstPrio[t]] = t
         /\ \A p \in Prios : prioTbl[p] \in Tasks => FirstPrio[prioTbl[p]] = p
         /\ Lowest \in Prios /\ prioTbl[Lowest] = Idle
         /\ Inheriting(app) => \A e \in Events : Mutex(e) => prioTbl[app.pip[e]] = Reserved
<1>1. ASSUME NEW t \in Tasks PROVE prioTbl[FirstPrio[t]] = t
  <2>1. FirstPrio[t] \in Prios /\ FirstPrio[t] # Lowest /\ FirstPrio[t] \in Int
    BY Constants DEF Prios
  <2>2. ~ \E e \in Events : app.kinds[e] = "mutex" /\ app.pip[e] = FirstPrio[t]
    <3>1. CASE Plain(app)
      BY <3>1 DEF Plain
    <3>2. CASE Inheriting(app)
      BY <2>1, <3>2 DEF Inheriting
    <3>. QED  BY <3>1, <3>2 DEF Sound
  <2>3. prioTbl[FirstPrio[t]] = CHOOSE u \in Tasks : FirstPrio[u] = FirstPrio[t]
    BY <2>1, <2>2 DEF Init
  <2>. QED  BY <2>3, Constants
<1>2. ASSUME NEW p \in Prios, prioTbl[p] \in Tasks PROVE FirstPrio[prioTbl[p]] = p
  BY <1>2, Constants DEF Init
<1>3. Lowest \in Prios /\ prioTbl[Lowest] = Idle
  BY Constants DEF Init, Prios
<1>4. ASSUME Inheriting(app), NEW e \in Events, Mutex(e) PROVE prioTbl[app.pip[e]] = Reserved
  <2>1. app.pip[e] \in Prios /\ app.pip[e] # Lowest
    BY <1>4, Constants DEF Inheriting, Mutex, Prios
  <2>. QED  BY <1>4, <2>1 DEF Init, Mutex
<1>. QED  BY <1>1, <1>2, <1>3, <1>4

LEMMA InitTypes == Init /\ Sound(app) => Types
<1>. SUFFICES ASSUME Init, Sound(app) PROVE Types
  OBVIOUS
<1>1. tcb \in [Tasks -> TaskBlocks]
  BY Constants DEF Init, NewTask, TaskBlocks, Prios
<1>2. rdy \in SUBSET Prios /\ Lowest \in rdy
  BY Constants DEF Init, Prios
<1>3. prioTbl \in [Prios -> Tasks \cup {Nil, Idle, Reserved}]
  BY DEF Init
<1>4. \A p \in rdy : prioTbl[p] \in Tasks \cup {Idle}
  BY InitTable DEF Init
<1>5. Highest(rdy) \in rdy
  BY <1>2, HighestIs
<1>6. cur \in Tasks \cup {Idle} /\ prioCur \in Prios
  BY <1>2, <1>4, <1>5 DEF Init
<1>7. pos \in [Tasks -> {"user", "sched", "schedPend", "pend"}] /\ lock \in 0 .. MaxNesting
  BY Constants DEF Init
<1>8. evt \in [Events -> EventBlocks]
  BY DEF Init, EventBlocks, Sound, App
<1>9. owed \in [Events -> [Messages -> Int]]
  BY DEF Init
<1>. QED  BY <1>1, <1>2, <1>3, <1>6, <1>7, <1>8, <1>9 DEF Types

LEMMA InitCommon == Init /\ Sound(app) => Common
<1>. SUFFICES ASSUME Init, Sound(app) PROVE Common
  OBVIOUS
<1>1. Types
  BY InitTypes
<1>2. \A t \in Tasks : /\ tcb[t].prio = FirstPrio[t] /\ tcb[t].stat = {} /\ tcb[t].dly = 0
                        /\ tcb[t].evp = Nil /\ tcb[t].outcome = "ok"
  BY DEF Init, NewTask
<1>3. \A e \in Events : evt[e].kind = app.kinds[e] /\ evt[e].buf = <<>> /\ evt[e].wait = {}
  BY DEF Init
<1>4. Buffers
  <2>1. ASSUME NEW e \in Events, evt[e].kind # "unused" PROVE Capacity[evt[e].kind] \in Nat
    BY <1>3, <2>1, Capacities DEF Sound, App
  <2>. QED  BY <1>3, <2>1 DEF Buffers
<1>5. \A t \in Tasks : prioTbl[FirstPrio[t]] = t
  BY InitTable
<1>6. Lowest \in rdy /\ prioTbl[Lowest] = Idle /\ Lowest \in Prios
  BY InitTable DEF Init
<1>7. \A p \in Prios : prioTbl[p] \in Tasks => FirstPrio[prioTbl[p]] = p
  BY InitTable
<1>8. Tables
  <2>1. \A p \in rdy : p = Lowest \/ \E t \in Tasks : p = FirstPrio[t]
    BY DEF Init
  <2>. QED  BY <1>2, <1>5, <1>6, <1>7, <2>1 DEF Tables
<1>9. ReadyListTruthful
  <2>1. \A t \in Tasks : FirstPrio[t] \in rdy
    BY DEF Init
  <2>. QED  BY <1>2, <1>5, <2>1 DEF ReadyListTruthful
<1>10. Processor
  <2>1. cur = prioTbl[prioCur] /\ prioCur = Highest(rdy) /\ lock = 0
    BY DEF Init
  <2>. QED  BY <2>1 DEF Processor
<1>11. Blocks
  BY <1>2 DEF Blocks, Block, InPend, Init, Pending
<1>12. WaitListTruthful
  BY <1>2, <1>3, Constants DEF WaitListTruthful
<1>13. NothingLost
  <2>. SUFFICES ASSUME NEW e \in Events, NEW m \in Messages
                PROVE  owed[e][m] = Copies(e, m)
                         + Cardinality({t \in Tasks : Granted(t, e) /\ tcb[t].msg = m})
    BY DEF NothingLost
  <2>1. owed[e][m] = 0
    BY DEF Init
  <2>2. Copies(e, m) = Count(<<>>, m)
    BY <1>3 DEF Copies, Count
  <2>3. {t \in Tasks : Granted(t, e) /\ tcb[t].msg = m} = {}
    BY DEF Init, Granted
  <2>. QED  BY <2>1, <2>2, <2>3, CountEmpty, FS_EmptySet
<1>. QED  BY <1>1, <1>4, <1>8, <1>9, <1>10, <1>11, <1>12, <1>13 DEF Common, Kernel

-----------------------------------------------------------------------------
(***************************************************************************)
(* The processor.                                                          *)
(***************************************************************************)

\* A task that runs with the scheduler unlocked is ready, and none is above it.
LEMMA RunnerReady ==
  ASSUME Types, Kernel, cur \in Tasks, pos[cur] \in {"user", "pend"}, lock = 0
  PROVE  /\ tcb[cur].prio = Highest(rdy) /\ tcb[cur].prio \in rdy /\ prioCur = tcb[cur].prio
         /\ tcb[cur].stat = {} /\ tcb[cur].dly = 0
<1>1. Highest(rdy) \in rdy /\ rdy \subseteq Prios
  BY HighestIs DEF Types, Kernel, Tables
<1>2. prioCur = Highest(rdy) /\ cur = prioTbl[prioCur]
  BY DEF Kernel, Processor
<1>3. tcb[cur].prio = Highest(rdy)
  BY <1>1, <1>2 DEF Kernel, Tables
<1>. QED  BY <1>1, <1>2, <1>3 DEF Kernel, ReadyListTruthful

\* A section that leaves the highest ready priority alone may return without
\* OS_Sched; any section may end with it.
LEMMA LeaveKept ==
  ASSUME Types, Processor, cur \in Tasks, pos[cur] \in {"user", "pend"},
         NEW reschedule \in BOOLEAN, Leave(reschedule), prioTbl' = prioTbl,
         reschedule \/ lock # 0 \/ Highest(rdy') = Highest(rdy)
  PROVE  /\ Processor'
         /\ cur' = cur /\ prioCur' = prioCur /\ lock' = lock /\ app' = app
         /\ pos' \in [Tasks -> {"user", "sched", "schedPend", "pend"}]
         /\ pos'[cur] \in {"user", "sched"}
         /\ \A t \in Tasks \ {cur} : pos'[t] = pos[t]
  BY DEF Leave, Processor, Types, cpu

\* The switch at the end of an interrupt, and in OS_Sched.
LEMMA SwitchKept ==
  ASSUME Types, Processor, Tables', rdy' \in SUBSET Prios, prioTbl' = prioTbl, lock' = lock,
         Switch(rdy', prioTbl', lock)
  PROVE  /\ prioTbl'[prioCur'] \in {cur', Nil, Reserved}
         /\ lock = 0 => prioCur' = Highest(rdy') /\ cur' = prioTbl'[prioCur']
         /\ lock # 0 => cur' = cur /\ prioCur' = prioCur
         /\ cur' \in Tasks \cup {Idle} /\ prioCur' \in Prios
<1>1. CASE lock = 0
  <2>1. Highest(rdy') \in rdy'
    BY HighestIs DEF Tables
  <2>2. prioTbl'[Highest(rdy')] \in Tasks \cup {Idle}
    BY <2>1 DEF Tables
  <2>3. prioCur' = Highest(rdy') /\ cur' = IF Highest(rdy') # prioCur THEN prioTbl'[Highest(rdy')] ELSE cur
    BY <1>1 DEF Switch
  <2>4. CASE Highest(rdy') = prioCur
    BY <1>1, <2>1, <2>2, <2>3, <2>4, Constants DEF Processor
  <2>5. CASE Highest(rdy') # prioCur
    BY <1>1, <2>1, <2>2, <2>3, <2>5
  <2>. QED  BY <2>4, <2>5
<1>2. CASE lock # 0
  BY <1>2 DEF Switch, Processor, Types
<1>. QED  BY <1>1, <1>2

LEMMA OSIntExitKept ==
  ASSUME Types, Processor, Tables', rdy' \in SUBSET Prios, prioTbl' = prioTbl, OSIntExit
  PROVE  /\ Processor'
         /\ cur' \in Tasks \cup {Idle} /\ prioCur' \in Prios
         /\ lock' = lock /\ app' = app /\ pos' = pos
<1>1. lock' = lock /\ app' = app /\ pos' = pos /\ Switch(rdy', prioTbl', lock)
  BY DEF OSIntExit
<1>2. /\ prioTbl'[prioCur'] \in {cur', Nil, Reserved}
      /\ lock = 0 => prioCur' = Highest(rdy') /\ cur' = prioTbl'[prioCur']
      /\ lock # 0 => cur' = cur /\ prioCur' = prioCur
      /\ cur' \in Tasks \cup {Idle} /\ prioCur' \in Prios
  BY <1>1, SwitchKept
<1>3. Processor'
  BY <1>1, <1>2 DEF Processor, Types
<1>. QED  BY <1>1, <1>2, <1>3

-----------------------------------------------------------------------------
(***************************************************************************)
(* What a step must leave alone for a part to survive it.                  *)
(***************************************************************************)

Waits(t) == Pending(t) \/ tcb[t].outcome = "to"

LEMMA BuffersFrame ==
  ASSUME Buffers, app' = app,
         \A e \in Events : evt'[e].kind = evt[e].kind /\ evt'[e].buf = evt[e].buf
  PROVE  Buffers'
  BY DEF Buffers

LEMMA WaitListFrame ==
  ASSUME WaitListTruthful,
         \A e \in Events : evt'[e].wait = evt[e].wait,
         \A t \in Tasks : tcb'[t].prio = tcb[t].prio /\ tcb'[t].evp = tcb[t].evp,
         \A t \in Tasks : Waits(t)' <=> Waits(t)
  PROVE  WaitListTruthful'
<1>. SUFFICES ASSUME NEW e \in Events, NEW p \in Prios
              PROVE  p \in evt'[e].wait <=>
                       \E t \in Tasks : tcb'[t].prio = p /\ tcb'[t].evp = e /\ Waits(t)'
  BY DEF WaitListTruthful, Waits
<1>1. p \in evt[e].wait <=> \E t \in Tasks : tcb[t].prio = p /\ tcb[t].evp = e /\ Waits(t)
  BY DEF WaitListTruthful, Waits
<1>. QED  BY <1>1

LEMMA NothingLostFrame ==
  ASSUME Buffers, NothingLost, owed' = owed,
         \A e \in Events : evt'[e].kind = evt[e].kind /\ evt'[e].buf = evt[e].buf,
         \A t \in Tasks, e \in Events : ~Mutex(e) => (Granted(t, e)' <=> Granted(t, e)),
         \A t \in Tasks, e \in Events : ~Mutex(e) /\ Granted(t, e) => tcb'[t].msg = tcb[t].msg
  PROVE  NothingLost'
<1>. SUFFICES ASSUME NEW e \in Events, NEW m \in Messages, evt[e].kind # "mutex"
              PROVE  owed'[e][m] = Copies(e, m)'
                       + Cardinality({t \in Tasks : Granted(t, e)' /\ tcb'[t].msg = m})
  BY DEF NothingLost
<1>0. ~Mutex(e)
  BY DEF Buffers, Mutex
<1>1. owed[e][m] = Copies(e, m) + Cardinality({t \in Tasks : Granted(t, e) /\ tcb[t].msg = m})
  BY DEF NothingLost
<1>2. Copies(e, m)' = Copies(e, m)
  BY DEF Copies
<1>3. {t \in Tasks : Granted(t, e)' /\ tcb'[t].msg = m} = {t \in Tasks : Granted(t, e) /\ tcb[t].msg = m}
  BY <1>0
<1>. QED  BY <1>1, <1>2, <1>3

\* The ready list gains priorities of tasks only.
LEMMA TablesFrame ==
  ASSUME Tables, ReadyListTruthful, app' = app, prioTbl' = prioTbl,
         \A t \in Tasks : tcb'[t].prio = tcb[t].prio,
         Lowest \in rdy', \A p \in rdy' : p \in rdy \/ \E t \in Tasks : p = tcb[t].prio
  PROVE  Tables'
<1>1. ASSUME NEW p \in rdy'
      PROVE  /\ prioTbl[p] \in Tasks \cup {Idle}
             /\ prioTbl[p] \in Tasks => tcb[prioTbl[p]].prio = p
  BY DEF Tables, ReadyListTruthful
<1>2. Plain(app) => \A p \in Prios : prioTbl[p] \in Tasks => tcb'[prioTbl[p]].prio = p
  BY DEF Tables
<1>. QED  BY <1>1, <1>2 DEF Tables

\* A step of the scheduler alone.
LEMMA SchedulerFrame ==
  ASSUME Common, UNCHANGED <<app, tcb, rdy, prioTbl, evt, owed>>,
         \A t \in Tasks : InPend(t)' <=> InPend(t),
         pos' \in [Tasks -> {"user", "sched", "schedPend", "pend"}],
         cur' \in Tasks \cup {Idle}, prioCur' \in Prios, lock' \in 0 .. MaxNesting, Processor'
  PROVE  Common'
<1>1. Sound(app)' /\ Types' /\ Buffers'
  BY DEF Common, Types, Buffers
<1>2. Kernel'
  BY DEF Common, Kernel, Tables, ReadyListTruthful
<1>3. Blocks'
  BY DEF Common, Blocks, Block, Pending, Mutex
<1>4. WaitListTruthful'
  BY DEF Common, WaitListTruthful, Pending
<1>5. NothingLost'
  BY NothingLostFrame DEF Common, Granted, InPend, Pending
<1>. QED  BY <1>1, <1>2, <1>3, <1>4, <1>5 DEF Common

LEMMA OS_SchedKept == Common /\ OS_Sched => Common'
<1>. SUFFICES ASSUME Common, OS_Sched PROVE Common'
  OBVIOUS
<1>1. /\ cur \in Tasks /\ pos[cur] \in {"sched", "schedPend"}
      /\ pos' = [pos EXCEPT ![cur] = IF @ = "sched" THEN "user" ELSE "pend"]
      /\ UNCHANGED <<app, tcb, rdy, prioTbl, lock, evt, owed>>
      /\ Switch(rdy', prioTbl', lock)
  BY DEF OS_Sched
<1>2. /\ Types /\ Processor /\ Tables' /\ rdy' \in SUBSET Prios
  BY <1>1 DEF Common, Types, Kernel, Tables
<1>3. /\ prioTbl'[prioCur'] \in {cur', Nil, Reserved}
      /\ lock = 0 => prioCur' = Highest(rdy') /\ cur' = prioTbl'[prioCur']
      /\ lock # 0 => cur' = cur /\ prioCur' = prioCur
      /\ cur' \in Tasks \cup {Idle} /\ prioCur' \in Prios
  BY <1>1, <1>2, SwitchKept
<1>4. pos' \in [Tasks -> {"user", "sched", "schedPend", "pend"}] /\ \A t \in Tasks : InPend(t)' <=> InPend(t)
  BY <1>1, <1>2 DEF Types, InPend
<1>5. Processor'
  BY <1>1, <1>2, <1>3 DEF Processor, Types
<1>6. lock' \in 0 .. MaxNesting
  BY <1>1, <1>2 DEF Types
<1>. QED  BY <1>1, <1>3, <1>4, <1>5, <1>6, SchedulerFrame

LEMMA OSSchedLockKept == Common /\ (OSSchedLock \/ OSSchedUnlock) => Common'
<1>. SUFFICES ASSUME Common, OSSchedLock \/ OSSchedUnlock PROVE Common'
  OBVIOUS
<1>1. cur \in Tasks /\ pos[cur] = "user" /\ UNCHANGED <<app, tcb, rdy, prioTbl, cur, prioCur, evt, owed>>
  BY DEF OSSchedLock, OSSchedUnlock, Calls
<1>2. Types /\ Processor
  BY DEF Common, Kernel
<1>3. lock' \in 0 .. MaxNesting
  BY <1>2, Constants DEF Types, OSSchedLock, OSSchedUnlock
<1>4. pos' \in [Tasks -> {"user", "sched", "schedPend", "pend"}] /\ \A t \in Tasks : InPend(t)' <=> InPend(t)
  BY <1>1, <1>2 DEF Types, InPend, OSSchedLock, OSSchedUnlock
<1>5. Processor'
  <2>1. CASE OSSchedLock
    BY <1>1, <1>2, <2>1 DEF Processor, Types, OSSchedLock
  <2>2. CASE OSSchedUnlock
    BY <1>1, <1>2, <2>2 DEF Processor, Types, OSSchedUnlock
  <2>. QED  BY <2>1, <2>2
<1>6. cur' \in Tasks \cup {Idle} /\ prioCur' \in Prios
  BY <1>1, <1>2 DEF Types
<1>. QED  BY <1>1, <1>3, <1>4, <1>5, <1>6, SchedulerFrame

-----------------------------------------------------------------------------
(***************************************************************************)
(* The services on time and on tasks.                                      *)
(***************************************************************************)

\* No two tasks share a priority.
LEMMA PrioUnique ==
  ASSUME ReadyListTruthful, NEW t \in Tasks, NEW u \in Tasks, tcb[t].prio = tcb[u].prio
  PROVE  t = u
  BY DEF ReadyListTruthful

\* The delays of the tasks of X are over: those in a Pend have timed out.
LEMMA ExpiryKept ==
  ASSUME Common, NEW X \in SUBSET Tasks,
         \A t \in X : tcb[t].dly # 0 /\ tcb'[t] = TimedOut(tcb[t]),
         \A t \in Tasks \ X :
            /\ tcb'[t].prio = tcb[t].prio /\ tcb'[t].stat = tcb[t].stat /\ tcb'[t].evp = tcb[t].evp
            /\ tcb'[t].outcome = tcb[t].outcome /\ tcb'[t].msg = tcb[t].msg
            /\ tcb'[t].dly = 0 <=> tcb[t].dly = 0,
         rdy' = rdy \cup PriosOf({t \in X : ~Suspended(t)}),
         UNCHANGED <<app, prioTbl, evt, owed>>,
         \A t \in Tasks : InPend(t)' <=> InPend(t)
  PROVE  /\ Sound(app)' /\ Buffers' /\ rdy' \in SUBSET Prios /\ Tables' /\ ReadyListTruthful'
         /\ Blocks' /\ WaitListTruthful' /\ NothingLost'
<1>1. \A t \in Tasks : tcb[t] \in TaskBlocks
  BY DEF Common, Types
<1>2. ASSUME NEW t \in X
      PROVE  /\ tcb'[t].prio = tcb[t].prio /\ tcb'[t].evp = tcb[t].evp /\ tcb'[t].msg = tcb[t].msg
             /\ tcb'[t].dly = 0 /\ tcb'[t].stat = tcb[t].stat \ {"pend"}
             /\ tcb'[t].outcome = IF Pending(t) THEN "to" ELSE "ok"
  <2>1. tcb'[t] = TimedOut(tcb[t]) /\ tcb[t] \in TaskBlocks
    BY <1>1
  <2>. QED  BY <2>1 DEF TimedOut, TaskBlocks, Pending
<1>3. \A t \in Tasks : tcb'[t].prio = tcb[t].prio /\ tcb'[t].evp = tcb[t].evp /\ tcb'[t].msg = tcb[t].msg
  BY <1>2
<1>4. \A t \in Tasks : tcb[t].prio \in Prios
  BY <1>1 DEF TaskBlocks
<1>5. rdy' \in SUBSET Prios
  BY <1>4 DEF Common, Types, PriosOf
<1>6. Tables'
  <2>1. \A p \in rdy' : p \in rdy \/ \E t \in Tasks : p = tcb[t].prio
    BY DEF PriosOf
  <2>2. Lowest \in rdy'
    BY DEF Common, Kernel, Tables
  <2>. QED  BY <1>3, <2>1, <2>2, TablesFrame DEF Common, Kernel
<1>7. ReadyListTruthful'
  <2>. SUFFICES ASSUME NEW t \in Tasks
                PROVE  tcb[t].prio \in rdy' <=> tcb'[t].stat = {} /\ tcb'[t].dly = 0
    BY <1>3 DEF Common, Kernel, ReadyListTruthful
  <2>1. tcb[t].prio \in rdy' <=> tcb[t].prio \in rdy \/ (t \in X /\ ~Suspended(t))
    BY PrioUnique DEF Common, Kernel, PriosOf
  <2>2. tcb[t].prio \in rdy <=> tcb[t].stat = {} /\ tcb[t].dly = 0
    BY DEF Common, Kernel, ReadyListTruthful
  <2>3. CASE t \in X
    <3>1. tcb'[t].stat = {} <=> ~Suspended(t)
      BY <1>1, <1>2, <2>3 DEF TaskBlocks, Suspended
    <3>. QED  BY <1>2, <2>1, <2>2, <2>3, <3>1
  <2>4. CASE t \notin X
    BY <2>1, <2>2, <2>4
  <2>. QED  BY <2>3, <2>4
<1>8. ASSUME NEW t \in X
      PROVE  /\ ~Pending(t)' /\ (tcb[t].evp = Nil \/ Pending(t))
             /\ tcb[t].evp = Nil => ~Pending(t)
             /\ tcb[t].evp = Nil <=> ~InPend(t)
  BY <1>2 DEF Common, Blocks, Block, Pending, Mutex
<1>9. ASSUME NEW t \in Tasks \ X
      PROVE  /\ Pending(t)' <=> Pending(t)
             /\ tcb'[t].outcome = tcb[t].outcome
  BY DEF Pending
<1>10. ASSUME NEW t \in Tasks PROVE Block(t)'
  <2>1. Block(t)
    BY DEF Common, Blocks
  <2>2. InPend(t)' <=> InPend(t)
    OBVIOUS
  <2>3. CASE t \in X
    BY <1>2, <1>8, <2>1, <2>2, <2>3 DEF Block
  <2>4. CASE t \notin X
    BY <1>9, <2>1, <2>2, <2>4 DEF Block, Mutex
  <2>. QED  BY <2>3, <2>4
<1>11. Blocks'
  BY <1>10 DEF Blocks
<1>12. WaitListTruthful'
  <2>1. \A t \in Tasks : Waits(t)' <=> Waits(t)
    BY <1>2, <1>8, <1>9 DEF Waits, Common, Blocks, Block
  <2>. QED  BY <1>3, <2>1, WaitListFrame DEF Common
<1>13. NothingLost'
  <2>1. \A t \in Tasks, e \in Events : Granted(t, e)' <=> Granted(t, e)
    BY <1>2, <1>3, <1>8, <1>9, Constants DEF Granted, InPend
  <2>. QED  BY <1>3, <2>1, NothingLostFrame DEF Common
<1>14. Sound(app)' /\ Buffers'
  BY BuffersFrame DEF Common
<1>. QED  BY <1>5, <1>6, <1>7, <1>11, <1>12, <1>13, <1>14

\* A service's section that ends in Leave.
LEMMA CallFacts ==
  ASSUME Common, NEW s, Calls(s), NEW reschedule \in BOOLEAN, Leave(reschedule)
  PROVE  /\ cur \in Tasks /\ pos[cur] = "user" /\ app' = app
         /\ \A t \in Tasks : InPend(t)' <=> InPend(t)
         /\ tcb[cur].evp = Nil /\ ~Pending(cur) /\ tcb[cur].outcome = "ok"
<1>1. cur \in Tasks /\ pos[cur] = "user" /\ app' = app
  BY DEF Calls, Leave
<1>2. \A t \in Tasks : InPend(t)' <=> InPend(t)
  BY <1>1 DEF Leave, InPend, Common, Types
<1>3. Block(cur) /\ ~InPend(cur)
  BY <1>1 DEF Common, Blocks, InPend
<1>. QED  BY <1>1, <1>2, <1>3 DEF Block

LEMMA SectionKept ==
  ASSUME Common, cur \in Tasks, pos[cur] \in {"user", "pend"}, NEW reschedule \in BOOLEAN,
         Leave(reschedule), prioTbl' = prioTbl,
         reschedule \/ lock # 0 \/ Highest(rdy') = Highest(rdy),
         tcb' \in [Tasks -> TaskBlocks], rdy' \in SUBSET Prios,
         evt' \in [Events -> EventBlocks], owed' \in [Events -> [Messages -> Int]],
         Buffers', Tables', ReadyListTruthful', Blocks', WaitListTruthful', NothingLost'
  PROVE  Common'
<1>1. Types /\ Processor /\ Sound(app)
  BY DEF Common, Kernel
<1>2. /\ Processor'
      /\ cur' = cur /\ prioCur' = prioCur /\ lock' = lock /\ app' = app
      /\ pos' \in [Tasks -> {"user", "sched", "schedPend", "pend"}]
  BY <1>1, LeaveKept
<1>3. Types' /\ Sound(app)'
  BY <1>1, <1>2 DEF Types
<1>. QED  BY <1>2, <1>3 DEF Common, Kernel

\* The same for a section of an interrupt service routine.
LEMMA InterruptKept ==
  ASSUME Common, OSIntExit, prioTbl' = prioTbl,
         tcb' \in [Tasks -> TaskBlocks], rdy' \in SUBSET Prios,
         evt' \in [Events -> EventBlocks], owed' \in [Events -> [Messages -> Int]],
         Buffers', Tables', ReadyListTruthful', Blocks', WaitListTruthful', NothingLost'
  PROVE  Common'
<1>1. Types /\ Processor /\ Sound(app)
  BY DEF Common, Kernel
<1>2. /\ Processor'
      /\ cur' \in Tasks \cup {Idle} /\ prioCur' \in Prios
      /\ lock' = lock /\ app' = app /\ pos' = pos
  BY <1>1, OSIntExitKept
<1>3. Types' /\ Sound(app)'
  BY <1>1, <1>2 DEF Types
<1>. QED  BY <1>2, <1>3 DEF Common, Kernel

LEMMA TimedOutBlock == ASSUME NEW b \in TaskBlocks PROVE TimedOut(b) \in TaskBlocks
<1>. DEFINE stat == b.stat \ {"pend"}
            outcome == IF "pend" \in b.stat THEN "to" ELSE "ok"
<1>1. TimedOut(b) = [b EXCEPT !.dly = 0, !.stat = stat, !.outcome = outcome]
  BY DEF TimedOut
<1>2. stat \in SUBSET {"pend", "suspend"} /\ outcome \in {"ok", "to", "abort"} /\ 0 \in 0 .. MaxDelay
  BY Constants DEF TaskBlocks
<1>. HIDE DEF stat, outcome
<1>. QED  BY <1>1, <1>2 DEF TaskBlocks

LEMMA OSTimeTickKept == Common /\ OSTimeTick => Common'
<1>. SUFFICES ASSUME Common, OSTimeTick PROVE Common'
  OBVIOUS
<1>. DEFINE over == {t \in Tasks : tcb[t].dly = 1}
<1>1. /\ tcb' = [t \in Tasks |->
                   IF t \in over THEN TimedOut(tcb[t])
                   ELSE [tcb[t] EXCEPT !.dly = IF @ = 0 THEN 0 ELSE @ - 1]]
      /\ rdy' = rdy \cup PriosOf({t \in over : ~Suspended(t)})
      /\ UNCHANGED <<prioTbl, evt, owed>> /\ OSIntExit
  BY DEF OSTimeTick
<1>2. \A t \in Tasks : tcb[t] \in TaskBlocks
  BY DEF Common, Types
<1>3. ASSUME NEW t \in Tasks
      PROVE  /\ tcb'[t] \in TaskBlocks
             /\ t \in over => tcb[t].dly # 0 /\ tcb'[t] = TimedOut(tcb[t])
             /\ t \notin over =>
                  /\ tcb'[t].prio = tcb[t].prio /\ tcb'[t].stat = tcb[t].stat /\ tcb'[t].evp = tcb[t].evp
                  /\ tcb'[t].outcome = tcb[t].outcome /\ tcb'[t].msg = tcb[t].msg
                  /\ tcb'[t].dly = 0 <=> tcb[t].dly = 0
  <2>1. tcb[t] \in TaskBlocks
    BY <1>2
  <2>2. CASE t \in over
    <3>1. tcb'[t] = TimedOut(tcb[t])
      BY <1>1, <2>2
    <3>2. TimedOut(tcb[t]) \in TaskBlocks
      BY <2>1, TimedOutBlock
    <3>. QED  BY <2>2, <3>1, <3>2
  <2>3. CASE t \notin over
    <3>1. tcb'[t] = [tcb[t] EXCEPT !.dly = IF @ = 0 THEN 0 ELSE @ - 1]
      BY <1>1, <2>3
    <3>. HIDE <1>1
    <3>2. tcb[t].dly # 1
      BY <2>3
    <3>. QED  BY <2>1, <2>3, <3>1, <3>2, Constants DEF TaskBlocks
  <2>. QED  BY <2>2, <2>3
<1>4. tcb' \in [Tasks -> TaskBlocks]
  BY <1>1, <1>3
<1>5. \A t \in Tasks : InPend(t)' <=> InPend(t)
  BY <1>1 DEF OSIntExit, InPend
<1>6. app' = app
  BY <1>1 DEF OSIntExit
<1>. HIDE DEF over
<1>7. /\ Buffers' /\ rdy' \in SUBSET Prios /\ Tables' /\ ReadyListTruthful'
      /\ Blocks' /\ WaitListTruthful' /\ NothingLost'
  <2>1. over \in SUBSET Tasks
    BY DEF over
  <2>. QED  BY <1>1, <1>3, <1>5, <1>6, <2>1, ExpiryKept
<1>8. evt' \in [Events -> EventBlocks] /\ owed' \in [Events -> [Messages -> Int]]
  BY <1>1 DEF Common, Types
<1>. QED  BY <1>1, <1>4, <1>7, <1>8, InterruptKept

LEMMA OSTimeDlyResumeKept ==
  ASSUME Common, NEW prio \in Prios, OSTimeDlyResume(prio)
  PROVE  Common'
<1>. DEFINE t == prioTbl[prio]
<1>1. /\ Calls("delayResume") /\ t \in Tasks /\ tcb[t].dly # 0
      /\ tcb' = [tcb EXCEPT ![t] = TimedOut(tcb[t])]
      /\ rdy' = IF Suspended(t) THEN rdy ELSE rdy \cup {tcb[t].prio}
      /\ UNCHANGED <<prioTbl, evt, owed>> /\ Leave(~Suspended(t))
  BY DEF OSTimeDlyResume
<1>. HIDE DEF t
<1>2. PICK r \in BOOLEAN : Leave(r) /\ (r <=> ~Suspended(t))
  BY <1>1
<1>3. /\ cur \in Tasks /\ pos[cur] = "user" /\ app' = app
      /\ \A u \in Tasks : InPend(u)' <=> InPend(u)
  BY <1>1, <1>2, CallFacts
<1>4. \A u \in Tasks : tcb[u] \in TaskBlocks
  BY DEF Common, Types
<1>5. TimedOut(tcb[t]) \in TaskBlocks
  <2>1. tcb[t] \in TaskBlocks
    BY <1>1, <1>4
  <2>. QED  BY <2>1, TimedOutBlock
<1>6. tcb' \in [Tasks -> TaskBlocks] /\ tcb'[t] = TimedOut(tcb[t])
      /\ \A u \in Tasks \ {t} : tcb'[u] = tcb[u]
  BY <1>1, <1>5 DEF Common, Types
<1>7. rdy' = rdy \cup PriosOf({u \in {t} : ~Suspended(u)})
  BY <1>1 DEF PriosOf
<1>8. /\ Buffers' /\ rdy' \in SUBSET Prios /\ Tables' /\ ReadyListTruthful'
      /\ Blocks' /\ WaitListTruthful' /\ NothingLost'
  <2>1. {t} \in SUBSET Tasks
    BY <1>1
  <2>. QED  BY <1>1, <1>3, <1>6, <1>7, <2>1, ExpiryKept
<1>9. evt' \in [Events -> EventBlocks] /\ owed' \in [Events -> [Messages -> Int]]
  BY <1>1 DEF Common, Types
<1>10. r \/ Highest(rdy') = Highest(rdy)
  BY <1>1, <1>2
<1>. QED  BY <1>1, <1>2, <1>3, <1>6, <1>8, <1>9, <1>10, SectionKept

\* Task t alone is delayed, suspended or resumed, and its place in the ready
\* list follows.
LEMMA OneTaskKept ==
  ASSUME Common, NEW t \in Tasks, NEW b \in TaskBlocks, tcb' = [tcb EXCEPT ![t] = b],
         b.prio = tcb[t].prio, b.evp = tcb[t].evp, b.msg = tcb[t].msg, b.outcome = tcb[t].outcome,
         "pend" \in b.stat <=> Pending(t),
         b.evp # Nil /\ ~Pending(t) => b.dly = 0,
         \A p \in Prios : p \in rdy' <=> IF p = tcb[t].prio THEN b.stat = {} /\ b.dly = 0 ELSE p \in rdy,
         rdy' \in SUBSET Prios,
         UNCHANGED <<app, prioTbl, evt, owed>>,
         \A u \in Tasks : InPend(u)' <=> InPend(u)
  PROVE  /\ tcb' \in [Tasks -> TaskBlocks]
         /\ Buffers' /\ Tables' /\ ReadyListTruthful' /\ Blocks' /\ WaitListTruthful' /\ NothingLost'
<1>1. \A u \in Tasks : tcb[u] \in TaskBlocks /\ tcb[u].prio \in Prios
  BY DEF Common, Types, TaskBlocks
<1>2. tcb' \in [Tasks -> TaskBlocks] /\ tcb'[t] = b /\ \A u \in Tasks \ {t} : tcb'[u] = tcb[u]
  BY DEF Common, Types
<1>3. ASSUME NEW u \in Tasks
      PROVE  /\ tcb'[u].prio = tcb[u].prio /\ tcb'[u].evp = tcb[u].evp /\ tcb'[u].msg = tcb[u].msg
             /\ tcb'[u].outcome = tcb[u].outcome /\ (Pending(u)' <=> Pending(u))
  BY <1>2 DEF Pending
<1>4. prioTbl[tcb[t].prio] = t /\ prioTbl[Lowest] = Idle /\ Lowest \in rdy /\ Lowest \in Prios
  BY Constants DEF Common, Kernel, Tables, ReadyListTruthful, Prios
<1>5. Tables'
  <2>1. Lowest \in rdy'
    BY <1>4, Constants
  <2>2. \A p \in rdy' : prioTbl[p] \in Tasks \cup {Idle}
    BY <1>4 DEF Common, Kernel, Tables
  <2>. QED  BY <1>3, <1>4, <2>1, <2>2 DEF Common, Kernel, Tables
<1>6. ReadyListTruthful'
  <2>. SUFFICES ASSUME NEW u \in Tasks
                PROVE  tcb[u].prio \in rdy' <=> tcb'[u].stat = {} /\ tcb'[u].dly = 0
    BY <1>3 DEF Common, Kernel, ReadyListTruthful
  <2>1. CASE u = t
    BY <1>1, <1>2, <2>1
  <2>2. CASE u # t
    <3>1. tcb[u].prio # tcb[t].prio
      BY <2>2, PrioUnique DEF Common, Kernel
    <3>. QED  BY <1>1, <1>2, <2>2, <3>1 DEF Common, Kernel, ReadyListTruthful
  <2>. QED  BY <2>1, <2>2
<1>7. Blocks'
  <2>. SUFFICES ASSUME NEW u \in Tasks PROVE Block(u)'
    BY DEF Blocks
  <2>1. Block(u) /\ (InPend(u)' <=> InPend(u))
    BY DEF Common, Blocks
  <2>2. tcb'[u].evp # Nil /\ ~Pending(u)' => tcb'[u].dly = 0
    <3>1. CASE u = t
      BY <1>2, <1>3, <3>1
    <3>2. CASE u # t
      BY <1>2, <1>3, <2>1, <3>2 DEF Block
    <3>. QED  BY <3>1, <3>2
  <2>. QED  BY <1>3, <2>1, <2>2 DEF Block, Mutex
<1>8. WaitListTruthful'
  <2>1. \A u \in Tasks : Waits(u)' <=> Waits(u)
    BY <1>3 DEF Waits
  <2>. QED  BY <1>3, <2>1, WaitListFrame DEF Common
<1>9. NothingLost'
  <2>1. \A u \in Tasks, e \in Events : Granted(u, e)' <=> Granted(u, e)
    BY <1>3 DEF Granted, InPend
  <2>. QED  BY <1>3, <2>1, NothingLostFrame DEF Common
<1>10. Buffers'
  BY BuffersFrame DEF Common
<1>. QED  BY <1>2, <1>5, <1>6, <1>7, <1>8, <1>9, <1>10

LEMMA OSTimeDlyKept ==
  ASSUME Common, NEW ticks \in 1 .. MaxDelay, OSTimeDly(ticks)
  PROVE  Common'
<1>1. /\ Calls("delay") /\ ticks > 0
      /\ tcb' = [tcb EXCEPT ![cur].dly = ticks]
      /\ rdy' = rdy \ {tcb[cur].prio}
      /\ UNCHANGED <<prioTbl, evt, owed>> /\ Leave(TRUE)
  BY DEF OSTimeDly
<1>2. /\ cur \in Tasks /\ pos[cur] = "user" /\ app' = app
      /\ \A u \in Tasks : InPend(u)' <=> InPend(u)
      /\ tcb[cur].evp = Nil /\ ~Pending(cur)
  BY <1>1, CallFacts
<1>. DEFINE b == [tcb[cur] EXCEPT !.dly = ticks]
<1>3. tcb[cur] \in TaskBlocks /\ ticks \in 0 .. MaxDelay
  BY <1>2 DEF Common, Types, Sound, App
<1>4. b \in TaskBlocks
  BY <1>3 DEF TaskBlocks
<1>5. /\ b.prio = tcb[cur].prio /\ b.evp = tcb[cur].evp /\ b.msg = tcb[cur].msg
      /\ b.outcome = tcb[cur].outcome /\ b.stat = tcb[cur].stat /\ b.dly # 0
  BY <1>1, <1>3, Constants DEF TaskBlocks
<1>6. tcb' = [tcb EXCEPT ![cur] = b]
  BY <1>1, <1>2 DEF Common, Types
<1>. HIDE DEF b
<1>7. "pend" \in b.stat <=> Pending(cur)
  BY <1>5 DEF Pending
<1>8. rdy' \in SUBSET Prios
  BY <1>1 DEF Common, Types
<1>9. \A p \in Prios : p \in rdy' <=> IF p = tcb[cur].prio THEN b.stat = {} /\ b.dly = 0 ELSE p \in rdy
  BY <1>1, <1>5
<1>10. /\ tcb' \in [Tasks -> TaskBlocks]
       /\ Buffers' /\ Tables' /\ ReadyListTruthful' /\ Blocks' /\ WaitListTruthful' /\ NothingLost'
  BY <1>1, <1>2, <1>4, <1>5, <1>6, <1>7, <1>8, <1>9, OneTaskKept
<1>11. evt' \in [Events -> EventBlocks] /\ owed' \in [Events -> [Messages -> Int]]
  BY <1>1 DEF Common, Types
<1>. QED  BY <1>1, <1>2, <1>8, <1>10, <1>11, SectionKept

LEMMA OSTaskSuspendKept ==
  ASSUME Common, NEW prio \in Prios, OSTaskSuspend(prio)
  PROVE  Common'
<1>. DEFINE t == prioTbl[prio]
            b == [tcb[t] EXCEPT !.stat = @ \cup {"suspend"}]
<1>1. /\ Calls("suspend") /\ t \in Tasks
      /\ tcb' = [tcb EXCEPT ![t].stat = @ \cup {"suspend"}]
      /\ rdy' = rdy \ {tcb[t].prio}
      /\ UNCHANGED <<prioTbl, evt, owed>> /\ Leave(prio = tcb[cur].prio)
  BY DEF OSTaskSuspend
<1>2. tcb[t].prio = prio
  <2>1. Plain(app)
    BY <1>1 DEF Calls, Common, Sound, Inheriting
  <2>. QED  BY <1>1, <2>1 DEF Common, Kernel, Tables
<1>. HIDE DEF t
<1>3. PICK r \in BOOLEAN : Leave(r) /\ (r <=> prio = tcb[cur].prio)
  BY <1>1
<1>4. /\ cur \in Tasks /\ pos[cur] = "user" /\ app' = app
      /\ \A u \in Tasks : InPend(u)' <=> InPend(u)
  BY <1>1, <1>3, CallFacts
<1>5. tcb[t] \in TaskBlocks
  BY <1>1 DEF Common, Types
<1>6. b \in TaskBlocks
  BY <1>5 DEF TaskBlocks
<1>7. /\ b.prio = tcb[t].prio /\ b.evp = tcb[t].evp /\ b.msg = tcb[t].msg
      /\ b.outcome = tcb[t].outcome /\ b.dly = tcb[t].dly /\ b.stat = tcb[t].stat \cup {"suspend"}
  BY <1>5 DEF TaskBlocks
<1>8. tcb' = [tcb EXCEPT ![t] = b]
  BY <1>1 DEF Common, Types
<1>. HIDE DEF b
<1>9. "pend" \in b.stat <=> Pending(t)
  BY <1>7 DEF Pending
<1>10. b.evp # Nil /\ ~Pending(t) => b.dly = 0
  BY <1>1, <1>7 DEF Common, Blocks, Block
<1>11. rdy' \in SUBSET Prios
  BY <1>1 DEF Common, Types
<1>12. \A p \in Prios : p \in rdy' <=> IF p = tcb[t].prio THEN b.stat = {} /\ b.dly = 0 ELSE p \in rdy
  BY <1>1, <1>7
<1>13. /\ tcb' \in [Tasks -> TaskBlocks]
       /\ Buffers' /\ Tables' /\ ReadyListTruthful' /\ Blocks' /\ WaitListTruthful' /\ NothingLost'
  BY <1>1, <1>4, <1>6, <1>7, <1>8, <1>9, <1>10, <1>11, <1>12, OneTaskKept
<1>14. evt' \in [Events -> EventBlocks] /\ owed' \in [Events -> [Messages -> Int]]
  BY <1>1 DEF Common, Types
<1>15. r \/ lock # 0 \/ Highest(rdy') = Highest(rdy)
  <2>. SUFFICES ASSUME ~r, lock = 0 PROVE Highest(rdy \ {tcb[t].prio}) = Highest(rdy)
    BY <1>1
  <2>1. tcb[cur].prio = Highest(rdy) /\ tcb[cur].prio \in rdy /\ rdy \in SUBSET Prios
    BY <1>4, RunnerReady DEF Common, Types
  <2>2. tcb[t].prio # Highest(rdy)
    BY <1>2, <1>3, <2>1 DEF t
  <2>. QED  BY <2>1, <2>2, HighestWithout
<1>. QED  BY <1>1, <1>3, <1>4, <1>11, <1>13, <1>14, <1>15, SectionKept

LEMMA OSTaskResumeKept ==
  ASSUME Common, NEW prio \in Prios, OSTaskResume(prio)
  PROVE  Common'
<1>. DEFINE t == prioTbl[prio]
            runnable == ~Pending(t) /\ tcb[t].dly = 0
            b == [tcb[t] EXCEPT !.stat = @ \ {"suspend"}]
<1>1. /\ Calls("suspend") /\ t \in Tasks /\ Suspended(t)
      /\ tcb' = [tcb EXCEPT ![t].stat = @ \ {"suspend"}]
      /\ rdy' = IF runnable THEN rdy \cup {tcb[t].prio} ELSE rdy
      /\ UNCHANGED <<prioTbl, evt, owed>> /\ Leave(runnable)
  BY DEF OSTaskResume
<1>. HIDE DEF t
<1>2. PICK r \in BOOLEAN : Leave(r) /\ (r <=> runnable)
  BY <1>1
<1>3. /\ cur \in Tasks /\ pos[cur] = "user" /\ app' = app
      /\ \A u \in Tasks : InPend(u)' <=> InPend(u)
  BY <1>1, <1>2, CallFacts
<1>4. tcb[t] \in TaskBlocks
  BY <1>1 DEF Common, Types
<1>5. b \in TaskBlocks
  BY <1>4 DEF TaskBlocks
<1>6. /\ b.prio = tcb[t].prio /\ b.evp = tcb[t].evp /\ b.msg = tcb[t].msg
      /\ b.outcome = tcb[t].outcome /\ b.dly = tcb[t].dly /\ b.stat = tcb[t].stat \ {"suspend"}
  BY <1>4 DEF TaskBlocks
<1>7. tcb' = [tcb EXCEPT ![t] = b]
  BY <1>1 DEF Common, Types
<1>. HIDE DEF b
<1>8. "pend" \in b.stat <=> Pending(t)
  BY <1>6 DEF Pending
<1>9. b.evp # Nil /\ ~Pending(t) => b.dly = 0
  BY <1>1, <1>6 DEF Common, Blocks, Block
<1>10. rdy' \in SUBSET Prios
  BY <1>1, <1>4 DEF Common, Types, TaskBlocks
<1>11. b.stat = {} <=> ~Pending(t)
  BY <1>4, <1>6 DEF TaskBlocks, Pending
<1>12. tcb[t].prio \notin rdy
  BY <1>1 DEF Common, Kernel, ReadyListTruthful, Suspended
<1>13. \A p \in Prios : p \in rdy' <=> IF p = tcb[t].prio THEN b.stat = {} /\ b.dly = 0 ELSE p \in rdy
  BY <1>1, <1>6, <1>11, <1>12
<1>14. /\ tcb' \in [Tasks -> TaskBlocks]
       /\ Buffers' /\ Tables' /\ ReadyListTruthful' /\ Blocks' /\ WaitListTruthful' /\ NothingLost'
  BY <1>1, <1>3, <1>5, <1>6, <1>7, <1>8, <1>9, <1>10, <1>13, OneTaskKept
<1>15. evt' \in [Events -> EventBlocks] /\ owed' \in [Events -> [Messages -> Int]]
  BY <1>1 DEF Common, Types
<1>16. r \/ Highest(rdy') = Highest(rdy)
  BY <1>1, <1>2
<1>. QED  BY <1>1, <1>2, <1>3, <1>10, <1>14, <1>15, <1>16, SectionKept

\* A task changes its own priority to one that nobody has.  It waits for
\* nothing, so no wait list has to follow.
LEMMA OSTaskChangePrioKept ==
  ASSUME Common, NEW old \in Prios, NEW new \in Prios, OSTaskChangePrio(old, new)
  PROVE  Common'
<1>0. Plain(app)
  BY DEF OSTaskChangePrio, Calls, Common, Sound, Inheriting
<1>1. /\ Calls("changeOwnPrio") /\ old = tcb[cur].prio /\ prioTbl[new] = Nil /\ Leave(TRUE)
  BY <1>0 DEF OSTaskChangePrio, Calls, Plain
<1>2. /\ cur \in Tasks /\ pos[cur] = "user" /\ app' = app
      /\ \A u \in Tasks : InPend(u)' <=> InPend(u)
      /\ tcb[cur].evp = Nil /\ ~Pending(cur) /\ tcb[cur].outcome = "ok"
  BY <1>1, CallFacts
<1>3. prioTbl[old] = cur /\ prioTbl[Lowest] = Idle /\ Lowest \in rdy
  BY <1>1, <1>2 DEF Common, Kernel, Tables, ReadyListTruthful
<1>4. /\ prioTbl' = [prioTbl EXCEPT ![old] = Nil, ![new] = cur]
      /\ rdy' = IF old \in rdy THEN (rdy \ {old}) \cup {new} ELSE rdy
      /\ evt' = evt /\ owed' = owed
      /\ tcb' = [tcb EXCEPT ![cur].prio = new]
  BY <1>1, <1>2, <1>3 DEF OSTaskChangePrio
<1>5. new # old /\ new # Lowest /\ old # Lowest /\ new \notin rdy
  BY <1>1, <1>2, <1>3, Constants DEF Common, Kernel, Tables
<1>6. tcb \in [Tasks -> TaskBlocks]
  BY DEF Common, Types
<1>7. tcb' \in [Tasks -> TaskBlocks]
  <2>1. [tcb[cur] EXCEPT !.prio = new] \in TaskBlocks
    BY <1>2, <1>6 DEF TaskBlocks
  <2>2. tcb' = [tcb EXCEPT ![cur] = [tcb[cur] EXCEPT !.prio = new]]
    BY <1>2, <1>4, <1>6
  <2>. QED  BY <1>6, <2>1, <2>2
<1>8. ASSUME NEW u \in Tasks
      PROVE  /\ tcb'[u].stat = tcb[u].stat /\ tcb'[u].dly = tcb[u].dly /\ tcb'[u].evp = tcb[u].evp
             /\ tcb'[u].msg = tcb[u].msg /\ tcb'[u].outcome = tcb[u].outcome
             /\ tcb'[u].prio = IF u = cur THEN new ELSE tcb[u].prio
  BY <1>2, <1>4, <1>6 DEF TaskBlocks
<1>9. \A u \in Tasks : tcb[u].prio \in Prios /\ prioTbl[tcb[u].prio] = u
  BY <1>6 DEF TaskBlocks, Common, Kernel, ReadyListTruthful
<1>10. prioTbl' \in [Prios -> Tasks \cup {Nil, Idle, Reserved}] /\ rdy' \in SUBSET Prios
  BY <1>2, <1>4 DEF Common, Types
<1>11. \A p \in Prios : prioTbl'[p] = IF p = new THEN cur ELSE IF p = old THEN Nil ELSE prioTbl[p]
  BY <1>4 DEF Common, Types
<1>12. Tables'
  <2>1. ASSUME NEW p \in Prios, prioTbl'[p] \in Tasks PROVE tcb'[prioTbl'[p]].prio = p
    <3>1. CASE p = new
      BY <1>2, <1>8, <1>11, <3>1
    <3>2. CASE p # new
      <4>1. prioTbl'[p] = prioTbl[p] /\ p # old
        BY <1>11, <2>1, <3>2, Constants
      <4>2. tcb[prioTbl[p]].prio = p
        BY <1>0, <2>1, <4>1 DEF Common, Kernel, Tables
      <4>3. prioTbl[p] # cur
        BY <1>1, <4>1, <4>2
      <4>. QED  BY <1>8, <2>1, <4>1, <4>2, <4>3
    <3>. QED  BY <3>1, <3>2
  <2>2. ASSUME NEW p \in rdy' PROVE p \in Prios /\ prioTbl'[p] \in Tasks \cup {Idle}
    <3>1. p \in Prios /\ (p = new \/ (p \in rdy /\ p # old))
      <4>1. CASE old \in rdy
        BY <1>4, <1>10, <2>2, <4>1
      <4>2. CASE old \notin rdy
        BY <1>4, <1>10, <2>2, <4>2
      <4>. QED  BY <4>1, <4>2
    <3>. QED  BY <1>2, <1>11, <3>1 DEF Common, Kernel, Tables
  <2>3. Lowest \in rdy'
    BY <1>3, <1>4, <1>5
  <2>4. prioTbl'[Lowest] = Idle
    <3>1. Lowest \in Prios
      BY Constants DEF Prios
    <3>. QED  BY <1>3, <1>5, <1>11, <3>1
  <2>. QED  BY <2>1, <2>2, <2>3, <2>4 DEF Tables
<1>13. ReadyListTruthful'
  <2>. SUFFICES ASSUME NEW u \in Tasks
                PROVE  /\ tcb'[u].prio \in rdy' <=> tcb[u].stat = {} /\ tcb[u].dly = 0
                       /\ prioTbl'[tcb'[u].prio] = u
    BY <1>8 DEF ReadyListTruthful
  <2>1. tcb[u].prio \in rdy <=> tcb[u].stat = {} /\ tcb[u].dly = 0
    BY DEF Common, Kernel, ReadyListTruthful
  <2>2. CASE u = cur
    <3>1. tcb'[u].prio = new /\ tcb[u].prio = old
      BY <1>1, <1>8, <2>2
    <3>2. new \in rdy' <=> old \in rdy
      BY <1>4, <1>5
    <3>3. prioTbl'[new] = u
      BY <1>11, <2>2
    <3>. QED  BY <2>1, <3>1, <3>2, <3>3
  <2>3. CASE u # cur
    <3>1. tcb[u].prio # old /\ tcb[u].prio # new
      BY <1>1, <1>2, <1>3, <1>9, <2>3, Constants
    <3>2. tcb'[u].prio = tcb[u].prio
      BY <1>8, <2>3
    <3>3. tcb[u].prio \in rdy' <=> tcb[u].prio \in rdy
      BY <1>4, <3>1
    <3>4. prioTbl'[tcb[u].prio] = u
      BY <1>9, <1>11, <3>1
    <3>. QED  BY <2>1, <3>2, <3>3, <3>4
  <2>. QED  BY <2>2, <2>3
<1>14. Blocks'
  BY <1>2, <1>8 DEF Common, Blocks, Block, Pending, Mutex
<1>15. WaitListTruthful'
  <2>. SUFFICES ASSUME NEW e \in Events, NEW p \in Prios
                PROVE  p \in evt[e].wait <=>
                         \E u \in Tasks : tcb'[u].prio = p /\ tcb'[u].evp = e /\ Waits(u)'
    BY <1>4 DEF WaitListTruthful, Waits
  <2>1. p \in evt[e].wait <=> \E u \in Tasks : tcb[u].prio = p /\ tcb[u].evp = e /\ Waits(u)
    BY DEF Common, WaitListTruthful, Waits
  <2>2. \A u \in Tasks : Waits(u)' <=> Waits(u)
    BY <1>8 DEF Waits, Pending
  <2>3. tcb[cur].evp # e
    BY <1>2, Constants
  <2>. QED  BY <1>2, <1>8, <2>1, <2>2, <2>3
<1>16. NothingLost'
  <2>1. \A u \in Tasks, e \in Events : Granted(u, e)' <=> Granted(u, e)
    BY <1>2, <1>8 DEF Granted, InPend, Pending
  <2>. QED  BY <1>4, <1>8, <2>1, NothingLostFrame DEF Common
<1>17. Buffers'
  BY <1>2, <1>4, BuffersFrame DEF Common
<1>18. /\ cur' = cur /\ prioCur' = prioCur /\ lock' = lock
       /\ pos' = [pos EXCEPT ![cur] = "sched"]
  BY <1>1 DEF Leave, cpu
<1>19. Types'
  BY <1>4, <1>7, <1>10, <1>18 DEF Common, Types
<1>20. Processor'
  BY <1>1, <1>2, <1>3, <1>11, <1>18 DEF Common, Kernel, Processor, Tables, Types
<1>. QED  BY <1>2, <1>12, <1>13, <1>14, <1>15, <1>16, <1>17, <1>19, <1>20 DEF Common, Kernel

LEMMA KernelNextKept == Common /\ KernelNext => Common'
  BY OS_SchedKept, OSSchedLockKept, OSTimeTickKept, OSTimeDlyKept, OSTimeDlyResumeKept,
     OSTaskSuspendKept, OSTaskResumeKept, OSTaskChangePrioKept DEF KernelNext

-----------------------------------------------------------------------------
(***************************************************************************)
(* The wait lists.                                                         *)
(***************************************************************************)

\* The task whose priority is in an event's wait list is in a Pend on it.
LEMMA WaiterFacts ==
  ASSUME Common, NEW e \in Events, NEW t \in Tasks, tcb[t].prio \in evt[e].wait
  PROVE  tcb[t].evp = e /\ Waits(t) /\ InPend(t)
<1>1. tcb[t].prio \in Prios
  BY DEF Common, Types, TaskBlocks
<1>2. PICK u \in Tasks : tcb[u].prio = tcb[t].prio /\ tcb[u].evp = e /\ Waits(u)
  BY <1>1 DEF Common, WaitListTruthful, Waits
<1>3. u = t
  BY <1>2, PrioUnique DEF Common, Kernel
<1>4. tcb[t].evp # Nil
  BY <1>2, <1>3, Constants
<1>. QED  BY <1>2, <1>3, <1>4 DEF Common, Blocks, Block

\* Those a Post wakes up are waiting, and there are some.
LEMMA WaitersWait ==
  ASSUME Common, NEW e \in Events, evt[e].wait # {}, NEW opt
  PROVE  /\ Waiters(e, opt) \in SUBSET Tasks
         /\ \A t \in Waiters(e, opt) : tcb[t].prio \in evt[e].wait
<1>1. evt[e].wait \in SUBSET Prios
  BY DEF Common, Types, EventBlocks
<1>2. ASSUME NEW p \in evt[e].wait
      PROVE  prioTbl[p] \in Tasks /\ tcb[prioTbl[p]].prio = p
  <2>1. PICK t \in Tasks : tcb[t].prio = p
    BY <1>1 DEF Common, WaitListTruthful
  <2>. QED  BY <2>1 DEF Common, Kernel, ReadyListTruthful
<1>3. Min(evt[e].wait) \in evt[e].wait
  <2>1. evt[e].wait \in SUBSET Nat
    <3>1. Prios \subseteq Nat
      BY DEF Prios
    <3>. QED  BY <1>1, <3>1
  <2>. QED  BY <2>1, Least
<1>4. CASE "broadcast" \in opt
  BY <1>2, <1>4 DEF Waiters, AllWaiters
<1>5. CASE "broadcast" \notin opt
  BY <1>2, <1>3, <1>5 DEF Waiters, HighestWaiter
<1>. QED  BY <1>4, <1>5

\* What OS_EventTaskRdy does to the tasks of W and to the ready list.
Woken(W, m, outcome) ==
    /\ rdy' = rdy \cup PriosOf({t \in W : ~Suspended(t)})
    /\ \A t \in Tasks : tcb'[t].prio = tcb[t].prio /\ tcb'[t].evp = tcb[t].evp
    /\ \A t \in W : /\ tcb'[t].dly = 0 /\ tcb'[t].stat = tcb[t].stat \ {"pend"}
                    /\ tcb'[t].msg = m /\ tcb'[t].outcome = outcome
    /\ \A t \in Tasks \ W : tcb'[t] = tcb[t]

LEMMA WakeFacts ==
  ASSUME Common, NEW W \in SUBSET Tasks,
         NEW m \in Messages \cup {Nil}, NEW outcome \in {"ok", "abort"},
         OS_EventTaskRdy(tcb, rdy, W, m, outcome)
  PROVE  tcb' \in [Tasks -> TaskBlocks] /\ Woken(W, m, outcome)
<1>1. /\ tcb' = [t \in Tasks |->
                   IF t \notin W THEN tcb[t]
                   ELSE [tcb[t] EXCEPT !.dly = 0, !.msg = m, !.stat = @ \ {"pend"}, !.outcome = outcome]]
      /\ rdy' = rdy \cup PriosOf({t \in W : ~Suspended(t)})
  BY DEF OS_EventTaskRdy
<1>2. \A t \in Tasks \ W : tcb'[t] = tcb[t] /\ tcb[t] \in TaskBlocks
  BY <1>1 DEF Common, Types
<1>3. ASSUME NEW t \in W
      PROVE  /\ tcb'[t] \in TaskBlocks /\ tcb'[t].prio = tcb[t].prio /\ tcb'[t].evp = tcb[t].evp
             /\ tcb'[t].dly = 0 /\ tcb'[t].stat = tcb[t].stat \ {"pend"}
             /\ tcb'[t].msg = m /\ tcb'[t].outcome = outcome
  <2>1. tcb[t] \in TaskBlocks
    BY DEF Common, Types
  <2>. DEFINE stat == tcb[t].stat \ {"pend"}
  <2>2. tcb'[t] = [tcb[t] EXCEPT !.dly = 0, !.msg = m, !.stat = stat, !.outcome = outcome]
    BY <1>1
  <2>3. stat \in SUBSET {"pend", "suspend"} /\ outcome \in {"ok", "to", "abort"} /\ 0 \in 0 .. MaxDelay
    BY <2>1, Constants DEF TaskBlocks
  <2>4. stat = tcb[t].stat \ {"pend"}
    OBVIOUS
  <2>. HIDE DEF stat
  <2>5. /\ tcb'[t] \in TaskBlocks /\ tcb'[t].prio = tcb[t].prio /\ tcb'[t].evp = tcb[t].evp
        /\ tcb'[t].dly = 0 /\ tcb'[t].stat = stat /\ tcb'[t].msg = m /\ tcb'[t].outcome = outcome
    BY <2>1, <2>2, <2>3 DEF TaskBlocks
  <2>. QED  BY <2>4, <2>5
<1>4. tcb' \in [Tasks -> TaskBlocks]
  <2>1. \A t \in Tasks : tcb'[t] \in TaskBlocks
    BY <1>2, <1>3
  <2>2. tcb' = [t \in Tasks |-> tcb'[t]]
    BY <1>1
  <2>. QED  BY <2>1, <2>2
<1>. QED  BY <1>1, <1>2, <1>3, <1>4 DEF Woken

LEMMA WakeKept ==
  ASSUME Common, NEW e \in Events, NEW W \in SUBSET Tasks, \A t \in W : tcb[t].prio \in evt[e].wait,
         NEW m \in Messages \cup {Nil}, NEW outcome \in {"ok", "abort"},
         outcome = "ok" => m \in Messages,
         OS_EventTaskRdy(tcb, rdy, W, m, outcome), evt' = WithoutWaiters(e, W),
         UNCHANGED <<app, prioTbl>>,
         \A t \in Tasks : InPend(t)' <=> InPend(t)
  PROVE  /\ tcb' \in [Tasks -> TaskBlocks] /\ rdy' \in SUBSET Prios /\ evt' \in [Events -> EventBlocks]
         /\ Buffers' /\ Tables' /\ ReadyListTruthful' /\ Blocks' /\ WaitListTruthful'
<1>0. tcb' \in [Tasks -> TaskBlocks] /\ Woken(W, m, outcome)
  BY WakeFacts
<1>1. /\ rdy' = rdy \cup PriosOf({t \in W : ~Suspended(t)})
      /\ \A t \in Tasks : tcb'[t].prio = tcb[t].prio /\ tcb'[t].evp = tcb[t].evp
      /\ \A t \in W : /\ tcb'[t].dly = 0 /\ tcb'[t].stat = tcb[t].stat \ {"pend"}
                      /\ tcb'[t].msg = m /\ tcb'[t].outcome = outcome
      /\ \A t \in Tasks \ W : tcb'[t] = tcb[t]
  BY <1>0 DEF Woken
<1>2. \A t \in Tasks : tcb[t] \in TaskBlocks /\ tcb[t].prio \in Prios
  BY DEF Common, Types, TaskBlocks
<1>3. /\ evt' \in [Events -> EventBlocks]
      /\ \A d \in Events : evt'[d].kind = evt[d].kind /\ evt'[d].buf = evt[d].buf
      /\ \A d \in Events : evt'[d].wait = IF d = e THEN evt[e].wait \ PriosOf(W) ELSE evt[d].wait
  <2>. DEFINE w == evt[e].wait \ PriosOf(W)
  <2>1. evt[e] \in EventBlocks /\ evt \in [Events -> EventBlocks]
    BY DEF Common, Types
  <2>2. w \in SUBSET Prios
    BY <2>1 DEF EventBlocks
  <2>3. evt' = [evt EXCEPT ![e] = [evt[e] EXCEPT !.wait = w]]
    BY <2>1 DEF WithoutWaiters
  <2>. HIDE DEF w
  <2>4. LET b == [evt[e] EXCEPT !.wait = w]
        IN  b \in EventBlocks /\ b.wait = w /\ b.kind = evt[e].kind /\ b.buf = evt[e].buf
    BY <2>1, <2>2 DEF EventBlocks
  <2>5. /\ evt' \in [Events -> EventBlocks]
        /\ \A d \in Events : evt'[d].kind = evt[d].kind /\ evt'[d].buf = evt[d].buf
        /\ \A d \in Events : evt'[d].wait = IF d = e THEN w ELSE evt[d].wait
    BY <2>1, <2>3, <2>4
  <2>. QED  BY <2>5 DEF w
<1>4. rdy' \in SUBSET Prios
  BY <1>1, <1>2 DEF Common, Types, PriosOf
<1>5. Tables'
  <2>1. \A p \in rdy' : p \in rdy \/ \E t \in Tasks : p = tcb[t].prio
    BY <1>1 DEF PriosOf
  <2>2. Lowest \in rdy'
    BY <1>1 DEF Common, Kernel, Tables
  <2>. QED  BY <1>1, <2>1, <2>2, TablesFrame DEF Common, Kernel
<1>6. ReadyListTruthful'
  <2>. SUFFICES ASSUME NEW t \in Tasks
                PROVE  tcb[t].prio \in rdy' <=> tcb'[t].stat = {} /\ tcb'[t].dly = 0
    BY <1>1 DEF Common, Kernel, ReadyListTruthful
  <2>1. tcb[t].prio \in rdy' <=> tcb[t].prio \in rdy \/ (t \in W /\ ~Suspended(t))
    BY <1>1, PrioUnique DEF Common, Kernel, PriosOf
  <2>2. tcb[t].prio \in rdy <=> tcb[t].stat = {} /\ tcb[t].dly = 0
    BY DEF Common, Kernel, ReadyListTruthful
  <2>3. CASE t \in W
    <3>1. tcb'[t].stat = {} <=> ~Suspended(t)
      BY <1>1, <1>2, <2>3 DEF TaskBlocks, Suspended
    <3>2. tcb[t].stat = {} => ~Suspended(t)
      BY DEF Suspended
    <3>. QED  BY <1>1, <2>1, <2>2, <2>3, <3>1, <3>2
  <2>4. CASE t \notin W
    BY <1>1, <2>1, <2>2, <2>4
  <2>. QED  BY <2>3, <2>4
<1>7. ASSUME NEW t \in W
      PROVE  /\ tcb[t].evp = e /\ InPend(t) /\ e # Nil
             /\ ~Pending(t)' /\ ~Waits(t)'
  <2>1. tcb[t].evp = e /\ InPend(t)
    BY WaiterFacts
  <2>. QED  BY <1>1, <2>1, Constants DEF Pending, Waits
<1>8. Blocks'
  <2>. SUFFICES ASSUME NEW t \in Tasks PROVE Block(t)'
    BY DEF Blocks
  <2>1. Block(t) /\ (InPend(t)' <=> InPend(t))
    BY DEF Common, Blocks
  <2>2. CASE t \in W
    BY <1>1, <1>7, <2>1, <2>2 DEF Block
  <2>3. CASE t \notin W
    BY <1>1, <2>1, <2>3 DEF Block, Pending, Mutex
  <2>. QED  BY <2>2, <2>3
<1>9. WaitListTruthful'
  <2>. SUFFICES ASSUME NEW d \in Events, NEW p \in Prios
                PROVE  p \in evt'[d].wait <=>
                         \E t \in Tasks : tcb[t].prio = p /\ tcb[t].evp = d /\ Waits(t)'
    BY <1>1 DEF WaitListTruthful, Waits
  <2>1. p \in evt[d].wait <=> \E t \in Tasks : tcb[t].prio = p /\ tcb[t].evp = d /\ Waits(t)
    BY DEF Common, WaitListTruthful, Waits
  <2>2. \A t \in Tasks \ W : Waits(t)' <=> Waits(t)
    BY <1>1 DEF Waits, Pending
  <2>3. \A t \in Tasks : t \in W <=> tcb[t].prio \in PriosOf(W)
    BY PrioUnique DEF PriosOf, Common, Kernel
  <2>4. CASE d = e
    BY <1>3, <1>7, <2>1, <2>2, <2>3, <2>4
  <2>5. CASE d # e
    BY <1>3, <1>7, <2>1, <2>2, <2>5
  <2>. QED  BY <2>4, <2>5
<1>10. Buffers'
  BY <1>3, BuffersFrame DEF Common
<1>. QED  BY <1>0, <1>3, <1>4, <1>5, <1>6, <1>8, <1>9, <1>10

-----------------------------------------------------------------------------
(***************************************************************************)
(* Deliveries.                                                             *)
(***************************************************************************)

GrantedWith(e, m) == {t \in Tasks : Granted(t, e) /\ tcb[t].msg = m}

LEMMA GrantsFinite ==
  ASSUME NEW e, NEW m
  PROVE  IsFiniteSet(GrantedWith(e, m)) /\ Cardinality(GrantedWith(e, m)) \in Nat
<1>1. GrantedWith(e, m) \in SUBSET Tasks
  BY DEF GrantedWith
<1>. QED  BY <1>1, TasksFinite, FS_Subset, FS_CardinalityType

LEMMA Balance ==
  ASSUME Common, NEW e \in Events, NEW m \in Messages, ~Mutex(e)
  PROVE  /\ owed[e][m] = Count(evt[e].buf, m) + Cardinality(GrantedWith(e, m))
         /\ Count(evt[e].buf, m) \in Nat /\ Cardinality(GrantedWith(e, m)) \in Nat
<1>1. evt[e].kind # "mutex"
  BY DEF Common, Buffers, Mutex
<1>2. evt[e].buf \in Seq(Messages)
  BY DEF Common, Types, EventBlocks
<1>3. owed[e][m] = Count(evt[e].buf, m) + Cardinality(GrantedWith(e, m))
  BY <1>1 DEF Common, NothingLost, Copies, Count, GrantedWith
<1>. QED  BY <1>2, <1>3, GrantsFinite, PlacesFinite

\* The same for the next state, as what has to be shown of it.
LEMMA BalanceKept ==
  ASSUME Buffers', app' = app,
         \A e \in Events, m \in Messages : ~Mutex(e) =>
            owed'[e][m] = Count(evt'[e].buf, m) + Cardinality(GrantedWith(e, m)')
  PROVE  NothingLost'
  BY DEF NothingLost, Copies, Count, GrantedWith, Mutex, Buffers

\* What e stores changes, and the balance of every message with it.
LEMMA StockKept ==
  ASSUME Common, NEW e \in Events, NEW b \in Seq(Messages),
         evt[e].kind # "unused" => Len(b) <= Capacity[evt[e].kind],
         evt[e].kind = "sem" => \A i \in 1 .. Len(b) : b[i] = Token,
         evt' = [evt EXCEPT ![e].buf = b],
         NEW o \in [Messages -> Int], owed' = [owed EXCEPT ![e] = o],
         \A m \in Messages : o[m] = owed[e][m] - Count(evt[e].buf, m) + Count(b, m),
         UNCHANGED <<app, tcb, rdy, prioTbl>>,
         \A t \in Tasks : InPend(t)' <=> InPend(t)
  PROVE  /\ evt' \in [Events -> EventBlocks] /\ owed' \in [Events -> [Messages -> Int]]
         /\ Buffers' /\ Tables' /\ ReadyListTruthful' /\ Blocks' /\ WaitListTruthful' /\ NothingLost'
<1>1. evt \in [Events -> EventBlocks] /\ owed \in [Events -> [Messages -> Int]]
  BY DEF Common, Types
<1>2. /\ evt' \in [Events -> EventBlocks]
      /\ \A d \in Events : evt'[d].kind = evt[d].kind /\ evt'[d].wait = evt[d].wait
      /\ \A d \in Events : evt'[d].buf = IF d = e THEN b ELSE evt[d].buf
  <2>1. evt' = [evt EXCEPT ![e] = [evt[e] EXCEPT !.buf = b]] /\ evt[e] \in EventBlocks
    BY <1>1
  <2>2. LET n == [evt[e] EXCEPT !.buf = b]
        IN  n \in EventBlocks /\ n.buf = b /\ n.kind = evt[e].kind /\ n.wait = evt[e].wait
    BY <2>1 DEF EventBlocks
  <2>. QED  BY <1>1, <2>1, <2>2
<1>3. owed' \in [Events -> [Messages -> Int]]
  BY <1>1
<1>4. Buffers'
  <2>. SUFFICES ASSUME NEW d \in Events
                PROVE  /\ evt'[d].kind = app.kinds[d]
                       /\ evt'[d].kind # "unused" => Len(evt'[d].buf) <= Capacity[evt'[d].kind]
                       /\ evt'[d].kind = "sem" => \A i \in 1 .. Len(evt'[d].buf) : evt'[d].buf[i] = Token
    BY DEF Buffers
  <2>. QED  BY <1>2 DEF Common, Buffers
<1>5. Tables' /\ ReadyListTruthful'
  BY DEF Common, Kernel, Tables, ReadyListTruthful
<1>6. Blocks'
  BY DEF Common, Blocks, Block, Pending, Mutex
<1>7. WaitListTruthful'
  <2>1. \A t \in Tasks : Waits(t)' <=> Waits(t)
    BY DEF Waits, Pending
  <2>. QED  BY <1>2, <2>1, WaitListFrame DEF Common
<1>8. NothingLost'
  <2>. SUFFICES ASSUME NEW d \in Events, NEW m \in Messages, ~Mutex(d)
                PROVE  owed'[d][m] = Count(evt'[d].buf, m) + Cardinality(GrantedWith(d, m)')
    BY <1>4, BalanceKept
  <2>1. GrantedWith(d, m)' = GrantedWith(d, m)
    BY DEF GrantedWith, Granted, InPend, Pending
  <2>2. /\ owed[d][m] = Count(evt[d].buf, m) + Cardinality(GrantedWith(d, m))
        /\ Count(evt[d].buf, m) \in Nat /\ Cardinality(GrantedWith(d, m)) \in Nat
    BY Balance
  <2>3. CASE d = e
    <3>1. owed'[e][m] = owed[e][m] - Count(evt[e].buf, m) + Count(b, m)
      BY <1>1
    <3>2. Count(b, m) \in Nat
      BY PlacesFinite
    <3>. QED  BY <1>2, <2>1, <2>2, <2>3, <3>1, <3>2
  <2>4. CASE d # e
    BY <1>1, <1>2, <2>1, <2>2, <2>4
  <2>. QED  BY <2>3, <2>4
<1>. QED  BY <1>2, <1>3, <1>4, <1>5, <1>6, <1>7, <1>8

\* m is handed to the tasks of W.
LEMMA HandedKept ==
  ASSUME Common, NEW e \in Events, NEW W \in SUBSET Tasks, \A t \in W : tcb[t].prio \in evt[e].wait,
         NEW m \in Messages, Woken(W, m, "ok"), Buffers', app' = app,
         \A d \in Events : evt'[d].buf = evt[d].buf,
         owed' = [owed EXCEPT ![e][m] = @ + Cardinality(W)],
         \A t \in Tasks : InPend(t)' <=> InPend(t)
  PROVE  owed' \in [Events -> [Messages -> Int]] /\ NothingLost'
<1>1. IsFiniteSet(W) /\ Cardinality(W) \in Nat
  BY TasksFinite, FS_Subset, FS_CardinalityType
<1>2. owed \in [Events -> [Messages -> Int]]
  BY DEF Common, Types
<1>3. owed' \in [Events -> [Messages -> Int]]
  BY <1>1, <1>2
<1>4. ASSUME NEW d \in Events, NEW n \in Messages
      PROVE  owed'[d][n] = IF d = e /\ n = m THEN owed[e][m] + Cardinality(W) ELSE owed[d][n]
  BY <1>2
<1>5. ASSUME NEW t \in W
      PROVE  /\ \A d \in Events : ~Granted(t, d) /\ (Granted(t, d)' <=> d = e)
             /\ tcb'[t].msg = m
  <2>1. tcb[t].evp = e /\ Waits(t) /\ InPend(t)
    BY WaiterFacts
  <2>2. \A d \in Events : ~Granted(t, d)
    BY <2>1 DEF Granted, Waits
  <2>3. tcb'[t].evp = e /\ tcb'[t].stat = tcb[t].stat \ {"pend"} /\ tcb'[t].outcome = "ok" /\ tcb'[t].msg = m
    BY <2>1 DEF Woken
  <2>4. \A d \in Events : Granted(t, d)' <=> d = e
    BY <2>1, <2>3 DEF Granted, InPend, Pending
  <2>. QED  BY <2>2, <2>3, <2>4
<1>6. ASSUME NEW t \in Tasks \ W
      PROVE  /\ \A d \in Events : Granted(t, d)' <=> Granted(t, d)
             /\ tcb'[t].msg = tcb[t].msg
  <2>1. tcb'[t] = tcb[t]
    BY DEF Woken
  <2>. QED  BY <2>1 DEF Granted, InPend, Pending
<1>7. NothingLost'
  <2>. SUFFICES ASSUME NEW d \in Events, NEW n \in Messages, ~Mutex(d)
                PROVE  owed'[d][n] = Count(evt'[d].buf, n) + Cardinality(GrantedWith(d, n)')
    BY BalanceKept
  <2>1. /\ owed[d][n] = Count(evt[d].buf, n) + Cardinality(GrantedWith(d, n))
        /\ Count(evt[d].buf, n) \in Nat /\ Cardinality(GrantedWith(d, n)) \in Nat
    BY Balance
  <2>2. CASE d = e /\ n = m
    <3>1. GrantedWith(d, n)' = GrantedWith(d, n) \cup W
      BY <1>5, <1>6, <2>2 DEF GrantedWith
    <3>2. GrantedWith(d, n) \cap W = {}
      BY <1>5 DEF GrantedWith
    <3>3. IsFiniteSet(GrantedWith(d, n))
      BY GrantsFinite
    <3>4. Cardinality(GrantedWith(d, n) \cup W)
            = Cardinality(GrantedWith(d, n)) + Cardinality(W) - Cardinality(GrantedWith(d, n) \cap W)
      BY <1>1, <3>3, FS_Union
    <3>5. Cardinality(GrantedWith(d, n) \cap W) = 0
      BY <3>2, FS_EmptySet
    <3>6. owed'[d][n] = owed[d][n] + Cardinality(W) /\ evt'[d].buf = evt[d].buf
      BY <1>4, <2>2
    <3>. QED  BY <1>1, <2>1, <3>1, <3>4, <3>5, <3>6
  <2>3. CASE ~(d = e /\ n = m)
    <3>1. GrantedWith(d, n)' = GrantedWith(d, n)
      BY <1>5, <1>6, <2>3 DEF GrantedWith
    <3>. QED  BY <1>4, <2>1, <2>3, <3>1
  <2>. QED  BY <2>2, <2>3
<1>. QED  BY <1>3, <1>7

\* A section that posts m to e, by a task or by an interrupt.
LEMMA DeliverKept ==
  ASSUME Common, NEW e \in Events, NEW m \in Messages, NEW opt,
         evt[e].kind # "unused", evt[e].kind = "sem" => m = Token,
         Deliver(e, m, opt), app' = app,
         \A t \in Tasks : InPend(t)' <=> InPend(t)
  PROVE  /\ prioTbl' = prioTbl /\ (evt[e].wait = {} => rdy' = rdy)
         /\ tcb' \in [Tasks -> TaskBlocks] /\ rdy' \in SUBSET Prios
         /\ evt' \in [Events -> EventBlocks] /\ owed' \in [Events -> [Messages -> Int]]
         /\ Buffers' /\ Tables' /\ ReadyListTruthful' /\ Blocks' /\ WaitListTruthful' /\ NothingLost'
<1>1. CASE evt[e].wait # {}
  <2>. DEFINE W == Waiters(e, opt)
  <2>1. /\ OS_EventTaskRdy(tcb, rdy, W, m, "ok") /\ evt' = WithoutWaiters(e, W)
        /\ owed' = [owed EXCEPT ![e][m] = @ + Cardinality(W)] /\ prioTbl' = prioTbl
    BY <1>1 DEF Deliver
  <2>2. W \in SUBSET Tasks /\ \A t \in W : tcb[t].prio \in evt[e].wait
    BY <1>1, WaitersWait
  <2>. HIDE DEF W
  <2>3. m \in Messages \cup {Nil} /\ "ok" \in {"ok", "abort"}
    OBVIOUS
  <2>4. Woken(W, m, "ok")
    BY <2>1, <2>2, <2>3, WakeFacts
  <2>5. /\ tcb' \in [Tasks -> TaskBlocks] /\ rdy' \in SUBSET Prios /\ evt' \in [Events -> EventBlocks]
        /\ Buffers' /\ Tables' /\ ReadyListTruthful' /\ Blocks' /\ WaitListTruthful'
    BY <2>1, <2>2, <2>3, WakeKept
  <2>6. \A d \in Events : evt'[d].buf = evt[d].buf
    BY <2>1 DEF WithoutWaiters, Common, Types, EventBlocks
  <2>7. owed' \in [Events -> [Messages -> Int]] /\ NothingLost'
    BY <2>1, <2>2, <2>4, <2>5, <2>6, HandedKept
  <2>. QED  BY <1>1, <2>1, <2>5, <2>7
<1>2. CASE evt[e].wait = {}
  <2>. DEFINE s == evt[e].buf
              b == IF "front" \in opt THEN <<m>> \o s ELSE Append(s, m)
              o == [owed[e] EXCEPT ![m] = @ + 1]
  <2>1. /\ Len(s) < Capacity[evt[e].kind]
        /\ evt' = [evt EXCEPT ![e].buf = IF "front" \in opt THEN <<m>> \o @ ELSE Append(@, m)]
        /\ owed' = [owed EXCEPT ![e][m] = @ + 1]
        /\ UNCHANGED <<tcb, rdy, prioTbl>>
    BY <1>2 DEF Deliver
  <2>2. evt[e] \in EventBlocks /\ s \in Seq(Messages) /\ evt[e].kind \in Kinds \ {"unused"}
    BY DEF Common, Types, EventBlocks
  <2>3. evt' = [evt EXCEPT ![e].buf = b] /\ owed' = [owed EXCEPT ![e] = o]
    BY <2>1 DEF Common, Types
  <2>4. b \in Seq(Messages) /\ Len(b) = Len(s) + 1
    BY <2>2
  <2>5. Len(b) <= Capacity[evt[e].kind]
    BY <2>1, <2>2, <2>4, Capacities
  <2>6. evt[e].kind = "sem" => \A i \in 1 .. Len(b) : b[i] = Token
    BY <2>2, <2>4 DEF Common, Buffers
  <2>7. o \in [Messages -> Int] /\ \A n \in Messages : o[n] = IF n = m THEN owed[e][n] + 1 ELSE owed[e][n]
    BY DEF Common, Types
  <2>8. \A n \in Messages : Count(b, n) = IF m = n THEN Count(s, n) + 1 ELSE Count(s, n)
    BY <2>2, CountAppend, CountPrepend
  <2>9. \A n \in Messages : o[n] = owed[e][n] - Count(s, n) + Count(b, n)
    <3>. SUFFICES ASSUME NEW n \in Messages PROVE o[n] = owed[e][n] - Count(s, n) + Count(b, n)
      OBVIOUS
    <3>1. Count(s, n) \in Nat /\ owed[e][n] \in Int
      BY <2>2, PlacesFinite DEF Common, Types
    <3>2. /\ o[n] = IF n = m THEN owed[e][n] + 1 ELSE owed[e][n]
          /\ Count(b, n) = IF m = n THEN Count(s, n) + 1 ELSE Count(s, n)
      BY <2>7, <2>8
    <3>. HIDE DEF o, b, s
    <3>. QED  BY <3>1, <3>2
  <2>. HIDE DEF b, o
  <2>10. /\ UNCHANGED <<app, tcb, rdy, prioTbl>>
         /\ \A n \in Messages : o[n] = owed[e][n] - Count(evt[e].buf, n) + Count(b, n)
    BY <2>1, <2>9
  <2>11. b \in Seq(Messages) /\ o \in [Messages -> Int]
    BY <2>4, <2>7
  <2>. HIDE DEF s
  <2>12. /\ evt' \in [Events -> EventBlocks] /\ owed' \in [Events -> [Messages -> Int]]
         /\ Buffers' /\ Tables' /\ ReadyListTruthful' /\ Blocks' /\ WaitListTruthful' /\ NothingLost'
    BY <2>3, <2>5, <2>6, <2>10, <2>11, StockKept
  <2>. QED  BY <2>1, <2>12 DEF Common, Types
<1>. QED  BY <1>1, <1>2

LEMMA PostKept ==
  ASSUME Common, NEW s, NEW e \in Events, NEW m \in Messages, NEW opt,
         evt[e].kind # "unused", evt[e].kind = "sem" => m = Token,
         Post(s, e, m, opt)
  PROVE  Common'
<1>1. CASE Calls(s) /\ Deliver(e, m, opt) /\ Leave(evt[e].wait # {})
  <2>1. PICK r \in BOOLEAN : Leave(r) /\ (r <=> evt[e].wait # {})
    BY <1>1
  <2>2. cur \in Tasks /\ pos[cur] = "user" /\ app' = app /\ \A t \in Tasks : InPend(t)' <=> InPend(t)
    BY <1>1, <2>1, CallFacts
  <2>3. /\ prioTbl' = prioTbl /\ (evt[e].wait = {} => rdy' = rdy)
        /\ tcb' \in [Tasks -> TaskBlocks] /\ rdy' \in SUBSET Prios
        /\ evt' \in [Events -> EventBlocks] /\ owed' \in [Events -> [Messages -> Int]]
        /\ Buffers' /\ Tables' /\ ReadyListTruthful' /\ Blocks' /\ WaitListTruthful' /\ NothingLost'
    BY <1>1, <2>2, DeliverKept
  <2>. QED  BY <2>1, <2>2, <2>3, SectionKept
<1>2. CASE Deliver(e, m, opt) /\ OSIntExit
  <2>1. app' = app /\ \A t \in Tasks : InPend(t)' <=> InPend(t)
    BY <1>2 DEF OSIntExit, InPend
  <2>2. /\ prioTbl' = prioTbl
        /\ tcb' \in [Tasks -> TaskBlocks] /\ rdy' \in SUBSET Prios
        /\ evt' \in [Events -> EventBlocks] /\ owed' \in [Events -> [Messages -> Int]]
        /\ Buffers' /\ Tables' /\ ReadyListTruthful' /\ Blocks' /\ WaitListTruthful' /\ NothingLost'
    BY <1>2, <2>1, DeliverKept
  <2>. QED  BY <1>2, <2>2, InterruptKept
<1>. QED  BY <1>1, <1>2 DEF Post

\* A service's section that changes what e stores and nothing else.
LEMMA StockSectionKept ==
  ASSUME Common, NEW s, Calls(s), Leave(FALSE),
         NEW e \in Events, NEW b \in Seq(Messages),
         evt[e].kind # "unused" => Len(b) <= Capacity[evt[e].kind],
         evt[e].kind = "sem" => \A i \in 1 .. Len(b) : b[i] = Token,
         evt' = [evt EXCEPT ![e].buf = b],
         NEW o \in [Messages -> Int], owed' = [owed EXCEPT ![e] = o],
         \A m \in Messages : o[m] = owed[e][m] - Count(evt[e].buf, m) + Count(b, m),
         UNCHANGED <<tcb, rdy, prioTbl>>
  PROVE  Common'
<1>1. cur \in Tasks /\ pos[cur] = "user" /\ app' = app /\ \A t \in Tasks : InPend(t)' <=> InPend(t)
  BY CallFacts
<1>2. UNCHANGED <<app, tcb, rdy, prioTbl>>
  BY <1>1
<1>3. /\ evt' \in [Events -> EventBlocks] /\ owed' \in [Events -> [Messages -> Int]]
      /\ Buffers' /\ Tables' /\ ReadyListTruthful' /\ Blocks' /\ WaitListTruthful' /\ NothingLost'
  BY <1>1, <1>2, StockKept
<1>4. tcb' \in [Tasks -> TaskBlocks] /\ rdy' \in SUBSET Prios /\ rdy' = rdy
  BY DEF Common, Types
<1>. QED  BY <1>1, <1>2, <1>3, <1>4, SectionKept

LEMMA TakeKept ==
  ASSUME Common, NEW s, Calls(s), NEW e \in Events, Take(e)
  PROVE  Common'
<1>. DEFINE q == evt[e].buf
            b == Tail(q)
            o == [owed[e] EXCEPT ![Head(q)] = @ - 1]
<1>1. /\ q # <<>> /\ evt' = [evt EXCEPT ![e].buf = Tail(@)]
      /\ owed' = [owed EXCEPT ![e][Head(q)] = @ - 1]
      /\ UNCHANGED <<tcb, rdy, prioTbl>> /\ Leave(FALSE)
  BY DEF Take
<1>2. evt' = [evt EXCEPT ![e].buf = b] /\ owed' = [owed EXCEPT ![e] = o]
  BY <1>1 DEF Common, Types
<1>3. q \in Seq(Messages) /\ evt[e].kind \in Kinds
  BY DEF Common, Types, EventBlocks
<1>4. b \in Seq(Messages) /\ Len(b) = Len(q) - 1 /\ Head(q) \in Messages /\ Len(q) \in Nat
  BY <1>1, <1>3
<1>5. evt[e].kind # "unused" => Len(b) <= Capacity[evt[e].kind]
  <2>1. evt[e].kind # "unused" => Len(q) <= Capacity[evt[e].kind] /\ Capacity[evt[e].kind] \in Nat
    BY <1>3, Capacities DEF Common, Buffers
  <2>. QED  BY <1>4, <2>1
<1>6. evt[e].kind = "sem" => \A i \in 1 .. Len(b) : b[i] = Token
  <2>1. evt[e].kind = "sem" => \A i \in 1 .. Len(q) : q[i] = Token
    BY DEF Common, Buffers
  <2>2. \A i \in 1 .. Len(b) : b[i] = q[i + 1] /\ i + 1 \in 1 .. Len(q)
    BY <1>1, <1>3, <1>4
  <2>. HIDE DEF b, q
  <2>. QED  BY <2>1, <2>2
<1>7. o \in [Messages -> Int] /\ \A n \in Messages : o[n] = IF n = Head(q) THEN owed[e][n] - 1 ELSE owed[e][n]
  BY <1>4 DEF Common, Types
<1>8. \A n \in Messages : Count(q, n) = IF Head(q) = n THEN Count(b, n) + 1 ELSE Count(b, n)
  BY <1>1, <1>3, CountTail
<1>9. ASSUME NEW n \in Messages PROVE o[n] = owed[e][n] - Count(evt[e].buf, n) + Count(b, n)
  <2>1. Count(q, n) \in Nat /\ Count(b, n) \in Nat /\ owed[e][n] \in Int
    BY <1>3, <1>4, PlacesFinite DEF Common, Types
  <2>2. /\ o[n] = IF n = Head(q) THEN owed[e][n] - 1 ELSE owed[e][n]
        /\ Count(q, n) = IF Head(q) = n THEN Count(b, n) + 1 ELSE Count(b, n)
    BY <1>7, <1>8
  <2>3. Count(evt[e].buf, n) = Count(q, n)
    OBVIOUS
  <2>. HIDE DEF o, b, q
  <2>. QED  BY <2>1, <2>2, <2>3
<1>10. b \in Seq(Messages) /\ o \in [Messages -> Int] /\ UNCHANGED <<tcb, rdy, prioTbl>> /\ Leave(FALSE)
  BY <1>1, <1>4, <1>7
<1>. HIDE DEF o, b, q
<1>. QED  BY <1>2, <1>5, <1>6, <1>9, <1>10, StockSectionKept

LEMMA OSSemSetKept ==
  ASSUME Common, NEW e \in Events, NEW cnt \in 0 .. Capacity["sem"], OSSemSet(e, cnt)
  PROVE  Common'
<1>. DEFINE q == evt[e].buf
            b == [i \in 1 .. cnt |-> Token]
            o == [owed[e] EXCEPT ![Token] = @ - Len(q) + cnt]
<1>1. /\ evt[e].kind = "sem" /\ Calls("semSet")
      /\ evt' = [evt EXCEPT ![e].buf = b]
      /\ owed' = [owed EXCEPT ![e][Token] = @ - Len(evt[e].buf) + cnt]
      /\ UNCHANGED <<tcb, rdy, prioTbl>> /\ Leave(FALSE)
  BY DEF OSSemSet
<1>2. owed' = [owed EXCEPT ![e] = o]
  BY <1>1 DEF Common, Types
<1>3. cnt \in Nat /\ cnt <= Capacity["sem"]
  BY EventsAssumption DEF EventsAssumption
<1>4. b \in Seq(Messages) /\ Len(b) = cnt /\ \A i \in 1 .. Len(b) : b[i] = Token
  BY <1>3, Constants
<1>5. q \in Seq(Messages) /\ \A i \in 1 .. Len(q) : q[i] = Token
  BY <1>1 DEF Common, Types, EventBlocks, Buffers
<1>6. /\ o \in [Messages -> Int]
      /\ \A n \in Messages : o[n] = IF n = Token THEN owed[e][n] - Len(q) + cnt ELSE owed[e][n]
  <2>1. owed[e] \in [Messages -> Int] /\ Token \in Messages
    BY Constants DEF Common, Types
  <2>2. owed[e][Token] - Len(q) + cnt \in Int
    BY <1>3, <1>5, <2>1
  <2>. HIDE DEF q
  <2>. QED  BY <2>1, <2>2
<1>7. ASSUME NEW n \in Messages PROVE o[n] = owed[e][n] - Count(evt[e].buf, n) + Count(b, n)
  <2>1. Count(q, n) = IF n = Token THEN Len(q) ELSE 0
    BY <1>5, CountUnits
  <2>2. Count(b, n) = IF n = Token THEN cnt ELSE 0
    BY <1>4, CountUnits
  <2>3. Len(q) \in Nat /\ owed[e][n] \in Int /\ Count(evt[e].buf, n) = Count(q, n)
    BY <1>5 DEF Common, Types
  <2>4. o[n] = IF n = Token THEN owed[e][n] - Len(q) + cnt ELSE owed[e][n]
    BY <1>6
  <2>. HIDE DEF o, b, q
  <2>. QED  BY <1>3, <2>1, <2>2, <2>3, <2>4
<1>8. /\ b \in Seq(Messages) /\ o \in [Messages -> Int]
      /\ evt[e].kind # "unused" => Len(b) <= Capacity[evt[e].kind]
      /\ evt[e].kind = "sem" => \A i \in 1 .. Len(b) : b[i] = Token
  BY <1>1, <1>3, <1>4, <1>6
<1>. HIDE DEF o, b, q
<1>. QED  BY <1>1, <1>2, <1>7, <1>8, StockSectionKept

LEMMA OSQFlushKept ==
  ASSUME Common, NEW e \in Events, OSQFlush(e)
  PROVE  Common'
<1>. DEFINE o == [m \in Messages |-> owed[e][m] - Copies(e, m)]
<1>1. /\ evt[e].kind = "q" /\ Calls("qFlush")
      /\ evt' = [evt EXCEPT ![e].buf = <<>>]
      /\ owed' = [owed EXCEPT ![e] = o]
      /\ UNCHANGED <<tcb, rdy, prioTbl>> /\ Leave(FALSE)
  BY DEF OSQFlush, Common, Types
<1>2. ASSUME NEW n \in Messages
      PROVE  o[n] \in Int /\ o[n] = owed[e][n] - Count(evt[e].buf, n) + Count(<<>>, n)
  <2>1. Copies(e, n) = Count(evt[e].buf, n) /\ Count(<<>>, n) = 0
    BY CountEmpty DEF Copies, Count
  <2>2. Count(evt[e].buf, n) \in Nat
    BY PlacesFinite DEF Common, Types, EventBlocks
  <2>3. owed[e][n] \in Int
    BY DEF Common, Types
  <2>. QED  BY <2>1, <2>2, <2>3
<1>3. o \in [Messages -> Int]
  BY <1>2
<1>4. /\ <<>> \in Seq(Messages) /\ Len(<<>>) = 0
      /\ evt[e].kind # "unused" => Len(<<>>) <= Capacity[evt[e].kind]
      /\ evt[e].kind = "sem" => \A i \in 1 .. Len(<<>>) : <<>>[i] = Token
  BY <1>1, EventsAssumption DEF EventsAssumption
<1>. HIDE DEF o
<1>. QED  BY <1>1, <1>2, <1>3, <1>4, StockSectionKept

LEMMA PendAbortKept ==
  ASSUME Common, NEW s, NEW e \in Events, NEW opt, PendAbort(s, e, opt)
  PROVE  Common'
<1>. DEFINE W == Waiters(e, opt)
<1>1. /\ Calls(s) /\ evt[e].wait # {} /\ Leave(TRUE)
      /\ OS_EventTaskRdy(tcb, rdy, W, Nil, "abort") /\ evt' = WithoutWaiters(e, W)
      /\ UNCHANGED <<prioTbl, owed>>
  BY DEF PendAbort
<1>2. W \in SUBSET Tasks /\ \A t \in W : tcb[t].prio \in evt[e].wait
  BY <1>1, WaitersWait
<1>. HIDE DEF W
<1>3. cur \in Tasks /\ pos[cur] = "user" /\ app' = app /\ \A t \in Tasks : InPend(t)' <=> InPend(t)
  BY <1>1, CallFacts
<1>4. Nil \in Messages \cup {Nil} /\ "abort" \in {"ok", "abort"} /\ ("abort" = "ok" => Nil \in Messages)
  OBVIOUS
<1>5. Woken(W, Nil, "abort")
  BY <1>1, <1>2, <1>4, WakeFacts
<1>6. /\ tcb' \in [Tasks -> TaskBlocks] /\ rdy' \in SUBSET Prios /\ evt' \in [Events -> EventBlocks]
      /\ Buffers' /\ Tables' /\ ReadyListTruthful' /\ Blocks' /\ WaitListTruthful'
  BY <1>1, <1>2, <1>3, <1>4, WakeKept
<1>7. \A t \in Tasks, d \in Events : Granted(t, d)' <=> Granted(t, d)
  <2>. SUFFICES ASSUME NEW t \in Tasks, NEW d \in Events PROVE Granted(t, d)' <=> Granted(t, d)
    OBVIOUS
  <2>1. CASE t \in W
    <3>1. ~Granted(t, d)
      BY <1>2, <2>1, WaiterFacts DEF Granted, Waits
    <3>2. ~Granted(t, d)'
      BY <1>5, <2>1 DEF Granted, Woken
    <3>. QED  BY <3>1, <3>2
  <2>2. CASE t \notin W
    <3>1. tcb'[t] = tcb[t]
      BY <1>5, <2>2 DEF Woken
    <3>. QED  BY <1>3, <3>1 DEF Granted, InPend, Pending
  <2>. QED  BY <2>1, <2>2
<1>8. \A t \in Tasks, d \in Events : Granted(t, d) => tcb'[t].msg = tcb[t].msg
  BY <1>2, <1>5, WaiterFacts DEF Granted, Waits, Woken
<1>9. \A d \in Events : evt'[d].kind = evt[d].kind /\ evt'[d].buf = evt[d].buf
  BY <1>1 DEF WithoutWaiters, Common, Types, EventBlocks
<1>10. NothingLost'
  BY <1>1, <1>7, <1>8, <1>9, NothingLostFrame DEF Common
<1>11. owed' \in [Events -> [Messages -> Int]]
  BY <1>1 DEF Common, Types
<1>. QED  BY <1>1, <1>3, <1>6, <1>10, <1>11, SectionKept

\* The running task queues on an event and becomes unready.  The scheduler is
\* unlocked, so it was ready and the call's OS_Sched is still to come.
LEMMA WaitKept ==
  ASSUME Common, NEW s, Calls(s), lock = 0, NEW e \in Events, NEW timeout \in 0 .. MaxDelay,
         OS_EventTaskWait(e, tcb, evt, rdy, timeout), UNCHANGED <<prioTbl, owed>>
  PROVE  Common'
<1>. DEFINE prio == tcb[cur].prio
<1>1. /\ tcb' = [tcb EXCEPT ![cur].stat = @ \cup {"pend"}, ![cur].outcome = "ok",
                            ![cur].dly = timeout, ![cur].evp = e]
      /\ evt' = [evt EXCEPT ![e].wait = @ \cup {prio}]
      /\ rdy' = rdy \ {prio} /\ pos' = [pos EXCEPT ![cur] = "schedPend"]
      /\ app' = app /\ cur' = cur /\ prioCur' = prioCur /\ lock' = lock
  BY DEF OS_EventTaskWait, cpu
<1>2. cur \in Tasks /\ pos[cur] = "user"
  BY DEF Calls
<1>3. tcb[cur].evp = Nil /\ ~Pending(cur) /\ tcb[cur].outcome = "ok" /\ ~InPend(cur)
  BY <1>2 DEF Common, Blocks, Block, InPend
<1>4. tcb[cur].stat = {} /\ prio \in rdy
  BY <1>2, RunnerReady DEF Common
<1>5. tcb \in [Tasks -> TaskBlocks] /\ tcb[cur] \in TaskBlocks /\ prio \in Prios
  BY <1>2 DEF Common, Types, TaskBlocks
<1>. HIDE DEF prio
<1>6. /\ tcb' \in [Tasks -> TaskBlocks]
      /\ tcb'[cur].prio = prio /\ tcb'[cur].stat = {"pend"} /\ tcb'[cur].outcome = "ok"
      /\ tcb'[cur].evp = e
      /\ \A t \in Tasks \ {cur} : tcb'[t] = tcb[t]
  <2>. DEFINE b == [tcb[cur] EXCEPT !.stat = {"pend"}, !.outcome = "ok", !.dly = timeout, !.evp = e]
  <2>1. tcb' = [tcb EXCEPT ![cur] = b]
    <3>1. tcb[cur].stat \cup {"pend"} = {"pend"}
      BY <1>4
    <3>. QED  BY <1>1, <1>5, <3>1
  <2>2. b \in TaskBlocks /\ b.prio = prio /\ b.stat = {"pend"} /\ b.outcome = "ok" /\ b.evp = e
    BY <1>5 DEF TaskBlocks, prio
  <2>. HIDE DEF b
  <2>. QED  BY <1>2, <1>5, <2>1, <2>2
<1>7. /\ evt' \in [Events -> EventBlocks]
      /\ \A d \in Events : evt'[d].kind = evt[d].kind /\ evt'[d].buf = evt[d].buf
      /\ \A d \in Events : evt'[d].wait = IF d = e THEN evt[e].wait \cup {prio} ELSE evt[d].wait
  <2>. DEFINE w == evt[e].wait \cup {prio}
  <2>1. evt[e] \in EventBlocks /\ evt \in [Events -> EventBlocks]
    BY DEF Common, Types
  <2>2. w \in SUBSET Prios
    BY <1>5, <2>1 DEF EventBlocks
  <2>3. evt' = [evt EXCEPT ![e] = [evt[e] EXCEPT !.wait = w]]
    BY <1>1, <2>1
  <2>. HIDE DEF w
  <2>4. LET b == [evt[e] EXCEPT !.wait = w]
        IN  b \in EventBlocks /\ b.wait = w /\ b.kind = evt[e].kind /\ b.buf = evt[e].buf
    BY <2>1, <2>2 DEF EventBlocks
  <2>5. /\ evt' \in [Events -> EventBlocks]
        /\ \A d \in Events : evt'[d].kind = evt[d].kind /\ evt'[d].buf = evt[d].buf
        /\ \A d \in Events : evt'[d].wait = IF d = e THEN w ELSE evt[d].wait
    BY <2>1, <2>3, <2>4
  <2>. QED  BY <2>5 DEF w
<1>8. /\ pos' \in [Tasks -> {"user", "sched", "schedPend", "pend"}]
      /\ pos'[cur] = "schedPend"
      /\ \A t \in Tasks : InPend(t)' <=> t = cur \/ InPend(t)
  BY <1>1, <1>2 DEF Common, Types, InPend
<1>9. rdy' \in SUBSET Prios
  BY <1>1 DEF Common, Types
<1>10. Types'
  BY <1>1, <1>6, <1>7, <1>8, <1>9 DEF Common, Types
<1>11. Buffers'
  BY <1>1, <1>7, BuffersFrame DEF Common
<1>12. prioTbl[prio] = cur /\ prioTbl[Lowest] = Idle /\ Lowest \in rdy
  BY <1>2 DEF Common, Kernel, Tables, ReadyListTruthful, prio
<1>13. \A t \in Tasks : tcb'[t].prio = tcb[t].prio
  BY <1>6 DEF prio
<1>14. Tables'
  <2>1. Lowest \in rdy'
    BY <1>1, <1>2, <1>12, Constants
  <2>. QED  BY <1>1, <1>12, <1>13, <2>1 DEF Common, Kernel, Tables
<1>15. ReadyListTruthful'
  <2>. SUFFICES ASSUME NEW t \in Tasks
                PROVE  tcb[t].prio \in rdy' <=> tcb'[t].stat = {} /\ tcb'[t].dly = 0
    BY <1>13 DEF Common, Kernel, ReadyListTruthful
  <2>1. CASE t = cur
    BY <1>1, <1>6, <2>1 DEF prio
  <2>2. CASE t # cur
    <3>1. tcb[t].prio # prio
      BY <1>2, <2>2, PrioUnique DEF Common, Kernel, prio
    <3>. QED  BY <1>1, <1>6, <2>2, <3>1 DEF Common, Kernel, ReadyListTruthful
  <2>. QED  BY <2>1, <2>2
<1>16. Processor'
  BY <1>1, <1>2, <1>8 DEF Common, Kernel, Processor
<1>17. Blocks'
  <2>. SUFFICES ASSUME NEW t \in Tasks PROVE Block(t)'
    BY DEF Blocks
  <2>1. CASE t = cur
    BY <1>6, <1>8, <2>1, Constants DEF Block, Pending, Mutex
  <2>2. CASE t # cur
    <3>1. Block(t) /\ tcb'[t] = tcb[t] /\ (InPend(t)' <=> InPend(t))
      BY <1>6, <1>8, <2>2 DEF Common, Blocks
    <3>. QED  BY <1>1, <3>1 DEF Block, Pending, Mutex
  <2>. QED  BY <2>1, <2>2
<1>18. WaitListTruthful'
  <2>. SUFFICES ASSUME NEW d \in Events, NEW p \in Prios
                PROVE  p \in evt'[d].wait <=>
                         \E t \in Tasks : tcb'[t].prio = p /\ tcb'[t].evp = d /\ Waits(t)'
    BY DEF WaitListTruthful, Waits
  <2>1. p \in evt[d].wait <=> \E t \in Tasks : tcb[t].prio = p /\ tcb[t].evp = d /\ Waits(t)
    BY DEF Common, WaitListTruthful, Waits
  <2>2. \A t \in Tasks : Waits(t)' <=> t = cur \/ Waits(t)
    BY <1>6 DEF Waits, Pending
  <2>3. tcb'[cur].evp = e /\ tcb'[cur].prio = prio /\ ~Waits(cur)
    BY <1>3, <1>6 DEF Waits
  <2>4. p \in evt'[d].wait <=> p \in evt[d].wait \/ (d = e /\ p = prio)
    BY <1>7
  <2>. QED  BY <1>2, <1>6, <2>1, <2>2, <2>3, <2>4
<1>19. NothingLost'
  <2>1. \A t \in Tasks, d \in Events : Granted(t, d)' <=> Granted(t, d)
    <3>. SUFFICES ASSUME NEW t \in Tasks, NEW d \in Events PROVE Granted(t, d)' <=> Granted(t, d)
      OBVIOUS
    <3>1. CASE t = cur
      BY <1>3, <1>6, <3>1 DEF Granted, InPend, Pending
    <3>2. CASE t # cur
      BY <1>6, <1>8, <3>2 DEF Granted, InPend, Pending
    <3>. QED  BY <3>1, <3>2
  <2>2. \A t \in Tasks, d \in Events : Granted(t, d) => tcb'[t].msg = tcb[t].msg
    BY <1>3, <1>6 DEF Granted, InPend
  <2>. QED  BY <1>7, <2>1, <2>2, NothingLostFrame DEF Common
<1>. QED  BY <1>1, <1>10, <1>11, <1>14, <1>15, <1>16, <1>17, <1>18, <1>19 DEF Common, Kernel

LEMMA PendKept ==
  ASSUME Common, NEW s, NEW e \in Events, NEW timeout \in app.timeouts, Pend(s, e, timeout)
  PROVE  Common'
<1>1. timeout \in 0 .. MaxDelay
  BY DEF Common, Sound, App
<1>2. CASE Calls(s) /\ Take(e)
  BY <1>2, TakeKept
<1>3. CASE Calls(s) /\ lock = 0 /\ OS_EventTaskWait(e, tcb, evt, rdy, timeout) /\ UNCHANGED <<prioTbl, owed>>
  BY <1>1, <1>3, WaitKept
<1>. QED  BY <1>2, <1>3 DEF Pend

\* A Pend returns: with what it was granted, after a timeout, or aborted.
LEMMA PendEndKept ==
  ASSUME Common, NEW kind, NEW msg \in Messages \cup {Nil}, PendEnd(kind, msg)
  PROVE  Common'
<1>. DEFINE e == tcb[cur].evp
            m == tcb[cur].msg
            prio == tcb[cur].prio
<1>1. /\ cur \in Tasks /\ pos[cur] = "pend" /\ evt[e].kind = kind
      /\ evt' = IF tcb[cur].outcome = "to" THEN WithoutWaiters(e, {cur}) ELSE evt
      /\ owed' = IF kind # "mutex" /\ tcb[cur].outcome = "ok"
                   THEN [owed EXCEPT ![e][m] = @ - 1] ELSE owed
      /\ tcb' = [tcb EXCEPT ![cur].stat = {}, ![cur].outcome = "ok", ![cur].evp = Nil,
                            ![cur].msg = msg]
      /\ UNCHANGED <<rdy, prioTbl>> /\ Leave(FALSE)
  BY DEF PendEnd
<1>2. tcb \in [Tasks -> TaskBlocks] /\ tcb[cur] \in TaskBlocks /\ prio \in Prios
  BY <1>1 DEF Common, Types, TaskBlocks
<1>3. InPend(cur) /\ Block(cur)
  BY <1>1 DEF Common, Blocks, InPend
<1>4. e \in Events
  BY <1>2, <1>3 DEF Block, TaskBlocks
<1>5. lock = 0
  BY <1>1 DEF Common, Types, Kernel, Processor
<1>6. tcb[cur].stat = {} /\ tcb[cur].dly = 0
  BY <1>1, <1>5, RunnerReady DEF Common
<1>7. ~Pending(cur)
  BY <1>6 DEF Pending
<1>8. kind # "mutex" <=> ~Mutex(e)
  BY <1>1, <1>4 DEF Common, Buffers, Mutex
<1>9. tcb[cur].outcome = "ok" /\ ~Mutex(e) => m \in Messages
  BY <1>3, <1>4, <1>7, Constants DEF Block
<1>10. WithoutWaiters(e, {cur}) = [evt EXCEPT ![e].wait = @ \ {prio}]
  BY DEF WithoutWaiters, PriosOf
<1>11. app' = app /\ pos' = [pos EXCEPT ![cur] = "user"]
  BY <1>1 DEF Leave
<1>12. \A t \in Tasks : InPend(t)' <=> t # cur /\ InPend(t)
  BY <1>1, <1>11 DEF InPend, Common, Types
<1>13. /\ tcb' \in [Tasks -> TaskBlocks]
       /\ tcb'[cur].prio = prio /\ tcb'[cur].stat = {} /\ tcb'[cur].outcome = "ok"
       /\ tcb'[cur].evp = Nil /\ tcb'[cur].dly = 0
       /\ \A t \in Tasks \ {cur} : tcb'[t] = tcb[t]
  <2>. DEFINE b == [tcb[cur] EXCEPT !.stat = {}, !.outcome = "ok", !.evp = Nil, !.msg = msg]
  <2>1. tcb' = [tcb EXCEPT ![cur] = b]
    BY <1>1, <1>2
  <2>2. b \in TaskBlocks /\ b.prio = prio /\ b.stat = {} /\ b.outcome = "ok" /\ b.evp = Nil /\ b.dly = 0
    BY <1>2, <1>6 DEF TaskBlocks
  <2>3. cur \in Tasks /\ tcb \in [Tasks -> TaskBlocks]
    BY <1>1, <1>2
  <2>. HIDE DEF b, prio
  <2>. QED  BY <2>1, <2>2, <2>3
<1>14. /\ evt' \in [Events -> EventBlocks]
       /\ \A d \in Events : evt'[d].kind = evt[d].kind /\ evt'[d].buf = evt[d].buf
       /\ \A d \in Events : evt'[d].wait = IF d = e /\ tcb[cur].outcome = "to"
                                             THEN evt[e].wait \ {prio} ELSE evt[d].wait
  <2>. DEFINE w == evt[e].wait \ {prio}
  <2>1. evt[e] \in EventBlocks /\ evt \in [Events -> EventBlocks]
    BY <1>4 DEF Common, Types
  <2>2. w \in SUBSET Prios
    BY <2>1 DEF EventBlocks
  <2>3. evt' = IF tcb[cur].outcome = "to" THEN [evt EXCEPT ![e] = [evt[e] EXCEPT !.wait = w]] ELSE evt
    BY <1>1, <1>10, <2>1
  <2>4. LET b == [evt[e] EXCEPT !.wait = w]
        IN  b \in EventBlocks /\ b.wait = w /\ b.kind = evt[e].kind /\ b.buf = evt[e].buf
    BY <2>1, <2>2 DEF EventBlocks
  <2>5. /\ evt' \in [Events -> EventBlocks]
        /\ \A d \in Events : evt'[d].kind = evt[d].kind /\ evt'[d].buf = evt[d].buf
        /\ \A d \in Events : evt'[d].wait = IF d = e /\ tcb[cur].outcome = "to" THEN w ELSE evt[d].wait
    BY <1>4, <2>1, <2>3, <2>4
  <2>. QED  BY <2>5
<1>15. /\ owed' \in [Events -> [Messages -> Int]]
       /\ \A d \in Events, n \in Messages :
             owed'[d][n] = IF tcb[cur].outcome = "ok" /\ ~Mutex(e) /\ d = e /\ n = m
                             THEN owed[d][n] - 1 ELSE owed[d][n]
  <2>1. owed \in [Events -> [Messages -> Int]]
    BY DEF Common, Types
  <2>2. owed' = IF ~Mutex(e) /\ tcb[cur].outcome = "ok" THEN [owed EXCEPT ![e][m] = @ - 1] ELSE owed
    BY <1>1, <1>8
  <2>. HIDE DEF e, m
  <2>. QED  BY <1>4, <1>9, <2>1, <2>2
<1>. HIDE DEF e, m, prio
<1>16. Tables' /\ ReadyListTruthful'
  <2>1. \A t \in Tasks : tcb'[t].prio = tcb[t].prio /\ tcb'[t].stat = tcb[t].stat /\ tcb'[t].dly = tcb[t].dly
    BY <1>6, <1>13 DEF prio
  <2>2. rdy' = rdy /\ prioTbl' = prioTbl
    BY <1>1
  <2>3. Tables'
    BY <1>11, <2>1, <2>2, TablesFrame DEF Common, Kernel, Tables
  <2>4. ReadyListTruthful'
    BY <2>1, <2>2 DEF Common, Kernel, ReadyListTruthful
  <2>. QED  BY <2>3, <2>4
<1>17. Blocks'
  <2>. SUFFICES ASSUME NEW t \in Tasks PROVE Block(t)'
    BY DEF Blocks
  <2>1. CASE t = cur
    BY <1>12, <1>13, <2>1 DEF Block, Pending, Mutex
  <2>2. CASE t # cur
    <3>1. Block(t) /\ tcb'[t] = tcb[t] /\ (InPend(t)' <=> InPend(t))
      BY <1>12, <1>13, <2>2 DEF Common, Blocks
    <3>. QED  BY <1>11, <3>1 DEF Block, Pending, Mutex
  <2>. QED  BY <2>1, <2>2
<1>18. WaitListTruthful'
  <2>. SUFFICES ASSUME NEW d \in Events, NEW p \in Prios
                PROVE  p \in evt'[d].wait <=>
                         \E t \in Tasks : tcb'[t].prio = p /\ tcb'[t].evp = d /\ Waits(t)'
    BY DEF WaitListTruthful, Waits
  <2>1. p \in evt[d].wait <=> \E t \in Tasks : tcb[t].prio = p /\ tcb[t].evp = d /\ Waits(t)
    BY DEF Common, WaitListTruthful, Waits
  <2>2. \A t \in Tasks \ {cur} : (Waits(t)' <=> Waits(t)) /\ tcb'[t].prio = tcb[t].prio /\ tcb'[t].evp = tcb[t].evp
    BY <1>13 DEF Waits, Pending
  <2>3. tcb'[cur].evp # d
    BY <1>13, Constants
  <2>4. p \in evt'[d].wait <=> \E t \in Tasks \ {cur} : tcb[t].prio = p /\ tcb[t].evp = d /\ Waits(t)
    <3>1. Waits(cur) <=> tcb[cur].outcome = "to"
      BY <1>7 DEF Waits
    <3>2. \A t \in Tasks \ {cur} : tcb[t].prio # prio
      BY <1>1, PrioUnique DEF Common, Kernel, prio
    <3>3. tcb[cur].prio = prio /\ tcb[cur].evp = e
      BY DEF prio, e
    <3>. QED  BY <1>1, <1>14, <2>1, <3>1, <3>2, <3>3
  <2>. QED  BY <1>1, <2>2, <2>3, <2>4
<1>19. Buffers'
  BY <1>11, <1>14, BuffersFrame DEF Common
<1>20. NothingLost'
  <2>. SUFFICES ASSUME NEW d \in Events, NEW n \in Messages, ~Mutex(d)
                PROVE  owed'[d][n] = Count(evt'[d].buf, n) + Cardinality(GrantedWith(d, n)')
    BY <1>11, <1>19, BalanceKept
  <2>1. /\ owed[d][n] = Count(evt[d].buf, n) + Cardinality(GrantedWith(d, n))
        /\ Count(evt[d].buf, n) \in Nat /\ Cardinality(GrantedWith(d, n)) \in Nat
    BY Balance
  <2>2. \A t \in Tasks : InPend(t) /\ t # cur => tcb'[t] = tcb[t]
    BY <1>13
  <2>3. \A t \in Tasks : Granted(t, d)' <=> t # cur /\ Granted(t, d)
    BY <1>12, <2>2 DEF Granted, InPend, Pending
  <2>4. GrantedWith(d, n)' = GrantedWith(d, n) \ {cur}
    BY <1>13, <2>3 DEF GrantedWith
  <2>5. cur \in GrantedWith(d, n) <=> tcb[cur].outcome = "ok" /\ d = e /\ n = m
    BY <1>1, <1>3, <1>7 DEF GrantedWith, Granted, InPend, e, m
  <2>6. Cardinality(GrantedWith(d, n) \ {cur}) =
          IF cur \in GrantedWith(d, n) THEN Cardinality(GrantedWith(d, n)) - 1
          ELSE Cardinality(GrantedWith(d, n))
    BY GrantsFinite, FS_RemoveElement
  <2>7. evt'[d].buf = evt[d].buf
    BY <1>14
  <2>. QED  BY <1>15, <2>1, <2>4, <2>5, <2>6, <2>7
<1>21. rdy' \in SUBSET Prios
  BY <1>1 DEF Common, Types
<1>. QED  BY <1>1, <1>13, <1>14, <1>15, <1>16, <1>17, <1>18, <1>19, <1>20, <1>21, SectionKept

-----------------------------------------------------------------------------
(***************************************************************************)
(* Every service of a semaphore, a mailbox and a queue.                    *)
(***************************************************************************)

LEMMA SemNextKept == ASSUME Common, NEW e \in Events, SemNext(e) PROVE Common'
<1>. USE Constants
<1>1. ASSUME NEW n \in app.timeouts, OSSemPend(e, n) PROVE Common'
  BY <1>1, PendKept DEF OSSemPend
<1>2. ASSUME NEW opt \in app.opts, OSSemPendAbort(e, opt) PROVE Common'
  BY <1>2, PendAbortKept DEF OSSemPendAbort
<1>3. ASSUME NEW n \in 0 .. Capacity["sem"], OSSemSet(e, n) PROVE Common'
  BY <1>3, OSSemSetKept
<1>4. CASE OSSemPost(e)
  BY <1>4, PostKept DEF OSSemPost
<1>5. CASE OSSemAccept(e)
  BY <1>5, TakeKept DEF OSSemAccept
<1>. QED  BY <1>1, <1>2, <1>3, <1>4, <1>5 DEF SemNext

LEMMA MboxNextKept == ASSUME Common, NEW e \in Events, MboxNext(e) PROVE Common'
<1>1. ASSUME NEW n \in app.timeouts, OSMboxPend(e, n) PROVE Common'
  BY <1>1, PendKept DEF OSMboxPend
<1>2. ASSUME NEW opt \in app.opts, OSMboxPendAbort(e, opt) PROVE Common'
  BY <1>2, PendAbortKept DEF OSMboxPendAbort
<1>3. ASSUME NEW m \in Messages \ {Token}, OSMboxPost(e, m) PROVE Common'
  BY <1>3, PostKept DEF OSMboxPost
<1>4. ASSUME NEW m \in Messages \ {Token}, NEW opt \in app.opts, OSMboxPostOpt(e, m, opt) PROVE Common'
  BY <1>4, PostKept DEF OSMboxPostOpt
<1>5. CASE OSMboxAccept(e)
  BY <1>5, TakeKept DEF OSMboxAccept
<1>. QED  BY <1>1, <1>2, <1>3, <1>4, <1>5 DEF MboxNext

LEMMA QNextKept == ASSUME Common, NEW e \in Events, QNext(e) PROVE Common'
<1>1. ASSUME NEW n \in app.timeouts, OSQPend(e, n) PROVE Common'
  BY <1>1, PendKept DEF OSQPend
<1>2. ASSUME NEW opt \in app.opts, OSQPendAbort(e, opt) PROVE Common'
  BY <1>2, PendAbortKept DEF OSQPendAbort
<1>3. ASSUME NEW m \in Messages \ {Token}, OSQPost(e, m) \/ OSQPostFront(e, m) PROVE Common'
  BY <1>3, PostKept DEF OSQPost, OSQPostFront
<1>4. ASSUME NEW m \in Messages \ {Token}, NEW opt \in app.opts, OSQPostOpt(e, m, opt) PROVE Common'
  BY <1>4, PostKept DEF OSQPostOpt
<1>5. CASE OSQAccept(e)
  BY <1>5, TakeKept DEF OSQAccept
<1>6. CASE OSQFlush(e)
  BY <1>6, OSQFlushKept
<1>. QED  BY <1>1, <1>2, <1>3, <1>4, <1>5, <1>6 DEF QNext

-----------------------------------------------------------------------------
(***************************************************************************)
(* Steps that leave a mutex alone.                                         *)
(***************************************************************************)

\* Only a program with a mutex has one to speak of.
LEMMA MutexFacts ==
  ASSUME IInv, NEW e \in Events, Mutex(e)
  PROVE  /\ Inheriting(app) /\ ~Plain(app) /\ Calm /\ MutexTruthful(e)
         /\ evt[e].kind = "mutex"
         /\ \A d \in Events : Mutex(d) => d = e
         /\ evt[e].pip \in Prios /\ evt[e].pip # Lowest
         /\ \A t \in Tasks : evt[e].pip < FirstPrio[t] /\ FirstPrio[t] \in Prios
<1>1. ~Plain(app)
  BY DEF Mutex, Plain
<1>2. Inheriting(app)
  BY <1>1 DEF IInv, Common, Sound
<1>3. Calm /\ MutexTruthful(e)
  BY <1>2 DEF IInv, Lending
<1>4. evt[e].pip = app.pip[e] /\ evt[e].kind = "mutex"
  BY <1>3 DEF MutexTruthful, IInv, Common, Buffers, Mutex
<1>5. \A d \in Events : Mutex(d) => d = e
  BY <1>2 DEF Inheriting, Mutex
<1>6. /\ app.pip[e] \in 0 .. (Lowest - 1)
      /\ \A t \in Tasks : app.pip[e] < FirstPrio[t]
  BY <1>2 DEF Inheriting, Mutex
<1>7. \A t \in Tasks : FirstPrio[t] \in Prios
  BY Constants DEF Prios
<1>8. app.pip[e] \in Prios /\ app.pip[e] # Lowest
  BY <1>6, Constants DEF Prios
<1>. QED  BY <1>1, <1>2, <1>3, <1>4, <1>5, <1>6, <1>7, <1>8

LEMMA LendingFrame ==
  ASSUME IInv, app' = app, prioTbl' = prioTbl,
         \A t \in Tasks : tcb'[t].prio = tcb[t].prio,
         \A e \in Events : Mutex(e) => evt'[e] = evt[e] /\ owed'[e] = owed[e],
         Inheriting(app) => Calm'
  PROVE  Lending'
<1>. SUFFICES ASSUME Inheriting(app), NEW e \in Events, Mutex(e) PROVE MutexTruthful(e)'
  BY DEF Lending, Mutex
<1>1. MutexTruthful(e)
  BY MutexFacts
<1>2. evt'[e] = evt[e] /\ owed'[e] = owed[e] /\ evt[e].owner \in Tasks \cup {Nil}
  BY DEF IInv, Common, Types, EventBlocks
<1>3. evt[e].owner = Nil => Free(e)'
  BY <1>1, <1>2 DEF MutexTruthful, Free
<1>4. evt[e].owner # Nil => Owned(e)'
  BY <1>1, <1>2 DEF MutexTruthful, Owned
<1>. QED  BY <1>1, <1>2, <1>3, <1>4 DEF MutexTruthful

\* A step in which no wait, delay or suspension begins.
LEMMA QuietLends ==
  ASSUME IInv, app' = app, prioTbl' = prioTbl, lock' = lock, lock # 0 => cur' = cur,
         \A t \in Tasks : /\ tcb'[t].prio = tcb[t].prio
                          /\ tcb'[t].stat \subseteq tcb[t].stat
                          /\ Calm => tcb'[t].outcome # "to"
                          /\ tcb[t].dly = 0 => tcb'[t].dly = 0,
         \A e \in Events : Mutex(e) => evt'[e] = evt[e] /\ owed'[e] = owed[e]
  PROVE  Lending'
<1>1. ASSUME Inheriting(app) PROVE Calm'
  <2>1. Calm
    BY <1>1 DEF IInv, Lending
  <2>2. ASSUME NEW t \in Tasks
        PROVE  ~Suspended(t)' /\ tcb'[t].outcome # "to" /\ (Pending(t)' => tcb'[t].dly = 0)
    BY <2>1 DEF Calm, Suspended, Pending
  <2>3. ASSUME lock' > 0 PROVE "lock" \in app.calls /\ tcb'[cur'].dly = 0
    <3>1. lock > 0 /\ cur' = cur
      BY <2>3 DEF IInv, Common, Types
    <3>2. cur \in Tasks
      BY <3>1 DEF IInv, Common, Kernel, Processor
    <3>. QED  BY <2>1, <3>1, <3>2 DEF Calm
  <2>. QED  BY <2>2, <2>3 DEF Calm
<1>. QED  BY <1>1, LendingFrame

LEMMA OS_SchedLends == IInv /\ OS_Sched => Lending'
<1>. SUFFICES ASSUME IInv, OS_Sched PROVE Lending'
  OBVIOUS
<1>1. UNCHANGED <<app, tcb, prioTbl, lock, evt, owed>> /\ (lock # 0 => cur' = cur)
  BY DEF OS_Sched, Switch
<1>2. \A t \in Tasks : Calm => tcb[t].outcome # "to"
  BY DEF Calm
<1>. QED  BY <1>1, <1>2, QuietLends

LEMMA OSSchedLockLends == IInv /\ (OSSchedLock \/ OSSchedUnlock) => Lending'
<1>. SUFFICES ASSUME IInv, OSSchedLock \/ OSSchedUnlock PROVE Lending'
  OBVIOUS
<1>1. /\ cur \in Tasks /\ pos[cur] = "user" /\ "lock" \in app.calls
      /\ UNCHANGED <<app, tcb, prioTbl, cur, evt, owed>>
  BY DEF OSSchedLock, OSSchedUnlock, Calls
<1>2. ASSUME Inheriting(app) PROVE Calm'
  <2>1. Calm
    BY <1>2 DEF IInv, Lending
  <2>2. \A t \in Tasks : ~Suspended(t)' /\ tcb'[t].outcome # "to" /\ (Pending(t)' => tcb'[t].dly = 0)
    BY <1>1, <2>1 DEF Calm, Suspended, Pending
  <2>3. tcb[cur].dly = 0
    <3>1. CASE lock = 0
      BY <1>1, <3>1, RunnerReady DEF IInv, Common
    <3>2. CASE lock # 0
      BY <2>1, <3>2 DEF Calm, IInv, Common, Types
    <3>. QED  BY <3>1, <3>2
  <2>. QED  BY <1>1, <2>2, <2>3 DEF Calm
<1>. QED  BY <1>1, <1>2, LendingFrame

LEMMA TimedOutIs ==
  ASSUME NEW b \in TaskBlocks
  PROVE  /\ TimedOut(b).prio = b.prio /\ TimedOut(b).dly = 0
         /\ TimedOut(b).stat = b.stat \ {"pend"}
         /\ TimedOut(b).outcome = IF "pend" \in b.stat THEN "to" ELSE "ok"
  BY DEF TimedOut, TaskBlocks

\* A delay that is over was no timeout.
LEMMA ExpiryLends ==
  ASSUME IInv, NEW X \in SUBSET Tasks,
         \A t \in X : tcb[t].dly # 0 /\ tcb'[t] = TimedOut(tcb[t]),
         \A t \in Tasks \ X :
            /\ tcb'[t].prio = tcb[t].prio /\ tcb'[t].stat = tcb[t].stat
            /\ tcb'[t].outcome = tcb[t].outcome
            /\ tcb[t].dly = 0 => tcb'[t].dly = 0,
         UNCHANGED <<app, prioTbl, evt, owed, lock>>, lock # 0 => cur' = cur
  PROVE  Lending'
<1>1. ASSUME NEW t \in Tasks
      PROVE  /\ tcb'[t].prio = tcb[t].prio
             /\ tcb'[t].stat \subseteq tcb[t].stat
             /\ Calm => tcb'[t].outcome # "to"
             /\ tcb[t].dly = 0 => tcb'[t].dly = 0
  <2>1. CASE t \in X
    <3>1. tcb[t] \in TaskBlocks /\ tcb'[t] = TimedOut(tcb[t]) /\ tcb[t].dly # 0
      BY <2>1 DEF IInv, Common, Types
    <3>2. Calm => "pend" \notin tcb[t].stat
      BY <3>1 DEF Calm, Pending
    <3>3. /\ tcb'[t].prio = tcb[t].prio /\ tcb'[t].dly = 0
          /\ tcb'[t].stat = tcb[t].stat \ {"pend"}
          /\ tcb'[t].outcome = IF "pend" \in tcb[t].stat THEN "to" ELSE "ok"
      BY <3>1, TimedOutIs
    <3>. QED  BY <3>2, <3>3
  <2>2. CASE t \notin X
    BY <2>2 DEF Calm
  <2>. QED  BY <2>1, <2>2
<1>. QED  BY <1>1, QuietLends

LEMMA OSTimeTickLends == IInv /\ OSTimeTick => Lending'
<1>. SUFFICES ASSUME IInv, OSTimeTick PROVE Lending'
  OBVIOUS
<1>. DEFINE over == {t \in Tasks : tcb[t].dly = 1}
<1>1. /\ tcb' = [t \in Tasks |->
                   IF t \in over THEN TimedOut(tcb[t])
                   ELSE [tcb[t] EXCEPT !.dly = IF @ = 0 THEN 0 ELSE @ - 1]]
      /\ UNCHANGED <<app, prioTbl, evt, owed, lock>> /\ (lock # 0 => cur' = cur)
  BY DEF OSTimeTick, OSIntExit, Switch
<1>2. over \in SUBSET Tasks /\ \A t \in over : tcb[t].dly # 0 /\ tcb'[t] = TimedOut(tcb[t])
  BY <1>1
<1>3. ASSUME NEW t \in Tasks \ over
      PROVE  /\ tcb'[t].prio = tcb[t].prio /\ tcb'[t].stat = tcb[t].stat
             /\ tcb'[t].outcome = tcb[t].outcome
             /\ tcb[t].dly = 0 => tcb'[t].dly = 0
  <2>1. tcb'[t] = [tcb[t] EXCEPT !.dly = IF @ = 0 THEN 0 ELSE @ - 1] /\ tcb[t] \in TaskBlocks
    BY <1>1 DEF IInv, Common, Types
  <2>. QED  BY <2>1 DEF TaskBlocks
<1>. HIDE DEF over
<1>. QED  BY <1>1, <1>2, <1>3, ExpiryLends

LEMMA OSTimeDlyResumeLends ==
  ASSUME IInv, NEW prio \in Prios, OSTimeDlyResume(prio)
  PROVE  Lending'
<1>. DEFINE t == prioTbl[prio]
<1>1. /\ t \in Tasks /\ tcb[t].dly # 0
      /\ tcb' = [tcb EXCEPT ![t] = TimedOut(tcb[t])]
      /\ UNCHANGED <<app, prioTbl, evt, owed, cur, lock>>
  BY DEF OSTimeDlyResume, Leave, cpu
<1>. HIDE DEF t
<1>2. tcb'[t] = TimedOut(tcb[t]) /\ \A u \in Tasks \ {t} : tcb'[u] = tcb[u]
  BY <1>1 DEF IInv, Common, Types
<1>3. {t} \in SUBSET Tasks
  BY <1>1
<1>. QED  BY <1>1, <1>2, <1>3, ExpiryLends

\* A task sleeps with the scheduler unlocked.
LEMMA OSTimeDlyLends ==
  ASSUME IInv, NEW ticks \in 1 .. MaxDelay, OSTimeDly(ticks)
  PROVE  Lending'
<1>1. /\ cur \in Tasks /\ pos[cur] = "user" /\ "delay" \in app.calls
      /\ tcb' = [tcb EXCEPT ![cur].dly = ticks]
      /\ UNCHANGED <<app, prioTbl, evt, owed, cur, lock>>
  BY DEF OSTimeDly, Leave, cpu, Calls
<1>2. ~InPend(cur) /\ Block(cur)
  BY <1>1 DEF InPend, IInv, Common, Blocks
<1>3. ~Pending(cur)
  BY <1>2 DEF Block
<1>4. ASSUME NEW t \in Tasks
      PROVE  /\ tcb'[t].prio = tcb[t].prio /\ tcb'[t].stat = tcb[t].stat
             /\ tcb'[t].outcome = tcb[t].outcome
             /\ t # cur => tcb'[t].dly = tcb[t].dly
  BY <1>1 DEF IInv, Common, Types, TaskBlocks
<1>5. ASSUME Inheriting(app) PROVE Calm'
  <2>1. Calm /\ "lock" \notin app.calls
    BY <1>1, <1>5 DEF IInv, Lending, Inheriting
  <2>2. ~(lock > 0)
    BY <2>1 DEF Calm
  <2>3. \A t \in Tasks : ~Suspended(t)' /\ tcb'[t].outcome # "to" /\ (Pending(t)' => tcb'[t].dly = 0)
    BY <1>3, <1>4, <2>1 DEF Calm, Suspended, Pending
  <2>. QED  BY <1>1, <2>2, <2>3 DEF Calm
<1>. QED  BY <1>1, <1>4, <1>5, LendingFrame

\* In a program with a mutex no task is suspended and no priority changed.
LEMMA PlainOnly ==
  ASSUME IInv, NEW p \in Prios, NEW q \in Prios,
         OSTaskSuspend(p) \/ OSTaskResume(p) \/ OSTaskChangePrio(p, q)
  PROVE  Lending'
<1>1. app' = app /\ {"suspend", "changePrio", "changeOwnPrio"} \cap app.calls # {}
  BY DEF OSTaskSuspend, OSTaskResume, OSTaskChangePrio, Calls, Leave
<1>2. ~Inheriting(app)
  BY <1>1 DEF Inheriting
<1>. QED  BY <1>1, <1>2 DEF Lending

LEMMA KernelNextLends == IInv /\ KernelNext => Lending'
  BY OS_SchedLends, OSSchedLockLends, OSTimeTickLends, OSTimeDlyLends, OSTimeDlyResumeLends,
     PlainOnly DEF KernelNext

\* Tasks woken with a message, or with an abort, wait for nothing any more.
LEMMA WakeLends ==
  ASSUME IInv, NEW e \in Events, ~Mutex(e), NEW W \in SUBSET Tasks,
         NEW m \in Messages \cup {Nil}, NEW outcome \in {"ok", "abort"},
         OS_EventTaskRdy(tcb, rdy, W, m, outcome),
         app' = app, prioTbl' = prioTbl, lock' = lock, lock # 0 => cur' = cur,
         \A d \in Events \ {e} : evt'[d] = evt[d] /\ owed'[d] = owed[d]
  PROVE  Lending'
<1>1. Woken(W, m, outcome)
  BY WakeFacts DEF IInv
<1>2. ASSUME NEW t \in Tasks
      PROVE  /\ tcb'[t].prio = tcb[t].prio
             /\ tcb'[t].stat \subseteq tcb[t].stat
             /\ Calm => tcb'[t].outcome # "to"
             /\ tcb[t].dly = 0 => tcb'[t].dly = 0
  <2>1. CASE t \in W
    BY <1>1, <2>1 DEF Woken
  <2>2. CASE t \notin W
    BY <1>1, <2>2 DEF Woken, Calm
  <2>. QED  BY <2>1, <2>2
<1>3. \A d \in Events : Mutex(d) => evt'[d] = evt[d] /\ owed'[d] = owed[d]
  OBVIOUS
<1>. QED  BY <1>2, <1>3, QuietLends

\* What an event other than a mutex stores changes, and no task's block.
LEMMA StockLends ==
  ASSUME IInv, NEW e \in Events, ~Mutex(e),
         app' = app, tcb' = tcb, prioTbl' = prioTbl, lock' = lock, lock # 0 => cur' = cur,
         \A d \in Events \ {e} : evt'[d] = evt[d] /\ owed'[d] = owed[d]
  PROVE  Lending'
<1>1. \A t \in Tasks : Calm => tcb'[t].outcome # "to"
  BY DEF Calm
<1>2. \A d \in Events : Mutex(d) => evt'[d] = evt[d] /\ owed'[d] = owed[d]
  OBVIOUS
<1>. QED  BY <1>1, <1>2, QuietLends

LEMMA PostLends ==
  ASSUME IInv, NEW s, NEW e \in Events, ~Mutex(e), NEW m \in Messages, NEW opt, Post(s, e, m, opt)
  PROVE  Lending'
<1>1. Deliver(e, m, opt) /\ app' = app /\ lock' = lock /\ (lock # 0 => cur' = cur)
  BY DEF Post, Leave, OSIntExit, Switch, cpu
<1>2. \A d \in Events \ {e} : evt'[d] = evt[d] /\ owed'[d] = owed[d]
  BY <1>1 DEF Deliver, WithoutWaiters, IInv, Common, Types
<1>3. prioTbl' = prioTbl
  BY <1>1 DEF Deliver
<1>4. CASE evt[e].wait # {}
  <2>1. OS_EventTaskRdy(tcb, rdy, Waiters(e, opt), m, "ok")
    BY <1>1, <1>4 DEF Deliver
  <2>2. Waiters(e, opt) \in SUBSET Tasks
    BY <1>4, WaitersWait DEF IInv
  <2>. QED  BY <1>1, <1>2, <1>3, <2>1, <2>2, WakeLends
<1>5. CASE evt[e].wait = {}
  <2>1. tcb' = tcb
    BY <1>1, <1>5 DEF Deliver
  <2>. QED  BY <1>1, <1>2, <1>3, <2>1, StockLends
<1>. QED  BY <1>4, <1>5

LEMMA PendAbortLends ==
  ASSUME IInv, NEW s, NEW e \in Events, ~Mutex(e), NEW opt, PendAbort(s, e, opt)
  PROVE  Lending'
<1>1. /\ OS_EventTaskRdy(tcb, rdy, Waiters(e, opt), Nil, "abort")
      /\ app' = app /\ prioTbl' = prioTbl /\ lock' = lock /\ cur' = cur
      /\ \A d \in Events \ {e} : evt'[d] = evt[d] /\ owed'[d] = owed[d]
  BY DEF PendAbort, Leave, cpu, WithoutWaiters, IInv, Common, Types
<1>2. Waiters(e, opt) \in SUBSET Tasks
  BY WaitersWait DEF IInv, PendAbort
<1>. QED  BY <1>1, <1>2, WakeLends

LEMMA TakeLends ==
  ASSUME IInv, NEW e \in Events, ~Mutex(e), Take(e)
  PROVE  Lending'
<1>1. /\ app' = app /\ tcb' = tcb /\ prioTbl' = prioTbl /\ lock' = lock /\ cur' = cur
      /\ \A d \in Events \ {e} : evt'[d] = evt[d] /\ owed'[d] = owed[d]
  BY DEF Take, Leave, cpu, IInv, Common, Types
<1>. QED  BY <1>1, StockLends

LEMMA OSSemSetLends ==
  ASSUME IInv, NEW e \in Events, ~Mutex(e), NEW cnt, OSSemSet(e, cnt)
  PROVE  Lending'
<1>1. /\ app' = app /\ tcb' = tcb /\ prioTbl' = prioTbl /\ lock' = lock /\ cur' = cur
      /\ \A d \in Events \ {e} : evt'[d] = evt[d] /\ owed'[d] = owed[d]
  BY DEF OSSemSet, Leave, cpu, IInv, Common, Types
<1>. QED  BY <1>1, StockLends

LEMMA OSQFlushLends ==
  ASSUME IInv, NEW e \in Events, ~Mutex(e), OSQFlush(e)
  PROVE  Lending'
<1>1. /\ app' = app /\ tcb' = tcb /\ prioTbl' = prioTbl /\ lock' = lock /\ cur' = cur
      /\ \A d \in Events \ {e} : evt'[d] = evt[d] /\ owed'[d] = owed[d]
  BY DEF OSQFlush, Leave, cpu, IInv, Common, Types
<1>. QED  BY <1>1, StockLends

\* A task returns from a Pend on a mutex only as its owner.
LEMMA PendEndLends ==
  ASSUME IInv, NEW kind, NEW msg, PendEnd(kind, msg)
  PROVE  Lending'
<1>. DEFINE e == tcb[cur].evp
<1>1. /\ cur \in Tasks /\ evt[e].kind = kind
      /\ evt' = IF tcb[cur].outcome = "to" THEN WithoutWaiters(e, {cur}) ELSE evt
      /\ owed' = IF kind # "mutex" /\ tcb[cur].outcome = "ok"
                   THEN [owed EXCEPT ![e][tcb[cur].msg] = @ - 1] ELSE owed
      /\ tcb' = [tcb EXCEPT ![cur].stat = {}, ![cur].outcome = "ok", ![cur].evp = Nil,
                            ![cur].msg = msg]
      /\ UNCHANGED <<app, prioTbl, lock, cur>>
  BY DEF PendEnd, Leave, cpu
<1>. HIDE DEF e
<1>2. ASSUME NEW t \in Tasks
      PROVE  /\ tcb'[t].prio = tcb[t].prio /\ tcb'[t].stat \subseteq tcb[t].stat
             /\ tcb'[t].dly = tcb[t].dly
             /\ t = cur => tcb'[t].outcome = "ok"
             /\ t # cur => tcb'[t].outcome = tcb[t].outcome
  BY <1>1 DEF IInv, Common, Types, TaskBlocks
<1>3. \A t \in Tasks : Calm => tcb'[t].outcome # "to"
  BY <1>2 DEF Calm
<1>4. ASSUME NEW d \in Events, Mutex(d) PROVE evt'[d] = evt[d] /\ owed'[d] = owed[d]
  <2>1. evt[d].kind = "mutex" /\ tcb[cur].outcome # "to"
    BY <1>1, <1>4, MutexFacts DEF Calm
  <2>2. evt' = evt
    BY <1>1, <2>1
  <2>3. CASE d = e
    BY <1>1, <2>1, <2>2, <2>3
  <2>4. CASE d # e
    BY <1>1, <2>2, <2>4 DEF IInv, Common, Types
  <2>. QED  BY <2>3, <2>4
<1>. QED  BY <1>1, <1>2, <1>3, <1>4, QuietLends

\* The running task, ready until now, queues on an event whose owner, when it
\* is a mutex, is not below it.
LEMMA WaitLends ==
  ASSUME IInv, NEW s, Calls(s), lock = 0, NEW e \in Events, NEW timeout \in app.timeouts,
         OS_EventTaskWait(e, tcb, evt, rdy, timeout), UNCHANGED <<prioTbl, owed>>,
         Mutex(e) => evt[e].owner # Nil /\ tcb[evt[e].owner].prio <= tcb[cur].prio
  PROVE  Lending'
<1>1. /\ cur \in Tasks /\ pos[cur] = "user"
      /\ tcb' = [tcb EXCEPT ![cur].stat = @ \cup {"pend"}, ![cur].outcome = "ok",
                            ![cur].dly = timeout, ![cur].evp = e]
      /\ evt' = [evt EXCEPT ![e].wait = @ \cup {tcb[cur].prio}]
      /\ UNCHANGED <<app, prioTbl, owed, lock, cur>>
  BY DEF OS_EventTaskWait, cpu, Calls
<1>2. ASSUME NEW t \in Tasks
      PROVE  /\ tcb'[t].prio = tcb[t].prio
             /\ t = cur => /\ tcb'[t].stat = tcb[t].stat \cup {"pend"}
                           /\ tcb'[t].outcome = "ok" /\ tcb'[t].dly = timeout
             /\ t # cur => tcb'[t] = tcb[t]
  BY <1>1 DEF IInv, Common, Types, TaskBlocks
<1>. SUFFICES ASSUME Inheriting(app) PROVE Lending'
  BY <1>1 DEF Lending
<1>3. Calm /\ timeout = 0
  BY DEF IInv, Lending, Inheriting
<1>4. Calm'
  <2>1. \A t \in Tasks : ~Suspended(t)' /\ tcb'[t].outcome # "to"
    BY <1>2, <1>3 DEF Calm, Suspended
  <2>2. \A t \in Tasks : Pending(t)' => tcb'[t].dly = 0
    BY <1>2, <1>3 DEF Calm, Pending
  <2>3. ~(lock' > 0)
    BY <1>1
  <2>. QED  BY <2>1, <2>2, <2>3 DEF Calm
<1>5. ASSUME NEW d \in Events
      PROVE  /\ evt'[d].owner = evt[d].owner /\ evt'[d].mprio = evt[d].mprio /\ evt'[d].pip = evt[d].pip
             /\ evt'[d].wait = IF d = e THEN evt[d].wait \cup {tcb[cur].prio} ELSE evt[d].wait
  BY <1>1 DEF IInv, Common, Types, EventBlocks
<1>6. ASSUME NEW d \in Events, Mutex(d) PROVE MutexTruthful(d)'
  <2>1. MutexTruthful(d) /\ evt[d].owner \in Tasks \cup {Nil}
    BY <1>6, MutexFacts DEF IInv, Common, Types, EventBlocks
  <2>2. evt[d].owner = Nil => Free(d)'
    BY <1>1, <1>5, <1>6, <2>1 DEF MutexTruthful, Free
  <2>3. evt[d].owner # Nil => Owned(d)'
    <3>. SUFFICES ASSUME evt[d].owner # Nil PROVE Owned(d)'
      OBVIOUS
    <3>1. Owned(d) /\ tcb'[evt[d].owner].prio = tcb[evt[d].owner].prio
      BY <1>2, <2>1 DEF MutexTruthful
    <3>2. \A p \in evt'[d].wait : tcb[evt[d].owner].prio <= p
      BY <1>5, <1>6, <3>1 DEF Owned
    <3>3. evt[d].wait # {} => evt'[d].wait # {}
      BY <1>5
    <3>. QED  BY <1>1, <1>5, <3>1, <3>2, <3>3 DEF Owned
  <2>4. UNCHANGED <<app, prioTbl, owed>>
    BY <1>1
  <2>5. /\ evt'[d].pip = app'.pip[d]
        /\ evt'[d].owner = Nil <=> evt'[d].mprio = Available
    BY <1>5, <2>1, <2>4 DEF MutexTruthful
  <2>6. IF evt'[d].owner = Nil THEN Free(d)' ELSE Owned(d)'
    BY <1>5, <2>2, <2>3
  <2>7. \A t \in Tasks : /\ t # evt'[d].owner => tcb'[t].prio = FirstPrio[t]
                         /\ prioTbl'[FirstPrio[t]] = t
    BY <1>2, <1>5, <2>1, <2>4 DEF MutexTruthful
  <2>8. \A m \in Messages : owed'[d][m] \in Nat
    BY <2>1, <2>4 DEF MutexTruthful
  <2>. QED  BY <2>5, <2>6, <2>7, <2>8 DEF MutexTruthful
<1>. QED  BY <1>1, <1>4, <1>6 DEF Lending, Mutex

LEMMA PendLends ==
  ASSUME IInv, NEW s, NEW e \in Events, ~Mutex(e), NEW timeout \in app.timeouts, Pend(s, e, timeout)
  PROVE  Lending'
<1>1. CASE Take(e)
  BY <1>1, TakeLends
<1>2. CASE Calls(s) /\ lock = 0 /\ OS_EventTaskWait(e, tcb, evt, rdy, timeout) /\ UNCHANGED <<prioTbl, owed>>
  BY <1>2, WaitLends
<1>. QED  BY <1>1, <1>2 DEF Pend

-----------------------------------------------------------------------------
(***************************************************************************)
(* The services of a mutex.                                                *)
(***************************************************************************)

\* A task that calls a service is ready, whether the scheduler is locked or not.
LEMMA CallerReady ==
  ASSUME IInv, Inheriting(app), NEW s, Calls(s)
  PROVE  /\ cur \in Tasks /\ pos[cur] = "user" /\ ~InPend(cur)
         /\ tcb[cur].stat = {} /\ tcb[cur].dly = 0 /\ tcb[cur].evp = Nil
         /\ tcb[cur].outcome = "ok" /\ tcb[cur].prio \in rdy
<1>1. cur \in Tasks /\ pos[cur] = "user"
  BY DEF Calls
<1>2. Block(cur) /\ ~InPend(cur)
  BY <1>1 DEF InPend, IInv, Common, Blocks
<1>3. tcb[cur].evp = Nil /\ ~Pending(cur) /\ tcb[cur].outcome = "ok"
  BY <1>2 DEF Block
<1>4. Calm
  BY DEF IInv, Lending
<1>5. tcb[cur].stat = {}
  BY <1>1, <1>3, <1>4 DEF Calm, Suspended, Pending, IInv, Common, Types, TaskBlocks
<1>6. tcb[cur].dly = 0
  <2>1. CASE lock = 0
    BY <1>1, <2>1, RunnerReady DEF IInv, Common
  <2>2. CASE lock # 0
    BY <1>4, <2>2 DEF Calm, IInv, Common, Types
  <2>. QED  BY <2>1, <2>2
<1>. QED  BY <1>1, <1>2, <1>3, <1>5, <1>6 DEF IInv, Common, Kernel, ReadyListTruthful

LEMMA SoleMutex ==
  ASSUME IInv, NEW e \in Events, Mutex(e), app' = app, Calm', MutexTruthful(e)'
  PROVE  Lending'
<1>1. ASSUME NEW d \in Events, Mutex(d) PROVE d = e
  BY <1>1, MutexFacts
<1>2. ASSUME NEW d \in Events, Mutex(d)' PROVE MutexTruthful(d)'
  <2>1. d = e
    BY <1>1, <1>2 DEF Mutex
  <2>. QED  BY <2>1
<1>. QED  BY <1>2 DEF Lending

\* A mutex nobody waits for changes hands, is taken or becomes free.
Hands(e, owner, mprio) ==
    /\ evt' = [evt EXCEPT ![e].mprio = mprio, ![e].owner = owner]
    /\ UNCHANGED <<tcb, rdy, prioTbl, owed>>
    /\ Leave(FALSE)

LEMMA HandsKept ==
  ASSUME IInv, NEW e \in Events, Mutex(e), NEW s, Calls(s),
         NEW owner \in Tasks \cup {Nil}, NEW mprio \in Prios \cup {Available},
         Hands(e, owner, mprio)
  PROVE  /\ Common' /\ Calm' /\ app' = app
         /\ evt'[e].wait = evt[e].wait /\ evt'[e].pip = evt[e].pip
         /\ evt'[e].owner = owner /\ evt'[e].mprio = mprio
<1>0. /\ evt' = [evt EXCEPT ![e].mprio = mprio, ![e].owner = owner]
      /\ UNCHANGED <<tcb, rdy, prioTbl, owed>> /\ Leave(FALSE)
  BY DEF Hands
<1>1. cur \in Tasks /\ pos[cur] = "user" /\ app' = app /\ \A t \in Tasks : InPend(t)' <=> InPend(t)
  BY <1>0, CallFacts DEF IInv
<1>2. cur' = cur /\ lock' = lock
  BY <1>0 DEF Leave, cpu
<1>3. Calm'
  <2>1. Calm
    BY MutexFacts
  <2>. QED  BY <1>0, <1>1, <1>2, <2>1 DEF Calm, Suspended, Pending
<1>4. /\ evt' \in [Events -> EventBlocks]
      /\ \A d \in Events : /\ evt'[d].kind = evt[d].kind /\ evt'[d].buf = evt[d].buf
                           /\ evt'[d].wait = evt[d].wait
      /\ evt'[e].pip = evt[e].pip /\ evt'[e].owner = owner /\ evt'[e].mprio = mprio
  <2>1. evt[e] \in EventBlocks /\ evt \in [Events -> EventBlocks]
    BY DEF IInv, Common, Types
  <2>. DEFINE b == [evt[e] EXCEPT !.mprio = mprio, !.owner = owner]
  <2>2. evt' = [evt EXCEPT ![e] = b]
    BY <1>0, <2>1
  <2>3. /\ b \in EventBlocks /\ b.wait = evt[e].wait /\ b.kind = evt[e].kind /\ b.buf = evt[e].buf
        /\ b.pip = evt[e].pip /\ b.owner = owner /\ b.mprio = mprio
    BY <2>1 DEF EventBlocks
  <2>. HIDE DEF b
  <2>. QED  BY <2>1, <2>2, <2>3
<1>5. Tables' /\ ReadyListTruthful'
  BY <1>0, <1>1 DEF IInv, Common, Kernel, Tables, ReadyListTruthful
<1>6. Buffers'
  BY <1>1, <1>4, BuffersFrame DEF IInv, Common
<1>7. Blocks'
  BY <1>0, <1>1 DEF IInv, Common, Blocks, Block, Pending, Mutex
<1>8. WaitListTruthful'
  BY <1>0, <1>4 DEF IInv, Common, WaitListTruthful, Pending
<1>9. NothingLost'
  <2>1. \A t \in Tasks, d \in Events : Granted(t, d)' <=> Granted(t, d)
    BY <1>0, <1>1 DEF Granted, InPend, Pending
  <2>. QED  BY <1>0, <1>4, <2>1, NothingLostFrame DEF IInv, Common
<1>10. /\ tcb' \in [Tasks -> TaskBlocks] /\ rdy' \in SUBSET Prios /\ rdy' = rdy
       /\ owed' \in [Events -> [Messages -> Int]] /\ prioTbl' = prioTbl
  BY <1>0 DEF IInv, Common, Types
<1>11. Common'
  BY <1>0, <1>1, <1>4, <1>5, <1>6, <1>7, <1>8, <1>9, <1>10, SectionKept DEF IInv
<1>. QED  BY <1>1, <1>3, <1>4, <1>11

\* A free mutex is taken: the owner has the priority it was created with.
LEMMA AcquireKept ==
  ASSUME IInv, NEW e \in Events, Mutex(e), NEW s, Calls(s), Acquire(e)
  PROVE  IInv'
<1>. DEFINE p == tcb[cur].prio
<1>1. /\ evt[e].mprio = Available /\ Leave(FALSE)
      /\ evt' = [evt EXCEPT ![e].mprio = tcb[cur].prio, ![e].owner = cur]
      /\ UNCHANGED <<tcb, rdy, prioTbl, owed>>
  BY DEF Acquire
<1>2. cur \in Tasks /\ p \in Prios
  BY DEF Calls, IInv, Common, Types, TaskBlocks
<1>3. cur \in Tasks \cup {Nil} /\ p \in Prios \cup {Available}
  BY <1>2
<1>4. Hands(e, cur, p)
  BY <1>1 DEF Hands
<1>. HIDE DEF p
<1>5. /\ Common' /\ Calm' /\ app' = app
      /\ evt'[e].wait = evt[e].wait /\ evt'[e].pip = evt[e].pip
      /\ evt'[e].owner = cur /\ evt'[e].mprio = p
  BY <1>3, <1>4, HandsKept
<1>6. MutexTruthful(e) /\ evt[e].owner = Nil
  BY <1>1, MutexFacts DEF MutexTruthful
<1>7. evt[e].wait = {} /\ prioTbl[evt[e].pip] = Reserved
  BY <1>6 DEF MutexTruthful, Free
<1>8. \A t \in Tasks : tcb[t].prio = FirstPrio[t]
  BY <1>6, Constants DEF MutexTruthful
<1>9. Owned(e)'
  BY <1>1, <1>2, <1>5, <1>7, <1>8 DEF Owned, p
<1>10. cur # Nil /\ p # Available
  BY <1>2, Constants, EventsAssumption DEF EventsAssumption
<1>11. MutexTruthful(e)'
  BY <1>1, <1>5, <1>6, <1>8, <1>9, <1>10 DEF MutexTruthful
<1>. QED  BY <1>5, <1>11, SoleMutex DEF IInv

\* What is known of a mutex somebody has.
LEMMA OwnerFacts ==
  ASSUME IInv, NEW e \in Events, Mutex(e), evt[e].mprio # Available
  PROVE  /\ evt[e].owner \in Tasks /\ evt[e].mprio = FirstPrio[evt[e].owner] /\ Owned(e)
         /\ tcb[evt[e].owner].prio \in {evt[e].mprio, evt[e].pip}
         /\ evt[e].pip < evt[e].mprio
         /\ \A t \in Tasks \ {evt[e].owner} : tcb[t].prio = FirstPrio[t] /\ evt[e].pip < tcb[t].prio
         /\ \A t \in Tasks : FirstPrio[t] \in Prios /\ tcb[t].prio \in Prios /\ FirstPrio[t] # evt[e].pip
<1>1. MutexTruthful(e) /\ \A t \in Tasks : evt[e].pip < FirstPrio[t] /\ FirstPrio[t] \in Prios
  BY MutexFacts
<1>2. evt[e].owner \in Tasks \cup {Nil} /\ \A t \in Tasks : tcb[t].prio \in Prios
  BY DEF IInv, Common, Types, EventBlocks, TaskBlocks
<1>3. evt[e].owner \in Tasks /\ Owned(e)
  BY <1>1, <1>2 DEF MutexTruthful
<1>4. evt[e].mprio = FirstPrio[evt[e].owner] /\ tcb[evt[e].owner].prio \in {evt[e].mprio, evt[e].pip}
  BY <1>3 DEF Owned
<1>5. \A t \in Tasks \ {evt[e].owner} : tcb[t].prio = FirstPrio[t]
  BY <1>1 DEF MutexTruthful
<1>6. evt[e].pip \in Prios
  BY MutexFacts
<1>7. \A t \in Tasks : FirstPrio[t] # evt[e].pip
  BY <1>1, <1>6 DEF Prios
<1>. QED  BY <1>1, <1>2, <1>3, <1>4, <1>5, <1>7

\* The owner runs at the mutex's priority, or the running task is not above it.
LEMMA NoRaiseKept ==
  ASSUME IInv, NEW e \in Events, Mutex(e), NEW s, Calls(s), lock = 0, evt[e].mprio # Available,
         ~(tcb[evt[e].owner].prio > evt[e].pip /\ evt[e].mprio > tcb[cur].prio),
         NEW timeout \in app.timeouts, InheritAndWait(e, timeout), owed' = owed
  PROVE  IInv'
<1>. DEFINE o == evt[e].owner
<1>1. OS_EventTaskWait(e, tcb, evt, rdy, timeout) /\ UNCHANGED <<prioTbl, owed>>
  BY DEF InheritAndWait
<1>2. timeout \in 0 .. MaxDelay
  BY DEF IInv, Common, Sound, App
<1>3. Common'
  BY <1>1, <1>2, WaitKept DEF IInv
<1>4. cur \in Tasks
  BY DEF Calls
<1>5. /\ o \in Tasks /\ tcb[o].prio \in {evt[e].mprio, evt[e].pip} /\ evt[e].pip < evt[e].mprio
      /\ cur # o => evt[e].pip < tcb[cur].prio
      /\ tcb[cur].prio \in Prios /\ tcb[o].prio \in Prios
      /\ evt[e].mprio \in Prios /\ evt[e].pip \in Prios
  BY <1>4, OwnerFacts, MutexFacts
<1>6. tcb[o].prio <= tcb[cur].prio
  <2>1. CASE cur = o
    BY <1>5, <2>1 DEF Prios
  <2>2. CASE cur # o
    <3>1. Prios \subseteq Int
      BY DEF Prios
    <3>2. tcb[o].prio \in Int /\ evt[e].pip \in Int /\ evt[e].mprio \in Int /\ tcb[cur].prio \in Int
      BY <1>5, <3>1
    <3>3. tcb[o].prio <= evt[e].pip \/ evt[e].mprio <= tcb[cur].prio
      BY <3>2
    <3>4. tcb[o].prio = evt[e].mprio \/ tcb[o].prio = evt[e].pip
      BY <1>5
    <3>5. evt[e].pip < evt[e].mprio /\ evt[e].pip < tcb[cur].prio
      BY <1>5, <2>2
    <3>. HIDE DEF o
    <3>. QED  BY <3>2, <3>3, <3>4, <3>5
  <2>. QED  BY <2>1, <2>2
<1>7. o # Nil
  BY <1>5, Constants
<1>8. Lending'
  BY <1>1, <1>6, <1>7, WaitLends
<1>. QED  BY <1>3, <1>8 DEF IInv

\* Before the owner o of e takes its priority pip, so as not to keep the running
\* task waiting: nobody uses pip, and everybody has its own priority.
Raising(e, o, p, pip) ==
    /\ cur \in Tasks /\ o \in Tasks \ {cur}
    /\ p \in Prios /\ pip \in Prios /\ pip # Lowest /\ pip < p
    /\ evt[e].owner = o /\ evt[e].mprio = FirstPrio[o] /\ evt[e].pip = pip
    /\ \A t \in Tasks : /\ tcb[t].prio = FirstPrio[t] /\ FirstPrio[t] \in Prios
                        /\ pip < FirstPrio[t] /\ pip # FirstPrio[t]
    /\ FirstPrio[cur] = p /\ FirstPrio[o] # p /\ p < FirstPrio[o]
    /\ prioTbl[pip] = Reserved /\ pip \notin rdy
    /\ \A d \in Events : pip \notin evt[d].wait
    /\ prioCur = p /\ tcb[cur].stat = {} /\ tcb[cur].dly = 0
    /\ tcb[cur].evp = Nil /\ tcb[cur].outcome = "ok" /\ ~InPend(cur)

LEMMA RaisingHolds ==
  ASSUME IInv, NEW e \in Events, Mutex(e), NEW s, Calls(s), lock = 0, evt[e].mprio # Available,
         tcb[evt[e].owner].prio > evt[e].pip, evt[e].mprio > tcb[cur].prio
  PROVE  Raising(e, evt[e].owner, tcb[cur].prio, evt[e].pip)
<1>. DEFINE o == evt[e].owner
            p == tcb[cur].prio
            pip == evt[e].pip
<1>1. /\ cur \in Tasks /\ pos[cur] = "user" /\ ~InPend(cur)
      /\ tcb[cur].stat = {} /\ tcb[cur].dly = 0 /\ tcb[cur].evp = Nil
      /\ tcb[cur].outcome = "ok"
  BY CallerReady, MutexFacts
<1>2. prioCur = p
  BY <1>1, RunnerReady DEF IInv, Common
<1>3. /\ o \in Tasks /\ evt[e].mprio = FirstPrio[o] /\ Owned(e)
      /\ tcb[o].prio \in {evt[e].mprio, pip} /\ pip < evt[e].mprio
      /\ \A t \in Tasks \ {o} : tcb[t].prio = FirstPrio[t]
      /\ \A t \in Tasks : FirstPrio[t] \in Prios /\ tcb[t].prio \in Prios /\ FirstPrio[t] # pip
  BY OwnerFacts
<1>4. pip \in Prios /\ pip # Lowest /\ \A t \in Tasks : pip < FirstPrio[t]
  BY MutexFacts
<1>5. Prios \subseteq Int
  BY DEF Prios
<1>6. tcb[o].prio # pip
  <2>1. pip \in Int /\ tcb[o].prio \in Int /\ tcb[o].prio > pip
    BY <1>3, <1>4, <1>5
  <2>. HIDE DEF o, pip
  <2>. QED  BY <2>1
<1>7. tcb[o].prio = FirstPrio[o] /\ prioTbl[pip] = Reserved
  BY <1>3, <1>6 DEF Owned
<1>8. o # cur /\ p = FirstPrio[cur]
  <2>1. p \in Int /\ evt[e].mprio \in Int /\ evt[e].mprio > p
    BY <1>1, <1>3, <1>5
  <2>2. p # FirstPrio[o]
    BY <1>3, <2>1
  <2>3. o # cur
    BY <1>7, <2>2
  <2>. QED  BY <1>1, <1>3, <2>3
<1>9. p \in Prios /\ p < FirstPrio[o] /\ FirstPrio[o] # p /\ pip < p
  <2>1. p \in Prios
    BY <1>1, <1>3
  <2>2. pip < p
    BY <1>1, <1>4, <1>8
  <2>3. p \in Int /\ FirstPrio[o] \in Int /\ FirstPrio[o] > p
    BY <1>3, <1>5, <2>1
  <2>4. p < FirstPrio[o] /\ FirstPrio[o] # p
    <3>. HIDE DEF p, o
    <3>. QED  BY <2>3
  <2>. QED  BY <2>1, <2>2, <2>4
<1>10. \A t \in Tasks : tcb[t].prio = FirstPrio[t]
  BY <1>3, <1>7
<1>11. pip \notin rdy
  BY <1>7, Constants DEF IInv, Common, Kernel, Tables
<1>12. \A d \in Events : pip \notin evt[d].wait
  BY <1>3, <1>4, <1>10 DEF IInv, Common, WaitListTruthful
<1>. QED  BY <1>1, <1>2, <1>3, <1>4, <1>7, <1>8, <1>9, <1>10, <1>11, <1>12 DEF Raising

\* What the call changes: o has the priority pip wherever it had its own, and
\* the running task is in the wait list of e.
Lent(e, o, p, pip) ==
    /\ tcb' \in [Tasks -> TaskBlocks]
    /\ /\ tcb'[o].prio = pip /\ tcb'[o].stat = tcb[o].stat /\ tcb'[o].outcome = tcb[o].outcome
       /\ tcb'[o].dly = tcb[o].dly /\ tcb'[o].evp = tcb[o].evp /\ tcb'[o].msg = tcb[o].msg
    /\ /\ tcb'[cur].prio = p /\ tcb'[cur].stat = {"pend"} /\ tcb'[cur].outcome = "ok"
       /\ tcb'[cur].dly = 0 /\ tcb'[cur].evp = e
    /\ \A t \in Tasks \ {o, cur} : tcb'[t] = tcb[t]
    /\ rdy' \in SUBSET Prios
    /\ \A q \in Prios : q \in rdy' <=>
          q # p /\ IF q = pip THEN FirstPrio[o] \in rdy ELSE q \in rdy /\ q # FirstPrio[o]
    /\ evt' \in [Events -> EventBlocks]
    /\ \A d \in Events, q \in Prios : q \in evt'[d].wait <=>
          \/ d = e /\ q = p
          \/ IF q = pip THEN FirstPrio[o] \in evt[d].wait
             ELSE q \in evt[d].wait /\ q # FirstPrio[o]
    /\ \A d \in Events :
          /\ evt'[d].kind = evt[d].kind /\ evt'[d].buf = evt[d].buf /\ evt'[d].pip = evt[d].pip
          /\ evt'[d].owner = evt[d].owner /\ evt'[d].mprio = evt[d].mprio
    /\ prioTbl' \in [Prios -> Tasks \cup {Nil, Idle, Reserved}]
    /\ \A q \in Prios : prioTbl'[q] = IF q = pip THEN o ELSE prioTbl[q]
    /\ pos' \in [Tasks -> {"user", "sched", "schedPend", "pend"}] /\ pos'[cur] = "schedPend"
    /\ \A t \in Tasks : InPend(t)' <=> t = cur \/ InPend(t)
    /\ app' = app /\ cur' = cur /\ prioCur' = prioCur /\ lock' = lock /\ owed' = owed

\* An owner outside the ready list is in the wait list of the event its block
\* points at, and in no other.
LEMMA OwnerPlace ==
  ASSUME IInv, Calm, NEW o \in Tasks
  PROVE  /\ tcb[o].prio \in rdy \/ tcb[o].evp = Nil =>
               \A d \in Events : tcb[o].prio \notin evt[d].wait
         /\ tcb[o].prio \notin rdy /\ tcb[o].evp # Nil =>
               /\ tcb[o].evp \in Events
               /\ \A d \in Events : tcb[o].prio \in evt[d].wait <=> d = tcb[o].evp
<1>1. tcb[o] \in TaskBlocks /\ tcb[o].prio \in Prios /\ tcb[o].evp \in Events \cup {Nil}
  BY DEF IInv, Common, Types, TaskBlocks
<1>2. Block(o)
  BY DEF IInv, Common, Blocks
<1>3. ASSUME NEW d \in Events
      PROVE  tcb[o].prio \in evt[d].wait <=> tcb[o].evp = d /\ Pending(o)
  <2>1. Waits(o) <=> Pending(o)
    BY DEF Waits, Calm
  <2>2. tcb[o].prio \in evt[d].wait => tcb[o].evp = d /\ Waits(o)
    BY WaiterFacts DEF IInv
  <2>3. tcb[o].evp = d /\ Waits(o) => tcb[o].prio \in evt[d].wait
    BY <1>1 DEF IInv, Common, WaitListTruthful, Waits
  <2>. QED  BY <2>1, <2>2, <2>3
<1>4. tcb[o].prio \in rdy <=> tcb[o].stat = {} /\ tcb[o].dly = 0
  BY DEF IInv, Common, Kernel, ReadyListTruthful
<1>5. tcb[o].stat = {} <=> ~Pending(o)
  BY <1>1 DEF Pending, Calm, Suspended, TaskBlocks
<1>6. tcb[o].evp # Nil /\ ~Pending(o) => tcb[o].dly = 0
  BY <1>2 DEF Block
<1>7. ASSUME tcb[o].prio \in rdy \/ tcb[o].evp = Nil, NEW d \in Events
      PROVE  tcb[o].prio \notin evt[d].wait
  BY <1>3, <1>4, <1>5, <1>7, Constants
<1>8. ASSUME tcb[o].prio \notin rdy, tcb[o].evp # Nil
      PROVE  Pending(o)
  BY <1>4, <1>5, <1>6, <1>8
<1>. QED  BY <1>1, <1>3, <1>7, <1>8

LEMMA LentHolds ==
  ASSUME IInv, NEW e \in Events, Mutex(e), NEW o, NEW p, NEW pip, Raising(e, o, p, pip),
         tcb[o].prio > pip, evt[e].mprio > tcb[cur].prio,
         InheritAndWait(e, 0), owed' = owed
  PROVE  Lent(e, o, p, pip)
<1>. DEFINE old == FirstPrio[o]
            e2 == tcb[o].evp
            moved(S) == (S \ {old}) \cup {pip}
            ready == IF old \in rdy THEN moved(rdy) ELSE rdy
            events == IF old \in rdy \/ e2 = Nil THEN evt ELSE [evt EXCEPT ![e2].wait = moved(@)]
            blocks == [tcb EXCEPT ![o].prio = pip]
<1>1. /\ cur \in Tasks /\ o \in Tasks /\ o # cur /\ p \in Prios /\ pip \in Prios /\ pip < p
      /\ evt[e].owner = o /\ evt[e].pip = pip /\ tcb[o].prio = old /\ tcb[cur].prio = p
      /\ old \in Prios /\ old # p /\ pip # old /\ pip \notin rdy
      /\ \A d \in Events : pip \notin evt[d].wait
      /\ tcb[cur].stat = {}
  BY DEF Raising
<1>2. OS_EventTaskWait(e, blocks, events, ready, 0) /\ prioTbl' = [prioTbl EXCEPT ![pip] = o]
  BY <1>1 DEF InheritAndWait
<1>3. /\ tcb \in [Tasks -> TaskBlocks] /\ tcb[cur] \in TaskBlocks /\ tcb[o] \in TaskBlocks
      /\ evt \in [Events -> EventBlocks] /\ rdy \in SUBSET Prios
      /\ prioTbl \in [Prios -> Tasks \cup {Nil, Idle, Reserved}]
      /\ pos \in [Tasks -> {"user", "sched", "schedPend", "pend"}]
  BY <1>1 DEF IInv, Common, Types
<1>4. pip # p
  <2>1. Prios \subseteq Int
    BY DEF Prios
  <2>. QED  BY <1>1, <2>1
<1>5. /\ blocks \in [Tasks -> TaskBlocks] /\ blocks[cur] = tcb[cur]
      /\ blocks[o].prio = pip /\ blocks[o].stat = tcb[o].stat /\ blocks[o].outcome = tcb[o].outcome
      /\ blocks[o].dly = tcb[o].dly /\ blocks[o].evp = tcb[o].evp /\ blocks[o].msg = tcb[o].msg
      /\ \A t \in Tasks \ {o} : blocks[t] = tcb[t]
  <2>. DEFINE b == [tcb[o] EXCEPT !.prio = pip]
  <2>1. blocks = [tcb EXCEPT ![o] = b]
    BY <1>1, <1>3
  <2>2. /\ b \in TaskBlocks /\ b.prio = pip /\ b.stat = tcb[o].stat /\ b.outcome = tcb[o].outcome
        /\ b.dly = tcb[o].dly /\ b.evp = tcb[o].evp /\ b.msg = tcb[o].msg
    BY <1>1, <1>3 DEF TaskBlocks
  <2>. HIDE DEF b, blocks
  <2>. QED  BY <1>1, <1>3, <2>1, <2>2
<1>6. /\ events \in [Events -> EventBlocks]
      /\ \A d \in Events :
            /\ events[d].kind = evt[d].kind /\ events[d].buf = evt[d].buf
            /\ events[d].pip = evt[d].pip
            /\ events[d].owner = evt[d].owner /\ events[d].mprio = evt[d].mprio
      /\ \A d \in Events, q \in Prios : q \in events[d].wait <=>
            IF q = pip THEN old \in evt[d].wait ELSE q \in evt[d].wait /\ q # old
  <2>1. Calm
    BY MutexFacts
  <2>2. CASE old \in rdy \/ e2 = Nil
    <3>1. \A d \in Events : old \notin evt[d].wait
      BY <1>1, <2>1, <2>2, OwnerPlace
    <3>2. events = evt
      BY <2>2
    <3>3. ASSUME NEW d \in Events, NEW q \in Prios
          PROVE  q \in evt[d].wait <=>
                    IF q = pip THEN old \in evt[d].wait ELSE q \in evt[d].wait /\ q # old
      <4>1. old \notin evt[d].wait /\ pip \notin evt[d].wait
        BY <1>1, <3>1
      <4>. QED  BY <4>1
    <3>. HIDE DEF events
    <3>. QED  BY <1>3, <3>2, <3>3
  <2>3. CASE ~(old \in rdy \/ e2 = Nil)
    <3>1. e2 \in Events /\ \A d \in Events : old \in evt[d].wait <=> d = e2
      BY <1>1, <2>1, <2>3, OwnerPlace
    <3>. DEFINE w == moved(evt[e2].wait)
                b == [evt[e2] EXCEPT !.wait = w]
    <3>2. evt[e2] \in EventBlocks
      BY <1>3, <3>1
    <3>3. w \in SUBSET Prios /\ \A q \in Prios : q \in w <=> q = pip \/ (q \in evt[e2].wait /\ q # old)
      BY <1>1, <3>2 DEF EventBlocks
    <3>4. events = [evt EXCEPT ![e2] = b]
      BY <1>3, <2>3, <3>1
    <3>. HIDE DEF w
    <3>5. /\ b \in EventBlocks /\ b.wait = w /\ b.kind = evt[e2].kind /\ b.buf = evt[e2].buf
          /\ b.pip = evt[e2].pip /\ b.owner = evt[e2].owner /\ b.mprio = evt[e2].mprio
      BY <3>2, <3>3 DEF EventBlocks
    <3>. HIDE DEF b, events, e2
    <3>6. events[e2] = b /\ \A d \in Events \ {e2} : events[d] = evt[d]
      BY <1>3, <3>1, <3>4
    <3>7. events \in [Events -> EventBlocks]
      BY <1>3, <3>1, <3>4, <3>5
    <3>8. ASSUME NEW d \in Events, NEW q \in Prios
          PROVE  q \in events[d].wait <=>
                   IF q = pip THEN old \in evt[d].wait ELSE q \in evt[d].wait /\ q # old
      <4>1. CASE d = e2
        BY <1>1, <3>1, <3>3, <3>5, <3>6, <4>1
      <4>2. CASE d # e2
        BY <1>1, <3>1, <3>6, <4>2
      <4>. QED  BY <4>1, <4>2
    <3>. QED  BY <3>5, <3>6, <3>7, <3>8
  <2>. QED  BY <2>2, <2>3
<1>7. /\ ready \in SUBSET Prios
      /\ \A q \in Prios : q \in ready <=> IF q = pip THEN old \in rdy ELSE q \in rdy /\ q # old
  BY <1>1, <1>3
<1>. HIDE DEF blocks, events, ready, old, e2
<1>8. /\ tcb' = [blocks EXCEPT ![cur].stat = @ \cup {"pend"}, ![cur].outcome = "ok",
                               ![cur].dly = 0, ![cur].evp = e]
      /\ evt' = [events EXCEPT ![e].wait = @ \cup {p}]
      /\ rdy' = ready \ {p} /\ pos' = [pos EXCEPT ![cur] = "schedPend"]
      /\ app' = app /\ cur' = cur /\ prioCur' = prioCur /\ lock' = lock
  BY <1>1, <1>2, <1>5 DEF OS_EventTaskWait, cpu
<1>9. /\ tcb' \in [Tasks -> TaskBlocks]
      /\ /\ tcb'[cur].prio = p /\ tcb'[cur].stat = {"pend"} /\ tcb'[cur].outcome = "ok"
         /\ tcb'[cur].dly = 0 /\ tcb'[cur].evp = e
      /\ \A t \in Tasks \ {cur} : tcb'[t] = blocks[t]
  <2>. DEFINE b == [blocks[cur] EXCEPT !.stat = {"pend"}, !.outcome = "ok", !.dly = 0, !.evp = e]
  <2>1. tcb' = [blocks EXCEPT ![cur] = b]
    <3>1. blocks[cur].stat \cup {"pend"} = {"pend"}
      BY <1>1, <1>5
    <3>. QED  BY <1>5, <1>8, <3>1
  <2>2. /\ b \in TaskBlocks /\ b.prio = p /\ b.stat = {"pend"} /\ b.outcome = "ok"
        /\ b.dly = 0 /\ b.evp = e
    <3>1. 0 \in 0 .. MaxDelay /\ {"pend"} \in SUBSET {"pend", "suspend"}
      BY Constants
    <3>2. blocks[cur] \in TaskBlocks /\ blocks[cur].prio = p
      BY <1>1, <1>3, <1>5
    <3>. QED  BY <3>1, <3>2 DEF TaskBlocks
  <2>. HIDE DEF b
  <2>. QED  BY <1>1, <1>5, <2>1, <2>2
<1>10. /\ evt' \in [Events -> EventBlocks]
       /\ \A d \in Events :
             /\ evt'[d].kind = events[d].kind /\ evt'[d].buf = events[d].buf
             /\ evt'[d].pip = events[d].pip
             /\ evt'[d].owner = events[d].owner /\ evt'[d].mprio = events[d].mprio
             /\ evt'[d].wait = IF d = e THEN events[d].wait \cup {p} ELSE events[d].wait
  <2>. DEFINE w == events[e].wait \cup {p}
              b == [events[e] EXCEPT !.wait = w]
  <2>1. events[e] \in EventBlocks
    BY <1>6
  <2>2. w \in SUBSET Prios
    BY <1>1, <2>1 DEF EventBlocks
  <2>3. evt' = [events EXCEPT ![e] = b]
    BY <1>6, <1>8
  <2>. HIDE DEF w
  <2>4. /\ b \in EventBlocks /\ b.wait = w /\ b.kind = events[e].kind /\ b.buf = events[e].buf
        /\ b.pip = events[e].pip /\ b.owner = events[e].owner /\ b.mprio = events[e].mprio
    BY <2>1, <2>2 DEF EventBlocks
  <2>. HIDE DEF b
  <2>5. evt'[e] = b /\ \A d \in Events \ {e} : evt'[d] = events[d]
    BY <1>6, <2>3
  <2>6. evt' \in [Events -> EventBlocks]
    BY <1>6, <2>3, <2>4
  <2>. QED  BY <2>4, <2>5, <2>6 DEF w
<1>11. ASSUME NEW d \in Events, NEW q \in Prios
       PROVE  q \in evt'[d].wait <=>
                \/ d = e /\ q = p
                \/ IF q = pip THEN old \in evt[d].wait ELSE q \in evt[d].wait /\ q # old
  <2>1. q \in events[d].wait <=> IF q = pip THEN old \in evt[d].wait ELSE q \in evt[d].wait /\ q # old
    BY <1>6
  <2>2. q \in evt'[d].wait <=> (d = e /\ q = p) \/ q \in events[d].wait
    BY <1>10
  <2>. QED  BY <2>1, <2>2
<1>12. rdy' \in SUBSET Prios /\ \A q \in Prios : q \in rdy' <=>
          q # p /\ IF q = pip THEN old \in rdy ELSE q \in rdy /\ q # old
  BY <1>7, <1>8
<1>13. /\ prioTbl' \in [Prios -> Tasks \cup {Nil, Idle, Reserved}]
       /\ \A q \in Prios : prioTbl'[q] = IF q = pip THEN o ELSE prioTbl[q]
  BY <1>1, <1>2, <1>3
<1>14. /\ pos' \in [Tasks -> {"user", "sched", "schedPend", "pend"}] /\ pos'[cur] = "schedPend"
       /\ \A t \in Tasks : InPend(t)' <=> t = cur \/ InPend(t)
  BY <1>1, <1>3, <1>8 DEF InPend
<1>15. /\ tcb'[o].prio = pip /\ tcb'[o].stat = tcb[o].stat /\ tcb'[o].outcome = tcb[o].outcome
       /\ tcb'[o].dly = tcb[o].dly /\ tcb'[o].evp = tcb[o].evp /\ tcb'[o].msg = tcb[o].msg
       /\ \A t \in Tasks \ {o, cur} : tcb'[t] = tcb[t]
  BY <1>1, <1>5, <1>9
<1>16. \A d \in Events :
          /\ evt'[d].kind = evt[d].kind /\ evt'[d].buf = evt[d].buf /\ evt'[d].pip = evt[d].pip
          /\ evt'[d].owner = evt[d].owner /\ evt'[d].mprio = evt[d].mprio
  BY <1>6, <1>10
<1>. QED  BY <1>8, <1>9, <1>10, <1>11, <1>12, <1>13, <1>14, <1>15, <1>16 DEF Lent, old

\* The owner takes the mutex's priority, and the running task waits.
LEMMA RaiseKept ==
  ASSUME IInv, NEW e \in Events, Mutex(e), lock = 0,
         NEW o, NEW p, NEW pip, Raising(e, o, p, pip), Lent(e, o, p, pip)
  PROVE  IInv'
<1>1. /\ cur \in Tasks /\ o \in Tasks /\ o # cur
      /\ p \in Prios /\ pip \in Prios /\ pip # Lowest /\ pip < p
      /\ evt[e].owner = o /\ evt[e].mprio = FirstPrio[o] /\ evt[e].pip = pip
      /\ FirstPrio[cur] = p /\ FirstPrio[o] # p /\ p < FirstPrio[o]
      /\ prioTbl[pip] = Reserved /\ pip \notin rdy
      /\ prioCur = p /\ tcb[cur].stat = {} /\ tcb[cur].dly = 0
      /\ tcb[cur].evp = Nil /\ tcb[cur].outcome = "ok" /\ ~InPend(cur)
  BY DEF Raising
<1>2. \A t \in Tasks : /\ tcb[t].prio = FirstPrio[t] /\ FirstPrio[t] \in Prios
                       /\ pip < FirstPrio[t] /\ pip # FirstPrio[t]
  BY DEF Raising
<1>3. \A d \in Events : pip \notin evt[d].wait
  BY DEF Raising
<1>4. /\ tcb' \in [Tasks -> TaskBlocks] /\ rdy' \in SUBSET Prios /\ evt' \in [Events -> EventBlocks]
      /\ prioTbl' \in [Prios -> Tasks \cup {Nil, Idle, Reserved}]
      /\ pos' \in [Tasks -> {"user", "sched", "schedPend", "pend"}] /\ pos'[cur] = "schedPend"
      /\ app' = app /\ cur' = cur /\ prioCur' = prioCur /\ lock' = lock /\ owed' = owed
  BY DEF Lent
<1>5. /\ tcb'[o].prio = pip /\ tcb'[o].stat = tcb[o].stat /\ tcb'[o].outcome = tcb[o].outcome
      /\ tcb'[o].dly = tcb[o].dly /\ tcb'[o].evp = tcb[o].evp /\ tcb'[o].msg = tcb[o].msg
  BY DEF Lent
<1>6. /\ tcb'[cur].prio = p /\ tcb'[cur].stat = {"pend"} /\ tcb'[cur].outcome = "ok"
      /\ tcb'[cur].dly = 0 /\ tcb'[cur].evp = e
  BY DEF Lent
<1>7. \A t \in Tasks \ {o, cur} : tcb'[t] = tcb[t]
  BY DEF Lent
<1>8. \A q \in Prios : q \in rdy' <=>
         q # p /\ IF q = pip THEN FirstPrio[o] \in rdy ELSE q \in rdy /\ q # FirstPrio[o]
  BY DEF Lent
<1>9. \A d \in Events, q \in Prios : q \in evt'[d].wait <=>
         \/ d = e /\ q = p
         \/ IF q = pip THEN FirstPrio[o] \in evt[d].wait ELSE q \in evt[d].wait /\ q # FirstPrio[o]
  BY DEF Lent
<1>10. \A d \in Events :
          /\ evt'[d].kind = evt[d].kind /\ evt'[d].buf = evt[d].buf /\ evt'[d].pip = evt[d].pip
          /\ evt'[d].owner = evt[d].owner /\ evt'[d].mprio = evt[d].mprio
  BY DEF Lent
<1>11. \A q \in Prios : prioTbl'[q] = IF q = pip THEN o ELSE prioTbl[q]
  BY DEF Lent
<1>12. \A t \in Tasks : InPend(t)' <=> t = cur \/ InPend(t)
  BY DEF Lent
<1>13. pip # p
  <2>1. Prios \subseteq Int
    BY DEF Prios
  <2>. QED  BY <1>1, <2>1
<1>14. Inheriting(app) /\ ~Plain(app) /\ Calm /\ MutexTruthful(e)
  BY MutexFacts
<1>15. \A t, u \in Tasks : FirstPrio[t] = FirstPrio[u] => t = u
  BY Constants
<1>16. Types'
  <2>1. Types
    BY DEF IInv, Common
  <2>2. cur' \in Tasks \cup {Idle} /\ prioCur' \in Prios /\ lock' \in 0 .. MaxNesting
    BY <1>4, <2>1 DEF Types
  <2>3. owed' \in [Events -> [Messages -> Int]]
    BY <1>4, <2>1 DEF Types
  <2>. QED  BY <1>4, <2>2, <2>3 DEF Types
<1>17. Buffers'
  BY <1>4, <1>10, BuffersFrame DEF IInv, Common
<1>18. Tables'
  <2>1. prioTbl[Lowest] = Idle /\ Lowest \in rdy /\ Lowest \in Prios /\ rdy \subseteq Prios
    BY DEF IInv, Common, Kernel, Tables, Types
  <2>2. \A t \in Tasks : prioTbl[FirstPrio[t]] = t /\ FirstPrio[t] # Lowest
    BY <1>2, <2>1, Constants DEF IInv, Common, Kernel, ReadyListTruthful
  <2>3. Lowest \in rdy' /\ prioTbl'[Lowest] = Idle
    BY <1>1, <1>8, <1>11, <2>1, <2>2
  <2>4. ASSUME NEW q \in rdy'
        PROVE  /\ prioTbl'[q] \in Tasks \cup {Idle}
               /\ prioTbl'[q] \in Tasks => tcb'[prioTbl'[q]].prio = q
    <3>0. q \in Prios
      BY <1>4
    <3>1. CASE q = pip
      BY <1>1, <1>5, <1>11, <3>0, <3>1
    <3>2. CASE q # pip
      <4>1. q \in rdy /\ q # p /\ q # FirstPrio[o] /\ prioTbl'[q] = prioTbl[q]
        BY <1>8, <1>11, <3>0, <3>2
      <4>2. prioTbl[q] \in Tasks \cup {Idle} /\ (prioTbl[q] \in Tasks => tcb[prioTbl[q]].prio = q)
        BY <4>1 DEF IInv, Common, Kernel, Tables
      <4>3. prioTbl[q] # cur /\ prioTbl[q] # o
        BY <1>1, <1>2, <4>1, <4>2
      <4>. QED  BY <1>7, <4>1, <4>2, <4>3
    <3>. QED  BY <3>1, <3>2
  <2>. QED  BY <1>4, <1>14, <2>3, <2>4 DEF Tables
<1>19. ReadyListTruthful'
  <2>. SUFFICES ASSUME NEW t \in Tasks
                PROVE  /\ tcb'[t].prio \in rdy' <=> tcb'[t].stat = {} /\ tcb'[t].dly = 0
                       /\ prioTbl'[tcb'[t].prio] = t
    BY DEF ReadyListTruthful
  <2>1. /\ FirstPrio[t] \in rdy <=> tcb[t].stat = {} /\ tcb[t].dly = 0
        /\ prioTbl[FirstPrio[t]] = t
    BY <1>2 DEF IInv, Common, Kernel, ReadyListTruthful
  <2>2. CASE t = cur
    <3>1. p \notin rdy' /\ prioTbl'[p] = cur
      BY <1>1, <1>8, <1>11, <1>13, <2>1, <2>2
    <3>. QED  BY <1>6, <2>2, <3>1
  <2>3. CASE t = o
    <3>1. pip \in rdy' <=> FirstPrio[o] \in rdy
      BY <1>1, <1>8, <1>13
    <3>2. prioTbl'[pip] = o
      BY <1>1, <1>11
    <3>. QED  BY <1>5, <2>1, <2>3, <3>1, <3>2
  <2>4. CASE t # cur /\ t # o
    <3>1. FirstPrio[t] # p /\ FirstPrio[t] # FirstPrio[o] /\ FirstPrio[t] # pip /\ FirstPrio[t] \in Prios
      BY <1>1, <1>2, <1>15, <2>4
    <3>2. tcb'[t] = tcb[t] /\ tcb[t].prio = FirstPrio[t]
      BY <1>2, <1>7, <2>4
    <3>3. FirstPrio[t] \in rdy' <=> FirstPrio[t] \in rdy
      BY <1>8, <3>1
    <3>4. prioTbl'[FirstPrio[t]] = t
      BY <1>11, <2>1, <3>1
    <3>. QED  BY <2>1, <3>2, <3>3, <3>4
  <2>. QED  BY <2>2, <2>3, <2>4
<1>20. Processor'
  <2>1. prioTbl'[p] = cur
    <3>1. prioTbl[p] = cur
      BY <1>1, <1>2 DEF IInv, Common, Kernel, ReadyListTruthful
    <3>. QED  BY <1>1, <1>11, <1>13, <3>1
  <2>2. prioCur' = p /\ cur' = cur /\ cur' \in Tasks /\ pos'[cur'] = "schedPend" /\ ~(lock' > 0)
    BY <1>1, <1>4
  <2>. QED  BY <2>1, <2>2 DEF Processor
<1>21. ASSUME NEW t \in Tasks, t # cur
       PROVE  /\ tcb'[t].stat = tcb[t].stat /\ tcb'[t].outcome = tcb[t].outcome
              /\ tcb'[t].dly = tcb[t].dly /\ tcb'[t].evp = tcb[t].evp /\ tcb'[t].msg = tcb[t].msg
              /\ Pending(t)' <=> Pending(t)
              /\ InPend(t)' <=> InPend(t)
              /\ Waits(t)' <=> Waits(t)
  <2>1. /\ tcb'[t].stat = tcb[t].stat /\ tcb'[t].outcome = tcb[t].outcome
        /\ tcb'[t].dly = tcb[t].dly /\ tcb'[t].evp = tcb[t].evp /\ tcb'[t].msg = tcb[t].msg
    BY <1>5, <1>7, <1>21
  <2>. QED  BY <1>12, <1>21, <2>1 DEF Pending, Waits
<1>22. Blocks'
  <2>. SUFFICES ASSUME NEW t \in Tasks PROVE Block(t)'
    BY DEF Blocks
  <2>1. CASE t = cur
    BY <1>6, <1>12, <2>1, Constants DEF Block, Pending, Mutex
  <2>2. CASE t # cur
    <3>1. Block(t)
      BY DEF IInv, Common, Blocks
    <3>. QED  BY <1>4, <1>21, <2>2, <3>1 DEF Block, Mutex
  <2>. QED  BY <2>1, <2>2
<1>23. WaitListTruthful'
  <2>. SUFFICES ASSUME NEW d \in Events, NEW q \in Prios
                PROVE  q \in evt'[d].wait <=>
                         \E t \in Tasks : tcb'[t].prio = q /\ tcb'[t].evp = d /\ Waits(t)'
    BY DEF WaitListTruthful, Waits
  <2>1. \A r \in Prios : r \in evt[d].wait <=>
           \E t \in Tasks : FirstPrio[t] = r /\ tcb[t].evp = d /\ Waits(t)
    BY <1>2 DEF IInv, Common, WaitListTruthful, Waits
  <2>2. ~Waits(cur) /\ \A t \in Tasks : t = cur => Waits(t)'
    BY <1>1, <1>6 DEF Waits, Pending
  <2>3. CASE q = pip
    <3>1. q \in evt'[d].wait <=> FirstPrio[o] \in evt[d].wait
      BY <1>9, <1>13, <2>3
    <3>2. FirstPrio[o] \in evt[d].wait <=> tcb[o].evp = d /\ Waits(o)
      BY <1>1, <1>2, <1>15, <2>1
    <3>3. \A t \in Tasks : tcb'[t].prio = pip <=> t = o
      BY <1>1, <1>2, <1>5, <1>6, <1>7, <1>13
    <3>. QED  BY <1>1, <1>21, <2>3, <3>1, <3>2, <3>3
  <2>4. CASE q # pip
    <3>1. q \in evt'[d].wait <=> (d = e /\ q = p) \/ (q \in evt[d].wait /\ q # FirstPrio[o])
      BY <1>9, <2>4
    <3>2. q \in evt[d].wait /\ q # FirstPrio[o] <=>
            \E t \in Tasks \ {o, cur} : FirstPrio[t] = q /\ tcb[t].evp = d /\ Waits(t)
      BY <1>1, <1>15, <2>1, <2>2
    <3>3. \A t \in Tasks \ {o, cur} : tcb'[t].prio = FirstPrio[t] /\ tcb'[t].evp = tcb[t].evp
                                      /\ (Waits(t)' <=> Waits(t))
      BY <1>2, <1>7, <1>21
    <3>4. tcb'[o].prio # q
      BY <1>5, <2>4
    <3>5. (\E t \in Tasks : tcb'[t].prio = q /\ tcb'[t].evp = d /\ Waits(t)') <=>
             \/ p = q /\ e = d
             \/ \E t \in Tasks \ {o, cur} : FirstPrio[t] = q /\ tcb[t].evp = d /\ Waits(t)
      BY <1>1, <1>6, <2>2, <3>3, <3>4
    <3>. QED  BY <3>1, <3>2, <3>5
  <2>. QED  BY <2>3, <2>4
<1>24. NothingLost'
  <2>1. \A t \in Tasks, d \in Events : Granted(t, d)' <=> Granted(t, d)
    <3>. SUFFICES ASSUME NEW t \in Tasks, NEW d \in Events PROVE Granted(t, d)' <=> Granted(t, d)
      OBVIOUS
    <3>1. CASE t = cur
      BY <1>1, <1>6, <3>1 DEF Granted, InPend, Pending
    <3>2. CASE t # cur
      BY <1>21, <3>2 DEF Granted, InPend
    <3>. QED  BY <3>1, <3>2
  <2>2. \A t \in Tasks, d \in Events : Granted(t, d) => tcb'[t].msg = tcb[t].msg
    BY <1>1, <1>21 DEF Granted, InPend
  <2>. QED  BY <1>4, <1>10, <2>1, <2>2, NothingLostFrame DEF IInv, Common
<1>25. Common'
  <2>1. Sound(app)'
    BY <1>4 DEF IInv, Common
  <2>. QED  BY <2>1, <1>16, <1>17, <1>18, <1>19, <1>20, <1>22, <1>23, <1>24 DEF Common, Kernel
<1>26. Calm'
  <2>1. \A t \in Tasks : ~Suspended(t)' /\ tcb'[t].outcome # "to" /\ (Pending(t)' => tcb'[t].dly = 0)
    BY <1>6, <1>14, <1>21 DEF Calm, Suspended
  <2>2. ~(lock' > 0)
    BY <1>4
  <2>. QED  BY <2>1, <2>2 DEF Calm
<1>27. MutexTruthful(e)'
  <2>1. /\ evt'[e].owner = o /\ evt'[e].mprio = FirstPrio[o] /\ evt'[e].pip = pip
        /\ tcb'[o].prio = pip /\ owed'[e] = owed[e]
    BY <1>1, <1>4, <1>5, <1>10
  <2>2. p \in evt'[e].wait
    BY <1>1, <1>9
  <2>3. \A q \in evt'[e].wait : pip <= q
    <3>. SUFFICES ASSUME NEW q \in evt'[e].wait PROVE pip <= q
      OBVIOUS
    <3>1. q \in Prios
      BY <1>4 DEF EventBlocks
    <3>2. Prios \subseteq Int
      BY DEF Prios
    <3>3. CASE q = p \/ q = pip
      BY <1>1, <3>2, <3>3
    <3>4. CASE q # p /\ q # pip
      <4>1. q \in evt[e].wait
        BY <1>9, <3>1, <3>4
      <4>2. PICK t \in Tasks : tcb[t].prio = q
        BY <3>1, <4>1 DEF IInv, Common, WaitListTruthful
      <4>3. pip < q
        BY <1>2, <4>2
      <4>. QED  BY <1>1, <3>1, <3>2, <4>3
    <3>. QED  BY <3>3, <3>4
  <2>4. Owned(e)'
    BY <2>1, <2>2, <2>3 DEF Owned
  <2>5. \A t \in Tasks : t # o => tcb'[t].prio = FirstPrio[t]
    BY <1>1, <1>2, <1>6, <1>7
  <2>6. \A t \in Tasks : prioTbl'[FirstPrio[t]] = t
    BY <1>2, <1>11, <1>14 DEF MutexTruthful
  <2>7. o # Nil /\ FirstPrio[o] # Available
    BY <1>1, <1>2, Constants, EventsAssumption DEF EventsAssumption
  <2>. QED  BY <1>1, <1>4, <1>14, <2>1, <2>4, <2>5, <2>6, <2>7 DEF MutexTruthful
<1>. QED  BY <1>4, <1>25, <1>26, <1>27, SoleMutex DEF IInv

LEMMA OSMutexPendKept ==
  ASSUME IInv, NEW e \in Events, NEW timeout \in app.timeouts, OSMutexPend(e, timeout)
  PROVE  IInv'
<1>1. evt[e].kind = "mutex" /\ Calls("mutexPend") /\ lock = 0
  BY DEF OSMutexPend
<1>2. Mutex(e)
  BY <1>1 DEF IInv, Common, Buffers, Mutex
<1>3. timeout = 0
  BY <1>2, MutexFacts DEF Inheriting
<1>4. CASE Acquire(e)
  BY <1>1, <1>2, <1>4, AcquireKept
<1>5. CASE evt[e].mprio # Available /\ InheritAndWait(e, timeout) /\ owed' = owed
  <2>1. CASE tcb[evt[e].owner].prio > evt[e].pip /\ evt[e].mprio > tcb[cur].prio
    <3>1. Raising(e, evt[e].owner, tcb[cur].prio, evt[e].pip)
      BY <1>1, <1>2, <1>5, <2>1, RaisingHolds
    <3>2. InheritAndWait(e, 0)
      BY <1>3, <1>5
    <3>3. Lent(e, evt[e].owner, tcb[cur].prio, evt[e].pip)
      BY <1>2, <1>5, <2>1, <3>1, <3>2, LentHolds
    <3>. QED  BY <1>1, <1>2, <3>1, <3>3, RaiseKept
  <2>2. CASE ~(tcb[evt[e].owner].prio > evt[e].pip /\ evt[e].mprio > tcb[cur].prio)
    BY <1>1, <1>2, <1>5, <2>2, NoRaiseKept
  <2>. QED  BY <2>1, <2>2
<1>. QED  BY <1>4, <1>5 DEF OSMutexPend

\* A mutex nobody waits for: its owner was not raised and keeps its priority.
LEMMA ReleaseKept ==
  ASSUME IInv, NEW e \in Events, Mutex(e), OSMutexPost(e), evt[e].wait = {}
  PROVE  IInv'
<1>1. /\ Calls("mutexPost") /\ evt[e].owner = cur /\ Leave(FALSE) /\ owed' = owed
      /\ evt' = [evt EXCEPT ![e].mprio = Available, ![e].owner = Nil]
  BY DEF OSMutexPost
<1>2. cur \in Tasks
  BY <1>1 DEF Calls
<1>3. MutexTruthful(e) /\ evt[e].pip \in Prios
  BY MutexFacts
<1>4. evt[e].mprio # Available
  BY <1>1, <1>2, <1>3, Constants DEF MutexTruthful
<1>5. /\ evt[e].mprio = FirstPrio[cur] /\ Owned(e) /\ FirstPrio[cur] # evt[e].pip
      /\ \A t \in Tasks \ {cur} : tcb[t].prio = FirstPrio[t]
  BY <1>1, <1>2, <1>4, OwnerFacts
<1>6. tcb[cur].prio = FirstPrio[cur] /\ prioTbl[evt[e].pip] = Reserved
  BY <1>1, <1>5 DEF Owned
<1>7. ~Raised(e)
  BY <1>5, <1>6 DEF Raised
<1>8. tcb' = tcb /\ rdy' = rdy /\ prioTbl' = [prioTbl EXCEPT ![evt[e].pip] = Reserved]
  BY <1>7 DEF OSMutexPost
<1>9. prioTbl' = prioTbl
  BY <1>3, <1>6, <1>8 DEF IInv, Common, Types
<1>10. Hands(e, Nil, Available)
  BY <1>1, <1>8, <1>9 DEF Hands
<1>11. /\ Common' /\ Calm' /\ app' = app
       /\ evt'[e].wait = evt[e].wait /\ evt'[e].pip = evt[e].pip
       /\ evt'[e].owner = Nil /\ evt'[e].mprio = Available
  <2>1. Nil \in Tasks \cup {Nil} /\ Available \in Prios \cup {Available}
    OBVIOUS
  <2>. QED  BY <1>1, <1>10, <2>1, HandsKept
<1>12. \A t \in Tasks : tcb[t].prio = FirstPrio[t]
  BY <1>5, <1>6
<1>13. Free(e)'
  BY <1>6, <1>9, <1>11 DEF Free
<1>14. MutexTruthful(e)'
  BY <1>1, <1>3, <1>8, <1>9, <1>11, <1>12, <1>13 DEF MutexTruthful
<1>. QED  BY <1>11, <1>14, SoleMutex DEF IInv

\* Before the owner passes e on to u, the highest of those that wait for it.
Passing(e, u, f, w, pip) ==
    /\ cur \in Tasks /\ u \in Tasks \ {cur}
    /\ f \in Prios /\ w \in Prios /\ pip \in Prios /\ pip # Lowest /\ pip # f /\ pip # w /\ f # w
    /\ FirstPrio[cur] = f /\ FirstPrio[u] = w /\ evt[e].pip = pip
    /\ tcb[cur].prio \in {f, pip} /\ tcb[cur].prio \in rdy
    /\ tcb[cur].stat = {} /\ tcb[cur].dly = 0 /\ tcb[cur].evp = Nil /\ tcb[cur].outcome = "ok"
    /\ pos[cur] = "user"
    /\ tcb[u].evp = e /\ tcb[u].stat = {"pend"} /\ InPend(u)
    /\ w \in evt[e].wait /\ \A q \in evt[e].wait : w <= q
    /\ \A t \in Tasks \ {cur} : tcb[t].prio = FirstPrio[t]
    /\ \A t \in Tasks : prioTbl[FirstPrio[t]] = t /\ FirstPrio[t] \in Prios /\ pip # FirstPrio[t]
    /\ pip \in rdy <=> tcb[cur].prio = pip
    /\ tcb[cur].prio = f => prioTbl[pip] = Reserved

LEMMA PassingHolds ==
  ASSUME IInv, NEW e \in Events, Mutex(e), Calls("mutexPost"), evt[e].owner = cur, evt[e].wait # {}
  PROVE  /\ Passing(e, prioTbl[Min(evt[e].wait)], evt[e].mprio, Min(evt[e].wait), evt[e].pip)
         /\ evt[e].mprio = FirstPrio[cur]
<1>. DEFINE w == Min(evt[e].wait)
            u == prioTbl[w]
            f == evt[e].mprio
            pip == evt[e].pip
<1>1. /\ cur \in Tasks /\ pos[cur] = "user" /\ tcb[cur].stat = {} /\ tcb[cur].dly = 0
      /\ tcb[cur].evp = Nil /\ tcb[cur].outcome = "ok" /\ tcb[cur].prio \in rdy
  BY CallerReady, MutexFacts
<1>2. MutexTruthful(e) /\ Calm /\ pip \in Prios /\ pip # Lowest
  BY MutexFacts
<1>3. evt[e].mprio # Available
  BY <1>1, <1>2, Constants DEF MutexTruthful
<1>4. /\ f = FirstPrio[cur] /\ Owned(e) /\ tcb[cur].prio \in {f, pip}
      /\ \A t \in Tasks \ {cur} : tcb[t].prio = FirstPrio[t]
      /\ \A t \in Tasks : FirstPrio[t] \in Prios /\ FirstPrio[t] # pip
  BY <1>1, <1>3, OwnerFacts
<1>5. u \in Tasks /\ tcb[u].prio \in evt[e].wait
  <2>1. u \in Waiters(e, {})
    BY DEF Waiters, HighestWaiter
  <2>. QED  BY <2>1, WaitersWait DEF IInv
<1>6. tcb[u].evp = e /\ Waits(u) /\ InPend(u)
  BY <1>5, WaiterFacts DEF IInv
<1>7. u # cur
  BY <1>1, <1>6, Constants
<1>8. tcb[u].stat = {"pend"}
  <2>1. Pending(u) /\ ~Suspended(u)
    BY <1>2, <1>5, <1>6 DEF Waits, Calm
  <2>2. tcb[u].stat \in SUBSET {"pend", "suspend"}
    BY <1>5 DEF IInv, Common, Types, TaskBlocks
  <2>. QED  BY <2>1, <2>2 DEF Pending, Suspended
<1>9. w \in evt[e].wait /\ (\A q \in evt[e].wait : w <= q) /\ w \in Prios
  <2>1. evt[e].wait \in SUBSET Prios
    BY DEF IInv, Common, Types, EventBlocks
  <2>2. evt[e].wait \in SUBSET Nat
    <3>1. Prios \subseteq Nat
      BY DEF Prios
    <3>. QED  BY <2>1, <3>1
  <2>. QED  BY <2>1, <2>2, Least
<1>10. tcb[u].prio = w
  <2>1. PICK t \in Tasks : tcb[t].prio = w
    BY <1>9 DEF IInv, Common, WaitListTruthful
  <2>2. prioTbl[w] = t
    BY <2>1 DEF IInv, Common, Kernel, ReadyListTruthful
  <2>. QED  BY <2>1, <2>2
<1>11. FirstPrio[u] = w
  BY <1>4, <1>5, <1>7, <1>10
<1>12. w # f
  BY <1>1, <1>4, <1>5, <1>7, <1>11, Constants
<1>13. w # pip /\ f # pip
  BY <1>1, <1>4, <1>5, <1>11
<1>14. tcb[cur].prio = f => prioTbl[pip] = Reserved
  BY <1>4, <1>13 DEF Owned
<1>15. pip \in rdy <=> tcb[cur].prio = pip
  <2>1. tcb[cur].prio = f => pip \notin rdy
    BY <1>14, Constants DEF IInv, Common, Kernel, Tables
  <2>. QED  BY <1>1, <1>4, <1>13, <2>1
<1>16. \A t \in Tasks : prioTbl[FirstPrio[t]] = t
  BY <1>2 DEF MutexTruthful
<1>. HIDE DEF u, w, f, pip
<1>17. Passing(e, u, f, w, pip)
  <2>1. evt[e].pip = pip
    BY DEF pip
  <2>2. f \in Prios
    BY <1>1, <1>4
  <2>. QED  BY <1>1, <1>2, <1>4, <1>5, <1>6, <1>7, <1>8, <1>9, <1>11, <1>12, <1>13, <1>14, <1>15,
               <1>16, <2>1, <2>2 DEF Passing
<1>. QED  BY <1>4, <1>17 DEF u, w, f, pip

\* What the call changes: the running task is back at its own priority, and u
\* is awake and owns e.
Passed(e, u, f, w, pip) ==
    /\ tcb' \in [Tasks -> TaskBlocks]
    /\ /\ tcb'[cur].prio = f /\ tcb'[cur].stat = {} /\ tcb'[cur].outcome = "ok"
       /\ tcb'[cur].dly = 0 /\ tcb'[cur].evp = Nil
    /\ /\ tcb'[u].prio = w /\ tcb'[u].stat = {} /\ tcb'[u].outcome = "ok"
       /\ tcb'[u].dly = 0 /\ tcb'[u].evp = e
    /\ \A t \in Tasks \ {u, cur} : tcb'[t] = tcb[t]
    /\ rdy' \in SUBSET Prios
    /\ \A q \in Prios : q \in rdy' <=> q = f \/ q = w \/ (q \in rdy /\ q # pip)
    /\ evt' \in [Events -> EventBlocks]
    /\ \A d \in Events, q \in Prios : q \in evt'[d].wait <=> q \in evt[d].wait /\ ~(d = e /\ q = w)
    /\ \A d \in Events : evt'[d].kind = evt[d].kind /\ evt'[d].buf = evt[d].buf /\ evt'[d].pip = evt[d].pip
    /\ evt'[e].owner = u /\ evt'[e].mprio = w
    /\ prioTbl' \in [Prios -> Tasks \cup {Nil, Idle, Reserved}]
    /\ \A q \in Prios : prioTbl'[q] = IF q = pip THEN Reserved ELSE prioTbl[q]
    /\ pos' \in [Tasks -> {"user", "sched", "schedPend", "pend"}] /\ pos'[cur] = "sched"
    /\ \A t \in Tasks : InPend(t)' <=> InPend(t)
    /\ app' = app /\ cur' = cur /\ prioCur' = prioCur /\ lock' = lock /\ owed' = owed

LEMMA PassedHolds ==
  ASSUME IInv, NEW e \in Events, Mutex(e), OSMutexPost(e), evt[e].wait # {},
         NEW u, NEW f, NEW w, NEW pip, Passing(e, u, f, w, pip),
         u = prioTbl[w], w = Min(evt[e].wait), f = evt[e].mprio
  PROVE  Passed(e, u, f, w, pip)
<1>. DEFINE own == IF Raised(e) THEN RdyAtPrio(evt[e].mprio)
                   ELSE [blocks |-> tcb, ready |-> rdy, tbl |-> prioTbl]
            blocks == own.blocks
            ready == own.ready
            tbl == own.tbl
<1>1. /\ cur \in Tasks /\ u \in Tasks /\ u # cur
      /\ f \in Prios /\ w \in Prios /\ pip \in Prios /\ pip # f /\ pip # w /\ f # w
      /\ FirstPrio[cur] = f /\ FirstPrio[u] = w /\ evt[e].pip = pip
      /\ tcb[cur].prio \in {f, pip} /\ tcb[cur].prio \in rdy
      /\ tcb[cur].stat = {} /\ tcb[cur].dly = 0 /\ tcb[cur].evp = Nil /\ tcb[cur].outcome = "ok"
      /\ pos[cur] = "user" /\ tcb[u].evp = e /\ tcb[u].stat = {"pend"}
      /\ tcb[u].prio = w /\ prioTbl[f] = cur
      /\ pip \in rdy <=> tcb[cur].prio = pip
  BY DEF Passing
<1>2. /\ tcb \in [Tasks -> TaskBlocks] /\ tcb[cur] \in TaskBlocks /\ tcb[u] \in TaskBlocks
      /\ evt \in [Events -> EventBlocks] /\ evt[e] \in EventBlocks /\ rdy \in SUBSET Prios
      /\ prioTbl \in [Prios -> Tasks \cup {Nil, Idle, Reserved}]
      /\ pos \in [Tasks -> {"user", "sched", "schedPend", "pend"}]
  BY <1>1 DEF IInv, Common, Types
<1>3. /\ OS_EventTaskRdy(blocks, ready, {u}, Nil, "ok")
      /\ prioTbl' = [tbl EXCEPT ![pip] = Reserved]
      /\ evt' = [WithoutWaiters(e, {u}) EXCEPT ![e].mprio = w, ![e].owner = u]
      /\ owed' = owed /\ Leave(TRUE)
  <2>1. HighestWaiter(e) = {u}
    BY DEF HighestWaiter
  <2>. QED  BY <1>1, <2>1 DEF OSMutexPost
<1>4. /\ blocks \in [Tasks -> TaskBlocks]
      /\ blocks[cur].prio = f /\ blocks[cur].stat = {} /\ blocks[cur].outcome = "ok"
      /\ blocks[cur].dly = 0 /\ blocks[cur].evp = Nil
      /\ \A t \in Tasks \ {cur} : blocks[t] = tcb[t]
  <2>1. CASE Raised(e)
    <3>. DEFINE b == [tcb[cur] EXCEPT !.prio = f]
    <3>1. blocks = [tcb EXCEPT ![cur] = b]
      BY <1>1, <1>2, <2>1 DEF RdyAtPrio
    <3>2. b \in TaskBlocks /\ b.prio = f /\ b.stat = {} /\ b.outcome = "ok" /\ b.dly = 0 /\ b.evp = Nil
      BY <1>1, <1>2 DEF TaskBlocks
    <3>. HIDE DEF b, blocks
    <3>. QED  BY <1>1, <1>2, <3>1, <3>2
  <2>2. CASE ~Raised(e)
    <3>1. blocks = tcb
      BY <2>2
    <3>2. tcb[cur].prio = f
      BY <1>1, <2>2 DEF Raised
    <3>. HIDE DEF blocks
    <3>. QED  BY <1>1, <1>2, <3>1, <3>2
  <2>. QED  BY <2>1, <2>2
<1>5. ready \in SUBSET Prios /\ \A q \in Prios : q \in ready <=> q = f \/ (q \in rdy /\ q # pip)
  <2>1. CASE Raised(e)
    <3>1. ready = (rdy \ {tcb[cur].prio}) \cup {f} /\ tcb[cur].prio = pip
      BY <1>1, <2>1 DEF RdyAtPrio, Raised
    <3>. HIDE DEF ready
    <3>. QED  BY <1>1, <1>2, <3>1
  <2>2. CASE ~Raised(e)
    <3>1. ready = rdy /\ tcb[cur].prio = f /\ f \in rdy /\ pip \notin rdy
      BY <1>1, <2>2 DEF Raised
    <3>. HIDE DEF ready
    <3>. QED  BY <1>1, <1>2, <3>1
  <2>. QED  BY <2>1, <2>2
<1>6. tbl = prioTbl
  <2>1. CASE Raised(e)
    <3>1. tbl = [prioTbl EXCEPT ![f] = cur]
      BY <2>1 DEF RdyAtPrio
    <3>. HIDE DEF tbl
    <3>. QED  BY <1>1, <1>2, <3>1
  <2>2. CASE ~Raised(e)
    BY <2>2
  <2>. QED  BY <2>1, <2>2
<1>. HIDE DEF own, blocks, ready, tbl
<1>7. /\ prioTbl' \in [Prios -> Tasks \cup {Nil, Idle, Reserved}]
      /\ \A q \in Prios : prioTbl'[q] = IF q = pip THEN Reserved ELSE prioTbl[q]
  BY <1>1, <1>2, <1>3, <1>6
<1>8. tcb' = [t \in Tasks |->
                IF t \notin {u} THEN blocks[t]
                ELSE [blocks[t] EXCEPT !.dly = 0, !.msg = Nil, !.stat = @ \ {"pend"}, !.outcome = "ok"]]
      /\ rdy' = ready \cup PriosOf({t \in {u} : ~Suspended(t)})
  BY <1>3 DEF OS_EventTaskRdy
<1>9. /\ tcb'[u] \in TaskBlocks
      /\ tcb'[u].prio = w /\ tcb'[u].stat = {} /\ tcb'[u].outcome = "ok"
      /\ tcb'[u].dly = 0 /\ tcb'[u].evp = e
  <2>. DEFINE b == [tcb[u] EXCEPT !.dly = 0, !.msg = Nil, !.stat = {}, !.outcome = "ok"]
  <2>1. tcb'[u] = b
    <3>1. blocks[u] = tcb[u] /\ tcb[u].stat \ {"pend"} = {}
      BY <1>1, <1>4
    <3>. QED  BY <1>1, <1>8, <3>1
  <2>2. b \in TaskBlocks /\ b.prio = w /\ b.stat = {} /\ b.outcome = "ok" /\ b.dly = 0 /\ b.evp = e
    <3>1. 0 \in 0 .. MaxDelay
      BY Constants
    <3>2. tcb[u] \in TaskBlocks /\ tcb[u].prio = w /\ tcb[u].evp = e
      BY <1>1, <1>2
    <3>. QED  BY <3>1, <3>2 DEF TaskBlocks
  <2>. HIDE DEF b
  <2>. QED  BY <2>1, <2>2
<1>10. /\ tcb' \in [Tasks -> TaskBlocks]
       /\ /\ tcb'[cur].prio = f /\ tcb'[cur].stat = {} /\ tcb'[cur].outcome = "ok"
          /\ tcb'[cur].dly = 0 /\ tcb'[cur].evp = Nil
       /\ \A t \in Tasks \ {u, cur} : tcb'[t] = tcb[t]
  <2>1. \A t \in Tasks \ {u} : tcb'[t] = blocks[t]
    BY <1>8
  <2>2. \A t \in Tasks : tcb'[t] \in TaskBlocks
    BY <1>4, <1>9, <2>1
  <2>3. tcb' = [t \in Tasks |-> tcb'[t]]
    BY <1>8
  <2>4. tcb' \in [Tasks -> TaskBlocks]
    BY <2>2, <2>3
  <2>5. tcb'[cur] = blocks[cur]
    BY <1>1, <2>1
  <2>6. \A t \in Tasks \ {u, cur} : tcb'[t] = tcb[t]
    BY <1>4, <2>1
  <2>. QED  BY <1>4, <2>4, <2>5, <2>6
<1>11. rdy' \in SUBSET Prios
       /\ \A q \in Prios : q \in rdy' <=> q = f \/ q = w \/ (q \in rdy /\ q # pip)
  <2>1. {t \in {u} : ~Suspended(t)} = {u}
    BY <1>1 DEF Suspended
  <2>2. PriosOf({u}) = {w}
    BY <1>1 DEF PriosOf
  <2>3. rdy' = ready \cup {w}
    BY <1>8, <2>1, <2>2
  <2>. QED  BY <1>1, <1>5, <2>3
<1>12. /\ evt' \in [Events -> EventBlocks]
       /\ \A d \in Events : evt'[d].kind = evt[d].kind /\ evt'[d].buf = evt[d].buf /\ evt'[d].pip = evt[d].pip
       /\ \A d \in Events : evt'[d].wait = IF d = e THEN evt[e].wait \ {w} ELSE evt[d].wait
       /\ evt'[e].owner = u /\ evt'[e].mprio = w
  <2>. DEFINE v == evt[e].wait \ {w}
              b == [evt[e] EXCEPT !.wait = v, !.mprio = w, !.owner = u]
  <2>1. PriosOf({u}) = {w}
    BY <1>1 DEF PriosOf
  <2>2. WithoutWaiters(e, {u}) = [evt EXCEPT ![e].wait = v]
    BY <2>1 DEF WithoutWaiters
  <2>3. v \in SUBSET Prios
    BY <1>2 DEF EventBlocks
  <2>4. evt' = [[evt EXCEPT ![e].wait = v] EXCEPT ![e].mprio = w, ![e].owner = u]
    BY <1>3, <2>2
  <2>. HIDE DEF v
  <2>5. evt' = [evt EXCEPT ![e] = b]
    BY <1>2, <2>4 DEF EventBlocks
  <2>6. /\ b \in EventBlocks /\ b.kind = evt[e].kind /\ b.buf = evt[e].buf /\ b.pip = evt[e].pip
        /\ b.wait = v /\ b.owner = u /\ b.mprio = w
    BY <1>1, <1>2, <2>3 DEF EventBlocks
  <2>. HIDE DEF b
  <2>7. evt'[e] = b /\ \A d \in Events \ {e} : evt'[d] = evt[d]
    BY <1>2, <2>5
  <2>8. evt' \in [Events -> EventBlocks]
    BY <1>2, <2>5, <2>6
  <2>. QED  BY <2>6, <2>7, <2>8 DEF v
<1>13. \A d \in Events, q \in Prios : q \in evt'[d].wait <=> q \in evt[d].wait /\ ~(d = e /\ q = w)
  BY <1>12
<1>14. /\ pos' \in [Tasks -> {"user", "sched", "schedPend", "pend"}] /\ pos'[cur] = "sched"
       /\ \A t \in Tasks : InPend(t)' <=> InPend(t)
       /\ app' = app /\ cur' = cur /\ prioCur' = prioCur /\ lock' = lock /\ owed' = owed
  <2>1. pos' = [pos EXCEPT ![cur] = "sched"] /\ UNCHANGED <<app, cur, prioCur, lock, owed>>
    BY <1>3 DEF Leave, cpu
  <2>. QED  BY <1>1, <1>2, <2>1 DEF InPend
<1>. QED  BY <1>7, <1>9, <1>10, <1>11, <1>12, <1>13, <1>14 DEF Passed

\* The owner goes back to its own priority and the highest waiter is the owner.
LEMMA PassKept ==
  ASSUME IInv, NEW e \in Events, Mutex(e),
         NEW u, NEW f, NEW w, NEW pip, Passing(e, u, f, w, pip), Passed(e, u, f, w, pip)
  PROVE  IInv'
<1>1. /\ cur \in Tasks /\ u \in Tasks /\ u # cur
      /\ f \in Prios /\ w \in Prios /\ pip \in Prios /\ pip # Lowest /\ pip # f /\ pip # w /\ f # w
      /\ FirstPrio[cur] = f /\ FirstPrio[u] = w /\ evt[e].pip = pip
      /\ tcb[cur].prio \in {f, pip} /\ tcb[cur].prio \in rdy
      /\ tcb[cur].stat = {} /\ tcb[cur].dly = 0 /\ tcb[cur].evp = Nil /\ tcb[cur].outcome = "ok"
      /\ pos[cur] = "user" /\ tcb[u].evp = e /\ tcb[u].stat = {"pend"} /\ InPend(u)
      /\ w \in evt[e].wait /\ tcb[u].prio = w
  BY DEF Passing
<1>2. /\ \A q \in evt[e].wait : w <= q
      /\ \A t \in Tasks \ {cur} : tcb[t].prio = FirstPrio[t]
      /\ \A t \in Tasks : prioTbl[FirstPrio[t]] = t /\ FirstPrio[t] \in Prios /\ pip # FirstPrio[t]
  BY DEF Passing
<1>3. /\ tcb' \in [Tasks -> TaskBlocks] /\ rdy' \in SUBSET Prios /\ evt' \in [Events -> EventBlocks]
      /\ prioTbl' \in [Prios -> Tasks \cup {Nil, Idle, Reserved}]
      /\ pos' \in [Tasks -> {"user", "sched", "schedPend", "pend"}] /\ pos'[cur] = "sched"
      /\ app' = app /\ cur' = cur /\ prioCur' = prioCur /\ lock' = lock /\ owed' = owed
      /\ evt'[e].owner = u /\ evt'[e].mprio = w
  BY DEF Passed
<1>4. /\ tcb'[cur].prio = f /\ tcb'[cur].stat = {} /\ tcb'[cur].outcome = "ok"
      /\ tcb'[cur].dly = 0 /\ tcb'[cur].evp = Nil
  BY DEF Passed
<1>5. /\ tcb'[u].prio = w /\ tcb'[u].stat = {} /\ tcb'[u].outcome = "ok"
      /\ tcb'[u].dly = 0 /\ tcb'[u].evp = e
  BY DEF Passed
<1>6. \A t \in Tasks \ {u, cur} : tcb'[t] = tcb[t]
  BY DEF Passed
<1>7. \A q \in Prios : q \in rdy' <=> q = f \/ q = w \/ (q \in rdy /\ q # pip)
  BY DEF Passed
<1>8. \A d \in Events, q \in Prios : q \in evt'[d].wait <=> q \in evt[d].wait /\ ~(d = e /\ q = w)
  BY DEF Passed
<1>9. \A d \in Events : evt'[d].kind = evt[d].kind /\ evt'[d].buf = evt[d].buf /\ evt'[d].pip = evt[d].pip
  BY DEF Passed
<1>10. \A q \in Prios : prioTbl'[q] = IF q = pip THEN Reserved ELSE prioTbl[q]
  BY DEF Passed
<1>11. \A t \in Tasks : InPend(t)' <=> InPend(t)
  BY DEF Passed
<1>12. Inheriting(app) /\ ~Plain(app) /\ Calm /\ MutexTruthful(e)
  BY MutexFacts
<1>13. \A t \in Tasks : tcb'[t].prio = FirstPrio[t]
  BY <1>1, <1>2, <1>4, <1>5, <1>6
<1>14. \A t, v \in Tasks : FirstPrio[t] = FirstPrio[v] => t = v
  BY Constants
<1>15. Types'
  <2>1. Types
    BY DEF IInv, Common
  <2>2. cur' \in Tasks \cup {Idle} /\ prioCur' \in Prios /\ lock' \in 0 .. MaxNesting
    BY <1>3, <2>1 DEF Types
  <2>3. owed' \in [Events -> [Messages -> Int]]
    BY <1>3, <2>1 DEF Types
  <2>. QED  BY <1>3, <2>2, <2>3 DEF Types
<1>16. Buffers'
  BY <1>3, <1>9, BuffersFrame DEF IInv, Common
<1>17. Tables'
  <2>1. prioTbl[Lowest] = Idle /\ Lowest \in rdy /\ Lowest \in Prios /\ rdy \subseteq Prios
    BY DEF IInv, Common, Kernel, Tables, Types
  <2>2. Lowest \in rdy' /\ prioTbl'[Lowest] = Idle
    BY <1>1, <1>7, <1>10, <2>1
  <2>3. ASSUME NEW q \in rdy'
        PROVE  /\ prioTbl'[q] \in Tasks \cup {Idle}
               /\ prioTbl'[q] \in Tasks => tcb'[prioTbl'[q]].prio = q
    <3>1. q \in Prios
      BY <1>3
    <3>2. CASE q = f \/ q = w
      <4>1. prioTbl'[q] \in Tasks /\ FirstPrio[prioTbl'[q]] = q
        BY <1>1, <1>2, <1>10, <3>1, <3>2
      <4>. QED  BY <1>13, <4>1
    <3>3. CASE q # f /\ q # w
      <4>1. q \in rdy /\ q # pip /\ prioTbl'[q] = prioTbl[q]
        BY <1>7, <1>10, <3>1, <3>3
      <4>2. prioTbl[q] \in Tasks \cup {Idle} /\ (prioTbl[q] \in Tasks => tcb[prioTbl[q]].prio = q)
        BY <4>1 DEF IInv, Common, Kernel, Tables
      <4>3. prioTbl[q] # cur
        BY <1>1, <3>3, <4>1, <4>2
      <4>. QED  BY <1>2, <1>13, <4>1, <4>2, <4>3
    <3>. QED  BY <3>2, <3>3
  <2>. QED  BY <1>3, <1>12, <2>2, <2>3 DEF Tables
<1>18. ReadyListTruthful'
  <2>. SUFFICES ASSUME NEW t \in Tasks
                PROVE  /\ FirstPrio[t] \in rdy' <=> tcb'[t].stat = {} /\ tcb'[t].dly = 0
                       /\ prioTbl'[FirstPrio[t]] = t
    BY <1>13 DEF ReadyListTruthful
  <2>1. prioTbl'[FirstPrio[t]] = t
    BY <1>2, <1>10
  <2>2. CASE t = cur \/ t = u
    BY <1>1, <1>4, <1>5, <1>7, <2>1, <2>2
  <2>3. CASE t # cur /\ t # u
    <3>1. FirstPrio[t] # f /\ FirstPrio[t] # w /\ FirstPrio[t] # pip /\ FirstPrio[t] \in Prios
      BY <1>1, <1>2, <1>14, <2>3
    <3>2. tcb'[t] = tcb[t] /\ tcb[t].prio = FirstPrio[t]
      BY <1>2, <1>6, <2>3
    <3>3. tcb[t].prio \in rdy <=> tcb[t].stat = {} /\ tcb[t].dly = 0
      BY DEF IInv, Common, Kernel, ReadyListTruthful
    <3>4. FirstPrio[t] \in rdy' <=> FirstPrio[t] \in rdy
      BY <1>7, <3>1
    <3>. QED  BY <2>1, <3>2, <3>3, <3>4
  <2>. QED  BY <2>2, <2>3
<1>19. Processor'
  <2>1. prioTbl[prioCur] \in {cur, Nil, Reserved} /\ prioCur \in Prios
    BY DEF IInv, Common, Kernel, Processor, Types
  <2>2. prioTbl'[prioCur] \in {cur, Nil, Reserved}
    BY <1>10, <2>1
  <2>3. cur' \in Tasks /\ pos'[cur'] = "sched" /\ cur' = cur /\ prioCur' = prioCur
    BY <1>1, <1>3
  <2>. QED  BY <2>2, <2>3 DEF Processor
<1>20. Blocks'
  <2>. SUFFICES ASSUME NEW t \in Tasks PROVE Block(t)'
    BY DEF Blocks
  <2>1. Block(t)
    BY DEF IInv, Common, Blocks
  <2>2. CASE t = cur
    <3>1. ~InPend(t)'
      BY <1>1, <1>11, <2>1, <2>2 DEF Block
    <3>. QED  BY <1>4, <2>2, <3>1 DEF Block, Pending
  <2>3. CASE t = u
    <3>1. InPend(t)' /\ e # Nil /\ Mutex(e)'
      BY <1>1, <1>3, <1>11, <2>3, Constants DEF Mutex
    <3>2. ~Pending(t)' /\ tcb'[t].evp = e /\ tcb'[t].dly = 0
      BY <1>5, <2>3 DEF Pending
    <3>. QED  BY <3>1, <3>2 DEF Block
  <2>4. CASE t # cur /\ t # u
    <3>1. tcb'[t] = tcb[t] /\ (InPend(t)' <=> InPend(t))
      BY <1>6, <1>11, <2>4
    <3>. QED  BY <1>3, <2>1, <3>1 DEF Block, Pending, Mutex
  <2>. QED  BY <2>2, <2>3, <2>4
<1>21. WaitListTruthful'
  <2>. SUFFICES ASSUME NEW d \in Events, NEW q \in Prios
                PROVE  q \in evt'[d].wait <=>
                         \E t \in Tasks : tcb'[t].prio = q /\ tcb'[t].evp = d /\ Waits(t)'
    BY DEF WaitListTruthful, Waits
  <2>1. q \in evt[d].wait <=> \E t \in Tasks : tcb[t].prio = q /\ tcb[t].evp = d /\ Waits(t)
    BY DEF IInv, Common, WaitListTruthful, Waits
  <2>2. \A t \in Tasks : t \in {u, cur} => ~Waits(t)'
    BY <1>4, <1>5 DEF Waits, Pending
  <2>3. \A t \in Tasks \ {u, cur} : /\ tcb'[t].prio = FirstPrio[t] /\ tcb[t].prio = FirstPrio[t]
                                    /\ tcb'[t].evp = tcb[t].evp
                                    /\ Waits(t)' <=> Waits(t)
    BY <1>2, <1>6 DEF Waits, Pending
  <2>4. ~Waits(cur) /\ Waits(u)
    BY <1>1 DEF Waits, Pending
  <2>5. (\E t \in Tasks : tcb'[t].prio = q /\ tcb'[t].evp = d /\ Waits(t)') <=>
          \E t \in Tasks \ {u, cur} : FirstPrio[t] = q /\ tcb[t].evp = d /\ Waits(t)
    BY <2>2, <2>3
  <2>6. q \in evt[d].wait /\ ~(d = e /\ q = w) <=>
          \E t \in Tasks \ {u, cur} : FirstPrio[t] = q /\ tcb[t].evp = d /\ Waits(t)
    <3>1. q \in evt[d].wait <=>
            \/ q = w /\ d = e
            \/ \E t \in Tasks \ {u, cur} : FirstPrio[t] = q /\ tcb[t].evp = d /\ Waits(t)
      BY <1>1, <2>1, <2>3, <2>4
    <3>2. \A t \in Tasks \ {u, cur} : FirstPrio[t] # w
      BY <1>1, <1>14
    <3>. QED  BY <3>1, <3>2
  <2>7. q \in evt'[d].wait <=> q \in evt[d].wait /\ ~(d = e /\ q = w)
    BY <1>8
  <2>. QED  BY <2>5, <2>6, <2>7
<1>22. NothingLost'
  <2>1. ASSUME NEW t \in Tasks, NEW d \in Events, ~Mutex(d)
        PROVE  /\ Granted(t, d)' <=> Granted(t, d)
               /\ Granted(t, d) => tcb'[t].msg = tcb[t].msg
    <3>1. d # e
      BY <2>1
    <3>2. CASE t = cur
      BY <1>1, <1>4, <3>2, Constants DEF Granted
    <3>3. CASE t = u
      BY <1>1, <1>5, <3>1, <3>3 DEF Granted
    <3>4. CASE t # cur /\ t # u
      <4>1. tcb'[t] = tcb[t]
        BY <1>6, <3>4
      <4>. QED  BY <1>11, <4>1 DEF Granted, InPend, Pending
    <3>. QED  BY <3>2, <3>3, <3>4
  <2>. QED  BY <1>3, <1>9, <2>1, NothingLostFrame DEF IInv, Common
<1>23. Common'
  <2>1. Sound(app)'
    BY <1>3 DEF IInv, Common
  <2>. QED  BY <2>1, <1>15, <1>16, <1>17, <1>18, <1>19, <1>20, <1>21, <1>22 DEF Common, Kernel
<1>24. Calm'
  <2>1. ASSUME NEW t \in Tasks
        PROVE  ~Suspended(t)' /\ tcb'[t].outcome # "to" /\ (Pending(t)' => tcb'[t].dly = 0)
    <3>1. CASE t = cur \/ t = u
      BY <1>4, <1>5, <3>1 DEF Suspended, Pending
    <3>2. CASE t # cur /\ t # u
      BY <1>6, <1>12, <3>2 DEF Calm, Suspended, Pending
    <3>. QED  BY <3>1, <3>2
  <2>2. lock' > 0 => "lock" \in app'.calls /\ tcb'[cur'].dly = 0
    BY <1>3, <1>4, <1>12 DEF Calm
  <2>. QED  BY <2>1, <2>2 DEF Calm
<1>25. MutexTruthful(e)'
  <2>1. \A q \in evt'[e].wait : tcb'[u].prio <= q
    <3>1. \A q \in evt'[e].wait : q \in Prios
      BY <1>3 DEF EventBlocks
    <3>. QED  BY <1>2, <1>5, <1>8, <3>1
  <2>2. prioTbl'[evt'[e].pip] = Reserved
    BY <1>1, <1>9, <1>10
  <2>3. Owned(e)'
    BY <1>1, <1>3, <1>5, <2>1, <2>2 DEF Owned
  <2>4. \A t \in Tasks : prioTbl'[FirstPrio[t]] = t
    BY <1>2, <1>10
  <2>5. u # Nil /\ w # Available
    BY <1>1, Constants, EventsAssumption DEF EventsAssumption
  <2>6. evt'[e].pip = app'.pip[e] /\ \A m \in Messages : owed'[e][m] \in Nat
    BY <1>3, <1>9, <1>12 DEF MutexTruthful
  <2>. QED  BY <1>3, <1>13, <2>3, <2>4, <2>5, <2>6 DEF MutexTruthful
<1>. QED  BY <1>3, <1>23, <1>24, <1>25, SoleMutex DEF IInv

LEMMA OSMutexPostKept ==
  ASSUME IInv, NEW e \in Events, OSMutexPost(e)
  PROVE  IInv'
<1>1. evt[e].kind = "mutex" /\ Calls("mutexPost") /\ evt[e].owner = cur
  BY DEF OSMutexPost
<1>2. Mutex(e)
  BY <1>1 DEF IInv, Common, Buffers, Mutex
<1>3. CASE evt[e].wait = {}
  BY <1>2, <1>3, ReleaseKept
<1>4. CASE evt[e].wait # {}
  <2>. DEFINE w == Min(evt[e].wait)
              u == prioTbl[w]
              f == evt[e].mprio
              pip == evt[e].pip
  <2>1. Passing(e, u, f, w, pip)
    BY <1>1, <1>2, <1>4, PassingHolds
  <2>2. Passed(e, u, f, w, pip)
    <3>1. u = prioTbl[w] /\ w = Min(evt[e].wait) /\ f = evt[e].mprio
      OBVIOUS
    <3>. HIDE DEF u, w, f, pip
    <3>. QED  BY <1>2, <1>4, <2>1, <3>1, PassedHolds
  <2>. HIDE DEF u, w, f, pip
  <2>. QED  BY <1>2, <2>1, <2>2, PassKept
<1>. QED  BY <1>3, <1>4

LEMMA MutexNextKept == ASSUME IInv, NEW e \in Events, MutexNext(e) PROVE IInv'
<1>1. ASSUME NEW n \in app.timeouts, OSMutexPend(e, n) PROVE IInv'
  BY <1>1, OSMutexPendKept
<1>2. CASE OSMutexPost(e)
  BY <1>2, OSMutexPostKept
<1>3. CASE OSMutexAccept(e)
  <2>1. Mutex(e) /\ Calls("mutexAccept") /\ Acquire(e)
    BY <1>3 DEF OSMutexAccept, IInv, Common, Buffers, Mutex
  <2>. QED  BY <2>1, AcquireKept
<1>. QED  BY <1>1, <1>2, <1>3 DEF MutexNext

-----------------------------------------------------------------------------
(***************************************************************************)
(* The theorems.                                                           *)
(***************************************************************************)

\* No service of a semaphore, a mailbox or a queue is called on a mutex.
LEMMA SemNextLends == ASSUME IInv, NEW e \in Events, SemNext(e) PROVE Lending'
<1>. USE Constants
<1>1. evt[e].kind = "sem" => ~Mutex(e)
  BY DEF IInv, Common, Buffers, Mutex
<1>2. ASSUME NEW n \in app.timeouts, OSSemPend(e, n) PROVE Lending'
  BY <1>1, <1>2, PendLends DEF OSSemPend
<1>3. ASSUME NEW opt \in app.opts, OSSemPendAbort(e, opt) PROVE Lending'
  BY <1>1, <1>3, PendAbortLends DEF OSSemPendAbort
<1>4. ASSUME NEW n \in 0 .. Capacity["sem"], OSSemSet(e, n) PROVE Lending'
  <2>1. evt[e].kind = "sem"
    BY <1>4 DEF OSSemSet
  <2>. QED  BY <1>1, <1>4, <2>1, OSSemSetLends
<1>5. CASE OSSemPost(e)
  BY <1>1, <1>5, PostLends DEF OSSemPost
<1>6. CASE OSSemAccept(e)
  BY <1>1, <1>6, TakeLends DEF OSSemAccept
<1>. QED  BY <1>2, <1>3, <1>4, <1>5, <1>6 DEF SemNext

LEMMA MboxNextLends == ASSUME IInv, NEW e \in Events, MboxNext(e) PROVE Lending'
<1>1. evt[e].kind = "mbox" => ~Mutex(e)
  BY DEF IInv, Common, Buffers, Mutex
<1>2. ASSUME NEW n \in app.timeouts, OSMboxPend(e, n) PROVE Lending'
  BY <1>1, <1>2, PendLends DEF OSMboxPend
<1>3. ASSUME NEW opt \in app.opts, OSMboxPendAbort(e, opt) PROVE Lending'
  BY <1>1, <1>3, PendAbortLends DEF OSMboxPendAbort
<1>4. ASSUME NEW m \in Messages \ {Token}, OSMboxPost(e, m) PROVE Lending'
  BY <1>1, <1>4, PostLends DEF OSMboxPost
<1>5. ASSUME NEW m \in Messages \ {Token}, NEW opt \in app.opts, OSMboxPostOpt(e, m, opt) PROVE Lending'
  BY <1>1, <1>5, PostLends DEF OSMboxPostOpt
<1>6. CASE OSMboxAccept(e)
  BY <1>1, <1>6, TakeLends DEF OSMboxAccept
<1>. QED  BY <1>2, <1>3, <1>4, <1>5, <1>6 DEF MboxNext

LEMMA QNextLends == ASSUME IInv, NEW e \in Events, QNext(e) PROVE Lending'
<1>1. evt[e].kind = "q" => ~Mutex(e)
  BY DEF IInv, Common, Buffers, Mutex
<1>2. ASSUME NEW n \in app.timeouts, OSQPend(e, n) PROVE Lending'
  BY <1>1, <1>2, PendLends DEF OSQPend
<1>3. ASSUME NEW opt \in app.opts, OSQPendAbort(e, opt) PROVE Lending'
  BY <1>1, <1>3, PendAbortLends DEF OSQPendAbort
<1>4. ASSUME NEW m \in Messages \ {Token}, OSQPost(e, m) \/ OSQPostFront(e, m) PROVE Lending'
  BY <1>1, <1>4, PostLends DEF OSQPost, OSQPostFront
<1>5. ASSUME NEW m \in Messages \ {Token}, NEW opt \in app.opts, OSQPostOpt(e, m, opt) PROVE Lending'
  BY <1>1, <1>5, PostLends DEF OSQPostOpt
<1>6. CASE OSQAccept(e)
  BY <1>1, <1>6, TakeLends DEF OSQAccept
<1>7. CASE OSQFlush(e)
  <2>1. evt[e].kind = "q"
    BY <1>7 DEF OSQFlush
  <2>. QED  BY <1>1, <1>7, <2>1, OSQFlushLends
<1>. QED  BY <1>2, <1>3, <1>4, <1>5, <1>6, <1>7 DEF QNext

LEMMA PendEndsHold == IInv /\ PendEnds => IInv'
<1>. SUFFICES ASSUME IInv, PendEnds PROVE IInv'
  OBVIOUS
<1>1. ASSUME cur \in Tasks PROVE tcb[cur].msg \in Messages \cup {Nil}
  BY <1>1 DEF IInv, Common, Types, TaskBlocks
<1>2. ASSUME NEW kind, PendEnd(kind, tcb[cur].msg) PROVE IInv'
  <2>1. cur \in Tasks
    BY <1>2 DEF PendEnd
  <2>2. Common'
    BY <1>1, <1>2, <2>1, PendEndKept DEF IInv
  <2>. QED  BY <1>2, <2>2, PendEndLends DEF IInv
<1>3. ASSUME NEW kind, PendEnd(kind, Nil) PROVE IInv'
  <2>1. Common'
    BY <1>3, PendEndKept DEF IInv
  <2>. QED  BY <1>3, <2>1, PendEndLends DEF IInv
<1>. QED  BY <1>2, <1>3 DEF PendEnds, OSSemPendEnd, OSMboxPendEnd, OSQPendEnd, OSMutexPendEnd

LEMMA StutterHolds == IInv /\ UNCHANGED vars => IInv'
<1>. SUFFICES ASSUME IInv, UNCHANGED vars PROVE IInv'
  OBVIOUS
<1>1. UNCHANGED <<app, tcb, rdy, prioTbl, cur, prioCur, lock, pos, evt, owed>>
  BY DEF vars
<1>2. Types /\ Processor
  BY DEF IInv, Common, Kernel
<1>3. Processor'
  BY <1>1, <1>2 DEF Processor
<1>4. \A t \in Tasks : InPend(t)' <=> InPend(t)
  BY <1>1 DEF InPend
<1>5. Common'
  BY <1>1, <1>2, <1>3, <1>4, SchedulerFrame DEF Types, IInv
<1>6. \A t \in Tasks : Calm => tcb'[t].outcome # "to"
  BY <1>1 DEF Calm
<1>7. Lending'
  BY <1>1, <1>6, QuietLends
<1>. QED  BY <1>5, <1>7 DEF IInv

LEMMA NextKept == IInv /\ [Next]_vars => IInv'
<1>. SUFFICES ASSUME IInv, [Next]_vars PROVE IInv'
  OBVIOUS
<1>1. CASE KernelNext
  BY <1>1, KernelNextKept, KernelNextLends DEF IInv
<1>2. CASE PendEnds
  BY <1>2, PendEndsHold
<1>3. ASSUME NEW e \in Events, SemNext(e) \/ MboxNext(e) \/ QNext(e) PROVE IInv'
  <2>1. Common'
    BY <1>3, SemNextKept, MboxNextKept, QNextKept DEF IInv
  <2>2. Lending'
    BY <1>3, SemNextLends, MboxNextLends, QNextLends
  <2>. QED  BY <2>1, <2>2 DEF IInv
<1>4. ASSUME NEW e \in Events, MutexNext(e) PROVE IInv'
  BY <1>4, MutexNextKept
<1>5. CASE UNCHANGED vars
  BY <1>5, StutterHolds
<1>. QED  BY <1>1, <1>2, <1>3, <1>4, <1>5 DEF Next

LEMMA InitLending == Init /\ Sound(app) => Lending
<1>. SUFFICES ASSUME Init, Sound(app), Inheriting(app)
              PROVE  Calm /\ \A e \in Events : Mutex(e) => MutexTruthful(e)
  BY DEF Lending
<1>1. lock = 0 /\ \A e \in Events, m \in Messages : owed[e][m] = 0
  BY DEF Init
<1>2. \A t \in Tasks : tcb[t].prio = FirstPrio[t] /\ tcb[t].stat = {} /\ tcb[t].outcome = "ok"
  <2>1. tcb = [t \in Tasks |-> NewTask(FirstPrio[t])]
    BY DEF Init
  <2>. QED  BY <2>1 DEF NewTask
<1>3. Calm
  BY <1>1, <1>2 DEF Calm, Suspended, Pending
<1>4. ASSUME NEW e \in Events, Mutex(e) PROVE MutexTruthful(e)
  <2>1. evt[e].wait = {} /\ evt[e].owner = Nil /\ evt[e].mprio = Available /\ evt[e].pip = app.pip[e]
    BY DEF Init
  <2>2. prioTbl[app.pip[e]] = Reserved /\ \A t \in Tasks : prioTbl[FirstPrio[t]] = t
    BY <1>4, InitTable
  <2>3. Free(e)
    BY <2>1, <2>2 DEF Free
  <2>. QED  BY <1>1, <1>2, <2>1, <2>2, <2>3 DEF MutexTruthful
<1>. QED  BY <1>3, <1>4

\* The inductive invariant holds of every program the hypothesis admits.
THEOREM Invariance == Spec /\ Sound(app) => []IInv
<1>1. Init /\ Sound(app) => IInv
  BY InitCommon, InitLending DEF IInv
<1>2. IInv /\ [Next]_vars => IInv'
  BY NextKept
<1>. QED  BY <1>1, <1>2, PTL DEF Spec

\* Every variable keeps its type; no event stores more than it has room for,
\* and no service takes back a delivery that was never made.
THEOREM KernelTypes == Spec /\ Sound(app) => []KernelTypeOK
<1>1. IInv => KernelTypeOK
  <2>. SUFFICES ASSUME IInv PROVE KernelTypeOK
    OBVIOUS
  <2>1. Common /\ Types /\ Buffers /\ Lowest \in rdy
    BY DEF IInv, Common, Kernel, Tables
  <2>2. owed \in [Events -> [Messages -> Nat]]
    <3>1. ASSUME NEW e \in Events, NEW m \in Messages PROVE owed[e][m] \in Nat
      <4>1. CASE Mutex(e)
        BY <4>1, MutexFacts DEF MutexTruthful
      <4>2. CASE ~Mutex(e)
        BY <2>1, <4>2, Balance
      <4>. QED  BY <4>1, <4>2
    <3>. QED  BY <2>1, <3>1 DEF Types
  <2>3. \A e \in Events :
           evt[e] \in EventBlocks /\ (evt[e].kind # "unused" => Len(evt[e].buf) <= Capacity[evt[e].kind])
    BY <2>1 DEF Types, Buffers
  <2>. QED  BY <2>1, <2>2, <2>3 DEF KernelTypeOK, Types
<1>. QED  BY <1>1, Invariance, PTL

\* The ready list and the blocks agree, whatever order ticks, suspensions,
\* resumes, delays, deliveries, aborts and raised owners come in.
THEOREM ReadyList == Spec /\ Sound(app) => []ReadyListTruthful
<1>1. IInv => ReadyListTruthful
  BY DEF IInv, Common, Kernel
<1>. QED  BY <1>1, Invariance, PTL

\* Between services the highest-priority ready task runs.
THEOREM Scheduling == Spec /\ Sound(app) => []RunsHighest
<1>1. IInv => RunsHighest
  BY DEF IInv, Common, Kernel, Types, Processor, RunsHighest
<1>. QED  BY <1>1, Invariance, PTL

\* The wait list of an event names the tasks in a Pend on it that have been
\* neither given it nor aborted.
THEOREM WaitLists == Spec /\ Sound(app) => []WaitListTruthful
<1>1. IInv => WaitListTruthful
  BY DEF IInv, Common
<1>. QED  BY <1>1, Invariance, PTL

\* No delivery is lost or received twice.
THEOREM Deliveries == Spec /\ Sound(app) => []NothingLost
<1>1. IInv => NothingLost
  BY DEF IInv, Common
<1>. QED  BY <1>1, Invariance, PTL

\* A task that waits for a mutex has its owner above it or at its own priority,
\* and nobody but the owner is above the priority it was created with.
THEOREM Inheritance == Spec /\ Sound(app) => []PriorityInheritance
<1>1. IInv => PriorityInheritance
  <2>. SUFFICES ASSUME IInv, NEW e \in Events, evt[e].kind = "mutex", NEW t \in Tasks
                PROVE  /\ Pending(t) /\ tcb[t].evp = e =>
                            evt[e].owner # Nil /\ tcb[evt[e].owner].prio <= tcb[t].prio
                       /\ tcb[t].prio # FirstPrio[t] => evt[e].owner = t
    BY DEF PriorityInheritance
  <2>1. Mutex(e)
    BY DEF IInv, Common, Buffers, Mutex
  <2>2. MutexTruthful(e)
    BY <2>1, MutexFacts
  <2>3. ASSUME Pending(t), tcb[t].evp = e
        PROVE  evt[e].owner # Nil /\ tcb[evt[e].owner].prio <= tcb[t].prio
    <3>1. tcb[t].prio \in evt[e].wait
      BY <2>3 DEF IInv, Common, Types, TaskBlocks, WaitListTruthful
    <3>2. evt[e].owner # Nil
      BY <2>2, <3>1 DEF MutexTruthful, Free
    <3>. QED  BY <2>2, <3>1, <3>2 DEF MutexTruthful, Owned
  <2>4. tcb[t].prio # FirstPrio[t] => evt[e].owner = t
    BY <2>2 DEF MutexTruthful
  <2>. QED  BY <2>3, <2>4
<1>. QED  BY <1>1, Invariance, PTL

=============================================================================
