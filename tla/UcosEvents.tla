----------------------------- MODULE UcosEvents -----------------------------
(***************************************************************************)
(* The event services of uC/OS-II: semaphores (os_sem.c), mailboxes        *)
(* (os_mbox.c), message queues (os_q.c) and mutexes (os_mutex.c), over the *)
(* tasks and the scheduler of UcosKernel.                                  *)
(*                                                                         *)
(* What an event stores is one sequence, buf: the units of a semaphore     *)
(* (OSEventCnt of them), the message of a mailbox (at most one) or the     *)
(* ring of a queue, so that the services that differ only in it share one  *)
(* operator.  A mutex stores nothing: it has an owner, the owner's own     *)
(* priority (the low half of OSEventCnt) and the priority pip it inherits  *)
(* (the high half).                                                        *)
(*                                                                         *)
(* The history variable owed counts, per event and message, the deliveries *)
(* accepted by a Post and not yet returned by a Pend or an Accept.         *)
(***************************************************************************)
EXTENDS UcosKernel

CONSTANTS
    Capacity,   \* kind -> units an event may store; bounds the count of 65535
    Available   \* OS_MUTEX_AVAILABLE: no owner's priority

ASSUME EventsAssumption ==
    /\ Capacity \in [{"sem", "mbox", "q", "mutex"} -> Nat]
    /\ Available \notin Prios

Kinds == {"sem", "mbox", "q", "mutex", "unused"}

\* An application program: the kind of each event, the priority a mutex
\* inherits, the services its tasks and its interrupt handlers call, the
\* timeouts they pend with (0 waits for ever) and the options they post with.
App == [kinds : [Events -> Kinds], pip : [Events -> Prios \cup {Nil}],
        calls : SUBSET STRING, isr : SUBSET STRING, timeouts : SUBSET (0 .. MaxDelay),
        opts : SUBSET SUBSET {"broadcast", "front"}]

EventBlocks ==
    [kind : Kinds, buf : Seq(Messages), wait : SUBSET Prios,
     owner : Tasks \cup {Nil}, mprio : Prios \cup {Available}, pip : Prios \cup {Nil}]

Copies(e, m) == Cardinality({i \in DOMAIN evt[e].buf : evt[e].buf[i] = m})

\* The task was given the event or its message and has not returned from its Pend.
Granted(t, e) ==
    pos[t] \in {"schedPend", "pend"} /\ tcb[t].evp = e /\ ~Pending(t) /\ tcb[t].outcome = "ok"

-----------------------------------------------------------------------------
(* os_core.c: the wait lists.                                              *)

HighestWaiter(e) == {prioTbl[Min(evt[e].wait)]}
AllWaiters(e) == {prioTbl[p] : p \in evt[e].wait}
Waiters(e, opt) == IF "broadcast" \in opt THEN AllWaiters(e) ELSE HighestWaiter(e)

\* OS_EventTaskRdy for each task of W: it stops waiting with msg and the outcome,
\* and is ready unless it is suspended.  Its block still points at the event.
OS_EventTaskRdy(blocks, ready, W, msg, outcome) ==
    /\ tcb' = [t \in Tasks |->
                 IF t \notin W THEN blocks[t]
                 ELSE [blocks[t] EXCEPT !.dly = 0, !.msg = msg,
                                        !.stat = @ \ {"pend"}, !.outcome = outcome]]
    /\ rdy' = ready \cup PriosOf({t \in W : ~Suspended(t)})

\* Fault: the tasks stay in the wait list.
StillWaiting(e, W) == evt

WithoutWaiters(e, W) == [evt EXCEPT ![e].wait = @ \ PriosOf(W)]

\* The running task's block, queued on e: the last part of every Pend's first
\* section, with OS_EventTaskWait.
OS_EventTaskWait(e, blocks, events, ready, timeout) ==
    /\ tcb' = [blocks EXCEPT ![cur].stat = @ \cup {"pend"}, ![cur].outcome = "ok",
                             ![cur].dly = timeout, ![cur].evp = e]
    /\ evt' = [events EXCEPT ![e].wait = @ \cup {blocks[cur].prio}]
    /\ rdy' = ready \ {blocks[cur].prio}
    /\ pos' = [pos EXCEPT ![cur] = "schedPend"]
    /\ UNCHANGED <<app, cpu>>

-----------------------------------------------------------------------------
(* What semaphores, mailboxes and queues share.                            *)

\* Fault: one more than the capacity is stored.
DeliverToFull(e, m, opt) ==
    IF evt[e].wait # {}
      THEN /\ OS_EventTaskRdy(tcb, rdy, Waiters(e, opt), m, "ok")
           /\ evt' = WithoutWaiters(e, Waiters(e, opt))
           /\ owed' = [owed EXCEPT ![e][m] = @ + Cardinality(Waiters(e, opt))]
           /\ UNCHANGED prioTbl
      ELSE /\ Len(evt[e].buf) <= Capacity[evt[e].kind]
           /\ evt' = [evt EXCEPT ![e].buf = IF "front" \in opt THEN <<m>> \o @ ELSE Append(@, m)]
           /\ owed' = [owed EXCEPT ![e][m] = @ + 1]
           /\ UNCHANGED <<tcb, rdy, prioTbl>>

\* A section that hands m to waiting tasks, or stores it unless e is full.
Deliver(e, m, opt) ==
    IF evt[e].wait # {}
      THEN /\ OS_EventTaskRdy(tcb, rdy, Waiters(e, opt), m, "ok")
           /\ evt' = WithoutWaiters(e, Waiters(e, opt))
           /\ owed' = [owed EXCEPT ![e][m] = @ + Cardinality(Waiters(e, opt))]
           /\ UNCHANGED prioTbl
      ELSE /\ Len(evt[e].buf) < Capacity[evt[e].kind]
           /\ evt' = [evt EXCEPT ![e].buf = IF "front" \in opt THEN <<m>> \o @ ELSE Append(@, m)]
           /\ owed' = [owed EXCEPT ![e][m] = @ + 1]
           /\ UNCHANGED <<tcb, rdy, prioTbl>>

\* Service s posts m: a task then calls OS_Sched if somebody was waiting.
Post(s, e, m, opt) ==
    \/ Calls(s) /\ Deliver(e, m, opt) /\ Leave(evt[e].wait # {})
    \/ s \in app.isr /\ Deliver(e, m, opt) /\ OSIntExit

\* Takes what is stored; the caller does not wait.
Take(e) ==
    /\ evt[e].buf # <<>>
    /\ evt' = [evt EXCEPT ![e].buf = Tail(@)]
    /\ owed' = [owed EXCEPT ![e][Head(evt[e].buf)] = @ - 1]
    /\ UNCHANGED <<tcb, rdy, prioTbl>>
    /\ Leave(FALSE)

\* The first section of a Pend.  Refused while the scheduler is locked.
Pend(s, e, timeout) ==
    /\ Calls(s)
    /\ lock = 0
    /\ \/ Take(e)
       \/ /\ evt[e].buf = <<>>
          /\ OS_EventTaskWait(e, tcb, evt, rdy, timeout)
          /\ UNCHANGED <<prioTbl, owed>>

\* Fault: a task that timed out stays in the wait list.
PendEndStays(kind, msg) ==
    LET e == tcb[cur].evp
    IN  /\ cur \in Tasks
        /\ pos[cur] = "pend"
        /\ evt[e].kind = kind
        /\ owed' = IF kind # "mutex" /\ tcb[cur].outcome = "ok"
                     THEN [owed EXCEPT ![e][tcb[cur].msg] = @ - 1] ELSE owed
        /\ tcb' = [tcb EXCEPT ![cur].stat = {}, ![cur].outcome = "ok", ![cur].evp = Nil,
                              ![cur].msg = msg]
        /\ UNCHANGED <<rdy, prioTbl, evt>>
        /\ Leave(FALSE)

\* The last section of a Pend on an event of this kind: a task that timed out
\* leaves the wait list here, and not before.
PendEnd(kind, msg) ==
    LET e == tcb[cur].evp
    IN  /\ cur \in Tasks
        /\ pos[cur] = "pend"
        /\ evt[e].kind = kind
        /\ evt' = IF tcb[cur].outcome = "to" THEN WithoutWaiters(e, {cur}) ELSE evt
        /\ owed' = IF kind # "mutex" /\ tcb[cur].outcome = "ok"
                     THEN [owed EXCEPT ![e][tcb[cur].msg] = @ - 1] ELSE owed
        /\ tcb' = [tcb EXCEPT ![cur].stat = {}, ![cur].outcome = "ok", ![cur].evp = Nil,
                              ![cur].msg = msg]
        /\ UNCHANGED <<rdy, prioTbl>>
        /\ Leave(FALSE)

\* Ends the wait of the first waiter or of all of them, with nothing delivered.
PendAbort(s, e, opt) ==
    /\ Calls(s)
    /\ evt[e].wait # {}
    /\ OS_EventTaskRdy(tcb, rdy, Waiters(e, opt), Nil, "abort")
    /\ evt' = WithoutWaiters(e, Waiters(e, opt))
    /\ UNCHANGED <<prioTbl, owed>>
    /\ Leave(TRUE)

-----------------------------------------------------------------------------
(* os_sem.c                                                                *)

OSSemPend(e, timeout) == evt[e].kind = "sem" /\ Pend("semPend", e, timeout)
OSSemPendEnd == PendEnd("sem", tcb[cur].msg)
OSSemPendAbort(e, opt) == evt[e].kind = "sem" /\ PendAbort("semAbort", e, opt)
OSSemPost(e) == evt[e].kind = "sem" /\ Post("semPost", e, Token, {})
OSSemAccept(e) == evt[e].kind = "sem" /\ Calls("semAccept") /\ Take(e)

OSSemSet(e, cnt) ==
    /\ evt[e].kind = "sem"
    /\ Calls("semSet")
    /\ evt[e].buf # <<>> \/ evt[e].wait = {}
    /\ evt' = [evt EXCEPT ![e].buf = [i \in 1 .. cnt |-> Token]]
    /\ owed' = [owed EXCEPT ![e][Token] = @ - Len(evt[e].buf) + cnt]
    /\ UNCHANGED <<tcb, rdy, prioTbl>>
    /\ Leave(FALSE)

(* os_mbox.c                                                               *)

OSMboxPend(e, timeout) == evt[e].kind = "mbox" /\ Pend("mboxPend", e, timeout)
OSMboxPendEnd == PendEnd("mbox", Nil)
OSMboxPendAbort(e, opt) == evt[e].kind = "mbox" /\ PendAbort("mboxAbort", e, opt)
OSMboxPost(e, m) == evt[e].kind = "mbox" /\ Post("mboxPost", e, m, {})
OSMboxPostOpt(e, m, opt) == evt[e].kind = "mbox" /\ Post("mboxPostOpt", e, m, opt \ {"front"})
OSMboxAccept(e) == evt[e].kind = "mbox" /\ Calls("mboxAccept") /\ Take(e)

(* os_q.c                                                                  *)

OSQPend(e, timeout) == evt[e].kind = "q" /\ Pend("qPend", e, timeout)
OSQPendEnd == PendEnd("q", Nil)
OSQPendAbort(e, opt) == evt[e].kind = "q" /\ PendAbort("qAbort", e, opt)
OSQPost(e, m) == evt[e].kind = "q" /\ Post("qPost", e, m, {})
OSQPostFront(e, m) == evt[e].kind = "q" /\ Post("qPostFront", e, m, {"front"})
OSQPostOpt(e, m, opt) == evt[e].kind = "q" /\ Post("qPostOpt", e, m, opt)
OSQAccept(e) == evt[e].kind = "q" /\ Calls("qAccept") /\ Take(e)

OSQFlush(e) ==
    /\ evt[e].kind = "q"
    /\ Calls("qFlush")
    /\ evt' = [evt EXCEPT ![e].buf = <<>>]
    /\ owed' = [owed EXCEPT ![e] = [m \in Messages |-> @[m] - Copies(e, m)]]
    /\ UNCHANGED <<tcb, rdy, prioTbl>>
    /\ Leave(FALSE)

-----------------------------------------------------------------------------
(* os_mutex.c                                                              *)

Acquire(e) ==
    /\ evt[e].mprio = Available
    /\ evt' = [evt EXCEPT ![e].mprio = tcb[cur].prio, ![e].owner = cur]
    /\ UNCHANGED <<tcb, rdy, prioTbl, owed>>
    /\ Leave(FALSE)

\* The owner takes the priority pip before the running task waits: in the ready
\* list if it is there, otherwise in the wait list of the event it points at.
InheritAndWait(e, timeout) ==
    LET owner == evt[e].owner
        old == tcb[owner].prio
        raise == old > evt[e].pip /\ evt[e].mprio > tcb[cur].prio
        e2 == tcb[owner].evp
        blocks == [tcb EXCEPT ![owner].prio = evt[e].pip]
        moved(S) == (S \ {old}) \cup {evt[e].pip}
    IN  IF raise
          THEN /\ OS_EventTaskWait(e, blocks,
                     IF old \in rdy \/ e2 = Nil THEN evt ELSE [evt EXCEPT ![e2].wait = moved(@)],
                     IF old \in rdy THEN moved(rdy) ELSE rdy, timeout)
               /\ prioTbl' = [prioTbl EXCEPT ![evt[e].pip] = owner]
          ELSE OS_EventTaskWait(e, tcb, evt, rdy, timeout) /\ UNCHANGED prioTbl

OSMutexPend(e, timeout) ==
    /\ evt[e].kind = "mutex"
    /\ Calls("mutexPend")
    /\ lock = 0
    /\ \/ Acquire(e)
       \/ evt[e].mprio # Available /\ InheritAndWait(e, timeout) /\ UNCHANGED owed

OSMutexPendEnd == PendEnd("mutex", tcb[cur].msg)
OSMutexAccept(e) == evt[e].kind = "mutex" /\ Calls("mutexAccept") /\ Acquire(e)

\* Fault: a raised owner keeps the priority it inherited.
RaisedNever(e) == FALSE

\* Has the running owner been raised?  OSMutex_RdyAtPrio then takes it back.
Raised(e) == tcb[cur].prio = evt[e].pip

RdyAtPrio(prio) ==
    [blocks |-> [tcb EXCEPT ![cur].prio = prio],
     ready  |-> (rdy \ {tcb[cur].prio}) \cup {prio},
     tbl    |-> [prioTbl EXCEPT ![prio] = cur]]

\* The owner goes back to its own priority and the first waiter is the new
\* owner; without a waiter the mutex is free, and OS_Sched is not called.
OSMutexPost(e) ==
    LET own == IF Raised(e) THEN RdyAtPrio(evt[e].mprio)
               ELSE [blocks |-> tcb, ready |-> rdy, tbl |-> prioTbl]
        prio == Min(evt[e].wait)
    IN  /\ evt[e].kind = "mutex"
        /\ Calls("mutexPost")
        /\ evt[e].owner = cur
        /\ prioTbl' = [own.tbl EXCEPT ![evt[e].pip] = Reserved]
        /\ IF evt[e].wait # {}
             THEN /\ OS_EventTaskRdy(own.blocks, own.ready, HighestWaiter(e), Nil, "ok")
                  /\ evt' = [WithoutWaiters(e, HighestWaiter(e)) EXCEPT
                               ![e].mprio = prio, ![e].owner = prioTbl[prio]]
             ELSE /\ tcb' = own.blocks
                  /\ rdy' = own.ready
                  /\ evt' = [evt EXCEPT ![e].mprio = Available, ![e].owner = Nil]
        /\ UNCHANGED owed
        /\ Leave(evt[e].wait # {})

-----------------------------------------------------------------------------

\* OSStart: every task is ready and the highest one runs; mutexes have been
\* created, which reserves the priority they inherit.
Init ==
    /\ app \in Scenarios
    /\ tcb = [t \in Tasks |-> NewTask(FirstPrio[t])]
    /\ rdy = {FirstPrio[t] : t \in Tasks} \cup {Lowest}
    /\ prioTbl = [p \in Prios |->
                    IF p = Lowest THEN Idle
                    ELSE IF \E e \in Events : app.kinds[e] = "mutex" /\ app.pip[e] = p THEN Reserved
                    ELSE IF \E t \in Tasks : FirstPrio[t] = p
                      THEN CHOOSE t \in Tasks : FirstPrio[t] = p
                    ELSE Nil]
    /\ prioCur = Highest(rdy)
    /\ cur = prioTbl[prioCur]
    /\ lock = 0
    /\ pos = [t \in Tasks |-> "user"]
    /\ evt = [e \in Events |->
                [kind |-> app.kinds[e], buf |-> <<>>, wait |-> {}, owner |-> Nil,
                 mprio |-> Available, pip |-> app.pip[e]]]
    /\ owed = [e \in Events |-> [m \in Messages |-> 0]]

SemNext(e) ==
    \/ \E n \in app.timeouts : OSSemPend(e, n)
    \/ \E opt \in app.opts : OSSemPendAbort(e, opt)
    \/ \E n \in 0 .. Capacity["sem"] : OSSemSet(e, n)
    \/ OSSemPost(e)
    \/ OSSemAccept(e)

MboxNext(e) ==
    \/ \E n \in app.timeouts : OSMboxPend(e, n)
    \/ \E opt \in app.opts : OSMboxPendAbort(e, opt)
    \/ \E m \in Messages \ {Token} : OSMboxPost(e, m)
    \/ \E m \in Messages \ {Token}, opt \in app.opts : OSMboxPostOpt(e, m, opt)
    \/ OSMboxAccept(e)

QNext(e) ==
    \/ \E n \in app.timeouts : OSQPend(e, n)
    \/ \E opt \in app.opts : OSQPendAbort(e, opt)
    \/ \E m \in Messages \ {Token} : OSQPost(e, m) \/ OSQPostFront(e, m)
    \/ \E m \in Messages \ {Token}, opt \in app.opts : OSQPostOpt(e, m, opt)
    \/ OSQAccept(e)
    \/ OSQFlush(e)

MutexNext(e) ==
    \/ \E n \in app.timeouts : OSMutexPend(e, n)
    \/ OSMutexPost(e)
    \/ OSMutexAccept(e)

PendEnds == OSSemPendEnd \/ OSMboxPendEnd \/ OSQPendEnd \/ OSMutexPendEnd

Next ==
    \/ KernelNext
    \/ PendEnds
    \/ \E e \in Events : SemNext(e) \/ MboxNext(e) \/ QNext(e) \/ MutexNext(e)

\* The timer interrupt keeps coming, a task inside a kernel service goes on
\* when it has the processor, and a program that locks the scheduler unlocks it.
\* Nothing is assumed of what tasks do in the application.
Fairness ==
    /\ WF_vars(OSTimeTick)
    /\ WF_vars(OS_Sched)
    /\ WF_vars(PendEnds)
    /\ SF_vars(OSSchedUnlock /\ lock' = 0)

Spec == Init /\ [][Next]_vars /\ Fairness

-----------------------------------------------------------------------------
(* Properties.                                                             *)

\* The type invariant of the kernel's state.
KernelTypeOK ==
    /\ tcb \in [Tasks -> TaskBlocks]
    /\ rdy \subseteq Prios /\ Lowest \in rdy
    /\ prioTbl \in [Prios -> Tasks \cup {Nil, Idle, Reserved}]
    /\ cur \in Tasks \cup {Idle}
    /\ prioCur \in Prios
    /\ lock \in 0 .. MaxNesting
    /\ pos \in [Tasks -> {"user", "sched", "schedPend", "pend"}]
    /\ \A e \in Events :
          evt[e] \in EventBlocks /\ (evt[e].kind # "unused" => Len(evt[e].buf) <= Capacity[evt[e].kind])
    /\ owed \in [Events -> [Messages -> Nat]]

\* A task is in the ready list exactly when it waits for nothing, neither an
\* event nor a delay nor a resume, and OSTCBPrioTbl leads from its priority
\* back to it: five services and the tick each update one side of this.
ReadyListTruthful ==
    \A t \in Tasks :
       /\ tcb[t].prio \in rdy <=> tcb[t].stat = {} /\ tcb[t].dly = 0
       /\ prioTbl[tcb[t].prio] = t

\* Between services the processor runs the highest-priority ready task, unless
\* the scheduler is locked: no service forgets to call OS_Sched, and no
\* interrupt returns to a task it should have preempted.
RunsHighest ==
    lock = 0 /\ (cur \in Tasks => pos[cur] = "user") => cur = prioTbl[Highest(rdy)]

\* The wait list of an event names exactly the tasks in a Pend on it that were
\* neither given it nor aborted: those still waiting, and those that timed out
\* but have not run since.
WaitListTruthful ==
    \A e \in Events, p \in Prios :
       p \in evt[e].wait <=>
         \E t \in Tasks : /\ tcb[t].prio = p
                          /\ tcb[t].evp = e
                          /\ Pending(t) \/ tcb[t].outcome = "to"

\* Nothing posted is lost or received twice, whatever timeouts, aborts,
\* suspensions and interrupts come between: a delivery accepted by a Post is
\* stored in the event or granted to a task that is about to return with it.
NothingLost ==
    \A e \in Events, m \in Messages :
       evt[e].kind # "mutex" =>
         owed[e][m] = Copies(e, m) + Cardinality({t \in Tasks : Granted(t, e) /\ tcb[t].msg = m})

\* A task that waits for a mutex never waits behind a priority lower than its
\* own, and a task runs at a mutex's priority only while it owns it.
PriorityInheritance ==
    \A e \in Events : evt[e].kind = "mutex" =>
       \A t \in Tasks :
          /\ Pending(t) /\ tcb[t].evp = e =>
               evt[e].owner # Nil /\ tcb[evt[e].owner].prio <= tcb[t].prio
          /\ tcb[t].prio # FirstPrio[t] => evt[e].owner = t

\* A task that no other is above always comes back from a Pend with a timeout:
\* unless it is suspended, the ticks, the scheduler and the unlocking of the
\* scheduler bring it to the processor.
Top(t) == ~Suspended(t) /\ \A u \in Tasks : tcb[t].prio <= tcb[u].prio
TimedPendReturns ==
    \A t \in Tasks : Pending(t) /\ tcb[t].dly > 0 ~> pos[t] = "user" \/ ~Top(t)
=============================================================================
