----------------------------- MODULE UcosKernel -----------------------------
(***************************************************************************)
(* The uC/OS-II kernel (version 2.86) that Lab 5's processor runs: task    *)
(* control blocks, the ready list, the scheduler, the time tick and the    *)
(* services on tasks and on time (os_core.c, os_task.c, os_time.c).        *)
(*                                                                         *)
(* A step is one critical section: the code runs it with interrupts off.   *)
(* Between two sections an interrupt may come, so a service that leaves    *)
(* its section and then calls OS_Sched is two steps, and pos[t] says where *)
(* task t stands:                                                          *)
(*   "user"       in the application, free to call a service;              *)
(*   "sched"      a service of t left its section, OS_Sched comes next;    *)
(*   "schedPend"  the same, inside a Pend: t is queued on its event;       *)
(*   "pend"       in a Pend, after OS_Sched.                               *)
(* The two-level bit maps OSRdyGrp/OSRdyTbl and OSEventGrp/OSEventTbl are  *)
(* sets of priorities; a smaller number is a higher priority.  Calls that  *)
(* fail an argument check change nothing and are left out.                 *)
(***************************************************************************)
EXTENDS Integers, Sequences, FiniteSets, FiniteSetsExt

CONSTANTS
    Tasks,      \* the application's tasks
    Events,     \* event control blocks
    Messages,   \* message pointers, and the token a semaphore hands out
    Token,      \* the element of Messages that stands for a semaphore's unit
    Nil,        \* a null pointer
    Idle,       \* the idle task
    Reserved,   \* OS_TCB_RESERVED: a priority held by a mutex for its owner
    Lowest,     \* OS_LOWEST_PRIO, the idle task's priority
    FirstPrio,  \* the priority each task is created with
    MaxDelay,   \* bound: delays and timeouts, 65535 in the code
    MaxNesting, \* bound: depth of OSSchedLock, 255 in the code
    Scenarios   \* the application programs of this instance, see App

ASSUME KernelAssumption ==
    /\ Token \in Messages
    /\ {Nil, Idle, Reserved} \cap Tasks = {}
    /\ Nil # Idle /\ Nil # Reserved /\ Idle # Reserved
    /\ Nil \notin Events \cup Messages
    /\ Lowest \in Nat /\ MaxDelay \in Nat \ {0} /\ MaxNesting \in Nat
    /\ FirstPrio \in [Tasks -> 0 .. (Lowest - 1)]
    /\ \A t, u \in Tasks : FirstPrio[t] = FirstPrio[u] => t = u

Prios == 0 .. Lowest

VARIABLES
    app,      \* what the application does: services it calls, kinds of events
    tcb,      \* the task control blocks
    rdy,      \* OSRdyGrp, OSRdyTbl
    prioTbl,  \* OSTCBPrioTbl
    cur,      \* OSTCBCur
    prioCur,  \* OSPrioCur
    lock,     \* OSLockNesting
    pos,      \* where each task stands
    evt,      \* the event control blocks (module UcosEvents)
    owed      \* history: posted and not yet received, see UcosEvents

cpu == <<cur, prioCur, lock>>
vars == <<app, tcb, rdy, prioTbl, cur, prioCur, lock, pos, evt, owed>>

\* Stat is OSTCBStat (the OS_STAT_SEM... bits are one flag: the event says
\* which), evp is OSTCBEventPtr, outcome is OSTCBStatPend.
TaskBlocks ==
    [prio : Prios, stat : SUBSET {"pend", "suspend"}, outcome : {"ok", "to", "abort"},
     dly : 0 .. MaxDelay, evp : Events \cup {Nil}, msg : Messages \cup {Nil}]

NewTask(p) == [prio |-> p, stat |-> {}, outcome |-> "ok", dly |-> 0, evp |-> Nil, msg |-> Nil]

Suspended(t) == "suspend" \in tcb[t].stat
Pending(t) == "pend" \in tcb[t].stat
PriosOf(W) == {tcb[t].prio : t \in W}

\* OS_SchedNew: the highest priority in the ready list.
Highest(ready) == Min(ready)

-----------------------------------------------------------------------------
(* The scheduler.                                                          *)

\* The switch OS_Sched and OSIntExit make: to the highest-priority ready task,
\* when its priority is not the running one's and the scheduler is unlocked.
Switch(ready, tbl, nesting) ==
    LET high == IF nesting = 0 THEN Highest(ready) ELSE prioCur
    IN  /\ prioCur' = high
        /\ cur' = IF high # prioCur THEN tbl[high] ELSE cur

\* Fault: the interrupt returns to the task it interrupted.
OSIntExitNoSwitch == UNCHANGED <<app, cpu, pos>>

\* The end of an interrupt service routine.
OSIntExit ==
    /\ Switch(rdy', prioTbl', lock)
    /\ UNCHANGED <<app, lock, pos>>

\* The running task may call service s now.
Calls(s) == cur \in Tasks /\ pos[cur] = "user" /\ s \in app.calls

\* The end of a service's section: OS_Sched comes next, or the call returns.
Leave(reschedule) ==
    /\ pos' = [pos EXCEPT ![cur] = IF reschedule THEN "sched" ELSE "user"]
    /\ UNCHANGED <<app, cpu>>

OS_Sched ==
    /\ cur \in Tasks
    /\ pos[cur] \in {"sched", "schedPend"}
    /\ Switch(rdy, prioTbl, lock)
    /\ pos' = [pos EXCEPT ![cur] = IF @ = "sched" THEN "user" ELSE "pend"]
    /\ UNCHANGED <<app, tcb, rdy, prioTbl, lock, evt, owed>>

OSSchedLock ==
    /\ Calls("lock")
    /\ lock < MaxNesting
    /\ lock' = lock + 1
    /\ UNCHANGED <<app, tcb, rdy, prioTbl, cur, prioCur, pos, evt, owed>>

OSSchedUnlock ==
    /\ Calls("lock")
    /\ lock > 0
    /\ lock' = lock - 1
    /\ pos' = [pos EXCEPT ![cur] = IF lock = 1 THEN "sched" ELSE "user"]
    /\ UNCHANGED <<app, tcb, rdy, prioTbl, cur, prioCur, evt, owed>>

-----------------------------------------------------------------------------
(* Time.                                                                   *)

\* A task whose delay is over: a Pend it was in has timed out.
TimedOut(b) ==
    [b EXCEPT !.dly = 0, !.stat = @ \ {"pend"},
              !.outcome = IF "pend" \in b.stat THEN "to" ELSE "ok"]

\* Fault: the tick ends the wait of a task that pends but does not make it ready.
OSTimeTickForgets ==
    LET over == {t \in Tasks : tcb[t].dly = 1}
    IN  /\ tcb' = [t \in Tasks |->
                     IF t \in over THEN TimedOut(tcb[t])
                     ELSE [tcb[t] EXCEPT !.dly = IF @ = 0 THEN 0 ELSE @ - 1]]
        /\ rdy' = rdy \cup PriosOf({t \in over : tcb[t].stat = {}})
        /\ UNCHANGED <<prioTbl, evt, owed>>
        /\ OSIntExit

\* One tick of the timer interrupt: every delay counts down.
OSTimeTick ==
    LET over == {t \in Tasks : tcb[t].dly = 1}
    IN  /\ tcb' = [t \in Tasks |->
                     IF t \in over THEN TimedOut(tcb[t])
                     ELSE [tcb[t] EXCEPT !.dly = IF @ = 0 THEN 0 ELSE @ - 1]]
        /\ rdy' = rdy \cup PriosOf({t \in over : ~Suspended(t)})
        /\ UNCHANGED <<prioTbl, evt, owed>>
        /\ OSIntExit

OSTimeDly(ticks) ==
    /\ Calls("delay")
    /\ ticks > 0
    /\ tcb' = [tcb EXCEPT ![cur].dly = ticks]
    /\ rdy' = rdy \ {tcb[cur].prio}
    /\ UNCHANGED <<prioTbl, evt, owed>>
    /\ Leave(TRUE)

OSTimeDlyResume(prio) ==
    LET t == prioTbl[prio]
    IN  /\ Calls("delayResume")
        /\ t \in Tasks
        /\ tcb[t].dly # 0
        /\ tcb' = [tcb EXCEPT ![t] = TimedOut(@)]
        /\ rdy' = IF Suspended(t) THEN rdy ELSE rdy \cup {tcb[t].prio}
        /\ UNCHANGED <<prioTbl, evt, owed>>
        /\ Leave(~Suspended(t))

-----------------------------------------------------------------------------
(* Tasks.                                                                  *)

OSTaskSuspend(prio) ==
    LET t == prioTbl[prio]
    IN  /\ Calls("suspend")
        /\ t \in Tasks
        /\ tcb' = [tcb EXCEPT ![t].stat = @ \cup {"suspend"}]
        /\ rdy' = rdy \ {tcb[t].prio}
        /\ UNCHANGED <<prioTbl, evt, owed>>
        /\ Leave(prio = tcb[cur].prio)

\* Fault: a task that is also delayed is made ready.
OSTaskResumeDelayed(prio) ==
    LET t == prioTbl[prio]
        runnable == ~Pending(t)
    IN  /\ Calls("suspend")
        /\ t \in Tasks
        /\ Suspended(t)
        /\ tcb' = [tcb EXCEPT ![t].stat = @ \ {"suspend"}]
        /\ rdy' = IF runnable THEN rdy \cup {tcb[t].prio} ELSE rdy
        /\ UNCHANGED <<prioTbl, evt, owed>>
        /\ Leave(runnable)

OSTaskResume(prio) ==
    LET t == prioTbl[prio]
        runnable == ~Pending(t) /\ tcb[t].dly = 0
    IN  /\ Calls("suspend")
        /\ t \in Tasks
        /\ Suspended(t)
        /\ tcb' = [tcb EXCEPT ![t].stat = @ \ {"suspend"}]
        /\ rdy' = IF runnable THEN rdy \cup {tcb[t].prio} ELSE rdy
        /\ UNCHANGED <<prioTbl, evt, owed>>
        /\ Leave(runnable)

\* The task keeps its place in the ready list, and takes its new priority to
\* the wait list of the event its control block points at.
OSTaskChangePrio(oldprio, newprio) ==
    LET t == prioTbl[oldprio]
        old == tcb[t].prio
        e == tcb[t].evp
    IN  /\ \/ Calls("changePrio")
           \/ Calls("changeOwnPrio") /\ oldprio = tcb[cur].prio
        /\ t \in Tasks
        /\ prioTbl[newprio] = Nil
        /\ prioTbl' = [prioTbl EXCEPT ![oldprio] = Nil, ![newprio] = t]
        /\ rdy' = IF old \in rdy THEN (rdy \ {old}) \cup {newprio} ELSE rdy
        /\ evt' = IF e = Nil THEN evt
                  ELSE [evt EXCEPT ![e].wait = (@ \ {old}) \cup {newprio}]
        /\ tcb' = [tcb EXCEPT ![t].prio = newprio]
        /\ UNCHANGED owed
        /\ Leave(TRUE)

KernelNext ==
    \/ OS_Sched
    \/ OSSchedLock
    \/ OSSchedUnlock
    \/ OSTimeTick
    \/ \E ticks \in 1 .. MaxDelay : OSTimeDly(ticks)
    \/ \E p \in Prios : OSTimeDlyResume(p) \/ OSTaskSuspend(p) \/ OSTaskResume(p)
    \/ \E p, q \in Prios : OSTaskChangePrio(p, q)
=============================================================================
