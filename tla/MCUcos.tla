------------------------------- MODULE MCUcos -------------------------------
(***************************************************************************)
(* Instances of UcosEvents for TLC: three tasks at priorities 1 to 3, two  *)
(* events, and application programs that each exercise one family of       *)
(* services.  Priority 0 is what a mutex inherits, 4 is free.              *)
(***************************************************************************)
EXTENDS UcosEvents, TLC

CONSTANTS T1, T2, T3, E1, E2, M1

MCFirstPrio == (T1 :> 1) @@ (T2 :> 2) @@ (T3 :> 3)
MCCapacity == ("sem" :> 2) @@ ("mbox" :> 1) @@ ("q" :> 2) @@ ("mutex" :> 0)

\* A program that uses E1 alone.
OneEvent(kind, calls, isr, timeouts, opts) ==
    [kinds |-> (E1 :> kind) @@ (E2 :> "unused"), pip |-> (E1 :> Nil) @@ (E2 :> Nil),
     calls |-> calls, isr |-> isr, timeouts |-> timeouts, opts |-> opts]

\* A program with mutex E1 and semaphore E2.
WithMutex(calls, timeouts) ==
    [kinds |-> (E1 :> "mutex") @@ (E2 :> "sem"), pip |-> (E1 :> 0) @@ (E2 :> Nil),
     calls |-> calls, isr |-> {}, timeouts |-> timeouts, opts |-> {{}}]

Semaphores ==
    OneEvent("sem", {"semPend", "semPost", "semAccept", "semSet", "semAbort", "lock"},
             {"semPost"}, {0, 2}, {{}, {"broadcast"}})
Mailboxes ==
    OneEvent("mbox", {"mboxPend", "mboxPost", "mboxPostOpt", "mboxAccept", "mboxAbort"},
             {"mboxPost"}, {0, 1}, {{}, {"broadcast"}})
Queues ==
    OneEvent("q", {"qPend", "qPost", "qPostFront", "qPostOpt", "qAccept", "qFlush", "qAbort"},
             {"qPost"}, {0, 1}, {{}, {"broadcast"}, {"front"}})
TaskServices ==
    OneEvent("sem", {"semPend", "semPost", "delay", "delayResume", "suspend"}, {}, {0, 1}, {{}})
OwnPriorities ==
    OneEvent("sem", {"semPend", "semPost", "changeOwnPrio"}, {}, {1}, {{}})
Mutexes ==
    WithMutex({"mutexPend", "mutexPost", "mutexAccept", "semPend", "semPost", "delay"}, {0})

MCScenarios == {Semaphores, Mailboxes, Queues, TaskServices, OwnPriorities, Mutexes}

\* A task changes the priority of any task, itself or another.
ChangesPriorities == {OneEvent("sem", {"semPend", "semPost", "changePrio"}, {}, {0, 1}, {{}})}

\* Tasks wait for a mutex with timeouts.
TimesOutOnMutex == {WithMutex({"mutexPend", "mutexPost", "delay"}, {0, 1})}
=============================================================================
