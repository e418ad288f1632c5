------------------------------ MODULE JtagUart ------------------------------
(***************************************************************************)
(* The interrupt-driven JTAG UART driver through which Lab 5's program     *)
(* prints and reads (altera_avalon_jtag_uart_read.c, _write.c, _init.c,    *)
(* built for uC/OS-II).  Tasks call read and write; a semaphore on each    *)
(* side admits one task at a time; a ring buffer and an event flag group   *)
(* join them to the interrupt handler, and an alarm watches for a host     *)
(* that has stopped talking.  The device is DE1_SoC_QSYS_jtag_uart.v: two  *)
(* FIFOs, the thresholds at which they interrupt, and what the host's side *)
(* of the JTAG chain does to them.                                         *)
(*                                                                         *)
(* A step of a task is a stretch of code that the interrupt handler can    *)
(* only meet whole: a look at the ring's indices, the copy that follows, a *)
(* kernel call.  The handler and the alarm run with interrupts off.  Which *)
(* task runs is left to chance: UcosKernel is about that.                  *)
(***************************************************************************)
EXTENDS Integers, Sequences

CONSTANTS
    Writers, Readers,  \* the tasks that call write, and those that call read
    Nil,               \* no task
    Bytes,             \* the characters
    BufLen,            \* ALTERA_AVALON_JTAG_UART_BUF_LEN, 2048
    FifoDepth,         \* the device's FIFOs, JTAG_UART_WRITE_DEPTH, 64
    Threshold,         \* a FIFO interrupts with at most this much content or room, 8
    Timeout,           \* seconds until the host is assumed inactive, 10
    Programs           \* the uses of the device that this instance covers

\* A program: the calls its tasks make (task, non-blocking or not), how many
\* characters they ask for, those they write and those typed at the host.
Uses == [calls : SUBSET ((Writers \cup Readers) \X BOOLEAN), counts : SUBSET Nat,
         written : SUBSET Bytes, typed : SUBSET Bytes]

ASSUME JtagAssumption ==
    /\ BufLen \in Nat /\ BufLen >= 2
    /\ {FifoDepth, Timeout} \subseteq Nat \ {0}
    /\ Threshold \in 0 .. FifoDepth - 1
    /\ Writers \cap Readers = {} /\ Nil \notin Writers \cup Readers \cup Bytes
    /\ Programs \subseteq Uses

Tasks == Writers \cup Readers
Slots == 0 .. (BufLen - 1)

VARIABLES
    use,           \* the program, fixed
    call,          \* per task: where it is in its call, and the call's locals
    writeLock,     \* the holder of the semaphore write_lock
    readLock,      \* the holder of read_lock
    rx, tx,        \* the rings: [in, out, mem]
    irqEnable,     \* irq_enable, the same as the control register's bits
    hostInactive,  \* host_inactive
    events,        \* the event flag group: "R"EAD_RDY, "W"RITE_RDY, "T"IMEOUT
    device,        \* the hardware: input FIFO, fill of the output FIFO, AC bit, pause_irq
    owed           \* history: what each ring should hold, oldest first

vars == <<use, call, writeLock, readLock, rx, tx, irqEnable, hostInactive, events, device, owed>>

Idle == [at |-> "idle", left |-> 0, done |-> 0, n |-> 0, seen |-> 0,
         nonblock |-> FALSE, ready |-> {}]

\* What a ring holds, and how many characters that is.
Held(r) == (r.in - r.out + BufLen) % BufLen
Contents(r) == [i \in 1 .. Held(r) |-> r.mem[(r.out + i - 1) % BufLen]]

\* Writes the characters s at index in and advances it: the copy never wraps.
Store(r, s) ==
    [r EXCEPT !.mem = [i \in Slots |-> IF i >= r.in /\ i < r.in + Len(s)
                                         THEN s[i - r.in + 1] ELSE r.mem[i]],
              !.in = (@ + Len(s)) % BufLen]

\* The handler stores one character at a time, and its index may wrap between two.
StoreEach(r, s) ==
    LET FillRing[i \in 0 .. Len(s)] == IF i = 0 THEN r ELSE Store(FillRing[i - 1], <<s[i]>>)
    IN  FillRing[Len(s)]

\* Moves out past n characters.  Their slots are blanked, as in the code they are
\* not: a character taken twice would show as Nil.
Drop(r, n) ==
    [r EXCEPT !.mem = [i \in Slots |-> IF (i - r.out + BufLen) % BufLen < n THEN Nil ELSE r.mem[i]],
              !.out = (@ + n) % BufLen]

Least(a, b) == IF a < b THEN a ELSE b

-----------------------------------------------------------------------------
(* The event flags.  A task in "wait" gets those of its flags that are set  *)
(* as soon as one is, and clears them when it runs: between the two another *)
(* task may clear them as well.                                             *)

Wanted(t) == IF t \in Writers THEN {"W", "T"} ELSE {"R", "T"}

\* OSFlagPost: the calls, after the flags of `posted` are set.
Woken(calls, posted) ==
    [t \in Tasks |->
       IF calls[t].at = "wait" /\ Wanted(t) \cap (events \cup posted) # {}
         THEN [calls[t] EXCEPT !.at = "woken", !.ready = Wanted(t) \cap (events \cup posted)]
         ELSE calls[t]]

FlagPost(posted) ==
    /\ events' = events \cup posted
    /\ call' = Woken(call, posted)

\* OSFlagPend with OS_FLAG_WAIT_SET_ANY and OS_FLAG_CONSUME, no timeout.
FlagPend(t) ==
    LET set == Wanted(t) \cap events
    IN  /\ call[t].at = "pend"
        /\ events' = events \ set
        /\ call' = [call EXCEPT ![t].at = IF set = {} THEN "wait" ELSE "check"]
        /\ UNCHANGED <<use, writeLock, readLock, rx, tx, irqEnable, hostInactive, device, owed>>

FlagPendEnd(t) ==
    /\ call[t].at = "woken"
    /\ events' = events \ call[t].ready
    /\ call' = [call EXCEPT ![t].at = "check", ![t].ready = {}]
    /\ UNCHANGED <<use, writeLock, readLock, rx, tx, irqEnable, hostInactive, device, owed>>

-----------------------------------------------------------------------------
(* altera_avalon_jtag_uart_write                                           *)

Write(t, count, nonblock) ==
    /\ call[t].at = "idle"
    /\ call' = [call EXCEPT ![t] = [Idle EXCEPT !.at = "lock", !.left = count,
                                                !.nonblock = nonblock]]
    /\ UNCHANGED <<use, writeLock, readLock, rx, tx, irqEnable, hostInactive, events, device, owed>>

WriteLocked(t) ==
    /\ call[t].at = "lock"
    /\ writeLock = Nil
    /\ writeLock' = t
    /\ call' = [call EXCEPT ![t].at = "look"]
    /\ UNCHANGED <<use, readLock, rx, tx, irqEnable, hostInactive, events, device, owed>>

\* Fault: the last slot is used although tx_out is 0.
RoomAll == IF tx.in < tx.out THEN tx.out - 1 - tx.in ELSE BufLen - tx.in

\* The room up to the end of the buffer or to one before tx_out.
Room == IF tx.in < tx.out THEN tx.out - 1 - tx.in
        ELSE IF tx.out > 0 THEN BufLen - tx.in
        ELSE BufLen - 1 - tx.in

WriteLook(t) ==
    /\ call[t].at = "look"
    /\ call' = [call EXCEPT ![t].at = IF Room = 0 THEN "kick" ELSE "copy",
                            ![t].n = Least(Room, call[t].left)]
    /\ UNCHANGED <<use, writeLock, readLock, rx, tx, irqEnable, hostInactive, events, device, owed>>

WriteCopy(t) ==
    LET n == call[t].n
    IN  /\ call[t].at = "copy"
        /\ \E s \in [1 .. n -> use.written] :
              tx' = Store(tx, s) /\ owed' = [owed EXCEPT !.tx = @ \o s]
        /\ call' = [call EXCEPT ![t].at = IF call[t].left = n THEN "kick" ELSE "look",
                                ![t].left = @ - n, ![t].done = @ + n, ![t].n = 0]
        /\ UNCHANGED <<use, writeLock, readLock, rx, irqEnable, hostInactive, events, device>>

\* Fault: the interrupt is enabled only when the ring is full.
WriteKickWhenFull(t) ==
    /\ call[t].at = "kick"
    /\ irqEnable' = IF call[t].left > 0 THEN irqEnable \cup {"WE"} ELSE irqEnable
    /\ call' = [call EXCEPT ![t].at = IF call[t].left > 0 /\ ~call[t].nonblock
                                        THEN "pend" ELSE "unlock"]
    /\ UNCHANGED <<use, writeLock, readLock, rx, tx, hostInactive, events, device, owed>>

\* Enables the transmit interrupt, then returns or waits for room.
WriteKick(t) ==
    /\ call[t].at = "kick"
    /\ irqEnable' = irqEnable \cup {"WE"}
    /\ call' = [call EXCEPT ![t].at = IF call[t].left > 0 /\ ~call[t].nonblock
                                        THEN "pend" ELSE "unlock"]
    /\ UNCHANGED <<use, writeLock, readLock, rx, tx, hostInactive, events, device, owed>>

WriteCheck(t) ==
    /\ call[t].at = "check"
    /\ call' = [call EXCEPT ![t].at = IF hostInactive # 0 THEN "unlock" ELSE "look"]
    /\ UNCHANGED <<use, writeLock, readLock, rx, tx, irqEnable, hostInactive, events, device, owed>>

\* Returns the characters written so far, or an error if there are none.
WriteUnlock(t) ==
    /\ call[t].at = "unlock"
    /\ writeLock' = Nil
    /\ call' = [call EXCEPT ![t] = Idle]
    /\ UNCHANGED <<use, readLock, rx, tx, irqEnable, hostInactive, events, device, owed>>

-----------------------------------------------------------------------------
(* altera_avalon_jtag_uart_read                                            *)

Read(t, space, nonblock) ==
    /\ call[t].at = "idle"
    /\ call' = [call EXCEPT ![t] = [Idle EXCEPT !.at = "lock", !.left = space,
                                                !.nonblock = nonblock]]
    /\ UNCHANGED <<use, writeLock, readLock, rx, tx, irqEnable, hostInactive, events, device, owed>>

ReadLocked(t) ==
    /\ call[t].at = "lock"
    /\ readLock = Nil
    /\ readLock' = t
    /\ call' = [call EXCEPT ![t].at = "look"]
    /\ UNCHANGED <<use, writeLock, rx, tx, irqEnable, hostInactive, events, device, owed>>

\* The characters up to rx_in or to the end of the buffer.
Run == IF rx.in >= rx.out THEN rx.in - rx.out ELSE BufLen - rx.out

ReadLook(t) ==
    /\ call[t].at = "look"
    /\ call' = [call EXCEPT ![t].at = IF Run > 0 THEN "copy"
                                      ELSE IF call[t].done > 0 \/ call[t].nonblock THEN "unlock"
                                      ELSE "pend",
                            ![t].seen = IF Run = 0 THEN rx.in ELSE 0,
                            ![t].n = Least(Run, call[t].left)]
    /\ UNCHANGED <<use, writeLock, readLock, rx, tx, irqEnable, hostInactive, events, device, owed>>

ReadCopy(t) ==
    LET n == call[t].n
    IN  /\ call[t].at = "copy"
        /\ rx' = Drop(rx, n)
        /\ owed' = [owed EXCEPT !.rx = SubSeq(@, n + 1, Len(@))]
        /\ call' = [call EXCEPT ![t].at = IF call[t].left = n THEN "unlock" ELSE "look",
                                ![t].left = @ - n, ![t].done = @ + n, ![t].n = 0]
        /\ UNCHANGED <<use, writeLock, readLock, tx, irqEnable, hostInactive, events, device>>

ReadCheck(t) ==
    /\ call[t].at = "check"
    /\ call' = [call EXCEPT ![t].at = IF call[t].seen = rx.in THEN "unlock" ELSE "look"]
    /\ UNCHANGED <<use, writeLock, readLock, rx, tx, irqEnable, hostInactive, events, device, owed>>

ReadUnlock(t) ==
    /\ call[t].at = "unlock"
    /\ readLock' = Nil
    /\ call' = [call EXCEPT ![t] = IF @.done > 0 THEN [@ EXCEPT !.at = "enable"] ELSE Idle]
    /\ UNCHANGED <<use, writeLock, rx, tx, irqEnable, hostInactive, events, device, owed>>

\* Outside the semaphore: there is room again, so receive interrupts are enabled.
ReadEnable(t) ==
    /\ call[t].at = "enable"
    /\ irqEnable' = irqEnable \cup {"RE"}
    /\ call' = [call EXCEPT ![t] = Idle]
    /\ UNCHANGED <<use, writeLock, readLock, rx, tx, hostInactive, events, device, owed>>

-----------------------------------------------------------------------------
(* The device (DE1_SoC_QSYS_jtag_uart.v).  Its flags follow its FIFOs at   *)
(* once; in the hardware they lag by a clock or two.                       *)

\* The receive interrupt: the input FIFO is almost full, or the host has paused
\* with something in it.  The transmit interrupt: the output FIFO is almost empty.
ReadPending == /\ "RE" \in irqEnable
               /\ device.paused \/ FifoDepth - Len(device.input) <= Threshold
WritePending == "WE" \in irqEnable /\ device.output <= Threshold

\* The host takes a character.  This alone is no activity to the device.
HostTakes ==
    /\ device.output > 0
    /\ device' = [device EXCEPT !.output = @ - 1]

\* The host offers a character, which a full FIFO does not take.
HostSends ==
    \E b \in use.typed :
       device' = [device EXCEPT !.input = IF Len(@) < FifoDepth THEN Append(@, b) ELSE @,
                                !.active = TRUE]

\* The host has nothing more to send for now.
HostPauses ==
    device' = [device EXCEPT !.active = TRUE, !.paused = @ \/ device.input # <<>>]

Host ==
    /\ HostTakes \/ HostSends \/ HostPauses
    /\ UNCHANGED <<use, call, writeLock, readLock, rx, tx, irqEnable, hostInactive, events, owed>>

-----------------------------------------------------------------------------
(* The interrupt handler and the alarm (altera_avalon_jtag_uart_init.c).   *)

\* One pass of the handler's loop over both directions.  Any read of the data
\* register clears pause_irq, also when the ring is full before the FIFO is empty.
Interrupt ==
    LET in == IF ReadPending THEN Least(Len(device.input), BufLen - 1 - Held(rx)) ELSE 0
        rest == SubSeq(device.input, in + 1, Len(device.input))
        space == FifoDepth - device.output
        out == IF WritePending THEN Least(space, Held(tx)) ELSE 0
        received == SubSeq(device.input, 1, in)
    IN  /\ ReadPending \/ WritePending
        /\ rx' = StoreEach(rx, received)
        /\ tx' = Drop(tx, out)
        /\ owed' = [rx |-> owed.rx \o received, tx |-> SubSeq(owed.tx, out + 1, Len(owed.tx))]
        /\ device' = [device EXCEPT !.input = rest, !.output = @ + out,
                                    !.paused = @ /\ in = 0]
        /\ irqEnable' = irqEnable \ ((IF ReadPending /\ rest # <<>> THEN {"RE"} ELSE {})
                                \cup (IF WritePending /\ space > out THEN {"WE"} ELSE {}))
        /\ FlagPost((IF in > 0 THEN {"R"} ELSE {}) \cup (IF out > 0 THEN {"W"} ELSE {}))
        /\ UNCHANGED <<use, writeLock, readLock, hostInactive>>

\* Fault: the timeout is posted once, not every second.
AlarmOnce ==
    /\ IF device.active
         THEN /\ device' = [device EXCEPT !.active = FALSE]
              /\ hostInactive' = 0
              /\ UNCHANGED <<events, call>>
         ELSE /\ hostInactive' = Least(hostInactive + 1, Timeout)
              /\ FlagPost(IF hostInactive + 1 = Timeout THEN {"T"} ELSE {})
              /\ UNCHANGED device
    /\ UNCHANGED <<use, writeLock, readLock, rx, tx, irqEnable, owed>>

\* Once a second: has the host been here since the last time?  The count stops
\* at Timeout here and near 2^31 in the code, which posts the flag in between.
Alarm ==
    /\ IF device.active
         THEN /\ device' = [device EXCEPT !.active = FALSE]
              /\ hostInactive' = 0
              /\ UNCHANGED <<events, call>>
         ELSE /\ hostInactive' = Least(hostInactive + 1, Timeout)
              /\ FlagPost(IF hostInactive + 1 >= Timeout THEN {"T"} ELSE {})
              /\ UNCHANGED device
    /\ UNCHANGED <<use, writeLock, readLock, rx, tx, irqEnable, owed>>

-----------------------------------------------------------------------------

EmptyRing == [in |-> 0, out |-> 0, mem |-> [i \in Slots |-> Nil]]

Init ==
    /\ use \in Programs
    /\ call = [t \in Tasks |-> Idle]
    /\ writeLock = Nil /\ readLock = Nil
    /\ rx = EmptyRing /\ tx = EmptyRing
    /\ irqEnable = {"RE"}
    /\ hostInactive = 0
    /\ events = {}
    /\ device = [input |-> <<>>, output |-> 0, active |-> FALSE, paused |-> FALSE]
    /\ owed = [rx |-> <<>>, tx |-> <<>>]

Writing(t) ==
    \/ WriteLocked(t) \/ WriteLook(t) \/ WriteCopy(t) \/ WriteKick(t)
    \/ FlagPend(t) \/ FlagPendEnd(t) \/ WriteCheck(t) \/ WriteUnlock(t)

Reading(t) ==
    \/ ReadLocked(t) \/ ReadLook(t) \/ ReadCopy(t)
    \/ FlagPend(t) \/ FlagPendEnd(t) \/ ReadCheck(t) \/ ReadUnlock(t) \/ ReadEnable(t)

Calls ==
    \E t \in Tasks, n \in use.counts, nonblock \in BOOLEAN :
       /\ <<t, nonblock>> \in use.calls
       /\ \/ t \in Writers /\ Write(t, n, nonblock)
          \/ t \in Readers /\ Read(t, n, nonblock)

Next ==
    \/ Calls
    \/ \E t \in Writers : Writing(t)
    \/ \E t \in Readers : Reading(t)
    \/ Interrupt
    \/ Alarm
    \/ Host

\* Interrupts are taken, the alarm rings every second and a task goes on with
\* its call.  Nothing is assumed of the host here, nor of what tasks call.
Fairness ==
    /\ WF_vars(Interrupt)
    /\ WF_vars(Alarm)
    /\ \A t \in Writers : WF_vars(Writing(t))
    /\ \A t \in Readers : WF_vars(Reading(t))

Spec == Init /\ [][Next]_vars /\ Fairness

-----------------------------------------------------------------------------
(* Properties.                                                             *)

\* Each ring holds exactly the characters put in and not yet taken out, in
\* order, although handler and tasks move the two indices without a lock and
\* the copies split at the end of the buffer.
RingsFaithful ==
    /\ Contents(rx) = owed.rx /\ Held(rx) < BufLen
    /\ Contents(tx) = owed.tx /\ Held(tx) < BufLen

\* No interrupt stays off that is needed: while characters wait to be sent the
\* transmit interrupt is enabled or a writer is about to enable it, and the receive
\* interrupt is off only while there is something to read or a reader about to
\* enable it.  (Enabled is not pending: that is for the device to decide.)
InterruptsArmed ==
    /\ Held(tx) > 0 =>
         "WE" \in irqEnable \/ \E t \in Writers : call[t].at \in {"look", "copy", "kick"}
    /\ "RE" \notin irqEnable =>
         \/ Held(rx) > 0
         \/ \E t \in Readers : call[t].done > 0 /\ call[t].at \in {"look", "unlock", "enable"}

\* A host that keeps coming also keeps taking characters.
HostDrains == []<>(device.active) => []<>(device.output <= Threshold)

\* With such a host, or one that goes away for good, a write that has the semaphore
\* returns: no wakeup is lost between the look at the ring and the Pend, or to a reader
\* that clears the timeout flag.  A host that is active for ever and takes nothing
\* blocks the writer for ever, since the alarm counts activity and not progress.
WriteReturns ==
    HostDrains => \A t \in Writers : writeLock = t ~> writeLock # t

\* A write gives up with an error only when the host is assumed inactive.
ErrorMeansInactive ==
    [][\A t \in Writers :
         call[t].at = "check" /\ call'[t].at = "unlock" /\ call[t].done = 0
           => hostInactive >= Timeout]_vars
=============================================================================
