# CPEN 311: a verification development

TLA+ models, TLC runs and TLAPS proofs for the FPGA labs of this repository.
The modules are named after the components; `PROJECT.json` maps every definition
to the source lines it stands for.

## 1. The system

The repository holds the student solutions of one FPGA course on a DE1-SoC
board: five labs and some practice problems, in SystemVerilog, with a C program
(Lab 5) and a PicoBlaze assembly routine (Lab 3). The labs are separate designs.

| Part | State it keeps | Operations | What is hard about it |
|---|---|---|---|
| **Lab 4 task machines** `my_fsm_task1/2a/2b/3.sv` | a state register, indices, address/data/sample registers, a 2-bit counter | one state per clock: fill S, schedule the key, decrypt, check characters | memory latency is counted in states; registers survive a reset; `wren` is a state bit while address and data are registers |
| **Lab 4 core** `my_taskChallenge_algo.sv` | state, counter, key register, the memories' address/data/wren registers, three memories | rising edge: next state; falling edge: copy the active task's signals, count, load or step the key | two clock edges; start flags of 2-3 cycles and finish flags of 3 cycles without acknowledgement; one memory port for three tasks; reset at any moment |
| **Lab 4 search** `ksa.sv` | four cores; LEDR[9], LEDR[8], display selector | start, reset; every core sees whether *any* core has finished | cores drift apart; own success against another core's; shares of the key space |
| Lab 4 earlier tops `my_task2a/2b/3_algo.sv` | as the core | as the core, one of them copying on the rising edge | superseded, commented out in `ksa.sv` |
| Lab 3 iPod `my_fsm_read_flash.sv`, `my_fsm_addr_gen.sv` | reader state, player state, address, byte count, sample | fetch a word, play its four bytes at the audio pulses, step the address in one of two directions | external flash with wait states and a late answer; direction, pause and reset in mid-word |
| Lab 3 keyboard `my_fsm_keyboard.sv`, `Write_Kbd_To_Scope_LCD.v` | two machines, the ready flag, the ASCII register | a key press becomes play, pause, forward, backward or reset | two machines share a flag that one of them clears |
| Lab 3 clocks `my_clk_divider.sv`, `my_speed_ctrl.sv`, `my_FDC_async.sv` | counter, output, divisor; four flip-flops | divide, change the divisor, turn an edge into a pulse | the divisor crosses clock domains and is unbounded; asynchronous clears |
| Lab 3 volume meter `my_interrupt_picoblaze.sv`, `pracPICO.psm` | interrupt flip-flop; sum, count | request, acknowledge, the service routine | requests that arrive while one is served; the count of a group |
| Lab 5 crossings `my_clockDomain_*.sv` | three word registers, two enable flip-flops | four edges of two clocks | copying a word while it changes |
| Lab 5 modulation `my_lfsr.sv`, `my_qpsk.sv`, `dds_and_nios_lab.v` | LFSR, symbol latch, selectors, HOLDING keys | shift, latch, select | data and enable cross separately |
| Lab 5 software `student_code.c`, `hello_ucosii.c` | PIO registers; globals of two tasks | interrupt handler; audio task; button task | lost edges; unlocked shared variables |
| Lab 5 kernel uC/OS-II 2.86 (`UCOSII/src/os_*.c`) | task control blocks, ready list, priority table, event control blocks with wait lists | scheduling, tick, delays, suspend/resume, semaphores, mailboxes, queues, mutexes with priority inheritance | services give up the critical section before they reschedule; timeouts, aborts, suspensions and interrupt posts hit a waiter at once |
| Lab 5 JTAG UART driver (`altera_avalon_jtag_uart_*.c`) | two rings, enabled interrupts, event flags, host timeout | read, write, interrupt handler, one-second alarm | ring indices without a lock; flags left over from earlier transfers; a host that goes away |
| Practice problems | a few registers each | sequential algorithms | boundaries |

Generated code and the rest of the third-party code (Qsys output, HAL, graphics library,
fonts, images, precompiled partitions, the PicoBlaze, the seven-segment decoder)
is not modelled; see section 6.

How the parts of Lab 5 interact: the kernel runs `task1`, which feeds the audio FIFO, and
`task2`, which polls the mouse; they share globals. What they print goes through the JTAG
UART driver, which uses two semaphores and an event flag group of the kernel. The 1 Hz
clock shifts the LFSR and interrupts the processor; the LFSR's bit crosses to the 50 MHz
clock, where the handler reads it and sets the DDS increment. The DDS outputs cross the
other way to the oscilloscope's sampling clock.

How the parts of Lab 4 interact: `ksa` instantiates the cores and feeds each of
them the disjunction of all finish flags. A core's orchestrator raises the start
flag of one task machine at a time, routes that machine's address, data and write
enable to the S memory or the decrypted-message memory (through registers clocked
on the falling edge), and waits for its finish flag. Tasks 2a, 2b and 3 read the
memories' outputs directly. Task 3's count of valid characters is read by the
orchestrator.

What makes each part correct:

* task machines: S is the identity, then the key schedule, then the message is
  its RC4 plaintext, whatever reset interrupted the pass before;
* core: no flag is missed, no write is lost between two tasks, a key is accepted
  exactly when its plaintext is readable, the core stops;
* search: no key skipped, no key tried twice, failure reported only when there is
  no key, the key shown is the key found, a key in range is found;
* kernel: the ready and wait lists agree with the tasks, the highest ready task runs,
  nothing posted is lost or delivered twice, a mutex lends its priority exactly while it
  is held against someone more urgent, a timed wait ends;
* driver: characters arrive once and in order, no interrupt that is needed stays off, a
  write returns unless an active host stops taking characters;
* song tasks: after every button the music and the frequency are what the buttons say;
* crossings and clocks: a word is never copied while it changes, every audio edge makes
  one pulse, every LFSR bit sets its own increment;
* parts not modelled yet: see the hazards of `PROJECT.json`.

## 2. Modules

| Module | Stands for |
|---|---|
| `Rc4` | sizes, bytes, the key's bytes, RC4 as recursive functions, round by round (the reference) |
| `FsmTask1`, `FsmTask2a`, `FsmTask2b`, `FsmTask3` | the four machines: one record variable each, one action per state, `Tick` their disjunction, `Reset` |
| `CrackCore` | `my_taskChallenge_algo.sv` with the four machines and the memories |
| `SearchCore` | abstract: what one core promises (no clock, no memory) |
| `CrackCoreProofs` | theorems about `CrackCore`: types, handshakes and bus ownership; what the memories hold, and the refinement |
| `MCCrackCore` | bytes of two bits and their exclusive or, for TLC |
| `Ksa` | `ksa.sv`: any number of `SearchCore`-level cores, LEDs, display |
| `KsaProofs` | theorems about `Ksa` |
| `Player` | `my_fsm_read_flash.sv`, `my_fsm_addr_gen.sv`, the flash controller, the audio pulse |
| `AudioStream` | abstract: the bytes a listener hears, and what a turn within a word does to them |
| `PlayerProofs` | theorems about `Player`: its types, its reader, the refinement, its rhythm |
| `AudioClock` | `my_clk_divider.sv`, `my_speed_ctrl.sv`, `my_FDC_async.sv`: the edges of two unrelated clocks |
| `AudioClockProofs` | theorems about `AudioClock` |
| `FskPath` | `my_clockDomain_*.sv`, `my_lfsr.sv`, `student_code.c`: the crossings, and the FSK handler behind one of them |
| `FskPathProofs` | theorems about `FskPath` |
| `SongTasks` | `task1` and `task2` of `hello_ucosii.c` on their shared globals |
| `SongTasksProofs` | theorems about `SongTasks` |
| `UcosKernel` | uC/OS-II: tasks, ready list, scheduler, tick, task and time services |
| `UcosEvents` | extends it with semaphores, mailboxes, queues, mutexes; the specification and its properties |
| `UcosProofs` | theorems about `UcosEvents` |
| `MCUcos` | three tasks, two events and the application programs, for TLC |
| `JtagUart`, `MCJtagUart` | the JTAG UART driver with its interrupt handler and alarm, the device and the host; three programs, for TLC |
| `JtagUartProofs` | theorems about `JtagUart` |

**State.** A record `t1`, `t2a`, `t2b`, `t3` holds a machine's registers (`done` is
`flag_*_fin*`, `iData`, `jData`, `enc`, `dec` are the sampled bytes). `sBus` and
`dBus` are the orchestrator's `s_mem_*` and `decrypt_mem_*` registers; `sReg`,
`dReg` and `romReg` are the address registers inside the memories.
`full`, `proper` and `accept` are history variables of `CrackCore`: has task 1
reached the last cell since power-up, had it done so before the current pass, and
the keys RC4 accepts in either case.

**Time.** `RisingEdge` is one action: the orchestrator's state, the four machines and
the memories change together, each from the values before the edge. `FallingEdge` is
the second always block of the orchestrator. Next-state block and output block of a
machine are joined in one action per state. The asynchronous `Reset` is instantaneous
and may come in either half of a cycle; holding the button longer only adds idle
cycles in which task 1 clears its registers, as its idle state does anyway.

**Lab 3.** In `Player` one `Tick` is one 50 MHz cycle: the reader (`Rd...`), the address
generator (`Pl...`), the flash controller (`Flash...`) and the audio pulse step together.
`sample` is not the byte's value but where it comes from: the word the controller shows
and the byte chosen from it. `late` and `taken` are history variables. `Key` and `Reset`
are what the keyboard machine does to `key_ctrl_sig`; its one-cycle reset is an
instantaneous `Reset`. Assumed of what is not in `src/` or not yet modelled:

* the flash controller (precompiled; named external in `PROJECT.json`) serves one read at
  a time, holds an idle reader off for at most `MaxWait` cycles, answers within
  `MaxLatency` cycles with a valid flag of one cycle, and shows the word until the next
  answer;
* the audio pulse is two cycles wide, as `simple_ipod_solution.v:252` says and
  `AudioClock` shows of `my_FDC_async`, and two pulses are at least `PulseGap`
  cycles apart; on the board a thousand cycles, so the assumption is weak.

**Clocks (`AudioClock`, `FskPath`).** The fast clock's two edges are actions; an edge of the
other clock may come between any two of them, within the ratio of the frequencies. A
divisor caught while it changes lets each register that compares it take either branch.
In `FskPath` the slow clock stays in a phase for at least `Half` fast cycles (25 million on
the board for the LFSR, 125 thousand for the sampler) and the handler works between `Latency` and
`Service` cycles after the edge that interrupted it; the interrupt entry of the Nios takes far more than the
four cycles that `Latency` needs, and its end before the next rising edge (`Service < 2 * Half`)
means a second.

**Kernel (`UcosKernel`, `UcosEvents`).** A step is one critical section, so an interrupt may
come between a service's section and its `OS_Sched`; `pos[t]` says where a task stands.
The bit maps are sets of priorities. `buf` is what an event stores: units of a
semaphore, the message of a mailbox, the ring of a queue. A Pend is three steps: its first
section, `OS_Sched`, its last section. Calls that fail an argument check change nothing and are
left out. The application is any program over the services of a *scenario* (`app`): every task
may call any of them at any time with the listed timeouts and options, and delay itself by any number of ticks up to `MaxDelay`. `owed` is a history
variable. A mailbox carrying one message, a semaphore and a queue go through the same
`Deliver`, `Take`, `Pend` and `PendEnd`, because the code of the three differs only in what it stores.

**Driver (`JtagUart`).** A step of a task is a stretch the interrupt handler cannot split
visibly: a look at the indices, the copy that follows (the slots it touches are not the
handler's), a kernel call. The local copies of the indices are taken at the look.
`Drop` blanks the slots it frees so that a character taken twice would show; the code leaves
them. Which task runs is left open.

The device is `DE1_SoC_QSYS_jtag_uart.v`: two FIFOs; a transmit interrupt when the output FIFO holds at
most `Threshold` characters (8 of 64 on the board, line 479), a receive interrupt when the input FIFO has
room for at most as many, or when the host has paused with something in it (`pause_irq`, which any read of
the data register clears); and the activity bit, which the host sets by sending or pausing (line 434) and not by taking
a character (401). An enabled receive interrupt therefore need not be pending: what is left in the FIFO
after the ring was full waits until the host pauses again or fills the FIFO. The hardware's flags lag
the FIFOs by a clock or two and the model's do not; one pass of the handler's loop is one step. The link to the
host (`alt_jtag_atlantic`, a megafunction) is external: it takes, sends and pauses in any order.

**Song tasks (`SongTasks`).** `task1` has the higher priority: an iteration is one step, and it
preempts `task2` at any store. `task2`'s stores are made in any order, which covers what the
compiler may do with them (none is volatile), and at most one tick falls among them. The modulation, signal and song buttons'
drawing is left out. The chunk length is the unit of `address_counter`.

**Left out.** The self-assignment `decrypt_mem_q <= decrypt_mem_q`
(`my_taskChallenge_algo.sv:220,226`) drives a memory output from a second place and
has no effect as synthesised; the states the encodings do not name; the commented-out
alternatives; the seven-segment decoding.

**Power-up.** Registers and S cells power up to 0, as on the target device
(`power_up_uninitialized` is "FALSE", `s_memory.v:103`; the registers have no reset
value but their configuration value is 0). `PowerUp` is a parameter.

**Interleaving of cores.** The cores share a clock, but task 3 stops at the first
invalid character, so the length of a pass depends on the key and the cores drift
apart. `Ksa` lets their stages interleave freely, which includes what the board does.
The start button is not synchronised, so cores may leave idle at different edges.

## 3. Runs

| Run | Bounds | What it shows |
|---|---|---|
| `crack_core` | Depth 4, MsgLen 2, ValidChars {1}, four messages, the eight keys 3, 10, ..., 52 (Step 7, KeyBound 57), one reset | below |
| `first_pass` | the same, no reset | `Initialised` fails: the finding |
| `ksa_cores` | 2 cores, 5 keys, key register of 16 values, every pair of accepted sets, any number of resets | below |
| `kernel` | 3 tasks, priorities 0 to 5, 2 events, 6 scenarios, timeouts and delays of at most 2 ticks, semaphore and queue capacity 2, lock nesting 1 | below |
| `change_prio` | one semaphore, tasks that change each other's priority | `WaitListTruthful` fails: a finding |
| `mutex_timeout` | one mutex, Pends with a timeout | `RunsHighest` fails: a finding |
| `jtag_uart` | ring of 3 slots, device FIFOs of 2 with threshold 0, timeout 2 s, three programs of up to 2 tasks | below |
| `jtag_error` | the same | `ErrorMeansInactive` fails: a finding |
| `song_tasks` | 3 songs of 2 chunks, sleeps of 2 and 5 ticks, frequencies 1 to 4 | below |
| `audio_clock` | counter and divisor modulo 32, default 11, step 4, presses 12 cycles apart | below |
| `fsk_path` | slow phase of at least 4 fast cycles, handler within cycles 4 to 7 | below |
| `player` | 3 words of 4 bytes, MaxWait 2, MaxLatency 3, PulseGap 18, keys and resets at every cycle, any number of them | below |

`crack_core` (315,534 states):

* `FilledBeforeScheduling`, `ScheduleCorrect`, `DecryptCorrect`: S is as task 1 should
  leave it, then RC4's key schedule, then the output memory is RC4's plaintext. They
  compare the whole memory with the reference, so any read sampled a cycle early, any
  lost or misdirected write and any register left over from an interrupted pass shows.
* `VerdictCorrect`: the orchestrator's comparison agrees with RC4 although task 3 stops
  reading early and its counter outlives the pass.
* `NoWriteLost`, `NoMissedHandshake`: the agreements between orchestrator and machines.
* `Stops`: a started core stops unless it is reset.
* `Implements`: the core is a `SearchCore`. `AbsState` is the mapping: the key register
  changes at the falling edge within `init` and `secret_key_increment`, so the abstract
  step happens there; the fill ends when task 1 takes the last index; everything up to
  task 3's hand-over is the abstract decryption.

`ksa_cores` (444,720 states): `NoKeySkipped`, `FailSound`, `DisplaySound`,
`DisjointShares`, the liveness properties `AllStop` and `KeyFound`, and
`CoresImplement`: each core's steps are `SearchCore` steps whose input `other` is
"some other core has finished". (TLC does not check the full `Core(c)!Spec` under a
quantifier; fairness of a core is `WF_vars(Work(c))` in both.)

`player` (about 100,000 states): the reader does not wait for the word it asked for:
`check_validdata` is left when `readdatavalid` is *low* (`my_fsm_read_flash.sv:45`), which
also repeats the read when the controller is free again. The run shows what still holds:

* `FreshSample`: in stride no stale byte is played, because the next pulse comes later
  than the word. After a pause or a reset a pulse may already be there, and the first
  byte may be one of an old word; no later byte is.
* `NoPulseMissed`: in stride the player is back in `get_data` before each pulse, also
  when it had to fetch a word in between. This is where `PulseGap` matters: with 16
  instead of 18 it fails.
* `RequestAccepted`: ready is never reported for a read the controller has not taken,
  even if a reset withdrew an earlier read and its answer is still under way.
* `WordArrives`: a player that waits for a word gets on, or is reset.
* `ImplementsStream`: while the direction stays, every byte of every word once, in its
  order, and then the neighbouring word, with resets and pauses at any cycle. A turn
  within a word breaks that, and `AudioStream!Turn` says how: the code selects by
  direction and count (`my_fsm_addr_gen.sv:101-137`), so as many bytes are still to come as
  before but their mirror images. After bytes 0 and 1 a turn plays 1 and 0 again, and
  2 and 3 are never heard. No document says what a turn should do, so this is no finding.
  A turn between `addr_update` and the step is harmless: the word's bytes are all played.
  `StreamWord` and `StreamPlayed` move the abstract word at the point where the code
  decides on it.

`kernel` (377,932 states):

* `ReadyListTruthful`: five services and the tick each end one of three reasons not to be
  ready; the list must follow the last. `RunsHighest`: between services the highest ready
  task runs, so no service forgets to reschedule and no interrupt returns to the wrong task.
* `WaitListTruthful`: also for tasks that have timed out and not run yet, which the code
  leaves in the list; `NothingLost`: what is posted to such a task, or from an interrupt to
  one that is about to switch away, is not lost or doubled.
* `PriorityInheritance`: a waiter never waits behind a lower priority than its own, and no
  task keeps a priority after it gave the mutex back.
* `TimedPendReturns`: a task that no other is above comes back from a timed Pend.

The scenarios keep mutexes apart from timeouts, and changes of another task's priority apart from the rest,
because those are the combinations the findings are about.

`jtag_uart` (480,162 states): `RingsFaithful` (order and content of both rings),
`InterruptsArmed` (no needed interrupt stays off: the handler's disabling and the
tasks' enabling meet in every order; it is about the enable bits, not about when the device
raises the interrupt), `WriteReturns` (a writer does not sleep for ever, also when
a reader takes the timeout flag first: the alarm posts it again). `WriteReturns` has a premise about the host,
`HostDrains`: if it is active again and again, it also takes characters again and again. Without it TLC shows
a host that pauses now and then, so that the alarm never counts, and takes nothing: the writer waits for ever.

`song_tasks` (161,136 states): `MusicFollowsButtons`, `FrequencySettles` and `SkipStartsSong` hold although
nothing is locked, because `task2` sleeps long enough for `task1` to run after every button, which sets right what
a store overwrote; that is why the two sleeps are parameters (`2 * Delay1 < Delay2`).

`audio_clock` (268,444 states): `EveryEdgeOnePulse`: one pulse of two cycles for each edge, at every
phase and for each divisor the buttons reach (modulo 32: 3, 7, 11 and so on, and the wrapped ones), which is what
`Player` assumes of the pulse's width. `NeverOverruns`: `>=` in the divider ends the half-period at once if the
divisor has dropped below the counter. At a divisor of 3, nineteen presses down, two pulses are 11
cycles apart, less than `Player`'s `PulseGap`; from 19 on its assumption holds.

`fsk_path` (6,500 states): `NoTornWord` for both directions: the middle register is never loaded at
the slow edge. `IncrementFollowsBit`: the handler sees the bit of the edge that interrupted it.

**Why the bounds are enough.** In `kernel`, three tasks are the least with an owner, a waiter and one in between; a
second event lets a mutex owner wait elsewhere; timeouts of 1 and 2 put expiry before, at and after a
post. In `jtag_uart` a ring of three slots is full with two characters, wraps in every position, and a call of two characters
splits at its end; with FIFOs of two and threshold 0 an interrupt may be enabled and not pending, on either side. In `ksa_cores` keys are tried up to
4, and a key register of 16 values never wraps by itself: `TypeOK` bounds it by `KeyBound + NumCores - 1`. In `fsk_path` the phases of the clocks repeat after `Half` cycles; in
`audio_clock` the wrap of the divisor, its smallest value and presses in every half-period occur.
In `player`, three words make both neighbours of a word
distinct and the wrap at either end happen; four bytes are the code's `N`; the waits are
long enough for an answer to come before, while and after the reader looks for it. The machines' behaviour depends on the size of memory and
message only through the comparisons with the last index and the wrapping increments;
both happen with four cells and two bytes, and with 2-bit bytes the indices collide
(i = j, j at the written cell, i + j wrapping) in most passes. The eight keys differ in
all three bytes. The four messages make the core stop at its first key (wrongly, on the
unfilled S memory), at the second, at the fifth, and not at all; after a reset also at
the first and the last key. The reset may come at any point of any pass and is followed
by full passes. `MaxResets` exists only in
the guard of `CrackCore!Reset`. In `Ksa`, KeyBound 5 is not a multiple of two cores, so
their shares differ in size; the proofs cover every number of cores and keys.

**Fairness.** The timer interrupt keeps coming, a task inside a kernel service goes on when it has the
processor, and a program that locks the scheduler unlocks it (`UcosEvents`); interrupts are taken, the
alarm rings and a task goes on with its call; of the host nothing is assumed but the premise of `WriteReturns` (`JtagUart`).
`SongTasks`, `AudioClock` and `FskPath` state safety only. The clock does not stop: `WF(Tick)` in `Player`; `WF(RisingEdge)` and `WF(FallingEdge)`, which in
`SearchCore` and `Ksa` becomes `WF(Work)`, because each stage of a pass takes finitely
many cycles (`Implements` checks exactly that). No fairness is assumed of buttons or of
other cores. A reset is an alternative in each liveness property.

### Findings

`my_fsm_task1.sv` writes index 0 twice and the last index never in the first pass after
power-up: `s_mem_wren` is a bit of the state `smem_write`, the address and data registers
change on leaving it. Cell FF keeps its power-up value and every core judges its first
key with a wrong S-box (keys 000000 to 000003 on the board). From the second pass on the
index left over is written first and the fill is complete; `FilledBeforeScheduling` and
`ScheduleCorrect` state what does hold.

`OSTaskChangePrio` (`os_task.c:134-142`) takes a task whose `OSTCBEventPtr` is set for a waiter. A task
that was granted the event and has not run since still has it set, so it is put back into the
wait list and the next post goes to it, while `ucos_ii.h:395` calls that the list of tasks waiting.

`OSMutexPost` (`os_mutex.c:578-601`) calls `OS_Sched` only if somebody waits. An owner that was raised for
a waiter that has since timed out drops to its own priority below a ready task and goes on running.

`altera_avalon_jtag_uart_write` gives up as soon as the host has been inactive for one second
(`write.c:187`), not for `timeout`: a WRITE_RDY flag left from an earlier transfer ends the wait at once,
and the call returns the error "Host not connected" (214).

Also seen, and not a disagreement with anything the repository says: a mutex owner that timed out on
another event and is raised before it runs leaves its old bit in that event's wait list; an owner that suspends
itself by the priority it had before it was raised is not switched away from (`os_task.c:966`).

## 4. Proofs

Eight modules hold the theorems; `PROJECT.json` lists them. All hold for every value of the
constants that meets the named `ASSUME` of the module concerned, and rest on nothing else.
Each property below was first checked by the run of its component.

### The search (`KsaProofs`)

For every `NumCores >= 1` and every `KeyBound`, `KeyWrap` with
`KeyBound + NumCores <= KeyWrap`:
`TypeOK`, `NoKeySkipped`, `FailSound`, `DisjointShares`, `DisplaySound` and
`CoresImplement`.

None of these is inductive: that a core has rejected what lies behind it needs to know
which keys it visits, and that needs the key register not to wrap, which `TypeOK` says: it never
exceeds `KeyBound + NumCores - 1`, although the increment is modulo `KeyWrap`. The invariant is
`IInv == TypeOK /\ \A c : CoreInv(c)` with, for each core,

* `Walk`: outside idle its key is `c + n * NumCores` for some n, and below `KeyBound`
  during a pass, so the increment keeps to the bound of `TypeOK`;
* `Fills`: only a first pass since power-up runs on an incomplete S memory, and it runs
  on the core's first key;
* `Verdict`: everything of its share behind it was rejected, its own key too once it is
  about to increment; `finish` means its key was accepted.

Two arithmetic lemmas carry the rest: keys of two cores are never equal (`SameCore`), and
between a key and its successor lies no other key of the share (`NextKey`). The
preservation proof has one step per action for the core that moves and a single lemma
(`Untouched`) for those that do not.

### The core: control (`CrackCoreProofs`, first part)

For every memory and message size, key range and step that `CoreAssumption` and the assumptions of
`Rc4` allow, any number of resets: `TypeOK`, `NoWriteLost`, `NoMissedHandshake`. The
invariant `Control` is one statement of the handshake, instantiated for the four machines
(`Handshake`, `Meets1` to `Meets3`): from where machine and orchestrator stand and from the orchestrator's counter
it follows that the start flag is up until the machine has seen it and down before it could see it
again, and the same of the finish flag. `Fresh...` says that a machine that has started has
forgotten what a reset or its last run left in its counter and flags, which the reset does not clear.
`BusesDriven`: between a falling and a rising edge the memories' inputs are the active machine's signals.

### The core: data and refinement (`CrackCoreProofs`, second part)

`FilledBeforeScheduling`, `ScheduleCorrect`, `DecryptCorrect`, `VerdictCorrect`, from the
invariant `Control /\ Data`. `Data` follows each value on its way: which cell a machine has
asked for, which of address register, falling-edge copy, memory input register and sample
holds it in which state, what of a swap is already written (`Schedules`, `Streams`), which round of
the reference the S memory stands at, which characters are already judged (`Judges`), and what the
memories hold while the orchestrator passes from one machine to the next (`Handover`). It is stated over
`Cells`, the memory as it will be when the write on the bus is done, so that the two
halves of a cycle keep one invariant (`Settled`: in the second half nothing is pending).

The rounds of RC4 are recursive functions. That they satisfy their recursion is proved once, for any
step function, from the well-foundedness of `<` on the naturals: a first round at which it
failed would have a predecessor at which it holds (`NoFirst`). Nothing about what RC4
computes is needed beyond its rounds: the machines are shown to perform them one by one.

`Refinement`: initial states map to initial states of `SearchCore` and every step (an edge, a
reset, another core's finish) to one of its steps or a stutter, under the mapping `AbsState` that
the run checks. `Bridge` adds what the abstract guards need and the memories do not: a key being tried
is below `KeyBound`, and `accept` is RC4's verdict on the current message. The fairness part of `Implements` stays with TLC.

### The player (`PlayerProofs`)

Unconditionally, that is for every number of words and bytes and any timing of the flash
controller and of the pulses: `TypeOK`, `RequestAccepted` and `ImplementsStream`, the whole of it (`AudioStream`
states no fairness); the bytes still to come, `StreamAhead`, are computed from count and direction. They need only that the reader works for a player that waits for it (`Asking`), and what the
player's state says of its count (`Counting`).

`NoPulseMissed` and `FreshSample` need pulses that are far enough apart, `Unhurried`: words of two bytes or
more, `PulseGap >= MaxWait + MaxLatency + 13`. The reader raises its finish flag before the word has arrived and may then find the
controller busy with a word it no longer waits for, so the bound has room for fetching a word twice; with one
cycle less TLC finds a pulse missed, and the run's 18 is the bound itself. The
invariant dates everything by `phase`, the cycles since the pulse: in which of them the player is in which
state (`Rhythm`), how far the controller is with the word then (`Fetch`), and by which cycle a reader that waits for
the controller is done (`Stride`, `Waiting`). Only the first byte after a pause or a reset is outside it (`late`).

### Clocks and crossings (`AudioClockProofs`, `FskPathProofs`)

`NeverOverruns` for every width, default and step with `Modulus % Step = 0` and
`Default % Step # 0`, as the code's 2^32, 307 and 16 have: the divisor keeps its remainder
(`OnGrid`), so no sequence of presses, wraps included, makes it zero, at which the comparison with `divisor - 1`
would never end.

`EveryEdgeOnePulse` under `Spaced`: the remainder `Default % Step` is at least 3 (307 % 16 is 3, with nothing to
spare) and presses are at least 4 cycles apart (on the board millions). TLC finds an edge lost when either is one less. The
invariant follows an edge through the four flip-flops by the rising edges of the fast clock since it came
(`Passing`), and says what the divider can have done in as many (`Dividing`): a divisor caught while it
changes may toggle the divided clock at once, but not a second time.

`NoTornWord` and `IncrementFollowsBit` for every `Half`, `Latency`, `Service` of `PathAssumption`. The
invariant gives each register a deadline in fast cycles since the slow edge (`EnableLags`,
`RiseLags`, `EdgeLags`, `WordLags`), and the handler's knowledge after each of its accesses (`HandlerSteps`).

### The kernel (`UcosProofs`)

`KernelTypeOK`, `ReadyListTruthful`, `RunsHighest`, `WaitListTruthful`, `NothingLost` and
`PriorityInheritance`, for every number of tasks, priorities, events and messages, every
capacity, delay and nesting, and every program with `Sound(app)`, which is one of two kinds:

* `Plain`: no mutex, and no task changes another's priority;
* `Inheriting`: at most one mutex, which lends a priority above every task's, beside any number of semaphores,
  mailboxes and queues that its owner may wait for; tasks wait without timeout, are not
  suspended, keep their priorities, and do not both lock the scheduler and sleep.

Within each kind every combination of services is allowed, from tasks and from interrupts, beyond the
six programs of the run, all of which are `Sound`. The limits are not convenience; without one of them a property is
false in the code, as TLC shows:

| Allowed as well | Fails | Because |
|---|---|---|
| `OSTaskChangePrio` of others | `WaitListTruthful` | the finding of section 3; no mutex is needed |
| timeouts | `RunsHighest`, `WaitListTruthful`, `NothingLost`, `PriorityInheritance` | the finding, and an owner raised after its own timeout |
| suspension | `ReadyListTruthful`, `RunsHighest`, `WaitListTruthful`, `PriorityInheritance` | a raised owner that suspends itself by its own priority goes on (section 3) and posts, which makes it ready again |
| tasks' changes of their own priority | `ReadyListTruthful`, `PriorityInheritance` | the mutex remembers the priority its owner had |
| sleeping with the scheduler locked | `ReadyListTruthful` | an owner can then post while delayed, and `OSMutex_RdyAtPrio` puts it back into the ready list |
| a second mutex | `PriorityInheritance` | its second half speaks of one owner; TLC finds no other property violated |

The invariant is `IInv == Common /\ Lending`. `Common` puts the properties together and adds what they need of one
another: the priority table and the blocks are inverse to each other (`Tables`), a stale
`OSPrioCur` names nobody (`Processor`), a block points at an event exactly while its task is
inside a Pend (`Blocks`), what is stored fits (`Buffers`). `Lending` adds for programs with a mutex that
waits end only with their event (`Calm`), and the life of a mutex (`MutexTruthful`): free, it has no waiters and its
priority is reserved; owned, it remembers its owner's own priority, and the owner stands there, or at the
mutex's with somebody waiting, but never below a waiter; everybody else has the priority it was created with.

A lemma for making one task ready (`WakeKept`) serves tick, resume, post and abort; counting grants (`Balance`) serves
the deliveries. The two services that move a task in the priority table, the ready list and perhaps another event's wait
list in one critical section are described before and after, task by task: `Raising` and `Lent` for a Pend that raises
the owner, `Passing` and `Passed` for `OSMutexPost`.

### The driver (`JtagUartProofs`)

`RingsFaithful` and `InterruptsArmed` for every ring of at least two slots, every FIFO depth and threshold, any host and any
programs of any number of writers and readers. The invariant adds that only the holder of a semaphore moves
an index (`Exclusive`) and that what a task saw in the ring is still true when it copies
(`Planned`), because the handler only makes room for a writer and characters for a reader.

### The song tasks (`SongTasksProofs`)

`MusicFollowsButtons`, `FrequencySettles` and `SkipStartsSong`, for every number and length of songs, every
increment and nominal frequency, and every two delays of which `task2`'s is more than twice `task1`'s (the code has
100 and 10; both tasks may go on late, and one tick falls among `task2`'s stores). The invariant speaks of a
global as it *will* be when `task2`'s stores are made (`After`), so that a store, in whatever order,
changes nothing of what it says, and only a button and an iteration of `task1` do. Then the music is either what the buttons
say (`Settled`) or about to be (`Resuming`: a skip whose `task1` iteration is still to come, due before `task2` looks
again). `Frequency` allows the two frequencies to differ only while `task1` has an iteration left that puts them
right, and `Resumed` says that between going on after a skip and the first chunk there is time for no button.

### Only model-checked

* Liveness: `Stops`, `AllStop`, `KeyFound`, `TimedPendReturns`, `WriteReturns` (with its premise `HostDrains`), `WordArrives`, and the
  fairness in `Implements`: out of the prover's reach.

Every other property of the passing runs is stated by a theorem.

## 5. Plan

1. Lab 4 core: done (`Rc4`, `FsmTask*`, `CrackCore` => `SearchCore`, `Ksa`, `KsaProofs`).
2. Lab 3: `Player` => `AudioStream`, `AudioClock` done. To come: `KeyboardControl` (two machines,
   one flag), `VolumeMeter` (flip-flop and routine).
3. Lab 5: `UcosKernel`, `UcosEvents`, `JtagUart`, `SongTasks`, `FskPath` done. To come: creation and deletion
   of tasks and events, the QPSK bit pairing.
4. Lab 4's `my_task2b_algo.sv`, against its stated purpose.
5. Proofs: done for `Ksa`, `CrackCore`, `Player`, `AudioClock`, `FskPath`, `JtagUart`, `SongTasks` and `UcosEvents`.

Hazards of parts not modelled that `PROJECT.json` does not list: the averaging routine's group of 255 divided by
256 (`pracPICO.psm:329`), the rising-edge copies of `my_task2b_algo.sv:129`, the loop bounds of
`final2016q5.sv:36` and `a6q4.sv:49`.

## 6. Not modelled

* Fonts, images and songs (`fonts/*.c`, `imagenes/*.c`): tables of data without behaviour. They are
  most of the C lines of the repository, so the share of lines the map covers is small whatever is modelled.
  The repository's own logic is mostly SystemVerilog.
* The rest of the HAL and of Qsys's output, the graphics library: vendored.
* uC/OS-II: deletion and creation at run time, `OSEventPendMulti`, memory partitions, timers and the
  NO_SCHED option; no program of the lab uses them.
* JTAG UART: `close`, `ioctl`, the polled variant.
* Lab 3 keyboard control and volume meter, QPSK, Lab 1, Lab 2, the practice problems: see the
  components' notes in `PROJECT.json`.
