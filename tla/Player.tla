------------------------------- MODULE Player -------------------------------
(***************************************************************************)
(* The Lab 3 player: my_fsm_read_flash.sv and my_fsm_addr_gen.sv with the  *)
(* flash controller they read and the pulses of the audio clock.  One step *)
(* of the 50 MHz clock is one Tick, in which both machines, the controller *)
(* and the pulse take their next values together.                          *)
(***************************************************************************)
EXTENDS Integers

CONSTANTS
  LastWord,     \* 23'h7FFFF, the highest flash address
  WordBytes,    \* parameter N = 4: bytes played per word
  MaxWait,      \* the controller: cycles it may hold off a read when idle
  MaxLatency,   \* the controller: cycles from accepting a read to its data
  PulseGap      \* least number of cycles between two audio pulses

ASSUME PlayerAssumption ==
  /\ LastWord \in Nat /\ WordBytes \in 1 .. 6
  /\ MaxWait \in Nat /\ MaxLatency \in Nat
  /\ PulseGap \in Nat /\ PulseGap >= 3

NoWord == -1                       \* what the controller shows before any read
Words == 0 .. LastWord

VARIABLES
  rd,         \* the reader's state
  pl,         \* the player's state
  count,      \* bytes of the word fetched so far; 3 bits
  addr,       \* current_addr
  sample,     \* the byte that sounds: whose word, which byte of it
  flash,      \* the controller: the read in progress, cycles spent, outputs
  phase,      \* cycles since the audio pulse rose, up to PulseGap
  play,       \* key_ctrl_sig[0], set by the keyboard
  backward,   \* key_ctrl_sig[1]
  late,       \* history: the word's fetch did not follow a word in stride,
              \* but a pause or a reset
  taken       \* history: the controller has accepted a read since the reader started

vars == <<rd, pl, count, addr, sample, flash, phase, play, backward, late, taken>>

RdStates == {"idle", "check_read", "check_waitrequest", "check_validdata", "finish"}
PlStates == {"idle_reset", "idle", "start_flash", "get_data", "play_data", "interrupt",
             "addr_update", "increment", "decrement", "finish"}

\* Outputs that are bits of the state encodings; the synchronised audio pulse.
FlagRead == rd \in {"check_read", "check_waitrequest", "check_validdata"}
FlagReady == rd = "finish"
FlagReadFlash == pl = "start_flash"
AudioInclk == phase < 2

(***************************************************************************)
(* The reader.                                                             *)
(***************************************************************************)
\* Fault: the start flag has the wrong polarity.
RdIdleInverted == rd = "idle" /\ rd' = IF FlagReadFlash THEN "idle" ELSE "check_read"

RdIdle == rd = "idle" /\ rd' = IF FlagReadFlash THEN "check_read" ELSE "idle"

RdCheckRead == rd = "check_read" /\ rd' = "check_waitrequest"

\* Fault: waitrequest is not looked at.
RdNoWait == rd = "check_waitrequest" /\ rd' = "check_validdata"

RdCheckWaitrequest ==
  /\ rd = "check_waitrequest"
  /\ rd' = IF flash.wait THEN "check_waitrequest" ELSE "check_validdata"

\* The machine goes on when readdatavalid is low.
RdCheckValiddata ==
  /\ rd = "check_validdata"
  /\ rd' = IF flash.valid THEN "check_validdata" ELSE "finish"

RdFinish == rd = "finish" /\ rd' = "idle"

RdTick == RdIdle \/ RdCheckRead \/ RdCheckWaitrequest \/ RdCheckValiddata \/ RdFinish

(***************************************************************************)
(* The player.                                                             *)
(***************************************************************************)
PlIdleReset ==
  /\ pl = "idle_reset" /\ pl' = "idle"
  /\ addr' = LastWord /\ count' = 0 /\ sample' = [word |-> NoWord, byte |-> 0]

PlIdle ==
  /\ pl = "idle" /\ pl' = IF play THEN "start_flash" ELSE "idle"
  /\ UNCHANGED <<addr, count, sample>>

PlStartFlash ==
  /\ pl = "start_flash" /\ pl' = IF FlagReady THEN "get_data" ELSE "start_flash"
  /\ UNCHANGED <<addr, count, sample>>

PlGetData ==
  /\ pl = "get_data"
  /\ IF AudioInclk THEN pl' = "play_data" /\ count' = (count + 1) % 8
                   ELSE UNCHANGED <<pl, count>>
  /\ UNCHANGED <<addr, sample>>

\* Fault: the byte selector does not turn with the direction.
PlPlayDataForward ==
  /\ pl = "play_data" /\ pl' = "interrupt"
  /\ sample' = [word |-> flash.data, byte |-> count - 1]
  /\ UNCHANGED <<addr, count>>

\* Whatever word the controller shows now is played.
PlPlayData ==
  /\ pl = "play_data" /\ pl' = "interrupt"
  /\ sample' = [word |-> flash.data,
                byte |-> IF backward THEN WordBytes - count ELSE count - 1]
  /\ UNCHANGED <<addr, count>>

\* Fault: the pulse is waited for instead of its end.
PlInterruptHigh ==
  /\ pl = "interrupt"
  /\ pl' = IF ~AudioInclk THEN "interrupt"
           ELSE IF count < WordBytes THEN "get_data" ELSE "addr_update"
  /\ UNCHANGED <<addr, count, sample>>

\* Fault: one byte too many.
PlInterruptMore ==
  /\ pl = "interrupt"
  /\ pl' = IF AudioInclk THEN "interrupt"
           ELSE IF count <= WordBytes THEN "get_data" ELSE "addr_update"
  /\ UNCHANGED <<addr, count, sample>>

PlInterrupt ==
  /\ pl = "interrupt"
  /\ pl' = IF AudioInclk THEN "interrupt"
           ELSE IF count < WordBytes THEN "get_data" ELSE "addr_update"
  /\ UNCHANGED <<addr, count, sample>>

PlAddrUpdate ==
  /\ pl = "addr_update" /\ pl' = IF backward THEN "decrement" ELSE "increment"
  /\ count' = 0
  /\ UNCHANGED <<addr, sample>>

PlIncrement ==
  /\ pl = "increment" /\ pl' = "finish"
  /\ addr' = IF addr >= LastWord THEN 0 ELSE addr + 1
  /\ UNCHANGED <<count, sample>>

PlDecrement ==
  /\ pl = "decrement" /\ pl' = "finish"
  /\ addr' = IF addr = 0 THEN LastWord ELSE addr - 1
  /\ UNCHANGED <<count, sample>>

PlFinish ==
  /\ pl = "finish" /\ pl' = "idle"
  /\ UNCHANGED <<addr, count, sample>>

PlTick == PlIdleReset \/ PlIdle \/ PlStartFlash \/ PlGetData \/ PlPlayData \/ PlInterrupt
          \/ PlAddrUpdate \/ PlIncrement \/ PlDecrement \/ PlFinish

(***************************************************************************)
(* The flash controller, external: it may hold off a read, works on one    *)
(* read at a time, answers with a one-cycle valid and shows the word until *)
(* the next answer.                                                        *)
(***************************************************************************)
Accepted == FlagRead /\ ~flash.wait

FlashAccept ==
  /\ Accepted
  /\ flash' = [flash EXCEPT !.job = addr, !.timer = 0, !.wait = TRUE, !.valid = FALSE]

FlashWork ==
  /\ flash.job # NoWord /\ flash.timer < MaxLatency
  /\ flash' = [flash EXCEPT !.timer = @ + 1]

FlashAnswer ==
  /\ flash.job # NoWord
  /\ \E wait \in BOOLEAN :
       flash' = [job |-> NoWord, timer |-> 0, wait |-> wait, valid |-> TRUE,
                 data |-> flash.job]

FlashIdle ==
  /\ flash.job = NoWord /\ ~Accepted
  /\ \E wait \in BOOLEAN :
       /\ wait => flash.timer < MaxWait
       /\ flash' = [flash EXCEPT !.timer = IF wait THEN @ + 1 ELSE 0,
                                 !.wait = wait, !.valid = FALSE]

FlashTick == FlashAccept \/ FlashWork \/ FlashAnswer \/ FlashIdle

\* A new audio pulse, or the old one ages.
AudioTick == \/ phase' = IF phase < PulseGap THEN phase + 1 ELSE PulseGap
             \/ phase = PulseGap /\ phase' = 0

HistoryTick ==
  /\ late' = \/ late /\ pl # "addr_update"
             \/ pl = "idle" /\ ~play
  /\ taken' = (Accepted \/ (taken /\ rd # "idle"))

Tick ==
  /\ RdTick /\ PlTick /\ FlashTick /\ AudioTick /\ HistoryTick
  /\ UNCHANGED <<play, backward>>

(***************************************************************************)
(* The keyboard machine: play, pause, forward, backward, reset.            *)
(***************************************************************************)
Key ==
  /\ \/ play' = ~play /\ UNCHANGED backward
     \/ backward' = ~backward /\ UNCHANGED play
  /\ UNCHANGED <<rd, pl, count, addr, sample, flash, phase, late, taken>>

\* The asynchronous reset: two state registers.
Reset ==
  /\ rd' = "idle" /\ pl' = "idle_reset" /\ late' = TRUE
  /\ UNCHANGED <<count, addr, sample, flash, phase, play, backward, taken>>

Init ==
  /\ rd = "idle" /\ pl = "idle_reset"
  /\ count = 0 /\ addr = 0 /\ sample = [word |-> NoWord, byte |-> 0]
  /\ flash = [job |-> NoWord, timer |-> 0, wait |-> FALSE, valid |-> FALSE, data |-> NoWord]
  /\ phase \in 0 .. PulseGap
  /\ play = FALSE /\ backward = FALSE
  /\ late = TRUE /\ taken = FALSE

Next == Tick \/ Key \/ Reset

\* The clock never stops; no key has to be pressed.
Spec == Init /\ [][Next]_vars /\ WF_vars(Tick)

-----------------------------------------------------------------------------
TypeOK ==
  /\ rd \in RdStates /\ pl \in PlStates
  /\ count \in 0 .. WordBytes /\ addr \in Words
  /\ sample \in [word : Words \cup {NoWord}, byte : 0 .. WordBytes - 1]
  /\ flash \in [job : Words \cup {NoWord}, timer : Nat, wait : BOOLEAN, valid : BOOLEAN,
                data : Words \cup {NoWord}]
  /\ phase \in 0 .. PulseGap
  /\ play \in BOOLEAN /\ backward \in BOOLEAN /\ late \in BOOLEAN /\ taken \in BOOLEAN

\* Although the reader does not wait for the data, every byte is taken from the word
\* at the current address, except that after a pause or a reset the first byte may be
\* an old word's: the next pulse comes too late for any other byte to be stale.
FreshSample ==
  [][pl = "play_data" /\ pl' = "interrupt"
       => sample'.word = addr \/ (late /\ count = 1)]_vars

\* The reader never reports ready before the controller has accepted a read, even when
\* the controller was still busy with a read from before a reset.
RequestAccepted == FlagReady => taken

\* In stride, the player is waiting for every pulse when it comes: none is skipped.
NoPulseMissed == phase = 0 /\ ~late => pl = "get_data"

\* A word that is asked for is eventually there, unless a reset intervenes.
WordArrives == pl = "start_flash" ~> pl \in {"get_data", "idle_reset"}

(***************************************************************************)
(* The player implements AudioStream.  A byte is played when play_data is  *)
(* left; the word changes when addr_update is left.  The bytes to come are *)
(* those the count has not reached, from either end: the count does not    *)
(* know at which end it began, which is why a turn repeats bytes.          *)
(***************************************************************************)
StreamWord == CASE pl = "idle_reset" -> LastWord
                [] pl = "increment" -> IF addr >= LastWord THEN 0 ELSE addr + 1
                [] pl = "decrement" -> IF addr = 0 THEN LastWord ELSE addr - 1
                [] OTHER -> addr
StreamPlayed == CASE pl = "idle_reset" -> 0
                  [] pl = "play_data" -> count - 1
                  [] OTHER -> count
StreamAhead == IF backward THEN 0 .. WordBytes - 1 - StreamPlayed ELSE StreamPlayed .. WordBytes - 1
StreamByte == IF pl = "idle_reset" THEN 0 ELSE sample.byte

Stream == INSTANCE AudioStream WITH word <- StreamWord, ahead <- StreamAhead, byte <- StreamByte

\* Within a word and between words the bytes sound in the order of the direction;
\* a turn, whenever it comes, does to the bytes still to come what AudioStream says,
\* and to the word nothing until the next one is chosen.
ImplementsStream == Stream!Spec

=============================================================================
