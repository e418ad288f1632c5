------------------------------ MODULE SongTasks ------------------------------
(***************************************************************************)
(* The two tasks of Lab 5's program (hello_ucosii.c) on the globals they   *)
(* share without a lock.  task1 sends the song to the audio FIFO, a chunk  *)
(* every 10 ms; task2 looks at the mouse every 100 ms and obeys the button *)
(* that is pressed.                                                        *)
(*                                                                         *)
(* task1 has the higher priority: it preempts task2 at a tick and finishes *)
(* its iteration before task2 goes on (UcosKernel is about that), so an    *)
(* iteration is one step.  What task2 does for a button is a set of stores *)
(* to distinct globals that are not volatile, which the compiler may order *)
(* as it likes; task1 may come between any two.  The stores are a few      *)
(* dozen instructions, so at most one tick falls among them; the drawing   *)
(* before and after them takes as long as it likes.                        *)
(***************************************************************************)
EXTENDS Integers, FiniteSets

CONSTANTS
    Songs,       \* the number of songs, 4
    Chunks,      \* a song's length in chunks: size_song / NUMERO_DE_MUESTRAS
    Delay1,      \* ticks task1 sleeps, 10
    Delay2,      \* ticks task2 sleeps, 100
    Increment,   \* FREQ_READER_INCREMENT
    Nominal      \* FREQ_READER_NOMINAL

ASSUME SongAssumption ==
    /\ {Songs, Chunks, Delay1, Delay2, Increment, Nominal} \subseteq Nat \ {0}
    /\ 2 * Delay1 < Delay2
    /\ Increment <= Nominal

MaxFreq == 2 * Nominal
Flags == {"play_song", "pause_song", "stop_song", "next_song", "prev_song"}

VARIABLES
    g,        \* the globals that both tasks use
    hw,       \* the audio controller's frequency
    t2,       \* task2: "asleep" (or drawing), among its "stores"
    todo,     \* task2: the stores still to be made, name -> value
    arg,      \* task2: the frequency it is about to set, 0 for none
    dly1,     \* ticks until task1 wakes
    dly2,     \* ticks until task2 may look at the mouse
    ticked,   \* did a tick fall among task2's stores?
    want,     \* history: the last of play, pause and stop to be pressed was play
    resumed   \* history: task1 went on after a skip and has not sent a chunk since

vars == <<g, hw, t2, todo, arg, dly1, dly2, ticked, want, resumed>>
task2 == <<t2, todo, arg, ticked, want>>

-----------------------------------------------------------------------------
(* task1                                                                   *)

\* Every iteration ends by sleeping.
Iterate ==
    /\ dly1 = 0
    /\ dly1' = Delay1
    /\ UNCHANGED task2

ToNominal ==
    /\ g' = [g EXCEPT !.freq_reader = Nominal]
    /\ hw' = Nominal

\* send_audio_fifo waits for room in the FIFO with task2 shut out, while time
\* passes.
Task1Play ==
    /\ Iterate
    /\ g.play_song = 1
    /\ g' = [g EXCEPT !.address_counter = IF @ < Chunks THEN @ + 1 ELSE 0]
    /\ dly2' \in 0 .. dly2
    /\ resumed' = FALSE
    /\ UNCHANGED hw

\* Fault: freq_reader is reset without telling the controller.
Task1PauseQuiet ==
    /\ Iterate
    /\ g.play_song = 0 /\ g.pause_song = 1
    /\ g' = [g EXCEPT !.freq_reader = Nominal]
    /\ UNCHANGED <<hw, dly2, resumed>>

Task1Pause ==
    /\ Iterate
    /\ g.play_song = 0 /\ g.pause_song = 1
    /\ ToNominal
    /\ UNCHANGED <<dly2, resumed>>

Task1Stop ==
    /\ Iterate
    /\ g.play_song = 0 /\ g.pause_song = 0 /\ g.stop_song = 1
    /\ g' = [g EXCEPT !.freq_reader = Nominal, !.address_counter = 0]
    /\ hw' = Nominal
    /\ UNCHANGED <<dly2, resumed>>

\* Fault: the request to go on is kept.
Task1SkipAgain ==
    /\ Iterate
    /\ g.play_song = 0 /\ g.pause_song = 0 /\ g.stop_song = 0
    /\ g.next_song = 1 \/ g.prev_song = 1
    /\ g' = [g EXCEPT !.freq_reader = Nominal, !.address_counter = 0,
                      !.play_song = g.play_song_prev]
    /\ hw' = Nominal
    /\ resumed' = (resumed \/ g.play_song_prev = 1)
    /\ UNCHANGED dly2

\* Fault: the new song starts where the old one was left.
Task1SkipMidway ==
    /\ Iterate
    /\ g.play_song = 0 /\ g.pause_song = 0 /\ g.stop_song = 0
    /\ g.next_song = 1 \/ g.prev_song = 1
    /\ g' = [g EXCEPT !.freq_reader = Nominal,
                      !.play_song = g.play_song_prev, !.play_song_prev = 0]
    /\ hw' = Nominal
    /\ resumed' = (resumed \/ g.play_song_prev = 1)
    /\ UNCHANGED dly2

\* After next or prev: the music goes on if it was playing.
Task1Skip ==
    /\ Iterate
    /\ g.play_song = 0 /\ g.pause_song = 0 /\ g.stop_song = 0
    /\ g.next_song = 1 \/ g.prev_song = 1
    /\ g' = [g EXCEPT !.freq_reader = Nominal, !.address_counter = 0,
                      !.play_song = g.play_song_prev, !.play_song_prev = 0]
    /\ hw' = Nominal
    /\ resumed' = (resumed \/ g.play_song_prev = 1)
    /\ UNCHANGED dly2

\* Before any button was pressed, or between the stores of one.
Task1Nothing ==
    /\ Iterate
    /\ \A f \in Flags : g[f] = 0
    /\ UNCHANGED <<g, hw, dly2, resumed>>

-----------------------------------------------------------------------------
(* task2                                                                   *)

\* It has the processor, and sees the button pressed: the stores it will make.
Press(stores) ==
    /\ t2 = "asleep" /\ dly2 = 0 /\ dly1 > 0
    /\ t2' = "stores"
    /\ todo' = stores
    /\ ticked' = FALSE
    /\ UNCHANGED <<g, hw, dly1, dly2, resumed>>

\* One of the five flags is set, the others are cleared.
Only(flag) == [f \in Flags |-> IF f = flag THEN 1 ELSE 0]

Also(stores, name, value) ==
    [n \in DOMAIN stores \cup {name} |-> IF n = name THEN value ELSE stores[n]]

PressPlay == Press(Only("play_song")) /\ want' = TRUE /\ UNCHANGED arg
PressStop == Press(Only("stop_song")) /\ want' = FALSE /\ UNCHANGED arg
PressPause == Press(Only("pause_song")) /\ want' = FALSE /\ UNCHANGED arg

\* play_song is read before the stores; audio_select belongs to task2.
Skip(flag, song) ==
    LET stores == Also(Only(flag), "audio_select", song)
    IN  /\ Press(IF g.play_song = 1 THEN Also(stores, "play_song_prev", 1) ELSE stores)
        /\ UNCHANGED <<want, arg>>

PressPrev == Skip("prev_song", IF g.audio_select = 0 THEN Songs - 1 ELSE g.audio_select - 1)
PressNext == Skip("next_song", IF g.audio_select = Songs - 1 THEN 0 ELSE g.audio_select + 1)

PressSong(s) ==
    /\ Press([n \in {"audio_select", "address_counter"} |-> IF n = "audio_select" THEN s ELSE 0])
    /\ UNCHANGED <<want, arg>>

\* The frequency is read, changed in a register, stored and set: task1 may have
\* changed it in between.
PressFreq(freq) ==
    /\ Press([n \in {"freq_reader"} |-> freq])
    /\ arg' = freq
    /\ UNCHANGED want

PressBack == PressFreq(IF g.freq_reader - Increment < Increment THEN Increment
                       ELSE g.freq_reader - Increment)
PressFord == PressFreq(IF g.freq_reader + Increment > MaxFreq THEN MaxFreq
                       ELSE g.freq_reader + Increment)

Store ==
    /\ \E n \in DOMAIN todo :
          /\ g' = [g EXCEPT ![n] = todo[n]]
          /\ todo' = [m \in DOMAIN todo \ {n} |-> todo[m]]
    /\ UNCHANGED <<hw, t2, arg, dly1, dly2, ticked, want, resumed>>

\* All stores made, the frequency is set, from the register or read again.
Task2Sleep ==
    /\ t2 = "stores" /\ DOMAIN todo = {}
    /\ hw' \in IF arg = 0 THEN {hw} ELSE {arg, g.freq_reader}
    /\ t2' = "asleep"
    /\ arg' = 0
    /\ dly2' = Delay2
    /\ UNCHANGED <<g, todo, dly1, ticked, want, resumed>>

Tick ==
    /\ dly1 > 0
    /\ t2 = "stores" => ~ticked
    /\ dly1' = dly1 - 1
    /\ dly2' = IF dly2 = 0 THEN 0 ELSE dly2 - 1
    /\ ticked' = (t2 = "stores")
    /\ UNCHANGED <<g, hw, t2, todo, arg, want, resumed>>

-----------------------------------------------------------------------------

\* task1, which runs first, has set the nominal frequency.
Init ==
    /\ g = [n \in Flags \cup {"play_song_prev", "audio_select", "address_counter", "freq_reader"}
              |-> IF n = "freq_reader" THEN Nominal ELSE 0]
    /\ hw = Nominal
    /\ t2 = "asleep"
    /\ todo = [n \in {} |-> 0]
    /\ arg = 0
    /\ dly1 = 0 /\ dly2 = 0
    /\ ticked = FALSE
    /\ want = FALSE
    /\ resumed = FALSE

Task1 == Task1Play \/ Task1Pause \/ Task1Stop \/ Task1Skip \/ Task1Nothing

Task2 ==
    \/ PressPlay \/ PressStop \/ PressPause \/ PressPrev \/ PressNext \/ PressBack \/ PressFord
    \/ \E s \in 0 .. (Songs - 1) : PressSong(s)
    \/ Store
    \/ Task2Sleep

Next == Task1 \/ Task2 \/ Tick

Spec == Init /\ [][Next]_vars

-----------------------------------------------------------------------------
(* Properties.                                                             *)

\* When task2 looks at the mouse again, the music plays exactly if play was
\* pressed after the last pause and stop, however often a song was skipped, and
\* no request to go on is left over for a skip after the next stop.
MusicFollowsButtons ==
    t2 = "asleep" /\ dly2 = 0 => g.play_song = (IF want THEN 1 ELSE 0) /\ g.play_song_prev = 0

\* By then the controller also has the frequency that freq_reader says, in its
\* range, and the nominal one if the song is paused or stopped: what one task
\* overwrites of the other's is put right.
FrequencySettles ==
    t2 = "asleep" /\ dly2 = 0 =>
       /\ hw = g.freq_reader /\ hw \in Increment .. MaxFreq
       /\ g.play_song = 0 /\ (\E f \in Flags : g[f] = 1) => hw = Nominal

\* The first chunk after a skip is the first of the song skipped to, even if
\* task1 goes on before task2 has stored which song that is.
SkipStartsSong ==
    [][Task1Play /\ resumed => g.address_counter = 0 /\ "audio_select" \notin DOMAIN todo]_vars
=============================================================================
