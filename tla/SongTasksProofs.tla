--------------------------- MODULE SongTasksProofs ---------------------------
(***************************************************************************)
(* Proofs about SongTasks for any number of songs, any length of a song,   *)
(* any frequencies and any delays of which task2's is more than twice      *)
(* task1's: the two tasks' unlocked globals settle before task2 looks at   *)
(* the mouse again.                                                        *)
(***************************************************************************)
EXTENDS SongTasks, TLAPS

\* What the assumption says of each constant.
LEMMA Constants ==
    /\ Songs \in Nat /\ Songs >= 1 /\ Chunks \in Nat /\ Chunks >= 1
    /\ Delay1 \in Nat /\ Delay1 >= 1 /\ Delay2 \in Nat /\ 2 * Delay1 < Delay2
    /\ Increment \in Nat /\ Increment >= 1 /\ Nominal \in Nat /\ Increment <= Nominal
  BY SongAssumption DEF SongAssumption

Names == Flags \cup {"play_song_prev", "audio_select", "address_counter", "freq_reader"}
Bits == Flags \cup {"play_song_prev"}

\* What a global will hold when task2 has made its stores: making one changes nothing.
After(n) == IF n \in DOMAIN todo THEN todo[n] ELSE g[n]

GlobalTypes ==
    /\ g \in [Names -> Nat]
    /\ DOMAIN todo \subseteq Names
    /\ \A n \in DOMAIN todo : todo[n] \in Nat
    /\ \A b \in Bits : g[b] \in {0, 1} /\ (b \in DOMAIN todo => todo[b] \in {0, 1})

TaskTypes ==
    /\ t2 \in {"asleep", "stores"}
    /\ dly1 \in 0 .. Delay1 /\ dly2 \in 0 .. Delay2
    /\ arg \in Nat /\ hw \in Nat
    /\ t2 = "asleep" => DOMAIN todo = {} /\ arg = 0

HistoryTypes == ticked \in BOOLEAN /\ want \in BOOLEAN /\ resumed \in BOOLEAN

TypeOK == GlobalTypes /\ TaskTypes /\ HistoryTypes

\* The music is what the buttons say, or goes on after a skip: task1 will set
\* play_song at its next iteration or the one after task2's last store.
Settled ==
    /\ "play_song_prev" \notin DOMAIN todo /\ g.play_song_prev = 0
    /\ After("play_song") = IF want THEN 1 ELSE 0

Resuming ==
    /\ want
    /\ After("play_song_prev") = 1 /\ After("play_song") = 0
    /\ After("pause_song") = 0 /\ After("stop_song") = 0
    /\ After("next_song") = 1 \/ After("prev_song") = 1
    /\ "play_song_prev" \in DOMAIN todo => g.play_song_prev = 0
    /\ "play_song" \in DOMAIN todo => g.play_song = 1
    /\ arg = 0
    /\ t2 = "asleep" => dly2 >= dly1 + (Delay2 - Delay1)

\* task1 leaves the frequency alone.
Untouched == g.play_song = 1 \/ \A f \in Flags : g[f] = 0

Range == Increment .. MaxFreq

\* The frequency, while task2 makes its stores and while it sleeps: what task1
\* will put right is not right for longer than task1 sleeps.
Frequency ==
    /\ g.freq_reader \in Range /\ hw \in Range
    /\ arg = 0 => "freq_reader" \notin DOMAIN todo
    /\ t2 = "stores" /\ arg = 0 => hw = g.freq_reader
    /\ arg # 0 => /\ arg \in Range
                  /\ DOMAIN todo \subseteq {"freq_reader"}
                  /\ "freq_reader" \in DOMAIN todo => todo["freq_reader"] = arg
                  /\ Untouched => "freq_reader" \in DOMAIN todo \/ g.freq_reader = arg
    /\ t2 = "asleep" => \/ ~Untouched /\ dly1 < dly2
                        \/ hw = g.freq_reader /\ (Untouched \/ hw = Nominal)

\* One tick among task2's stores is one iteration of task1.
Ticking == t2 = "stores" /\ dly1 = 0 => ticked

\* Between a skip and the first chunk after it there is no other button.
Resumed ==
    /\ "address_counter" \in DOMAIN todo => todo["address_counter"] = 0
    /\ resumed => /\ g.address_counter = 0
                  /\ Settled /\ g.play_song = 1 /\ want
                  /\ "play_song" \notin DOMAIN todo
                  /\ t2 = "stores" => ticked /\ dly1 > 0
                  /\ t2 = "asleep" => dly1 < dly2

IInv ==
    /\ TypeOK
    /\ Settled \/ Resuming
    /\ Frequency
    /\ Ticking
    /\ Resumed

-----------------------------------------------------------------------------

USE Constants

LEMMA InitIInv == Init => IInv
<1>. SUFFICES ASSUME Init PROVE IInv
  OBVIOUS
<1>1. DOMAIN todo = {}
  BY DEF Init
<1>2. \A n \in Names : g[n] = IF n = "freq_reader" THEN Nominal ELSE 0
  BY DEF Init, Names
<1>3. TypeOK
  <2>1. g \in [Names -> Nat]
    BY DEF Init, Names
  <2>2. GlobalTypes
    BY <1>1, <1>2, <2>1 DEF GlobalTypes, Names, Bits, Flags
  <2>3. TaskTypes
    BY <1>1 DEF Init, TaskTypes
  <2>4. HistoryTypes
    BY Zenon DEF Init, HistoryTypes
  <2>. QED  BY <2>2, <2>3, <2>4 DEF TypeOK
<1>4. Settled
  BY <1>1, <1>2 DEF Init, Settled, After, Names, Flags
<1>5. Frequency
  BY <1>1, <1>2 DEF Init, Frequency, Untouched, Range, MaxFreq, Names, Flags
<1>6. Ticking /\ Resumed
  BY <1>1, <1>2 DEF Init, Ticking, Resumed
<1>. QED  BY <1>3, <1>4, <1>5, <1>6 DEF IInv

-----------------------------------------------------------------------------
(***************************************************************************)
(* task1.                                                                  *)
(***************************************************************************)

\* What an iteration leaves alone, whichever it is.
LEMMA IterationMoves ==
  ASSUME IInv, Iterate
  PROVE  /\ dly1 = 0 /\ dly1' = Delay1
         /\ t2' = t2 /\ todo' = todo /\ arg' = arg /\ ticked' = ticked /\ want' = want
         /\ t2 = "stores" => ticked
         /\ Ticking'
         /\ t2 \in {"asleep", "stores"} /\ DOMAIN todo \subseteq Names
  BY DEF IInv, Ticking, TypeOK, GlobalTypes, TaskTypes, Iterate, task2

LEMMA PlayKept == IInv /\ Task1Play => IInv'
<1>. SUFFICES ASSUME IInv, Task1Play PROVE IInv'
  OBVIOUS
<1>1. TypeOK /\ Frequency /\ Resumed /\ g.play_song = 1 /\ Iterate
  BY DEF IInv, Task1Play
<1>2. /\ g' \in [Names -> Nat]
      /\ \A n \in Names \ {"address_counter"} : g'[n] = g[n]
      /\ hw' = hw /\ resumed' = FALSE /\ dly2' \in 0 .. dly2
  BY <1>1 DEF Task1Play, TypeOK, GlobalTypes, Names
<1>3. TypeOK'
  <2>1. GlobalTypes'
    BY <1>1, <1>2, IterationMoves DEF TypeOK, GlobalTypes, Names, Bits, Flags
  <2>2. TaskTypes'
    BY <1>1, <1>2, IterationMoves DEF TypeOK, TaskTypes
  <2>3. HistoryTypes'
    BY <1>1, <1>2, IterationMoves, Zenon DEF TypeOK, HistoryTypes
  <2>. QED  BY <2>1, <2>2, <2>3 DEF TypeOK
<1>4. /\ \A n \in Names \ {"address_counter"} : After(n)' = After(n)
      /\ g'.play_song_prev = g.play_song_prev /\ g'.play_song = g.play_song
      /\ g'.freq_reader = g.freq_reader
      /\ Untouched /\ Untouched'
  BY <1>1, <1>2, IterationMoves DEF After, Names, Flags, Untouched
<1>5. Settled => Settled'
  BY <1>1, <1>4, IterationMoves DEF Settled, Names, Flags
<1>6. Resuming => Resuming'
  <2>1. Resuming => t2 = "stores"
    BY <1>1 DEF Resuming, TypeOK, TaskTypes, After
  <2>. QED  BY <1>1, <1>4, <2>1, IterationMoves DEF Resuming, Names, Flags
<1>7. Frequency'
  BY <1>1, <1>2, <1>4, IterationMoves DEF Frequency
<1>8. Resumed'
  BY <1>1, <1>2, IterationMoves DEF Resumed
<1>. QED  BY <1>1, <1>3, <1>5, <1>6, <1>7, <1>8, IterationMoves DEF IInv

\* After a pause, a stop, or a skip that task1 does not go on from, the music is
\* as before and the frequency is the nominal one.
LEMMA NominalKept ==
  ASSUME IInv, Iterate, g.play_song = 0, \E f \in Flags : g[f] = 1,
         g' \in [Names -> Nat],
         \A n \in Names \ {"address_counter", "freq_reader"} : g'[n] = g[n],
         g'.freq_reader = Nominal, hw' = Nominal,
         g'.address_counter \in {g.address_counter, 0},
         dly2' = dly2, resumed' = resumed,
         Resuming => t2 = "stores"
  PROVE  IInv'
<1>1. TypeOK /\ Frequency /\ Resumed
  BY DEF IInv
<1>3. TypeOK'
  <2>1. GlobalTypes'
    BY <1>1, IterationMoves DEF TypeOK, GlobalTypes, Names, Bits, Flags
  <2>2. TaskTypes'
    BY <1>1, IterationMoves DEF TypeOK, TaskTypes
  <2>3. HistoryTypes'
    BY <1>1, IterationMoves, Zenon DEF TypeOK, HistoryTypes
  <2>. QED  BY <2>1, <2>2, <2>3 DEF TypeOK
<1>4. /\ \A n \in Names \ {"address_counter", "freq_reader"} : After(n)' = After(n)
      /\ g'.play_song_prev = g.play_song_prev /\ g'.play_song = g.play_song
      /\ ~Untouched /\ ~Untouched'
  BY <1>1, IterationMoves DEF After, Names, Flags, Untouched
<1>5. Settled => Settled'
  BY <1>1, <1>4, IterationMoves DEF Settled, Names, Flags
<1>6. Resuming => Resuming'
  BY <1>1, <1>4, IterationMoves DEF Resuming, Names, Flags
<1>7. Frequency'
  BY <1>1, <1>4, IterationMoves DEF Frequency, Range, MaxFreq, TypeOK, TaskTypes
<1>8. Resumed'
  BY <1>1, IterationMoves DEF Resumed
<1>. QED  BY <1>1, <1>3, <1>5, <1>6, <1>7, <1>8, IterationMoves DEF IInv

LEMMA PauseKept == IInv /\ Task1Pause => IInv'
<1>. SUFFICES ASSUME IInv, Task1Pause PROVE IInv'
  OBVIOUS
<1>1. TypeOK /\ Iterate /\ g.play_song = 0 /\ g.pause_song = 1
  BY DEF IInv, Task1Pause
<1>2. /\ g' \in [Names -> Nat]
      /\ \A n \in Names \ {"freq_reader"} : g'[n] = g[n]
      /\ g'.freq_reader = Nominal /\ hw' = Nominal /\ dly2' = dly2 /\ resumed' = resumed
  BY <1>1 DEF Task1Pause, ToNominal, TypeOK, GlobalTypes, Names
<1>3. Resuming => t2 = "stores"
  BY <1>1 DEF Resuming, After, TypeOK, TaskTypes
<1>4. \E f \in Flags : g[f] = 1
  BY <1>1 DEF Flags
<1>5. g'.address_counter \in {g.address_counter, 0}
  BY <1>2 DEF Names
<1>. QED  BY <1>1, <1>2, <1>3, <1>4, <1>5, NominalKept

LEMMA StopKept == IInv /\ Task1Stop => IInv'
<1>. SUFFICES ASSUME IInv, Task1Stop PROVE IInv'
  OBVIOUS
<1>1. TypeOK /\ Iterate /\ g.play_song = 0 /\ g.stop_song = 1
  BY DEF IInv, Task1Stop
<1>2. /\ g' \in [Names -> Nat]
      /\ \A n \in Names \ {"address_counter", "freq_reader"} : g'[n] = g[n]
      /\ g'.freq_reader = Nominal /\ g'.address_counter = 0
      /\ hw' = Nominal /\ dly2' = dly2 /\ resumed' = resumed
  BY <1>1 DEF Task1Stop, TypeOK, GlobalTypes, Names
<1>3. Resuming => t2 = "stores"
  BY <1>1 DEF Resuming, After, TypeOK, TaskTypes
<1>4. \E f \in Flags : g[f] = 1
  BY <1>1 DEF Flags
<1>. QED  BY <1>1, <1>2, <1>3, <1>4, NominalKept

\* If the music was playing before the skip and task2 has stored that it was, task1
\* goes on: task2's stores, if any are left, do not touch play_song again.
LEMMA SkipKept == IInv /\ Task1Skip => IInv'
<1>. SUFFICES ASSUME IInv, Task1Skip PROVE IInv'
  OBVIOUS
<1>1. /\ TypeOK /\ Frequency /\ Resumed /\ (Settled \/ Resuming) /\ Iterate
      /\ g.play_song = 0 /\ g.pause_song = 0 /\ g.stop_song = 0
      /\ g.next_song = 1 \/ g.prev_song = 1
  BY DEF IInv, Task1Skip
<1>2. /\ g' \in [Names -> Nat]
      /\ \A n \in Names \ {"address_counter", "freq_reader", "play_song", "play_song_prev"} :
            g'[n] = g[n]
      /\ g'.freq_reader = Nominal /\ g'.address_counter = 0
      /\ g'.play_song = g.play_song_prev /\ g'.play_song_prev = 0
      /\ hw' = Nominal /\ dly2' = dly2
  <2>1. g \in [Names -> Nat] /\ g.play_song_prev \in Nat /\ Nominal \in Nat
    BY <1>1 DEF TypeOK, GlobalTypes, Names
  <2>2. /\ g' = [g EXCEPT !.freq_reader = Nominal, !.address_counter = 0,
                          !.play_song = g.play_song_prev, !.play_song_prev = 0]
        /\ hw' = Nominal /\ dly2' = dly2
    BY DEF Task1Skip
  <2>3. g' \in [Names -> Nat]
    BY <2>1, <2>2
  <2>4. DOMAIN g = Names
    BY <2>1
  <2>5. \A n \in Names \ {"address_counter", "freq_reader", "play_song", "play_song_prev"} :
            g'[n] = g[n]
    BY <2>2, <2>4
  <2>6. /\ g'["freq_reader"] = Nominal /\ g'["address_counter"] = 0
        /\ g'["play_song"] = g["play_song_prev"] /\ g'["play_song_prev"] = 0
    BY <2>2, <2>4 DEF Names, Flags
  <2>. QED  BY <2>2, <2>3, <2>5, <2>6
<1>3. resumed' = (resumed \/ g.play_song_prev = 1)
  BY DEF Task1Skip
<1>4. g.play_song_prev \in {0, 1}
  BY <1>1 DEF TypeOK, GlobalTypes, Bits
<1>5. CASE g.play_song_prev = 0
  <2>1. resumed' = resumed
    <3>1. g.play_song_prev # 1
      BY <1>5
    <3>. QED  BY <1>1, <1>3, <3>1, Zenon DEF TypeOK, HistoryTypes
  <2>2. \A n \in Names \ {"address_counter", "freq_reader"} : g'[n] = g[n]
    BY <1>1, <1>2, <1>5 DEF Names
  <2>3. Resuming => t2 = "stores"
    BY <1>1, <1>5 DEF Resuming, After, TypeOK, TaskTypes
  <2>4. \E f \in Flags : g[f] = 1
    BY <1>1 DEF Flags
  <2>. QED  BY <1>1, <1>2, <2>1, <2>2, <2>3, <2>4, NominalKept
<1>6. CASE g.play_song_prev = 1
  <2>1. Resuming /\ want /\ arg = 0
        /\ "play_song_prev" \notin DOMAIN todo /\ "play_song" \notin DOMAIN todo
    BY <1>1, <1>6 DEF Settled, Resuming
  <2>2. TypeOK'
    <3>1. GlobalTypes'
      BY <1>1, <1>2, <1>4, IterationMoves DEF TypeOK, GlobalTypes, Names, Bits, Flags
    <3>2. TaskTypes'
      BY <1>1, <1>2, IterationMoves DEF TypeOK, TaskTypes
    <3>3. HistoryTypes'
      BY <1>1, <1>3, IterationMoves, Zenon DEF TypeOK, HistoryTypes
    <3>. QED  BY <3>1, <3>2, <3>3 DEF TypeOK
  <2>3. Settled'
    BY <1>1, <1>2, <1>6, <2>1, IterationMoves DEF Settled, After
  <2>4. Frequency'
    BY <1>1, <1>2, <1>6, <2>1, IterationMoves DEF Frequency, Untouched, Range, MaxFreq
  <2>5. Resumed'
    <3>1. t2 = "asleep" => Delay1 < dly2
      BY <1>1, <2>1, IterationMoves DEF Resuming, TypeOK, TaskTypes
    <3>. QED  BY <1>1, <1>2, <1>6, <2>1, <2>3, <3>1, IterationMoves DEF Resumed
  <2>. QED  BY <1>1, <2>2, <2>3, <2>4, <2>5, IterationMoves DEF IInv
<1>. QED  BY <1>4, <1>5, <1>6

LEMMA NothingKept == IInv /\ Task1Nothing => IInv'
<1>. SUFFICES ASSUME IInv, Task1Nothing PROVE IInv'
  OBVIOUS
<1>1. /\ TypeOK /\ Frequency /\ Resumed /\ (Settled \/ Resuming) /\ Iterate
      /\ Untouched /\ g.play_song = 0 /\ g.next_song = 0 /\ g.prev_song = 0
      /\ g' = g /\ hw' = hw /\ dly2' = dly2 /\ resumed' = resumed
  BY DEF IInv, Task1Nothing, Untouched, Flags
<1>2. TypeOK'
  <2>1. GlobalTypes'
    BY <1>1, IterationMoves DEF TypeOK, GlobalTypes
  <2>2. TaskTypes'
    BY <1>1, IterationMoves DEF TypeOK, TaskTypes
  <2>3. HistoryTypes'
    BY <1>1, IterationMoves, Zenon DEF TypeOK, HistoryTypes
  <2>. QED  BY <2>1, <2>2, <2>3 DEF TypeOK
<1>3. (\A n \in Names : After(n)' = After(n)) /\ Untouched'
  BY <1>1, IterationMoves DEF After, Untouched
<1>4. Settled => Settled'
  BY <1>1, <1>3, IterationMoves DEF Settled, Names, Flags
<1>5. Resuming => Resuming'
  <2>1. Resuming => t2 = "stores"
    BY <1>1 DEF Resuming, TypeOK, TaskTypes, After
  <2>. QED  BY <1>1, <1>3, <2>1, IterationMoves DEF Resuming, Names, Flags
<1>6. Frequency'
  BY <1>1, <1>3, IterationMoves DEF Frequency
<1>7. Resumed'
  BY <1>1, IterationMoves DEF Resumed
<1>. QED  BY <1>1, <1>2, <1>4, <1>5, <1>6, <1>7, IterationMoves DEF IInv

-----------------------------------------------------------------------------
(***************************************************************************)
(* task2.                                                                  *)
(***************************************************************************)

\* When task2 looks at the mouse, all is settled.
LEMMA AtMouse ==
  ASSUME IInv, t2 = "asleep", dly2 = 0
  PROVE  /\ Settled /\ DOMAIN todo = {} /\ arg = 0
         /\ g.play_song_prev = 0 /\ g.play_song = IF want THEN 1 ELSE 0
         /\ hw = g.freq_reader /\ (Untouched \/ hw = Nominal)
         /\ g.freq_reader \in Range
         /\ ~resumed
<1>1. TypeOK /\ Frequency /\ Resumed /\ (Settled \/ Resuming)
  BY DEF IInv
<1>2. dly1 \in Nat /\ Delay2 - Delay1 > 0 /\ DOMAIN todo = {} /\ arg = 0
  BY <1>1 DEF TypeOK, TaskTypes
<1>3. ~Resuming
  BY <1>2 DEF Resuming
<1>4. Settled
  BY <1>1, <1>3
<1>5. g.play_song_prev = 0 /\ g.play_song = IF want THEN 1 ELSE 0
  BY <1>2, <1>4 DEF Settled, After
<1>6. hw = g.freq_reader /\ (Untouched \/ hw = Nominal) /\ g.freq_reader \in Range
  BY <1>1, <1>2 DEF Frequency
<1>7. ~resumed
  BY <1>1, <1>2 DEF Resumed
<1>. QED  BY <1>2, <1>4, <1>5, <1>6, <1>7

\* A button whose stores are of the types of the globals, and leave the music as the
\* buttons say or make task1 take it up.
LEMMA PressKept ==
  ASSUME IInv, NEW stores, Press(stores),
         DOMAIN stores \subseteq Names,
         \A n \in DOMAIN stores : stores[n] \in Nat,
         \A b \in Bits \cap DOMAIN stores : stores[b] \in {0, 1},
         "address_counter" \in DOMAIN stores => stores["address_counter"] = 0,
         \/ arg' = arg /\ "freq_reader" \notin DOMAIN stores
         \/ arg' \in Range /\ DOMAIN stores = {"freq_reader"} /\ stores["freq_reader"] = arg',
         want' \in BOOLEAN,
         (Settled \/ Resuming)'
  PROVE  IInv'
<1>1. /\ t2 = "asleep" /\ dly2 = 0 /\ dly1 > 0
      /\ t2' = "stores" /\ todo' = stores /\ ticked' = FALSE
      /\ g' = g /\ hw' = hw /\ dly1' = dly1 /\ dly2' = dly2 /\ resumed' = resumed
  BY DEF Press
<1>2. TypeOK /\ Frequency /\ Resumed
  BY DEF IInv
<1>3. TypeOK'
  <2>1. GlobalTypes'
    BY <1>1, <1>2 DEF TypeOK, GlobalTypes
  <2>2. arg' \in Nat
    BY <1>2 DEF TypeOK, TaskTypes, Range, MaxFreq
  <2>3. TaskTypes'
    BY <1>1, <1>2, <2>2 DEF TypeOK, TaskTypes
  <2>4. HistoryTypes'
    BY <1>1, <1>2, Zenon DEF TypeOK, HistoryTypes
  <2>. QED  BY <2>1, <2>3, <2>4 DEF TypeOK
<1>4. Frequency'
  <2>1. hw = g.freq_reader /\ arg = 0 /\ g.freq_reader \in Range
    BY <1>1, AtMouse
  <2>2. \A f \in Range : f # 0
    BY DEF Range, MaxFreq
  <2>. QED  BY <1>1, <2>1, <2>2 DEF Frequency
<1>5. Ticking' /\ Resumed'
  BY <1>1, AtMouse DEF Ticking, Resumed
<1>. QED  BY <1>3, <1>4, <1>5 DEF IInv

\* Play, pause and stop.
LEMMA ButtonKept ==
  ASSUME IInv, NEW flag \in {"play_song", "pause_song", "stop_song"}, Press(Only(flag)),
         want' = (flag = "play_song"), arg' = arg
  PROVE  IInv'
<1>1. /\ DOMAIN Only(flag) = Flags
      /\ \A n \in Flags : Only(flag)[n] = IF n = flag THEN 1 ELSE 0
  BY DEF Only
<1>2. todo' = Only(flag) /\ g' = g /\ t2 = "asleep" /\ dly2 = 0
  BY DEF Press
<1>3. g.play_song_prev = 0
  BY <1>2, AtMouse
<1>4. Settled'
  BY <1>1, <1>2, <1>3 DEF Settled, After, Flags
<1>5. want' \in BOOLEAN
  OBVIOUS
<1>. QED  BY <1>1, <1>4, <1>5, PressKept DEF Flags, Names, Bits

LEMMA SongKept ==
  ASSUME IInv, NEW s \in 0 .. Songs - 1, PressSong(s)
  PROVE  IInv'
<1>. DEFINE stores == [n \in {"audio_select", "address_counter"} |-> IF n = "audio_select" THEN s ELSE 0]
<1>1. Press(stores) /\ want' = want /\ arg' = arg
  BY DEF PressSong
<1>2. /\ DOMAIN stores = {"audio_select", "address_counter"}
      /\ stores["audio_select"] \in Nat /\ stores["address_counter"] = 0
  OBVIOUS
<1>3. todo' = stores /\ g' = g /\ t2 = "asleep" /\ dly2 = 0
  BY <1>1 DEF Press
<1>. HIDE DEF stores
<1>4. Settled'
  BY <1>1, <1>2, <1>3, AtMouse DEF Settled, After
<1>5. want' \in BOOLEAN
  BY <1>1 DEF IInv, TypeOK, HistoryTypes
<1>. QED  BY <1>1, <1>2, <1>4, <1>5, PressKept DEF Flags, Names, Bits

LEMMA FreqKept ==
  ASSUME IInv, NEW freq \in Range, PressFreq(freq)
  PROVE  IInv'
<1>. DEFINE stores == [n \in {"freq_reader"} |-> freq]
<1>1. Press(stores) /\ want' = want /\ arg' = freq
  BY DEF PressFreq
<1>2. DOMAIN stores = {"freq_reader"} /\ stores["freq_reader"] = freq
  OBVIOUS
<1>3. todo' = stores /\ g' = g /\ t2 = "asleep" /\ dly2 = 0
  BY <1>1 DEF Press
<1>. HIDE DEF stores
<1>4. Settled'
  BY <1>1, <1>2, <1>3, AtMouse DEF Settled, After
<1>5. want' \in BOOLEAN
  BY <1>1 DEF IInv, TypeOK, HistoryTypes
<1>6. freq \in Nat
  BY DEF Range, MaxFreq
<1>. QED  BY <1>1, <1>2, <1>4, <1>5, <1>6, PressKept DEF Flags, Names, Bits

LEMMA BackKept == IInv /\ PressBack => IInv'
<1>. SUFFICES ASSUME IInv, PressBack PROVE IInv'
  OBVIOUS
<1>1. t2 = "asleep" /\ dly2 = 0
  BY DEF PressBack, PressFreq, Press
<1>2. g.freq_reader \in Range
  BY <1>1, AtMouse
<1>3. (IF g.freq_reader - Increment < Increment THEN Increment
       ELSE g.freq_reader - Increment) \in Range
  BY <1>2 DEF Range, MaxFreq
<1>. QED  BY <1>3, FreqKept DEF PressBack

LEMMA FordKept == IInv /\ PressFord => IInv'
<1>. SUFFICES ASSUME IInv, PressFord PROVE IInv'
  OBVIOUS
<1>1. t2 = "asleep" /\ dly2 = 0
  BY DEF PressFord, PressFreq, Press
<1>2. g.freq_reader \in Range
  BY <1>1, AtMouse
<1>3. (IF g.freq_reader + Increment > MaxFreq THEN MaxFreq
       ELSE g.freq_reader + Increment) \in Range
  BY <1>2 DEF Range, MaxFreq
<1>. QED  BY <1>3, FreqKept DEF PressFord

\* A skip leaves a paused song alone, and a playing one to be taken up by task1.
LEMMA JumpKept ==
  ASSUME IInv, NEW flag \in {"prev_song", "next_song"}, NEW song \in Nat, Skip(flag, song)
  PROVE  IInv'
<1>. DEFINE stores == Also(Only(flag), "audio_select", song)
            all == IF g.play_song = 1 THEN Also(stores, "play_song_prev", 1) ELSE stores
<1>1. Press(all) /\ want' = want /\ arg' = arg
  BY DEF Skip
<1>2. /\ DOMAIN stores = Flags \cup {"audio_select"}
      /\ \A n \in Flags : stores[n] = IF n = flag THEN 1 ELSE 0
      /\ stores["audio_select"] = song
  BY DEF Also, Only, Flags
<1>. HIDE DEF stores
<1>3. /\ DOMAIN all = IF g.play_song = 1 THEN Flags \cup {"audio_select", "play_song_prev"}
                      ELSE Flags \cup {"audio_select"}
      /\ \A n \in Flags : all[n] = IF n = flag THEN 1 ELSE 0
      /\ all["audio_select"] = song
      /\ g.play_song = 1 => all["play_song_prev"] = 1
  BY <1>2 DEF Also, Flags
<1>. HIDE DEF all
<1>4. todo' = all /\ g' = g /\ t2 = "asleep" /\ dly2 = 0 /\ t2' = "stores"
  BY <1>1 DEF Press
<1>5. arg = 0 /\ g.play_song_prev = 0 /\ g.play_song = IF want THEN 1 ELSE 0
  BY <1>4, AtMouse
<1>6. (Settled \/ Resuming)'
  <2>1. CASE want
    BY <1>1, <1>3, <1>4, <1>5, <2>1 DEF Resuming, After, Flags
  <2>2. CASE ~want
    BY <1>1, <1>3, <1>4, <1>5, <2>2 DEF Settled, After, Flags
  <2>. QED  BY <2>1, <2>2
<1>7. want' \in BOOLEAN
  BY <1>1 DEF IInv, TypeOK, HistoryTypes
<1>. QED  BY <1>1, <1>3, <1>6, <1>7, PressKept DEF Flags, Names, Bits

\* A store changes nothing of what will be.
LEMMA StoreKept == IInv /\ Store => IInv'
<1>. SUFFICES ASSUME IInv, Store PROVE IInv'
  OBVIOUS
<1>1. TypeOK /\ Frequency /\ Ticking /\ Resumed /\ (Settled \/ Resuming)
  BY DEF IInv
<1>2. PICK n \in DOMAIN todo :
          /\ g' = [g EXCEPT ![n] = todo[n]]
          /\ todo' = [m \in DOMAIN todo \ {n} |-> todo[m]]
  BY DEF Store
<1>3. /\ hw' = hw /\ t2' = t2 /\ arg' = arg /\ dly1' = dly1 /\ dly2' = dly2
      /\ ticked' = ticked /\ want' = want /\ resumed' = resumed
  BY DEF Store
<1>4. /\ g \in [Names -> Nat] /\ n \in Names /\ todo[n] \in Nat
      /\ g' \in [Names -> Nat] /\ g'[n] = todo[n] /\ \A m \in Names \ {n} : g'[m] = g[m]
      /\ DOMAIN todo' = DOMAIN todo \ {n} /\ \A m \in DOMAIN todo \ {n} : todo'[m] = todo[m]
  <2>1. g \in [Names -> Nat] /\ n \in Names /\ todo[n] \in Nat
    BY <1>1 DEF TypeOK, GlobalTypes
  <2>. QED  BY <1>2, <2>1
<1>5. \A m \in Names : After(m)' = After(m)
  BY <1>4 DEF After
<1>6. t2 = "stores"
  BY <1>1 DEF TypeOK, TaskTypes
<1>7. TypeOK'
  <2>1. GlobalTypes'
    <3>1. Bits \subseteq Names
      BY DEF Bits, Names
    <3>. QED  BY <1>1, <1>4, <3>1 DEF TypeOK, GlobalTypes
  <2>2. TaskTypes'
    BY <1>1, <1>3, <1>6 DEF TypeOK, TaskTypes
  <2>3. HistoryTypes'
    BY <1>1, <1>3, Zenon DEF TypeOK, HistoryTypes
  <2>. QED  BY <2>1, <2>2, <2>3 DEF TypeOK
<1>8. Settled => Settled'
  BY <1>3, <1>4, <1>5 DEF Settled, Names, Flags
<1>9. Resuming => Resuming'
  BY <1>3, <1>4, <1>5 DEF Resuming, Names, Flags
<1>10. Frequency'
  <2>1. CASE arg = 0
    <3>1. n # "freq_reader" /\ g'.freq_reader = g.freq_reader
      BY <1>1, <1>4, <2>1 DEF Frequency, Names
    <3>. QED  BY <1>1, <1>3, <1>4, <1>6, <2>1, <3>1 DEF Frequency
  <2>2. CASE arg # 0
    <3>1. n = "freq_reader" /\ g'.freq_reader = arg /\ DOMAIN todo' = {}
      BY <1>1, <1>4, <2>2 DEF Frequency
    <3>. QED  BY <1>1, <1>3, <1>6, <2>2, <3>1 DEF Frequency
  <2>. QED  BY <2>1, <2>2
<1>11. Ticking'
  BY <1>1, <1>3 DEF Ticking
<1>12. Resumed'
  BY <1>1, <1>3, <1>4, <1>8 DEF Resumed, Names, Flags
<1>. QED  BY <1>1, <1>7, <1>8, <1>9, <1>10, <1>11, <1>12 DEF IInv

\* task2 sleeps so long that task1 has two iterations before it looks again: one to
\* take up the music, and one to send the first chunk.
LEMMA SleepKept == IInv /\ Task2Sleep => IInv'
<1>. SUFFICES ASSUME IInv, Task2Sleep PROVE IInv'
  OBVIOUS
<1>1. TypeOK /\ Frequency /\ Resumed /\ (Settled \/ Resuming)
  BY DEF IInv
<1>2. /\ t2 = "stores" /\ DOMAIN todo = {} /\ t2' = "asleep" /\ arg' = 0 /\ dly2' = Delay2
      /\ hw' \in IF arg = 0 THEN {hw} ELSE {arg, g.freq_reader}
      /\ g' = g /\ todo' = todo /\ dly1' = dly1
      /\ ticked' = ticked /\ want' = want /\ resumed' = resumed
  BY DEF Task2Sleep
<1>3. dly1 \in Nat /\ dly1' < dly2' /\ dly2' >= dly1' + (Delay2 - Delay1)
  BY <1>1, <1>2 DEF TypeOK, TaskTypes
<1>4. hw' \in Range
  BY <1>1, <1>2 DEF Frequency
<1>5. TypeOK'
  <2>1. GlobalTypes'
    BY <1>1, <1>2 DEF TypeOK, GlobalTypes
  <2>2. TaskTypes'
    BY <1>1, <1>2, <1>4 DEF TypeOK, TaskTypes, Range, MaxFreq
  <2>3. HistoryTypes'
    BY <1>1, <1>2, Zenon DEF TypeOK, HistoryTypes
  <2>. QED  BY <2>1, <2>2, <2>3 DEF TypeOK
<1>6. Settled => Settled'
  BY <1>2 DEF Settled, After
<1>7. Resuming => Resuming'
  BY <1>2, <1>3 DEF Resuming, After
<1>8. Frequency'
  <2>1. Untouched' <=> Untouched
    BY <1>2 DEF Untouched
  <2>2. Untouched => hw' = g.freq_reader
    BY <1>1, <1>2 DEF Frequency
  <2>. QED  BY <1>1, <1>2, <1>3, <1>4, <2>1, <2>2 DEF Frequency
<1>9. Ticking' /\ Resumed'
  BY <1>1, <1>2, <1>3, <1>6 DEF Ticking, Resumed
<1>. QED  BY <1>1, <1>5, <1>6, <1>7, <1>8, <1>9 DEF IInv

LEMMA TickKept == IInv /\ Tick => IInv'
<1>. SUFFICES ASSUME IInv, Tick PROVE IInv'
  OBVIOUS
<1>1. TypeOK /\ Frequency /\ Resumed /\ (Settled \/ Resuming)
  BY DEF IInv
<1>2. /\ dly1 > 0 /\ dly1' = dly1 - 1 /\ dly2' = IF dly2 = 0 THEN 0 ELSE dly2 - 1
      /\ g' = g /\ hw' = hw /\ t2' = t2 /\ todo' = todo /\ arg' = arg
      /\ want' = want /\ resumed' = resumed
      /\ t2 = "stores" => ~ticked /\ ticked'
      /\ ticked' \in BOOLEAN
  BY DEF Tick
<1>3. TypeOK'
  <2>1. GlobalTypes'
    BY <1>1, <1>2 DEF TypeOK, GlobalTypes
  <2>2. TaskTypes'
    BY <1>1, <1>2 DEF TypeOK, TaskTypes
  <2>3. HistoryTypes'
    BY <1>1, <1>2, Zenon DEF TypeOK, HistoryTypes
  <2>. QED  BY <2>1, <2>2, <2>3 DEF TypeOK
<1>4. dly1 \in Nat /\ dly2 \in Nat
  BY <1>1 DEF TypeOK, TaskTypes
<1>5. Settled => Settled'
  BY <1>2 DEF Settled, After
<1>6. Resuming => Resuming'
  BY <1>2, <1>4 DEF Resuming, After
<1>7. Frequency'
  BY <1>1, <1>2, <1>4 DEF Frequency, Untouched
<1>8. Ticking' /\ Resumed'
  BY <1>1, <1>2, <1>4, <1>5 DEF Ticking, Resumed
<1>. QED  BY <1>1, <1>3, <1>5, <1>6, <1>7, <1>8 DEF IInv

-----------------------------------------------------------------------------

LEMMA NextKept == IInv /\ [Next]_vars => IInv'
<1>. SUFFICES ASSUME IInv, [Next]_vars PROVE IInv'
  OBVIOUS
<1>1. CASE UNCHANGED vars
  BY <1>1 DEF vars, IInv, TypeOK, GlobalTypes, TaskTypes, HistoryTypes, Settled, Resuming,
              After, Frequency, Untouched, Ticking, Resumed
<1>2. CASE Task1
  BY <1>2, PlayKept, PauseKept, StopKept, SkipKept, NothingKept DEF Task1
<1>3. CASE PressPlay \/ PressStop \/ PressPause
  BY <1>3, ButtonKept DEF PressPlay, PressStop, PressPause
<1>4. CASE PressPrev \/ PressNext
  <2>1. \A s \in Nat, flag \in {"prev_song", "next_song"} : Skip(flag, s) => IInv'
    BY JumpKept
  <2>2. ASSUME PressPrev \/ PressNext PROVE g.audio_select \in Nat
    BY DEF IInv, TypeOK, GlobalTypes, Names
  <2>3. /\ (IF g.audio_select = 0 THEN Songs - 1 ELSE g.audio_select - 1) \in Nat
        /\ (IF g.audio_select = Songs - 1 THEN 0 ELSE g.audio_select + 1) \in Nat
    BY <1>4, <2>2
  <2>. QED  BY <1>4, <2>1, <2>3 DEF PressPrev, PressNext
<1>5. CASE PressBack \/ PressFord
  BY <1>5, BackKept, FordKept
<1>6. CASE \E s \in 0 .. (Songs - 1) : PressSong(s)
  BY <1>6, SongKept
<1>7. CASE Store \/ Task2Sleep
  BY <1>7, StoreKept, SleepKept
<1>8. CASE Tick
  BY <1>8, TickKept
<1>. QED  BY <1>1, <1>2, <1>3, <1>4, <1>5, <1>6, <1>7, <1>8 DEF Next, Task2

\* In every reachable state: what the globals are or will be after task2's stores is
\* what the buttons say, or task1 puts it right before task2 looks at the mouse again.
THEOREM Invariance == Spec => []IInv
  BY InitIInv, NextKept, PTL DEF Spec

\* When task2 looks at the mouse, the song plays exactly if play was the last of play,
\* pause and stop to be pressed, and no request to go on is left over
\* (hello_ucosii.c), in whatever order the compiler makes the stores and wherever
\* task1 comes between them.
THEOREM Music == Spec => []MusicFollowsButtons
<1>1. IInv => MusicFollowsButtons
  BY AtMouse DEF MusicFollowsButtons
<1>. QED  BY <1>1, Invariance, PTL

\* By then the controller has the frequency that freq_reader says, in its range, and
\* the nominal one if the song is paused or stopped, although task1 may have changed
\* it between task2's read and its store.
THEOREM Frequencies == Spec => []FrequencySettles
<1>1. IInv => FrequencySettles
  <2>1. Untouched => ~(g.play_song = 0 /\ \E f \in Flags : g[f] = 1)
    BY DEF Untouched
  <2>. QED  BY <2>1, AtMouse DEF FrequencySettles, Range
<1>. QED  BY <1>1, Invariance, PTL

\* The first chunk after a skip is the first of the song skipped to, also if task1 goes
\* on before task2 has stored which song that is.
THEOREM FirstChunk == Spec => SkipStartsSong
<1>1. IInv /\ [Next]_vars =>
        [Task1Play /\ resumed => g.address_counter = 0 /\ "audio_select" \notin DOMAIN todo]_vars
  <2>. SUFFICES ASSUME IInv, Task1Play, resumed
                PROVE  g.address_counter = 0 /\ "audio_select" \notin DOMAIN todo
    OBVIOUS
  <2>1. dly1 = 0 /\ TypeOK /\ Resumed
    BY DEF IInv, Task1Play, Iterate
  <2>2. t2 = "asleep"
    BY <2>1 DEF Resumed, TypeOK, TaskTypes
  <2>. QED  BY <2>1, <2>2 DEF Resumed, TypeOK, TaskTypes
<1>. QED  BY <1>1, Invariance, PTL DEF Spec, SkipStartsSong

=============================================================================
