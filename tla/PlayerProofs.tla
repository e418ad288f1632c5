---------------------------- MODULE PlayerProofs ----------------------------
(***************************************************************************)
(* Proofs about Player for every number of words and bytes of a word, any  *)
(* flash controller and any audio clock that is slow enough for it.        *)
(***************************************************************************)
EXTENDS Player, TLAPS

\* The pulses leave room for a word to be fetched twice between two of them: once
\* when the reader first asks, and again when it finds the controller busy with
\* what it asked for.  One cycle less and a pulse is missed.
Unhurried ==
  /\ WordBytes >= 2
  /\ PulseGap >= MaxWait + MaxLatency + 13

(***************************************************************************)
(* What holds at any speed.                                                *)
(***************************************************************************)

\* How many bytes of the word have been fetched, by the player's state.
Counting ==
  /\ pl \in {"idle", "start_flash", "increment", "decrement", "finish"} => count = 0
  /\ pl = "get_data" => count < WordBytes
  /\ pl \in {"play_data", "interrupt"} => count >= 1
  /\ pl = "addr_update" => count = WordBytes

\* The reader only works for a player that waits for it.
Asking ==
  /\ rd # "idle" => pl = "start_flash"
  /\ rd \in {"check_validdata", "finish"} => taken

Base == TypeOK /\ Counting /\ Asking

(***************************************************************************)
(* What holds if the pulses are far enough apart.                          *)
(***************************************************************************)

Controller == IF flash.job = NoWord THEN flash.timer <= MaxWait
                                    ELSE flash.wait /\ flash.timer <= MaxLatency

\* The controller is done, and shows the word at the current address.
Here == flash.job = NoWord /\ flash.data = addr

\* It is still at that word.
Coming == flash.job = addr

Playing == pl \in {"get_data", "play_data", "interrupt"}

\* A word that was coming when its first byte was due is here at the second, because
\* the controller has worked at least as long as the pulse is old.
Fetch ==
  /\ rd = "check_validdata" => Coming /\ flash.timer = 0 /\ ~flash.valid
  /\ rd = "finish" => Here \/ (Coming /\ flash.timer = 1)
  /\ pl = "get_data" /\ count = 0 => Here \/ (Coming /\ flash.timer >= 2)
  /\ Playing /\ count = 1 => Here \/ (Coming /\ phase >= 1 /\ phase <= flash.timer)
  /\ Playing /\ count >= 2 => Here
  /\ pl = "addr_update" => Here
  /\ pl \in {"increment", "decrement", "finish"} => flash.job = NoWord
  /\ pl = "idle" /\ ~late => flash.job = NoWord

\* The cycle of the pulse in which the player does what follows it; only the first
\* byte after a pause or a reset may be a cycle behind.
Rhythm ==
  /\ pl = "idle_reset" => late
  /\ pl = "get_data" /\ count >= 1 => phase = 0 \/ phase >= 3
  /\ pl = "play_data" => phase = 1 \/ (count = 1 /\ phase = 2)
  /\ pl = "interrupt" => phase = 2 \/ (count = 1 /\ phase = 3)
  /\ pl = "addr_update" => phase = 3
  /\ pl \in {"increment", "decrement"} => phase = 4 /\ ~late
  /\ pl = "finish" => phase = 5 /\ ~late
  /\ pl = "idle" /\ ~late => phase = 6

Fresh == flash.data = addr

\* The three ways a reader can stand at check_waitrequest in stride, each with the
\* cycle that it is there at the latest: its read was accepted at once and is being
\* served, it has been served, or it has not been accepted yet.
Waiting ==
  \/ Coming /\ phase <= flash.timer + 9
  \/ Here /\ phase <= IF flash.wait THEN flash.timer + MaxLatency + 10
                                    ELSE MaxWait + MaxLatency + 11
  \/ /\ flash.job = NoWord
     /\ phase <= IF flash.wait THEN flash.timer + 8 ELSE MaxWait + 9

Stride ==
  ~late =>
    /\ pl = "start_flash" /\ rd = "idle" => phase = 7 /\ flash.job = NoWord
    /\ rd = "check_read" => phase = 8 /\ flash.job = NoWord
    /\ rd = "check_waitrequest" => phase >= 9 /\ Waiting
    /\ rd = "check_validdata" => phase >= 10 /\ phase <= MaxWait + MaxLatency + 12
    /\ rd = "finish" => phase >= 10 /\ phase <= MaxWait + MaxLatency + 13
    /\ rd \in {"check_validdata", "finish"} \/ (pl = "get_data" /\ count = 0) =>
         Fresh \/ (phase >= 10 /\ phase <= flash.timer + MaxWait + 10)
    /\ pl \in {"play_data", "interrupt"} => Fresh

IInv == Base /\ Controller /\ Fetch /\ Rhythm /\ Stride

-----------------------------------------------------------------------------
LEMMA Constants ==
  /\ LastWord \in Nat /\ WordBytes \in Nat /\ WordBytes >= 1 /\ WordBytes <= 6
  /\ MaxWait \in Nat /\ MaxLatency \in Nat /\ PulseGap \in Nat /\ PulseGap >= 3
  /\ NoWord \notin Words /\ 0 \in Words /\ LastWord \in Words
  BY PlayerAssumption DEF PlayerAssumption, NoWord, Words

(***************************************************************************)
(* The parts of a cycle, flattened.                                        *)
(***************************************************************************)

LEMMA FlashMoves ==
  ASSUME TypeOK, FlashTick
  PROVE  /\ flash' \in [job : Words \cup {NoWord}, timer : Nat, wait : BOOLEAN, valid : BOOLEAN,
                        data : Words \cup {NoWord}]
         /\ \/ /\ Accepted
               /\ flash'.job = addr /\ flash'.timer = 0 /\ flash'.data = flash.data
               /\ flash'.wait /\ ~flash'.valid
            \/ /\ flash.job # NoWord /\ flash.timer < MaxLatency
               /\ flash'.job = flash.job /\ flash'.timer = flash.timer + 1
               /\ flash'.data = flash.data /\ (flash'.wait <=> flash.wait)
            \/ /\ flash.job # NoWord
               /\ flash'.job = NoWord /\ flash'.timer = 0 /\ flash'.data = flash.job
            \/ /\ flash.job = NoWord /\ ~Accepted
               /\ flash'.job = NoWord /\ flash'.data = flash.data
               /\ \/ /\ flash.timer < MaxWait /\ flash'.timer = flash.timer + 1
                     /\ flash'.wait
                  \/ flash'.timer = 0 /\ ~flash'.wait
<1>1. flash \in [job : Words \cup {NoWord}, timer : Nat, wait : BOOLEAN, valid : BOOLEAN,
                 data : Words \cup {NoWord}] /\ addr \in Words
  BY DEF TypeOK
<1>2. CASE FlashAccept
  BY <1>1, <1>2 DEF FlashAccept
<1>3. CASE FlashWork
  BY <1>1, <1>3 DEF FlashWork
<1>4. CASE FlashAnswer
  BY <1>1, <1>4 DEF FlashAnswer
<1>5. CASE FlashIdle
  <2>1. flash.job = NoWord /\ ~Accepted
    BY <1>5 DEF FlashIdle
  <2>2. \/ /\ flash.timer < MaxWait
           /\ flash' = [flash EXCEPT !.timer = @ + 1, !.wait = TRUE, !.valid = FALSE]
        \/ flash' = [flash EXCEPT !.timer = 0, !.wait = FALSE, !.valid = FALSE]
    BY <1>5, Zenon DEF FlashIdle
  <2>3. CASE /\ flash.timer < MaxWait
             /\ flash' = [flash EXCEPT !.timer = @ + 1, !.wait = TRUE, !.valid = FALSE]
    <3> DEFINE n == flash.timer + 1
    <3>1. n \in Nat /\ n = flash.timer + 1
      BY <1>1
    <3>2. flash' = [flash EXCEPT !.timer = n, !.wait = TRUE, !.valid = FALSE]
      BY <2>3
    <3>. HIDE DEF n
    <3>3. /\ flash' \in [job : Words \cup {NoWord}, timer : Nat, wait : BOOLEAN, valid : BOOLEAN,
                          data : Words \cup {NoWord}]
          /\ flash'.job = flash.job /\ flash'.data = flash.data /\ flash'.timer = n
          /\ flash'.wait
      BY <1>1, <3>1, <3>2
    <3>. QED  BY <2>1, <2>3, <3>1, <3>3
  <2>4. CASE flash' = [flash EXCEPT !.timer = 0, !.wait = FALSE, !.valid = FALSE]
    <3>1. /\ flash' \in [job : Words \cup {NoWord}, timer : Nat, wait : BOOLEAN, valid : BOOLEAN,
                          data : Words \cup {NoWord}]
          /\ flash'.job = flash.job /\ flash'.data = flash.data /\ flash'.timer = 0
      BY <1>1, <2>4
    <3>2. ~flash'.wait
      BY <1>1, <2>4
    <3>. QED  BY <2>1, <3>1, <3>2
  <2>. QED  BY <2>2, <2>3, <2>4
<1>. QED  BY <1>2, <1>3, <1>4, <1>5 DEF FlashTick

LEMMA PhaseMoves ==
  ASSUME TypeOK, AudioTick
  PROVE  /\ phase' \in 0 .. PulseGap
         /\ phase < PulseGap => phase' = phase + 1
         /\ phase = PulseGap => phase' \in {0, PulseGap}
  BY Constants DEF TypeOK, AudioTick

LEMMA RdMoves ==
  ASSUME TypeOK, RdTick
  PROVE  /\ rd' \in RdStates
         /\ rd = "idle" => rd' = IF pl = "start_flash" THEN "check_read" ELSE "idle"
         /\ rd = "check_read" => rd' = "check_waitrequest"
         /\ rd = "check_waitrequest" => rd' = IF flash.wait THEN "check_waitrequest" ELSE "check_validdata"
         /\ rd = "check_validdata" => rd' = IF flash.valid THEN "check_validdata" ELSE "finish"
         /\ rd = "finish" => rd' = "idle"
  BY DEF TypeOK, RdTick, RdIdle, RdCheckRead, RdCheckWaitrequest, RdCheckValiddata, RdFinish, RdStates, FlagReadFlash

-----------------------------------------------------------------------------
(***************************************************************************)
(* What holds at any speed.                                                *)
(***************************************************************************)

Samples == [word : Words \cup {NoWord}, byte : 0 .. WordBytes - 1]

\* A cycle of the player keeps the types of its registers and the count of the bytes.
LEMMA PlKept ==
  ASSUME Base, PlTick, backward \in BOOLEAN
  PROVE  /\ pl' \in PlStates /\ count' \in 0 .. WordBytes /\ addr' \in Words /\ sample' \in Samples
         /\ Counting'
<1>. USE Constants DEF Counting, PlStates
<1>1. /\ count \in 0 .. WordBytes /\ addr \in Words /\ sample \in Samples
      /\ flash.data \in Words \cup {NoWord} /\ pl \in PlStates
      /\ Counting
  BY DEF Base, TypeOK, Samples
<1>2. CASE PlIdleReset
  BY <1>1, <1>2 DEF PlIdleReset, Samples, NoWord
<1>3. CASE PlIdle
  BY <1>1, <1>3 DEF PlIdle
<1>4. CASE PlStartFlash
  BY <1>1, <1>4 DEF PlStartFlash
<1>5. CASE PlGetData
  <2>1. count < WordBytes /\ count \in Nat /\ (count + 1) % 8 = count + 1
    BY <1>1, <1>5 DEF PlGetData
  <2>. QED  BY <1>1, <1>5, <2>1 DEF PlGetData
<1>6. CASE PlPlayData
  <2>1. count \in 1 .. WordBytes
    BY <1>1, <1>6 DEF PlPlayData
  <2>2. (IF backward THEN WordBytes - count ELSE count - 1) \in 0 .. WordBytes - 1
    BY <2>1
  <2>3. sample' \in Samples
    BY <1>1, <1>6, <2>2 DEF PlPlayData, Samples
  <2>. QED  BY <1>1, <1>6, <2>1, <2>3 DEF PlPlayData
<1>7. CASE PlInterrupt
  BY <1>1, <1>7 DEF PlInterrupt
<1>8. CASE PlAddrUpdate
  BY <1>1, <1>8 DEF PlAddrUpdate
<1>9. CASE PlIncrement
  BY <1>1, <1>9 DEF PlIncrement, Words
<1>10. CASE PlDecrement
  BY <1>1, <1>10 DEF PlDecrement, Words
<1>11. CASE PlFinish
  BY <1>1, <1>11 DEF PlFinish
<1>. QED  BY <1>2, <1>3, <1>4, <1>5, <1>6, <1>7, <1>8, <1>9, <1>10, <1>11 DEF PlTick

LEMMA AskingKept ==
  ASSUME Base, Tick
  PROVE  Asking'
<1>1. TypeOK /\ Asking /\ RdTick /\ PlTick /\ HistoryTick
  BY DEF Base, Tick
<1>2. pl = "start_flash" => pl' = IF rd = "finish" THEN "get_data" ELSE "start_flash"
  BY <1>1 DEF PlTick, PlIdleReset, PlIdle, PlStartFlash, PlGetData, PlPlayData, PlInterrupt,
              PlAddrUpdate, PlIncrement, PlDecrement, PlFinish, FlagReady
<1>3. rd' # "idle" => pl' = "start_flash"
  BY <1>1, <1>2, RdMoves DEF Asking, TypeOK, RdStates
<1>4. rd' = "check_validdata" => taken'
  <2>1. rd' = "check_validdata" => (rd = "check_waitrequest" /\ ~flash.wait) \/ rd = "check_validdata"
    BY <1>1, RdMoves DEF TypeOK, RdStates
  <2>2. rd = "check_waitrequest" /\ ~flash.wait => Accepted
    BY DEF Accepted, FlagRead
  <2>. QED  BY <1>1, <2>1, <2>2 DEF HistoryTick, Asking
<1>5. rd' = "finish" => taken'
  <2>1. rd' = "finish" => rd = "check_validdata"
    BY <1>1, RdMoves DEF TypeOK, RdStates
  <2>. QED  BY <1>1, <2>1 DEF HistoryTick, Asking
<1>. QED  BY <1>3, <1>4, <1>5 DEF Asking

LEMMA InitBase == Init => Base
<1>. SUFFICES ASSUME Init PROVE Base
  OBVIOUS
<1>1. flash \in [job : Words \cup {NoWord}, timer : Nat, wait : BOOLEAN, valid : BOOLEAN,
                 data : Words \cup {NoWord}]
  BY DEF Init
<1>2. sample \in [word : Words \cup {NoWord}, byte : 0 .. WordBytes - 1]
  BY Constants DEF Init
<1>3. /\ rd = "idle" /\ pl = "idle_reset" /\ count = 0 /\ addr = 0 /\ phase \in 0 .. PulseGap
      /\ play \in BOOLEAN /\ backward \in BOOLEAN /\ late \in BOOLEAN /\ taken \in BOOLEAN
  BY DEF Init
<1>4. TypeOK
  BY <1>1, <1>2, <1>3, Constants DEF TypeOK, RdStates, PlStates
<1>. QED  BY <1>3, <1>4 DEF Base, Counting, Asking

LEMMA BaseKept == Base /\ [Next]_vars => Base'
<1>. SUFFICES ASSUME Base, [Next]_vars PROVE Base'
  OBVIOUS
<1>1. CASE Tick
  <2>1. TypeOK /\ RdTick /\ PlTick /\ FlashTick /\ AudioTick /\ HistoryTick /\ UNCHANGED <<play, backward>>
    BY <1>1 DEF Base, Tick
  <2>2. rd' \in RdStates /\ phase' \in 0 .. PulseGap
    BY <2>1, RdMoves, PhaseMoves
  <2>3. /\ pl' \in PlStates /\ count' \in 0 .. WordBytes /\ addr' \in Words /\ sample' \in Samples
        /\ Counting'
    BY <2>1, PlKept DEF TypeOK
  <2>4. flash' \in [job : Words \cup {NoWord}, timer : Nat, wait : BOOLEAN, valid : BOOLEAN,
                    data : Words \cup {NoWord}]
    BY <2>1, FlashMoves
  <2>5. late' \in BOOLEAN /\ taken' \in BOOLEAN /\ play' \in BOOLEAN /\ backward' \in BOOLEAN
    BY <2>1, Zenon DEF HistoryTick, TypeOK
  <2>6. TypeOK'
    BY <2>2, <2>3, <2>4, <2>5 DEF TypeOK, Samples
  <2>. QED  BY <1>1, <2>3, <2>6, AskingKept DEF Base
<1>2. CASE Key
  <2>1. play' \in BOOLEAN /\ backward' \in BOOLEAN
    BY <1>2, Zenon DEF Key, Base, TypeOK
  <2>2. UNCHANGED <<rd, pl, count, addr, sample, flash, phase, late, taken>>
    BY <1>2 DEF Key
  <2>. QED  BY <2>1, <2>2 DEF Base, TypeOK, Counting, Asking
<1>3. CASE Reset
  <2>1. /\ rd' = "idle" /\ pl' = "idle_reset" /\ late' = TRUE
        /\ UNCHANGED <<count, addr, sample, flash, phase, play, backward, taken>>
    BY <1>3 DEF Reset
  <2>2. TypeOK'
    BY <2>1 DEF Base, TypeOK, RdStates, PlStates
  <2>. QED  BY <2>1, <2>2 DEF Base, Counting, Asking
<1>4. CASE UNCHANGED vars
  BY <1>4 DEF vars, Base, TypeOK, Counting, Asking
<1>. QED  BY <1>1, <1>2, <1>3, <1>4 DEF Next

\* Every register keeps its type, and the count of bytes never passes a word's.
THEOREM Types == Spec => []TypeOK
<1>1. Spec => []Base
  BY InitBase, BaseKept, PTL DEF Spec
<1>2. Base => TypeOK
  BY DEF Base
<1>. QED  BY <1>1, <1>2, PTL

\* The reader reports ready (my_fsm_read_flash.sv:24) only for a read the controller
\* has accepted since it started, whatever the controller was doing and however many
\* resets withdrew earlier reads.
THEOREM Requests == Spec => []RequestAccepted
<1>1. Spec => []Base
  BY InitBase, BaseKept, PTL DEF Spec
<1>2. Base => RequestAccepted
  BY DEF Base, Asking, RequestAccepted, FlagReady
<1>. QED  BY <1>1, <1>2, PTL

-----------------------------------------------------------------------------
(***************************************************************************)
(* The player implements AudioStream.                                      *)
(***************************************************************************)

StreamSteps == [Stream!Next]_(Stream!vars)

\* A word not begun is all ahead, whatever the direction.
LEMMA AllAhead == ASSUME StreamPlayed = 0 PROVE StreamAhead = Stream!Places
  BY Constants DEF StreamAhead, Stream!Places

LEMMA StreamStart == Init => Stream!Init
<1>. SUFFICES ASSUME Init PROVE Stream!Init
  OBVIOUS
<1>1. StreamPlayed = 0 /\ StreamWord = LastWord /\ StreamByte = 0 /\ backward = FALSE
  BY DEF Init, StreamPlayed, StreamWord, StreamByte
<1>. QED  BY <1>1, AllAhead DEF Stream!Init

\* What the listener hears stays, and so does the direction.
LEMMA Stutters ==
  ASSUME StreamWord' = StreamWord, StreamPlayed' = StreamPlayed, StreamByte' = StreamByte,
         backward' = backward
  PROVE  StreamSteps
  BY DEF StreamSteps, Stream!vars, StreamAhead

\* The byte of the count is the first of those ahead.
LEMMA Played ==
  ASSUME NEW n \in 0 .. WordBytes - 1, StreamPlayed = n, StreamPlayed' = n + 1,
         StreamByte' = IF backward THEN WordBytes - 1 - n ELSE n,
         backward \in BOOLEAN, backward' = backward, StreamWord' = StreamWord
  PROVE  Stream!PlayByte
<1>. USE Constants
<1>1. CASE backward
  <2>1. StreamAhead = 0 .. WordBytes - 1 - n /\ StreamAhead' = 0 .. WordBytes - 2 - n
    BY <1>1 DEF StreamAhead
  <2>2. /\ WordBytes - 1 - n \in StreamAhead
        /\ \A c \in StreamAhead : c <= WordBytes - 1 - n
        /\ StreamAhead' = StreamAhead \ {WordBytes - 1 - n}
    BY <2>1
  <2>. QED  BY <1>1, <2>2 DEF Stream!PlayByte
<1>2. CASE ~backward
  <2>1. StreamAhead = n .. WordBytes - 1 /\ StreamAhead' = n + 1 .. WordBytes - 1
    BY <1>2 DEF StreamAhead
  <2>2. /\ n \in StreamAhead
        /\ \A c \in StreamAhead : n <= c
        /\ StreamAhead' = StreamAhead \ {n}
    BY <2>1
  <2>. QED  BY <1>2, <2>2 DEF Stream!PlayByte
<1>. QED  BY <1>1, <1>2

\* Turning the direction under the same count mirrors what is ahead.
LEMMA Turned ==
  ASSUME StreamPlayed \in 0 .. WordBytes, StreamPlayed' = StreamPlayed,
         backward \in BOOLEAN, backward' = ~backward
  PROVE  StreamAhead' = Stream!Mirror(StreamAhead)
<1>. USE Constants DEF StreamAhead, Stream!Mirror
<1>. DEFINE front == StreamPlayed .. WordBytes - 1
            back == 0 .. WordBytes - 1 - StreamPlayed
            at(b) == WordBytes - 1 - b
<1>1. \A b \in front : at(b) \in back /\ b = at(at(b))
  OBVIOUS
<1>2. \A b \in back : at(b) \in front /\ b = at(at(b))
  OBVIOUS
<1>. HIDE DEF front, back, at
<1>3. {at(b) : b \in front} = back /\ {at(b) : b \in back} = front
  BY <1>1, <1>2, Zenon
<1>4. CASE backward
  <2>1. StreamAhead = back /\ StreamAhead' = front
    BY <1>4 DEF front, back
  <2>. QED  BY <1>3, <2>1 DEF at
<1>5. CASE ~backward
  <2>1. StreamAhead = front /\ StreamAhead' = back
    BY <1>5 DEF front, back
  <2>. QED  BY <1>3, <2>1 DEF at
<1>. QED  BY <1>4, <1>5

LEMMA TickStreams ==
  ASSUME Base, Tick
  PROVE  StreamSteps
<1>1. /\ count \in 0 .. WordBytes /\ addr \in 0 .. LastWord /\ Counting /\ PlTick
      /\ sample \in Samples /\ backward \in BOOLEAN /\ backward' = backward
  BY DEF Base, TypeOK, Words, Tick, Samples
<1>. USE Constants
<1>2. CASE PlIdleReset
  <2>1. pl = "idle_reset" /\ pl' = "idle" /\ addr' = LastWord /\ count' = 0 /\ sample'.byte = 0
    BY <1>2 DEF PlIdleReset
  <2>. QED  BY <1>1, <2>1, Stutters DEF StreamWord, StreamPlayed, StreamByte
<1>3. CASE PlIdle
  BY <1>1, <1>3, Stutters DEF PlIdle, StreamWord, StreamPlayed, StreamByte
<1>4. CASE PlStartFlash
  BY <1>1, <1>4, Stutters DEF PlStartFlash, StreamWord, StreamPlayed, StreamByte
<1>5. CASE PlGetData
  <2>1. pl = "get_data" /\ addr' = addr /\ sample' = sample /\ count \in Nat /\ (count + 1) % 8 = count + 1
    BY <1>1, <1>5 DEF PlGetData, Counting
  <2>2. (pl' = "play_data" /\ count' = (count + 1) % 8) \/ (pl' = pl /\ count' = count)
    BY <1>5, Zenon DEF PlGetData
  <2>. QED  BY <1>1, <2>1, <2>2, Stutters DEF StreamWord, StreamPlayed, StreamByte
<1>6. CASE PlPlayData
  <2>1. /\ pl = "play_data" /\ pl' = "interrupt" /\ addr' = addr /\ count' = count
        /\ sample'.byte = IF backward THEN WordBytes - count ELSE count - 1
        /\ count \in 1 .. WordBytes
    BY <1>1, <1>6 DEF PlPlayData, Counting
  <2>2. /\ StreamWord' = StreamWord
        /\ StreamPlayed = count - 1 /\ StreamPlayed' = StreamPlayed + 1
        /\ StreamByte' = IF backward THEN WordBytes - 1 - StreamPlayed ELSE StreamPlayed
    BY <2>1 DEF StreamWord, StreamPlayed, StreamByte
  <2>3. StreamPlayed \in 0 .. WordBytes - 1
    BY <2>1, <2>2
  <2>4. Stream!PlayByte
    BY <1>1, <2>2, <2>3, Played
  <2>. QED  BY <2>4 DEF StreamSteps, Stream!Next
<1>7. CASE PlInterrupt
  BY <1>1, <1>7, Stutters DEF PlInterrupt, StreamWord, StreamPlayed, StreamByte
<1>8. CASE PlAddrUpdate
  <2>1. /\ pl = "addr_update" /\ pl' = IF backward THEN "decrement" ELSE "increment"
        /\ count = WordBytes /\ count' = 0 /\ addr' = addr /\ sample' = sample
    BY <1>1, <1>8 DEF PlAddrUpdate, Counting
  <2>2. /\ StreamPlayed = WordBytes /\ StreamPlayed' = 0 /\ StreamByte' = StreamByte
        /\ StreamWord = addr
    BY <2>1 DEF StreamWord, StreamPlayed, StreamByte
  <2>3. StreamWord' = IF backward THEN Stream!Before(addr) ELSE Stream!After(addr)
    <3>1. CASE backward
      BY <1>1, <2>1, <3>1 DEF StreamWord, Stream!Before
    <3>2. CASE ~backward
      BY <1>1, <2>1, <3>2 DEF StreamWord, Stream!After
    <3>. QED  BY <3>1, <3>2
  <2>4. StreamAhead = {} /\ StreamAhead' = Stream!Places
    BY <1>1, <2>2 DEF StreamAhead, Stream!Places
  <2>5. Stream!NextWord
    BY <1>1, <2>2, <2>3, <2>4 DEF Stream!NextWord
  <2>. QED  BY <2>5 DEF StreamSteps, Stream!Next
<1>9. CASE PlIncrement
  BY <1>1, <1>9, Stutters DEF PlIncrement, StreamWord, StreamPlayed, StreamByte, Counting
<1>10. CASE PlDecrement
  BY <1>1, <1>10, Stutters DEF PlDecrement, StreamWord, StreamPlayed, StreamByte, Counting
<1>11. CASE PlFinish
  BY <1>1, <1>11, Stutters DEF PlFinish, StreamWord, StreamPlayed, StreamByte
<1>. QED  BY <1>1, <1>2, <1>3, <1>4, <1>5, <1>6, <1>7, <1>8, <1>9, <1>10, <1>11 DEF PlTick

LEMMA NextStreams == Base /\ [Next]_vars => StreamSteps
<1>. SUFFICES ASSUME Base, [Next]_vars PROVE StreamSteps
  OBVIOUS
<1>1. CASE Tick
  BY <1>1, TickStreams
<1>2. CASE Key
  <2>1. UNCHANGED <<pl, count, addr, sample>>
    BY <1>2 DEF Key
  <2>2. StreamWord' = StreamWord /\ StreamPlayed' = StreamPlayed /\ StreamByte' = StreamByte
    BY <2>1 DEF StreamWord, StreamPlayed, StreamByte
  <2>3. CASE backward' = backward
    BY <2>2, <2>3, Stutters
  <2>4. CASE backward' = ~backward
    <3>1. StreamPlayed \in 0 .. WordBytes
      BY Constants DEF Base, TypeOK, Counting, StreamPlayed
    <3>2. StreamAhead' = Stream!Mirror(StreamAhead)
      BY <2>2, <2>4, <3>1, Turned DEF Base, TypeOK
    <3>. QED  BY <2>2, <2>4, <3>2 DEF StreamSteps, Stream!Next, Stream!Turn
  <2>. QED  BY <1>2, <2>3, <2>4 DEF Key
<1>3. CASE Reset
  <2>1. pl' = "idle_reset" /\ backward' = backward
    BY <1>3 DEF Reset
  <2>2. StreamWord' = LastWord /\ StreamPlayed' = 0 /\ StreamByte' = 0
    BY <2>1 DEF StreamWord, StreamPlayed, StreamByte
  <2>3. StreamAhead' = Stream!Places
    BY <2>2, Constants DEF StreamAhead, Stream!Places
  <2>. QED  BY <2>1, <2>2, <2>3 DEF StreamSteps, Stream!Next, Stream!Restart
<1>4. CASE UNCHANGED vars
  BY <1>4, Stutters DEF vars, StreamWord, StreamPlayed, StreamByte
<1>. QED  BY <1>1, <1>2, <1>3, <1>4 DEF Next

\* However the flash and the audio clock behave, and whatever keys are pressed when,
\* the player's steps are AudioStream's: in the order of the direction the bytes still
\* to come of a word, each once unless the direction turns within it, then the
\* neighbouring word's; and a turn replaces those to come by their mirror images.
THEOREM Streams == Spec => ImplementsStream
<1>1. Spec => []Base
  BY InitBase, BaseKept, PTL DEF Spec
<1>2. Init => Stream!Init
  BY StreamStart
<1>3. Base /\ [Next]_vars => [Stream!Next]_(Stream!vars)
  BY NextStreams DEF StreamSteps
<1>. QED  BY <1>1, <1>2, <1>3, PTL DEF Spec, ImplementsStream, Stream!Spec

-----------------------------------------------------------------------------
(***************************************************************************)
(* What holds if the pulses are far enough apart.  A cycle, by the states  *)
(* of the player and the reader.                                           *)
(***************************************************************************)

LEMMA CycleFacts ==
  ASSUME Unhurried, IInv, Tick
  PROVE  /\ WordBytes \in Nat /\ WordBytes >= 2
         /\ MaxWait \in Nat /\ MaxLatency \in Nat
         /\ PulseGap \in Nat /\ PulseGap >= MaxWait + MaxLatency + 13
         /\ NoWord \notin Words
         /\ phase \in Nat /\ phase <= PulseGap /\ phase' \in Nat
         /\ phase < PulseGap => phase' = phase + 1
         /\ phase = PulseGap => phase' \in {0, PulseGap}
         /\ count \in Nat /\ count <= WordBytes /\ count' \in Nat /\ count' <= WordBytes
         /\ addr \in Words /\ addr' \in Words
         /\ flash.job \in Words \cup {NoWord} /\ flash.timer \in Nat
         /\ flash'.job \in Words \cup {NoWord} /\ flash'.timer \in Nat
         /\ rd \in RdStates /\ pl \in PlStates
         /\ RdTick /\ PlTick /\ FlashTick /\ HistoryTick
<1>1. TypeOK /\ Base /\ Base' /\ AudioTick /\ RdTick /\ PlTick /\ FlashTick /\ HistoryTick
  BY BaseKept DEF IInv, Base, Next, Tick
<1>2. TypeOK'
  BY <1>1 DEF Base
<1>. QED  BY <1>1, <1>2, PhaseMoves, Constants DEF Unhurried, TypeOK

LEMMA LateMoves ==
  ASSUME HistoryTick
  PROVE  /\ late /\ pl # "addr_update" => late'
         /\ pl = "addr_update" => ~late'
         /\ ~late /\ pl # "idle" => ~late'
         /\ pl = "idle" /\ ~play => late'
  BY Zenon DEF HistoryTick

LEMMA ControllerKept ==
  ASSUME Unhurried, IInv, Tick
  PROVE  Controller'
<1>1. TypeOK /\ FlashTick /\ Controller
  BY DEF IInv, Base, Tick
<1>. QED  BY <1>1, CycleFacts, FlashMoves DEF Controller, Accepted

\* While the reader is idle the controller takes no new read.
LEMMA ServedMoves ==
  ASSUME Unhurried, IInv, Tick, ~Accepted
  PROVE  \/ /\ flash.job # NoWord /\ flash.timer < MaxLatency
            /\ flash'.job = flash.job /\ flash'.timer = flash.timer + 1 /\ flash'.data = flash.data
         \/ flash.job # NoWord /\ flash'.job = NoWord /\ flash'.data = flash.job
         \/ flash.job = NoWord /\ flash'.job = NoWord /\ flash'.data = flash.data
<1>1. TypeOK /\ FlashTick
  BY DEF IInv, Base, Tick
<1>. QED  BY <1>1, FlashMoves

LEMMA ReaderIdle ==
  ASSUME Unhurried, IInv, Tick, pl # "start_flash"
  PROVE  rd = "idle" /\ rd' = "idle" /\ ~Accepted
<1>1. TypeOK /\ RdTick /\ Asking
  BY DEF IInv, Base, Tick
<1>. QED  BY <1>1, RdMoves DEF Asking, Accepted, FlagRead

Kept == Fetch' /\ Rhythm' /\ Stride'

LEMMA IdleResetKept ==
  ASSUME Unhurried, IInv, Tick, pl = "idle_reset"
  PROVE  Kept
<1>1. late' /\ rd' = "idle"
  BY CycleFacts, LateMoves, ReaderIdle DEF IInv, Rhythm
<1>2. pl' = "idle"
  BY CycleFacts DEF PlTick, PlIdleReset, PlIdle, PlStartFlash, PlGetData, PlPlayData, PlInterrupt,
                    PlAddrUpdate, PlIncrement, PlDecrement, PlFinish
<1>. QED  BY <1>1, <1>2 DEF Kept, Fetch, Rhythm, Stride, Playing

LEMMA IdleKept ==
  ASSUME Unhurried, IInv, Tick, pl = "idle"
  PROVE  Kept
<1>1. /\ pl' = IF play THEN "start_flash" ELSE "idle"
      /\ addr' = addr /\ count' = count
  BY CycleFacts DEF PlTick, PlIdleReset, PlIdle, PlStartFlash, PlGetData, PlPlayData, PlInterrupt,
                    PlAddrUpdate, PlIncrement, PlDecrement, PlFinish
<1>2. rd' = "idle" /\ ~Accepted
  BY ReaderIdle
<1>3. CASE play
  <2>1. pl' = "start_flash"
    BY <1>1, <1>3
  <2>2. ~late' => ~late
    BY CycleFacts, LateMoves
  <2>3. ~late' => phase' = 7 /\ flash'.job = NoWord
    BY <2>2, CycleFacts, ServedMoves, <1>2 DEF IInv, Rhythm, Fetch
  <2>. QED  BY <1>2, <2>1, <2>3 DEF Kept, Fetch, Rhythm, Stride, Playing
<1>4. CASE ~play
  <2>1. late' /\ pl' = "idle"
    BY <1>1, <1>4, CycleFacts, LateMoves
  <2>. QED  BY <1>2, <2>1 DEF Kept, Fetch, Rhythm, Stride, Playing
<1>. QED  BY <1>3, <1>4

LEMMA GetDataKept ==
  ASSUME Unhurried, IInv, Tick, pl = "get_data"
  PROVE  Kept
<1>1. /\ addr' = addr
      /\ phase < 2 => pl' = "play_data" /\ count' = (count + 1) % 8
      /\ ~(phase < 2) => pl' = pl /\ count' = count
  BY CycleFacts, Zenon DEF PlTick, PlIdleReset, PlIdle, PlStartFlash, PlGetData, PlPlayData, PlInterrupt,
                    PlAddrUpdate, PlIncrement, PlDecrement, PlFinish, AudioInclk
<1>2. (count + 1) % 8 = count + 1
  BY CycleFacts, Constants DEF IInv, Base, Counting
<1>3. rd' = "idle" /\ ~Accepted
  BY ReaderIdle
<1>4. Fetch /\ Rhythm /\ Stride /\ Controller /\ (~late' => ~late)
  BY CycleFacts, LateMoves DEF IInv
<1>5. CASE phase < 2
  <2>1. pl' = "play_data" /\ count' = count + 1 /\ phase' = phase + 1
    BY <1>1, <1>2, <1>5, CycleFacts
  <2>2. count >= 1 => phase = 0
    BY <1>4, <1>5, CycleFacts DEF Rhythm
  <2>3. CASE count = 0
    <3>1. Here \/ (Coming /\ flash.timer >= 2)
      BY <1>4, <2>3 DEF Fetch
    <3>2. Here' \/ (Coming' /\ phase' <= flash'.timer)
      BY <1>1, <1>3, <1>5, <2>1, <3>1, CycleFacts, ServedMoves DEF Here, Coming
    <3>3. ~late => Fresh
      BY <1>4, <1>5, <2>3, CycleFacts DEF Stride
    <3>4. ~late' => Fresh'
      BY <1>1, <1>3, <1>4, <3>1, <3>3, ServedMoves, CycleFacts DEF Fresh, Here, Coming
    <3>. QED  BY <1>3, <1>5, <2>1, <2>3, <3>2, <3>4, CycleFacts DEF Kept, Fetch, Rhythm, Stride, Playing
  <2>4. CASE count >= 1
    <3>1. Here
      BY <1>4, <2>2, <2>4, CycleFacts DEF Fetch, Playing
    <3>2. Here' /\ Fresh'
      BY <1>1, <1>3, <3>1, CycleFacts, ServedMoves DEF Here, Fresh
    <3>. QED  BY <1>3, <2>1, <2>2, <2>4, <3>2, CycleFacts DEF Kept, Fetch, Rhythm, Stride, Playing
  <2>. QED  BY <2>3, <2>4, CycleFacts
<1>6. CASE ~(phase < 2)
  <2>1. pl' = "get_data" /\ count' = count
    BY <1>1, <1>6
  <2>2. CASE count = 0
    <3>1. Here \/ (Coming /\ flash.timer >= 2)
      BY <1>4, <2>2 DEF Fetch
    <3>2. Here' \/ (Coming' /\ flash'.timer >= 2)
      BY <1>1, <1>3, <3>1, CycleFacts, ServedMoves DEF Here, Coming
    <3>3. ~late => Fresh \/ (phase >= 10 /\ phase <= flash.timer + MaxWait + 10)
      BY <1>4, <2>2 DEF Stride
    <3>4. flash.job # NoWord => flash.timer <= MaxLatency
      BY <1>4 DEF Controller
    <3>5. ~late => Fresh' \/ (phase' >= 10 /\ phase' <= flash'.timer + MaxWait + 10)
      BY <1>1, <1>3, <3>1, <3>3, <3>4, CycleFacts, ServedMoves DEF Here, Coming, Fresh
    <3>. QED  BY <1>3, <1>4, <2>1, <2>2, <3>2, <3>5, CycleFacts DEF Kept, Fetch, Rhythm, Stride, Playing
  <2>3. CASE count >= 1
    <3>1. phase >= 3 /\ (phase' = 0 \/ phase' >= 3)
      BY <1>4, <1>6, <2>3, CycleFacts DEF Rhythm
    <3>2. CASE count = 1
      <4>1. Here \/ (Coming /\ phase <= flash.timer)
        BY <1>4, <3>2 DEF Fetch, Playing
      <4>2. flash.job # NoWord => flash.timer <= MaxLatency
        BY <1>4 DEF Controller
      <4>3. Here' \/ (Coming' /\ phase' >= 1 /\ phase' <= flash'.timer)
        BY <1>1, <1>3, <3>1, <4>1, <4>2, CycleFacts, ServedMoves DEF Here, Coming
      <4>. QED  BY <1>3, <2>1, <3>1, <3>2, <4>3, CycleFacts DEF Kept, Fetch, Rhythm, Stride, Playing
    <3>3. CASE count >= 2
      <4>1. Here
        BY <1>4, <3>3 DEF Fetch, Playing
      <4>2. Here'
        BY <1>1, <1>3, <4>1, CycleFacts, ServedMoves DEF Here
      <4>. QED  BY <1>3, <2>1, <3>1, <3>3, <4>2, CycleFacts DEF Kept, Fetch, Rhythm, Stride, Playing
    <3>. QED  BY <2>3, <3>2, <3>3, CycleFacts
  <2>. QED  BY <2>2, <2>3, CycleFacts
<1>. QED  BY <1>5, <1>6

LEMMA PlayDataKept ==
  ASSUME Unhurried, IInv, Tick, pl = "play_data"
  PROVE  Kept
<1>1. pl' = "interrupt" /\ addr' = addr /\ count' = count
  BY CycleFacts DEF PlTick, PlIdleReset, PlIdle, PlStartFlash, PlGetData, PlPlayData, PlInterrupt,
                    PlAddrUpdate, PlIncrement, PlDecrement, PlFinish
<1>2. rd' = "idle" /\ ~Accepted
  BY ReaderIdle
<1>3. Fetch /\ Rhythm /\ Stride /\ Counting /\ (~late' => ~late)
  BY CycleFacts, LateMoves DEF IInv, Base
<1>4. count >= 1 /\ (phase = 1 \/ (count = 1 /\ phase = 2)) /\ phase' = phase + 1
  BY <1>3, CycleFacts DEF Counting, Rhythm
<1>5. ~late => Fresh
  BY <1>3 DEF Stride
<1>6. CASE count = 1
  <2>1. Here \/ (Coming /\ phase >= 1 /\ phase <= flash.timer)
    BY <1>3, <1>6 DEF Fetch, Playing
  <2>2. Here' \/ (Coming' /\ phase' >= 1 /\ phase' <= flash'.timer)
    BY <1>1, <1>2, <1>4, <2>1, CycleFacts, ServedMoves DEF Here, Coming
  <2>3. ~late' => Fresh'
    BY <1>1, <1>2, <1>3, <1>5, <2>1, CycleFacts, ServedMoves DEF Here, Coming, Fresh
  <2>. QED  BY <1>1, <1>2, <1>4, <1>6, <2>2, <2>3, CycleFacts DEF Kept, Fetch, Rhythm, Stride, Playing
<1>7. CASE count >= 2
  <2>1. Here
    BY <1>3, <1>7 DEF Fetch, Playing
  <2>2. Here' /\ Fresh'
    BY <1>1, <1>2, <2>1, CycleFacts, ServedMoves DEF Here, Fresh
  <2>. QED  BY <1>1, <1>2, <1>4, <1>7, <2>2, CycleFacts DEF Kept, Fetch, Rhythm, Stride, Playing
<1>. QED  BY <1>4, <1>6, <1>7, CycleFacts

LEMMA InterruptKept ==
  ASSUME Unhurried, IInv, Tick, pl = "interrupt"
  PROVE  Kept
<1>1. /\ addr' = addr /\ count' = count
      /\ phase >= 2 => pl' = IF count < WordBytes THEN "get_data" ELSE "addr_update"
  BY CycleFacts DEF PlTick, PlIdleReset, PlIdle, PlStartFlash, PlGetData, PlPlayData, PlInterrupt,
                    PlAddrUpdate, PlIncrement, PlDecrement, PlFinish, AudioInclk
<1>2. rd' = "idle" /\ ~Accepted
  BY ReaderIdle
<1>3. Fetch /\ Rhythm /\ Counting
  BY DEF IInv, Base
<1>4. count >= 1 /\ (phase = 2 \/ (count = 1 /\ phase = 3)) /\ phase' = phase + 1
  BY <1>3, CycleFacts DEF Counting, Rhythm
<1>5. pl' = IF count < WordBytes THEN "get_data" ELSE "addr_update"
  BY <1>1, <1>4
<1>6. CASE count = 1
  <2>1. Here \/ (Coming /\ phase >= 1 /\ phase <= flash.timer)
    BY <1>3, <1>6 DEF Fetch, Playing
  <2>2. Here' \/ (Coming' /\ phase' >= 1 /\ phase' <= flash'.timer)
    BY <1>1, <1>2, <1>4, <2>1, CycleFacts, ServedMoves DEF Here, Coming
  <2>3. pl' = "get_data"
    BY <1>5, <1>6, CycleFacts
  <2>. QED  BY <1>1, <1>2, <1>4, <1>6, <2>2, <2>3, CycleFacts DEF Kept, Fetch, Rhythm, Stride, Playing
<1>7. CASE count >= 2
  <2>1. Here
    BY <1>3, <1>7 DEF Fetch, Playing
  <2>2. Here'
    BY <1>1, <1>2, <2>1, CycleFacts, ServedMoves DEF Here
  <2>3. phase' = 3
    BY <1>4, <1>7, CycleFacts
  <2>. QED  BY <1>1, <1>2, <1>5, <1>7, <2>2, <2>3, CycleFacts DEF Kept, Fetch, Rhythm, Stride, Playing
<1>. QED  BY <1>4, <1>6, <1>7, CycleFacts

\* The word after the last byte: four cycles in which nothing is asked for.
LEMMA AddrUpdateKept ==
  ASSUME Unhurried, IInv, Tick, pl = "addr_update"
  PROVE  Kept
<1>1. pl' \in {"increment", "decrement"} /\ count' = 0
  BY CycleFacts DEF PlTick, PlIdleReset, PlIdle, PlStartFlash, PlGetData, PlPlayData, PlInterrupt,
                    PlAddrUpdate, PlIncrement, PlDecrement, PlFinish
<1>2. rd' = "idle" /\ ~Accepted /\ ~late'
  BY ReaderIdle, CycleFacts, LateMoves
<1>3. phase = 3 /\ flash.job = NoWord
  BY DEF IInv, Fetch, Rhythm, Here
<1>4. phase' = 4 /\ flash'.job = NoWord
  BY <1>2, <1>3, CycleFacts, ServedMoves
<1>. QED  BY <1>1, <1>2, <1>4 DEF Kept, Fetch, Rhythm, Stride, Playing

LEMMA StepKept ==
  ASSUME Unhurried, IInv, Tick, pl \in {"increment", "decrement", "finish"}
  PROVE  Kept
<1>1. /\ pl' = IF pl = "finish" THEN "idle" ELSE "finish"
      /\ count' = count
  BY CycleFacts DEF PlTick, PlIdleReset, PlIdle, PlStartFlash, PlGetData, PlPlayData, PlInterrupt,
                    PlAddrUpdate, PlIncrement, PlDecrement, PlFinish
<1>2. rd' = "idle" /\ ~Accepted
  BY ReaderIdle
<1>3. flash.job = NoWord /\ ~late /\ phase = IF pl = "finish" THEN 5 ELSE 4
  BY DEF IInv, Fetch, Rhythm
<1>4. flash'.job = NoWord /\ phase' = phase + 1
  BY <1>2, <1>3, CycleFacts, ServedMoves
<1>5. ~late'
  BY <1>3, CycleFacts, LateMoves
<1>6. CASE pl = "finish"
  <2>1. pl' = "idle" /\ phase' = 6
    BY <1>1, <1>3, <1>4, <1>6
  <2>. QED  BY <1>2, <1>4, <1>5, <2>1 DEF Kept, Fetch, Rhythm, Stride, Playing
<1>7. CASE pl # "finish"
  <2>1. pl' = "finish" /\ phase' = 5
    BY <1>1, <1>3, <1>4, <1>7
  <2>. QED  BY <1>2, <1>4, <1>5, <2>1 DEF Kept, Fetch, Rhythm, Stride, Playing
<1>. QED  BY <1>6, <1>7

LEMMA StartFlashKept ==
  ASSUME Unhurried, IInv, Tick, pl = "start_flash"
  PROVE  Kept
<1>1. /\ pl' = IF rd = "finish" THEN "get_data" ELSE "start_flash"
      /\ addr' = addr /\ count' = count
  BY CycleFacts DEF PlTick, PlIdleReset, PlIdle, PlStartFlash, PlGetData, PlPlayData, PlInterrupt,
                    PlAddrUpdate, PlIncrement, PlDecrement, PlFinish, FlagReady
<1>2. TypeOK /\ FlashTick /\ RdTick /\ Fetch /\ Stride /\ Controller /\ (~late' => ~late)
  BY CycleFacts, LateMoves DEF IInv, Base
<1>3. count = 0 /\ count' = 0
  BY <1>1 DEF IInv, Base, Counting
<1>4. flash.job # NoWord => flash.wait /\ flash.timer <= MaxLatency
  BY <1>2 DEF Controller
<1>5. flash.job = NoWord => flash.timer <= MaxWait
  BY <1>2 DEF Controller
<1>6. CASE rd = "idle"
  <2>1. rd' = "check_read" /\ pl' = "start_flash" /\ ~Accepted
    BY <1>1, <1>2, <1>6, RdMoves DEF Accepted, FlagRead
  <2>2. ~late' => phase' = 8 /\ flash'.job = NoWord
    BY <1>2, <1>6, <2>1, CycleFacts, ServedMoves DEF Stride
  <2>. QED  BY <2>1, <2>2 DEF Kept, Fetch, Rhythm, Stride, Playing
<1>7. CASE rd = "check_read"
  <2>1. rd' = "check_waitrequest" /\ pl' = "start_flash" /\ (Accepted <=> ~flash.wait)
    BY <1>1, <1>2, <1>7, RdMoves DEF Accepted, FlagRead
  <2>2. ASSUME ~late PROVE phase' = 9 /\ Waiting'
    <3>1. phase = 8 /\ flash.job = NoWord
      BY <1>2, <1>7, <2>2 DEF Stride
    <3>2. phase' = 9
      BY <3>1, CycleFacts
    <3>. QED  BY <1>1, <1>2, <3>1, <3>2, CycleFacts, FlashMoves DEF Waiting, Coming
  <2>. QED  BY <1>2, <2>1, <2>2 DEF Kept, Fetch, Rhythm, Stride, Playing
<1>8. CASE rd = "check_waitrequest"
  <2>1. CASE flash.wait
    <3>1. rd' = "check_waitrequest" /\ pl' = "start_flash" /\ ~Accepted
      BY <1>1, <1>2, <1>8, <2>1, RdMoves DEF Accepted
    <3>2. ASSUME ~late PROVE phase' >= 9 /\ Waiting'
      <4>1. phase >= 9 /\ Waiting
        BY <1>2, <1>8, <3>2 DEF Stride
      <4>2. \/ Coming /\ phase <= flash.timer + 9
            \/ Here /\ phase <= flash.timer + MaxLatency + 10
            \/ flash.job = NoWord /\ phase <= flash.timer + 8
        BY <2>1, <4>1 DEF Waiting
      <4>3. phase' = phase + 1
        BY <1>4, <1>5, <4>2, CycleFacts DEF Coming, Here
      <4>4. CASE Coming /\ phase <= flash.timer + 9
        <5>1. flash.job # NoWord /\ flash.timer <= MaxLatency
          BY <1>4, <4>4, CycleFacts DEF Coming
        <5>2. \/ flash'.job = addr /\ flash'.timer = flash.timer + 1
              \/ flash'.job = NoWord /\ flash'.timer = 0 /\ flash'.data = addr
          BY <1>2, <3>1, <4>4, <5>1, CycleFacts, FlashMoves DEF Coming
        <5>. QED  BY <1>1, <4>1, <4>3, <4>4, <5>1, <5>2, CycleFacts DEF Waiting, Coming, Here
      <4>5. CASE Here /\ phase <= flash.timer + MaxLatency + 10
        <5>1. /\ flash'.job = NoWord /\ flash'.data = addr
              /\ \/ flash'.timer = flash.timer + 1 /\ flash'.wait
                 \/ ~flash'.wait
          BY <1>2, <3>1, <4>5, CycleFacts, FlashMoves DEF Here
        <5>. QED  BY <1>1, <1>5, <4>1, <4>3, <4>5, <5>1, CycleFacts DEF Waiting, Here
      <4>6. CASE flash.job = NoWord /\ phase <= flash.timer + 8
        <5>1. /\ flash'.job = NoWord
              /\ \/ flash'.timer = flash.timer + 1 /\ flash'.wait
                 \/ ~flash'.wait
          BY <1>2, <3>1, <4>6, CycleFacts, FlashMoves
        <5>. QED  BY <1>1, <1>5, <4>1, <4>3, <4>6, <5>1, CycleFacts DEF Waiting
      <4>. QED  BY <4>2, <4>4, <4>5, <4>6
    <3>. QED  BY <1>2, <3>1, <3>2 DEF Kept, Fetch, Rhythm, Stride, Playing
  <2>2. CASE ~flash.wait
    <3>1. rd' = "check_validdata" /\ pl' = "start_flash" /\ Accepted /\ flash.job = NoWord
      BY <1>1, <1>2, <1>4, <1>8, <2>2, RdMoves DEF Accepted, FlagRead
    <3>2. flash'.job = addr /\ flash'.timer = 0 /\ flash'.data = flash.data /\ ~flash'.valid
      BY <1>2, <3>1, FlashMoves
    <3>3. ASSUME ~late
          PROVE  /\ phase' >= 10 /\ phase' <= MaxWait + MaxLatency + 12
                 /\ Fresh' \/ (phase' >= 10 /\ phase' <= flash'.timer + MaxWait + 10)
      <4>1. phase >= 9 /\ Waiting
        BY <1>2, <1>8, <3>3 DEF Stride
      <4>2. \/ Here /\ phase <= MaxWait + MaxLatency + 11
            \/ phase <= MaxWait + 9
        BY <2>2, <3>1, <4>1, CycleFacts DEF Waiting, Coming
      <4>3. phase' = phase + 1
        BY <4>2, CycleFacts
      <4>. QED  BY <1>1, <3>2, <4>1, <4>2, <4>3, CycleFacts DEF Here, Fresh
    <3>. QED  BY <1>1, <1>2, <3>1, <3>2, <3>3 DEF Kept, Fetch, Rhythm, Stride, Playing, Coming
  <2>. QED  BY <2>1, <2>2
<1>9. CASE rd = "check_validdata"
  <2>1. Coming /\ flash.timer = 0 /\ ~flash.valid
    BY <1>2, <1>9 DEF Fetch
  <2>2. flash.job # NoWord /\ flash.wait
    BY <1>4, <2>1, CycleFacts DEF Coming
  <2>3. rd' = "finish" /\ pl' = "start_flash" /\ ~Accepted
    BY <1>1, <1>2, <1>9, <2>1, <2>2, RdMoves DEF Accepted
  <2>4. Here' \/ (Coming' /\ flash'.timer = 1 /\ flash'.data = flash.data)
    BY <1>1, <2>1, <2>2, <2>3, CycleFacts, ServedMoves DEF Here, Coming
  <2>5. ASSUME ~late
        PROVE  /\ phase' >= 10 /\ phase' <= MaxWait + MaxLatency + 13
               /\ Fresh' \/ (phase' >= 10 /\ phase' <= flash'.timer + MaxWait + 10)
    <3>1. /\ phase >= 10 /\ phase <= MaxWait + MaxLatency + 12
          /\ Fresh \/ (phase >= 10 /\ phase <= flash.timer + MaxWait + 10)
      BY <1>2, <1>9, <2>5 DEF Stride
    <3>2. phase' = phase + 1
      BY <3>1, CycleFacts
    <3>. QED  BY <1>1, <2>1, <2>4, <3>1, <3>2, CycleFacts DEF Here, Fresh
  <2>. QED  BY <1>2, <2>3, <2>4, <2>5 DEF Kept, Fetch, Rhythm, Stride, Playing
<1>10. CASE rd = "finish"
  <2>1. Here \/ (Coming /\ flash.timer = 1)
    BY <1>2, <1>10 DEF Fetch
  <2>2. rd' = "idle" /\ pl' = "get_data" /\ ~Accepted
    BY <1>1, <1>2, <1>10, RdMoves DEF Accepted, FlagRead
  <2>3. Here' \/ (Coming' /\ flash'.timer = flash.timer + 1 /\ flash.timer = 1 /\ flash'.data = flash.data)
    BY <1>1, <2>1, <2>2, CycleFacts, ServedMoves DEF Here, Coming
  <2>4. ASSUME ~late
        PROVE  Fresh' \/ (phase' >= 10 /\ phase' <= flash'.timer + MaxWait + 10)
    <3>1. Fresh \/ (phase >= 10 /\ phase <= flash.timer + MaxWait + 10)
      BY <1>2, <1>10, <2>4 DEF Stride
    <3>. QED  BY <1>1, <2>1, <2>3, <3>1, CycleFacts DEF Here, Coming, Fresh
  <2>. QED  BY <1>2, <1>3, <2>2, <2>3, <2>4 DEF Kept, Fetch, Rhythm, Stride, Playing
<1>. QED  BY <1>6, <1>7, <1>8, <1>9, <1>10, CycleFacts DEF RdStates

-----------------------------------------------------------------------------
LEMMA InitIInv == Init => IInv
<1>. SUFFICES ASSUME Init PROVE IInv
  OBVIOUS
<1>1. rd = "idle" /\ pl = "idle_reset" /\ late /\ flash.job = NoWord /\ flash.timer = 0
  BY DEF Init
<1>. QED  BY <1>1, InitBase, Constants DEF IInv, Controller, Fetch, Rhythm, Stride, Playing

LEMMA NextKept ==
  ASSUME Unhurried
  PROVE  IInv /\ [Next]_vars => IInv'
<1>. SUFFICES ASSUME IInv, [Next]_vars PROVE IInv'
  OBVIOUS
<1>1. Base'
  BY BaseKept DEF IInv
<1>2. CASE Tick
  <2>1. pl \in PlStates
    BY <1>2, CycleFacts
  <2>2. Kept
    BY <1>2, <2>1, IdleResetKept, IdleKept, StartFlashKept, GetDataKept, PlayDataKept, InterruptKept,
       AddrUpdateKept, StepKept DEF PlStates
  <2>. QED  BY <1>1, <1>2, <2>2, ControllerKept DEF IInv, Kept
<1>3. CASE Key
  <2>1. UNCHANGED <<rd, pl, count, addr, flash, phase, late>>
    BY <1>3 DEF Key
  <2>. QED  BY <1>1, <2>1 DEF IInv, Controller, Fetch, Rhythm, Stride, Waiting, Playing, Here, Coming, Fresh
<1>4. CASE Reset
  <2>1. rd' = "idle" /\ pl' = "idle_reset" /\ late' /\ flash' = flash
    BY <1>4 DEF Reset
  <2>. QED  BY <1>1, <2>1 DEF IInv, Controller, Fetch, Rhythm, Stride, Playing
<1>5. CASE UNCHANGED vars
  BY <1>1, <1>5 DEF vars, IInv, Controller, Fetch, Rhythm, Stride, Waiting, Playing, Here, Coming, Fresh
<1>. QED  BY <1>2, <1>3, <1>4, <1>5 DEF Next

THEOREM Invariance ==
  ASSUME Unhurried
  PROVE  Spec => []IInv
<1>1. IInv /\ [Next]_vars => IInv'
  BY NextKept
<1>. QED  BY <1>1, InitIInv, PTL DEF Spec

\* In stride the player (my_fsm_addr_gen.sv:54) is waiting for every audio pulse when it
\* comes, also when it has fetched a word since the last one, and fetched it twice.
THEOREM Pulses ==
  ASSUME Unhurried
  PROVE  Spec => []NoPulseMissed
<1>1. IInv => NoPulseMissed
  BY Constants DEF IInv, Base, TypeOK, PlStates, RdStates, Asking, Rhythm, Stride, NoPulseMissed
<1>. QED  BY <1>1, Invariance, PTL

\* Although the reader goes on when readdatavalid is low (my_fsm_read_flash.sv:45), every
\* byte comes from the word at the current address, but for the first one after a pause
\* or a reset.
THEOREM FreshBytes ==
  ASSUME Unhurried
  PROVE  Spec => FreshSample
<1>1. IInv /\ [Next]_vars =>
        [pl = "play_data" /\ pl' = "interrupt" => sample'.word = addr \/ (late /\ count = 1)]_vars
  <2>. SUFFICES ASSUME IInv, Next, pl = "play_data", pl' = "interrupt"
                PROVE  sample'.word = addr \/ (late /\ count = 1)
    BY DEF vars
  <2>1. Tick
    BY DEF Next, Key, Reset
  <2>2. sample'.word = flash.data
    BY <2>1, CycleFacts DEF PlTick, PlIdleReset, PlIdle, PlStartFlash, PlGetData, PlPlayData, PlInterrupt,
                            PlAddrUpdate, PlIncrement, PlDecrement, PlFinish
  <2>3. count = 1 \/ count >= 2
    BY <2>1, CycleFacts DEF IInv, Base, Counting
  <2>4. CASE count >= 2
    BY <2>2, <2>4 DEF IInv, Fetch, Playing, Here
  <2>5. CASE count = 1
    BY <2>2, <2>5 DEF IInv, Stride, Fresh
  <2>. QED  BY <2>3, <2>4, <2>5
<1>. QED  BY <1>1, Invariance, PTL DEF Spec, FreshSample

=============================================================================
