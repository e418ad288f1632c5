-------------------------- MODULE CrackCoreProofs --------------------------
(***************************************************************************)
(* Proofs about CrackCore, for memories and messages of every size, any    *)
(* keys and any number of resets at any moments.                           *)
(*                                                                         *)
(* First the control: the types, the four handshakes between orchestrator  *)
(* and machines, and who owns the buses.  Then the data: what the S memory *)
(* and the decrypted-message memory hold at every cycle of the four tasks, *)
(* hence that the core computes RC4 and judges each key by its plaintext.  *)
(* Last the refinement of SearchCore.                                      *)
(***************************************************************************)
EXTENDS CrackCore, TLAPS, WellFoundedInduction

-----------------------------------------------------------------------------
(***************************************************************************)
(* The parts of the inductive invariant.                                   *)
(***************************************************************************)

\* A task and the orchestrator meet in the states wait1 and wait2; first and
\* second are the task's states after idle, after1 and after2 where the
\* orchestrator is one and two cycles after it has seen the finish flag.
Task1 == [first |-> "check_finish", second |-> "smem_write",
          wait1 |-> "task1_wait_1", wait2 |-> "task1_wait_2",
          after1 |-> {"task2a_start"}, after2 |-> {"task2a_wait_1"}]
Task2a == [first |-> "init", second |-> "i_counter_check",
           wait1 |-> "task2a_wait_1", wait2 |-> "task2a_wait_2",
           after1 |-> {"task2b_start"}, after2 |-> {"task2b_wait_1"}]
Task2b == [first |-> "init", second |-> "check_k",
           wait1 |-> "task2b_wait_1", wait2 |-> "task2b_wait_2",
           after1 |-> {"task3_start"}, after2 |-> {"task3_wait_1"}]
Task3 == [first |-> "init", second |-> "i_counter_check",
          wait1 |-> "task3_wait_1", wait2 |-> "task3_wait_2",
          after1 |-> {"check_valid_data_counter"},
          after2 |-> {"finish", "finish_othercore", "secret_key_increment"}]

\* With the task's state `at' and finish counter cnt, the orchestrator's state s
\* and counter c, and the clock ck: the start flag is up until the task has seen
\* it, whatever a reset has left in the counter, and down before the task could
\* see it again; and the same of the finish flag.
Handshake(at, cnt, s, c, ck, h) ==
  /\ at \notin {"idle", "finish"} => s \in {h.wait1, h.wait2}
  /\ at = "finish" => \/ cnt = 0 /\ s = h.wait2
                      \/ cnt = 1 /\ s \in h.after1
                      \/ cnt = 2 /\ s \in h.after2
  /\ s = h.wait1 =>
       /\ at \in {"idle", h.first, h.second}
       /\ at = h.first => c \in IF ck = "low" THEN {1, 2} ELSE {0, 1}
       /\ at = h.second => c = IF ck = "low" THEN 2 ELSE 1
  /\ s = h.wait2 => at # "idle"

Meets1 == Handshake(t1.state, t1.counter, state, counter, clk, Task1)
Meets2a == Handshake(t2a.state, t2a.counter, state, counter, clk, Task2a)
Meets2b == Handshake(t2b.state, t2b.counter, state, counter, clk, Task2b)
Meets3 == Handshake(t3.state, t3.counter, state, counter, clk, Task3)

\* A task that has started has forgotten what a reset or its last run left behind.
Fresh1 ==
  /\ t1.state \notin {"idle", "finish"} => t1.counter = 0
  /\ state = "task1_wait_1" /\ t1.state = "check_finish" => ~t1.done
Fresh2a ==
  /\ t2a.state \notin {"idle", "init", "finish"} => t2a.counter = 0
  /\ state = "task2a_wait_1" /\ t2a.state = "i_counter_check" => ~t2a.done
Fresh2b ==
  /\ t2b.state \notin {"idle", "init", "finish"} => t2b.counter = 0
  /\ state = "task2b_wait_1" /\ t2b.state = "check_k" => ~t2b.done
Fresh3 ==
  /\ t3.state \notin {"idle", "init", "finish"} => t3.counter = 0
  /\ state = "task3_wait_1" /\ t3.state = "i_counter_check" => ~t3.done /\ ~t3.invalid

\* Between a falling and a rising edge the memories' inputs are the active task's.
BusesDriven ==
  clk = "low" =>
    /\ In1 => sBus = [addr |-> t1.addr, data |-> t1.data, wren |-> T1Wren]
    /\ In2a => sBus = [addr |-> t2a.addr, data |-> t2a.data, wren |-> T2aWren]
    /\ In2b => sBus = [addr |-> t2b.addr, data |-> t2b.data, wren |-> T2bWren]
    /\ In2b => dBus = [addr |-> t2b.outAddr, data |-> t2b.outData, wren |-> T2bOutWren]
    /\ In3 => dBus.addr = t3.addr

Control == /\ TypeOK /\ BusesDriven
           /\ Meets1 /\ Fresh1 /\ Meets2a /\ Fresh2a /\ Meets2b /\ Fresh2b /\ Meets3 /\ Fresh3

-----------------------------------------------------------------------------
(***************************************************************************)
(* The constants and the helpers.                                          *)
(***************************************************************************)

LEMMA Constants ==
  /\ Depth \in Nat /\ Depth >= 2
  /\ MsgLen \in Nat /\ MsgLen >= 1 /\ MsgLen < Depth
  /\ Xor \in [Byte \X Byte -> Byte] /\ ValidChars \subseteq Byte
  /\ Step \in Nat /\ Step >= 1 /\ FirstKey \in Nat /\ FirstKey < Step
  /\ KeyBound \in Nat /\ KeyBound + Step <= KeyWrap
  /\ Messages \subseteq [MsgIndex -> Byte] /\ PowerUp \in Byte /\ MaxResets \in Nat
  BY DepthAssumption, MsgLenAssumption, XorAssumption, ValidCharsAssumption, CoreAssumption
  DEF DepthAssumption, MsgLenAssumption, XorAssumption, ValidCharsAssumption, CoreAssumption

LEMMA KeyWrapIs == KeyWrap \in Nat /\ KeyWrap >= 1
  BY DepthAssumption DEF KeyWrap, DepthAssumption

LEMMA ModByte ==
  ASSUME NEW x \in Int
  PROVE  x % Depth \in Byte
  BY Constants DEF Byte

LEMMA KeyByteIs ==
  ASSUME NEW key \in Nat, NEW n \in Nat
  PROVE  KeyByte(key, n) \in Int
  BY DepthAssumption DEF KeyByte, DepthAssumption

LEMMA SmallNumbers ==
  /\ 0 \in Byte /\ 0 \in MsgIndex /\ 0 \in 0 .. 3 /\ 0 \in 0 .. 2 * MsgLen - 1
  /\ \A c \in 0 .. 3 : (c + 1) % 4 \in 0 .. 3 /\ (c < 2 => (c + 1) % 4 = c + 1)
  /\ \A c \in Nat : (c + 1) % MsgLen \in MsgIndex /\ c % MsgLen \in MsgIndex
  /\ \A c \in Nat : (c + 1) % (2 * MsgLen) \in 0 .. 2 * MsgLen - 1
  /\ \A c \in Byte : c \in Nat /\ (c + 1) % Depth \in Byte
  /\ \A c \in MsgIndex : c \in Nat
  BY Constants DEF Byte, MsgIndex

LEMMA WrittenIs ==
  ASSUME NEW I, NEW mem \in [I -> Byte], NEW bus \in [addr : I, data : Byte, wren : BOOLEAN]
  PROVE  Written(mem, bus) \in [I -> Byte]
  BY DEF Written

-----------------------------------------------------------------------------
(***************************************************************************)
(* The types, one machine at a time.                                       *)
(***************************************************************************)

LEMMA T1Types ==
  ASSUME T1Type, NEW start, T1Tick(start)
  PROVE  T1Type'
<1>1. CASE T1Idle(start)
  BY <1>1, SmallNumbers DEF T1Idle, T1Type, T1States
<1>2. CASE T1CheckFinish
  BY <1>2 DEF T1CheckFinish, T1Type, T1States
<1>3. CASE T1SmemWrite
  <2>1. (t1.i = Depth - 1) \in BOOLEAN
    OBVIOUS
  <2>. QED  BY <1>3, <2>1 DEF T1SmemWrite, T1Type, T1States
<1>4. CASE T1Increment
  BY <1>4, SmallNumbers DEF T1Increment, T1Type, T1States
<1>5. CASE T1Finishing
  BY <1>5, SmallNumbers DEF T1Finishing, T1Type, T1States
<1>. QED  BY <1>1, <1>2, <1>3, <1>4, <1>5 DEF T1Tick

LEMMA T2aTypes ==
  ASSUME T2aType, NEW start, NEW key \in Nat, NEW sq \in Byte, T2aTick(start, key, sq)
  PROVE  T2aType'
<1>1. CASE T2aIdle(start)
  BY <1>1 DEF T2aIdle, T2aType, T2aStates
<1>2. CASE T2aClear
  BY <1>2, SmallNumbers DEF T2aClear, T2aType, T2aStates
<1>3. CASE T2aCounterCheck
  BY <1>3 DEF T2aCounterCheck, T2aType, T2aStates
<1>4. CASE T2aGetI
  <2>1. (t2a.i = Depth - 1) \in BOOLEAN
    OBVIOUS
  <2>. QED  BY <1>4, <2>1 DEF T2aGetI, T2aType, T2aStates, T2aPauses
<1>5. CASE T2aGotI(sq)
  BY <1>5 DEF T2aGotI, T2aType, T2aStates
<1>6. CASE T2aCalculateJ(key)
  <2>1. t2a.j \in Nat /\ t2a.iData \in Nat /\ t2a.i \in Nat
    BY SmallNumbers DEF T2aType
  <2>2. (t2a.j + t2a.iData + KeyByte(key, t2a.i)) % Depth \in Byte
    BY <2>1, KeyByteIs, ModByte
  <2>. QED  BY <1>6, <2>2 DEF T2aCalculateJ, T2aType, T2aStates
<1>7. CASE T2aGetJ
  <2>1. "j_get_data_2" \in T2aStates
    BY DEF T2aStates, T2aPauses
  <2>. QED  BY <1>7, <2>1 DEF T2aGetJ, T2aType
<1>8. CASE T2aGotJ(sq)
  BY <1>8 DEF T2aGotJ, T2aType, T2aStates
<1>9. CASE T2aSwap1
  <2>1. "swap_1_wait" \in T2aStates
    BY DEF T2aStates, T2aPauses
  <2>. QED  BY <1>9, <2>1 DEF T2aSwap1, T2aType
<1>10. CASE T2aSwap2
  <2>1. "swap_2_wait" \in T2aStates
    BY DEF T2aStates, T2aPauses
  <2>. QED  BY <1>10, <2>1 DEF T2aSwap2, T2aType
<1>11. CASE T2aPause
  BY <1>11 DEF T2aPause, T2aType, T2aStates, T2aPauses
<1>12. CASE T2aIncrement
  BY <1>12, SmallNumbers DEF T2aIncrement, T2aType, T2aStates
<1>13. CASE T2aFinishing
  BY <1>13, SmallNumbers DEF T2aFinishing, T2aType, T2aStates
<1>. QED  BY <1>1, <1>2, <1>3, <1>4, <1>5, <1>6, <1>7, <1>8, <1>9, <1>10, <1>11, <1>12, <1>13
       DEF T2aTick

LEMMA T2bStateNames ==
  /\ {"idle", "init", "check_k", "i_increment", "i_get_data_1", "i_get_data_2",
      "i_get_data_3", "j_calculate", "j_get_data_1", "j_get_data_2", "j_get_data_3", "swap_1",
      "swap_1_wait", "swap_2", "swap_2_wait", "f_get_data_1", "f_get_data_2", "f_get_data_3",
      "decrypt_calculate", "decrypt_write", "decrypt_write_wait", "k_increment", "finish"} \subseteq T2bStates
  /\ \A a \in DOMAIN T2bPauses : T2bPauses[a] \in T2bStates
  BY DEF T2bStates, T2bPauses

LEMMA T2bTypes ==
  ASSUME T2bType, NEW start, NEW sq \in Byte, NEW eq \in Byte, T2bTick(start, sq, eq)
  PROVE  T2bType'
<1>0. /\ t2b.j \in Byte /\ t2b.iData \in Byte /\ t2b.jData \in Byte
      /\ t2b.f \in Byte /\ t2b.enc \in Byte
  BY DEF T2bType
<1>1. CASE T2bIdle(start)
  <2>1. "init" \in T2bStates /\ "idle" \in T2bStates
    BY T2bStateNames
  <2>. QED  BY <1>1, <2>1 DEF T2bIdle, T2bType
<1>2. CASE T2bClear
  <2>1. "check_k" \in T2bStates
    BY T2bStateNames
  <2>. QED  BY <1>2, <2>1, SmallNumbers DEF T2bClear, T2bType
<1>3. CASE T2bCheckK
  <2>1. "finish" \in T2bStates /\ "i_increment" \in T2bStates
    BY T2bStateNames
  <2>. QED  BY <1>3, <2>1 DEF T2bCheckK, T2bType
<1>4. CASE T2bIncrementI
  <2>1. "i_get_data_1" \in T2bStates
    BY T2bStateNames
  <2>2. (t2b.k = MsgLen - 1) \in BOOLEAN
    OBVIOUS
  <2>. QED  BY <1>4, <2>1, <2>2, SmallNumbers DEF T2bIncrementI, T2bType
<1>5. CASE T2bGetI
  <2>1. "i_get_data_2" \in T2bStates
    BY T2bStateNames
  <2>. QED  BY <1>5, <2>1 DEF T2bGetI, T2bType
<1>6. CASE T2bGotI(sq)
  <2>1. "j_calculate" \in T2bStates
    BY T2bStateNames
  <2>. QED  BY <1>6, <2>1 DEF T2bGotI, T2bType
<1>7. CASE T2bCalculateJ
  <2>1. "j_get_data_1" \in T2bStates
    BY T2bStateNames
  <2>2. t2b.j + t2b.iData \in Int
    BY <1>0, Constants DEF Byte
  <2>. QED  BY <1>7, <2>1, <2>2, ModByte DEF T2bCalculateJ, T2bType
<1>8. CASE T2bGetJ
  <2>1. "j_get_data_2" \in T2bStates
    BY T2bStateNames
  <2>. QED  BY <1>8, <2>1 DEF T2bGetJ, T2bType
<1>9. CASE T2bGotJ(sq)
  <2>1. "swap_1" \in T2bStates
    BY T2bStateNames
  <2>. QED  BY <1>9, <2>1 DEF T2bGotJ, T2bType
<1>10. CASE T2bSwap1
  <2>1. "swap_1_wait" \in T2bStates
    BY T2bStateNames
  <2>. QED  BY <1>10, <2>1 DEF T2bSwap1, T2bType
<1>11. CASE T2bSwap2
  <2>1. "swap_2_wait" \in T2bStates
    BY T2bStateNames
  <2>. QED  BY <1>11, <2>1 DEF T2bSwap2, T2bType
<1>12. CASE T2bGetF
  <2>1. "f_get_data_2" \in T2bStates
    BY T2bStateNames
  <2>2. t2b.iData + t2b.jData \in Int
    BY <1>0, Constants DEF Byte
  <2>. QED  BY <1>12, <2>1, <2>2, ModByte DEF T2bGetF, T2bType
<1>13. CASE T2bGotF(sq, eq)
  <2>1. "decrypt_calculate" \in T2bStates
    BY T2bStateNames
  <2>. QED  BY <1>13, <2>1 DEF T2bGotF, T2bType
<1>14. CASE T2bDecrypt
  <2>1. "decrypt_write" \in T2bStates
    BY T2bStateNames
  <2>2. Xor[<<t2b.f, t2b.enc>>] \in Byte
    BY <1>0, Constants
  <2>. QED  BY <1>14, <2>1, <2>2 DEF T2bDecrypt, T2bType
<1>15. CASE T2bWrite
  <2>1. "decrypt_write_wait" \in T2bStates
    BY T2bStateNames
  <2>. QED  BY <1>15, <2>1 DEF T2bWrite, T2bType
<1>16. CASE T2bPause
  <2>1. T2bPauses[t2b.state] \in T2bStates
    BY <1>16, T2bStateNames DEF T2bPause
  <2>. QED  BY <1>16, <2>1 DEF T2bPause, T2bType
<1>17. CASE T2bIncrementK
  <2>1. "check_k" \in T2bStates
    BY T2bStateNames
  <2>. QED  BY <1>17, <2>1, SmallNumbers DEF T2bIncrementK, T2bType
<1>18. CASE T2bFinishing
  <2>1. "finish" \in T2bStates /\ "idle" \in T2bStates
    BY T2bStateNames
  <2>. QED  BY <1>18, <2>1, SmallNumbers DEF T2bFinishing, T2bType
<1>. QED
  BY <1>1, <1>2, <1>3, <1>4, <1>5, <1>6, <1>7, <1>8, <1>9, <1>10, <1>11, <1>12,
     <1>13, <1>14, <1>15, <1>16, <1>17, <1>18 DEF T2bTick

LEMMA T3Types ==
  ASSUME T3Type, NEW start, NEW dq \in Byte, T3Tick(start, dq)
  PROVE  T3Type'
<1>1. CASE T3Idle(start)
  BY <1>1 DEF T3Idle, T3Type, T3States
<1>2. CASE T3CounterCheck
  BY <1>2 DEF T3CounterCheck, T3Type, T3States
<1>3. CASE T3Wait
  BY <1>3 DEF T3Wait, T3Type, T3States
<1>4. CASE T3GotData(dq)
  BY <1>4 DEF T3GotData, T3Type, T3States
<1>5. CASE T3Clear
  BY <1>5, SmallNumbers DEF T3Clear, T3Type, T3States
<1>6. CASE T3GetData
  <2>1. (t3.i = MsgLen - 1) \in BOOLEAN
    OBVIOUS
  <2>. QED  BY <1>6, <2>1, SmallNumbers DEF T3GetData, T3Type, T3States
<1>7. CASE T3CheckData
  <2>1. (t3.valid + 1) % (2 * MsgLen) \in 0 .. 2 * MsgLen - 1
    <3>1. t3.valid \in Nat
      BY DEF T3Type
    <3>. QED  BY <3>1, SmallNumbers
  <2>. QED  BY <1>7, <2>1 DEF T3CheckData, T3Type, T3States
<1>8. CASE T3Increment
  BY <1>8, SmallNumbers DEF T3Increment, T3Type, T3States
<1>9. CASE T3Finishing
  BY <1>9, SmallNumbers DEF T3Finishing, T3Type, T3States
<1>. QED  BY <1>1, <1>2, <1>3, <1>4, <1>5, <1>6, <1>7, <1>8, <1>9 DEF T3Tick

-----------------------------------------------------------------------------
(***************************************************************************)
(* The orchestrator's moves at a rising edge, flattened.                   *)
(***************************************************************************)

Moves ==
  /\ state = "idle" => state' \in {"idle", "init"}
  /\ state \in {"init", "secret_key_increment"} => state' = "check_secret_key"
  /\ state = "check_secret_key" => state' \in {"task1_start", "failed"}
  /\ state = "task1_start" => state' = "task1_wait_1"
  /\ state = "task2a_start" => state' = "task2a_wait_1"
  /\ state = "task2b_start" => state' = "task2b_wait_1"
  /\ state = "task3_start" => state' = "task3_wait_1"
  /\ state = "task1_wait_1" => state' = IF counter < 2 THEN "task1_wait_1" ELSE "task1_wait_2"
  /\ state = "task2a_wait_1" => state' = IF counter < 2 THEN "task2a_wait_1" ELSE "task2a_wait_2"
  /\ state = "task2b_wait_1" => state' = IF counter < 2 THEN "task2b_wait_1" ELSE "task2b_wait_2"
  /\ state = "task3_wait_1" => state' = IF counter < 2 THEN "task3_wait_1" ELSE "task3_wait_2"
  /\ state = "task1_wait_2" => state' = IF t1.state = "finish" THEN "task2a_start" ELSE "task1_wait_2"
  /\ state = "task2a_wait_2" => state' = IF t2a.state = "finish" THEN "task2b_start" ELSE "task2a_wait_2"
  /\ state = "task2b_wait_2" => state' = IF t2b.state = "finish" THEN "task3_start" ELSE "task2b_wait_2"
  /\ state = "task3_wait_2" =>
       state' = IF t3.state = "finish" THEN "check_valid_data_counter" ELSE "task3_wait_2"
  /\ state = "check_valid_data_counter" => state' \in {"finish", "finish_othercore", "secret_key_increment"}
  /\ state \in {"finish", "finish_othercore", "failed"} => state' = state

StateNames == {"idle", "init", "secret_key_increment", "check_secret_key", "task1_start", "task2a_start",
               "task2b_start", "task3_start", "task1_wait_1", "task2a_wait_1", "task2b_wait_1",
               "task3_wait_1", "task1_wait_2", "task2a_wait_2", "task2b_wait_2", "task3_wait_2",
               "check_valid_data_counter", "finish", "finish_othercore", "failed"}

LEMMA StateNamesAre == CoreStates = StateNames
  BY DEF CoreStates, Hops, Wait1, Wait2, CoreStopped, StateNames

LEMMA CoreMoves ==
  ASSUME CoreTick, state \in CoreStates
  PROVE  Moves /\ state' \in CoreStates
<1>1. state \in StateNames
  BY StateNamesAre
<1>2. CASE CoreIdle
  BY <1>2, StateNamesAre DEF CoreIdle, Moves, StateNames
<1>3. CASE CoreHop
  <2>1. state \in {"init", "secret_key_increment", "task1_start", "task2a_start", "task2b_start", "task3_start"}
    BY <1>3 DEF CoreHop, Hops
  <2>. QED  BY <1>3, <2>1, StateNamesAre DEF CoreHop, Hops, Moves, StateNames
<1>4. CASE CoreCheckKey
  BY <1>4, StateNamesAre DEF CoreCheckKey, Moves, StateNames
<1>5. CASE CoreHoldStart
  BY <1>5, StateNamesAre DEF CoreHoldStart, Wait1, AfterStart, Moves, StateNames
<1>6. CASE CoreAwaitFinish
  <2>1. state \in Wait2 /\ state' = IF TaskFinish[state] THEN AfterFinish[state] ELSE state
    BY <1>6 DEF CoreAwaitFinish
  <2>2. /\ AfterFinish["task1_wait_2"] = "task2a_start" /\ AfterFinish["task2a_wait_2"] = "task2b_start"
        /\ AfterFinish["task2b_wait_2"] = "task3_start"
        /\ AfterFinish["task3_wait_2"] = "check_valid_data_counter"
    BY DEF AfterFinish
  <2>3. /\ TaskFinish["task1_wait_2"] <=> t1.state = "finish"
        /\ TaskFinish["task2a_wait_2"] <=> t2a.state = "finish"
        /\ TaskFinish["task2b_wait_2"] <=> t2b.state = "finish"
        /\ TaskFinish["task3_wait_2"] <=> t3.state = "finish"
    BY DEF TaskFinish, T1Finish, T2aFinish, T2bFinish, T3Finish
  <2>. QED  BY <2>1, <2>2, <2>3, StateNamesAre DEF Wait2, Moves, StateNames
<1>7. CASE CoreJudge
  BY <1>7, StateNamesAre DEF CoreJudge, Moves, StateNames
<1>8. CASE CoreStay
  BY <1>8, StateNamesAre DEF CoreStay, CoreStopped, Moves, StateNames
<1>. QED  BY <1>2, <1>3, <1>4, <1>5, <1>6, <1>7, <1>8 DEF CoreTick

-----------------------------------------------------------------------------
(***************************************************************************)
(* One step of a handshake, from what the task and the orchestrator do in  *)
(* the states that matter to it.                                           *)
(***************************************************************************)

Proper(h) ==
  /\ h.first \notin {"idle", "finish", h.second} /\ h.second \notin {"idle", "finish"}
  /\ h.wait1 # h.wait2 /\ h.wait1 \notin h.after1 /\ h.wait2 \notin h.after1 \cup h.after2

\* The task goes from at and cnt to at1 and cnt1.
TaskSteps(at, cnt, at1, cnt1, s, h) ==
  /\ at = "idle" => at1 = IF s = h.wait1 THEN h.first ELSE "idle"
  /\ s = h.wait1 /\ at = h.first => at1 = h.second
  /\ s = h.wait1 /\ at = h.second => at1 # "finish"
  /\ at \notin {"idle", "finish"} => at1 # "idle" /\ (at1 = "finish" => cnt1 = 0)
  /\ at = "finish" => IF cnt < 2 THEN at1 = "finish" /\ cnt1 = cnt + 1 ELSE at1 = "idle"

\* The orchestrator goes from s, with counter c, to s1.
CoreSteps(at, s, c, s1, h) ==
  /\ s = h.wait1 => s1 = IF c < 2 THEN h.wait1 ELSE h.wait2
  /\ s = h.wait2 => IF at = "finish" THEN s1 \in h.after1 ELSE s1 = h.wait2
  /\ s \in h.after1 => s1 \in h.after2
  /\ s1 = h.wait2 => s \in {h.wait1, h.wait2}
  /\ s1 = h.wait1 => s \notin h.after1 \cup h.after2 \cup {h.wait2}

LEMMA ProperTasks == Proper(Task1) /\ Proper(Task2a) /\ Proper(Task2b) /\ Proper(Task3)
  BY DEF Proper, Task1, Task2a, Task2b, Task3

LEMMA HandshakeRises ==
  ASSUME NEW at, NEW cnt, NEW at1, NEW cnt1, NEW s, NEW c \in 0 .. 3, NEW s1, NEW h,
         Proper(h), Handshake(at, cnt, s, c, "low", h),
         TaskSteps(at, cnt, at1, cnt1, s, h), CoreSteps(at, s, c, s1, h)
  PROVE  Handshake(at1, cnt1, s1, c, "high", h)
<1>1. c \in {0, 1, 2, 3}
  OBVIOUS
<1>2. CASE at = "idle" /\ s = h.wait1
  BY <1>1, <1>2 DEF Handshake, Proper, TaskSteps, CoreSteps
<1>3. CASE at = "idle" /\ s # h.wait1
  BY <1>1, <1>3 DEF Handshake, Proper, TaskSteps, CoreSteps
<1>4. CASE at = "finish"
  BY <1>1, <1>4 DEF Handshake, Proper, TaskSteps, CoreSteps
<1>5. CASE at \notin {"idle", "finish"} /\ s = h.wait1
  BY <1>1, <1>5 DEF Handshake, Proper, TaskSteps, CoreSteps
<1>6. CASE at \notin {"idle", "finish"} /\ s = h.wait2
  BY <1>1, <1>6 DEF Handshake, Proper, TaskSteps, CoreSteps
<1>. QED  BY <1>2, <1>3, <1>4, <1>5, <1>6 DEF Handshake

LEMMA HandshakeFalls ==
  ASSUME NEW at, NEW cnt, NEW s, NEW c \in 0 .. 3, NEW c1, NEW h,
         Proper(h), Handshake(at, cnt, s, c, "high", h), s = h.wait1 => c1 = (c + 1) % 4
  PROVE  Handshake(at, cnt, s, c1, "low", h)
<1>1. CASE s = h.wait1
  <2>1. c = 0 => c1 = 1
    BY <1>1
  <2>2. c = 1 => c1 = 2
    BY <1>1
  <2>. QED  BY <1>1, <2>1, <2>2 DEF Handshake, Proper
<1>2. CASE s # h.wait1
  BY <1>2 DEF Handshake, Proper
<1>. QED  BY <1>1, <1>2

-----------------------------------------------------------------------------
(***************************************************************************)
(* What each task does at a rising edge, as far as the handshake goes.     *)
(***************************************************************************)

LEMMA T1Moves ==
  ASSUME T1Type, Fresh1, Meets1, T1Tick(state = "task1_wait_1")
  PROVE  /\ t1.state = "idle" => t1'.state = IF state = "task1_wait_1" THEN "check_finish" ELSE "idle"
         /\ t1.state = "idle" => ~t1'.done
         /\ state = "task1_wait_1" /\ t1.state = "check_finish" => t1'.state = "smem_write"
         /\ t1.state = "smem_write" => t1'.state = "i_increment"
         /\ t1.state \notin {"idle", "finish"} => t1'.state # "idle" /\ t1'.counter = 0
         /\ t1.state = "finish" => IF t1.counter < 2 THEN t1'.state = "finish" /\ t1'.counter = t1.counter + 1
                                   ELSE t1'.state = "idle"
         /\ t1.state = "idle" => t1'.counter = 0
         /\ t1'.state = "check_finish" => t1.state \in {"idle", "i_increment"}
<1>0. t1.counter \in 0 .. 3 /\ (t1.counter < 2 => (t1.counter + 1) % 4 = t1.counter + 1)
  BY SmallNumbers DEF T1Type
<1>1. CASE T1Idle(state = "task1_wait_1")
  BY <1>1 DEF T1Idle, T1Type
<1>2. CASE T1CheckFinish
  BY <1>2 DEF T1CheckFinish, T1Type, Fresh1
<1>3. CASE T1SmemWrite
  BY <1>3 DEF T1SmemWrite, T1Type, Fresh1
<1>4. CASE T1Increment
  BY <1>4 DEF T1Increment, T1Type, Fresh1
<1>5. CASE T1Finishing
  BY <1>0, <1>5 DEF T1Finishing, T1Type
<1>. QED  BY <1>1, <1>2, <1>3, <1>4, <1>5 DEF T1Tick

LEMMA T2aMoves ==
  ASSUME T2aType, Fresh2a, NEW key, NEW sq, T2aTick(state = "task2a_wait_1", key, sq)
  PROVE  /\ t2a.state = "idle" => t2a'.state = IF state = "task2a_wait_1" THEN "init" ELSE "idle"
         /\ t2a.state = "init" => t2a'.state = "i_counter_check" /\ ~t2a'.done
         /\ state = "task2a_wait_1" /\ t2a.state = "i_counter_check" => t2a'.state # "finish"
         /\ t2a.state \notin {"idle", "finish"} => t2a'.state # "idle" /\ t2a'.counter = 0
         /\ t2a.state = "finish" => IF t2a.counter < 2 THEN t2a'.state = "finish" /\ t2a'.counter = t2a.counter + 1
                                    ELSE t2a'.state = "idle"
         /\ t2a'.state = "i_counter_check" => t2a.state \in {"init", "i_increment"}
<1>0. t2a.counter \in 0 .. 3 /\ (t2a.counter < 2 => (t2a.counter + 1) % 4 = t2a.counter + 1)
  BY SmallNumbers DEF T2aType
<1>1. CASE T2aIdle(state = "task2a_wait_1")
  BY <1>1 DEF T2aIdle, T2aType
<1>2. CASE T2aClear
  BY <1>2 DEF T2aClear, T2aType
<1>3. CASE T2aCounterCheck \/ T2aGetI \/ T2aGotI(sq) \/ T2aCalculateJ(key)
  BY <1>3 DEF T2aCounterCheck, T2aGetI, T2aGotI, T2aCalculateJ, T2aType, Fresh2a
<1>4. CASE T2aGetJ \/ T2aGotJ(sq) \/ T2aSwap1 \/ T2aSwap2 \/ T2aIncrement
  BY <1>4 DEF T2aGetJ, T2aGotJ, T2aSwap1, T2aSwap2, T2aIncrement, T2aType, Fresh2a
<1>5. CASE T2aPause
  BY <1>5 DEF T2aPause, T2aPauses, T2aType, Fresh2a
<1>6. CASE T2aFinishing
  BY <1>0, <1>6 DEF T2aFinishing, T2aType
<1>. QED  BY <1>1, <1>2, <1>3, <1>4, <1>5, <1>6 DEF T2aTick

LEMMA T2bMoves ==
  ASSUME T2bType, Fresh2b, NEW sq, NEW eq, T2bTick(state = "task2b_wait_1", sq, eq)
  PROVE  /\ t2b.state = "idle" => t2b'.state = IF state = "task2b_wait_1" THEN "init" ELSE "idle"
         /\ t2b.state = "init" => t2b'.state = "check_k" /\ ~t2b'.done
         /\ state = "task2b_wait_1" /\ t2b.state = "check_k" => t2b'.state # "finish"
         /\ t2b.state \notin {"idle", "finish"} => t2b'.state # "idle" /\ t2b'.counter = 0
         /\ t2b.state = "finish" => IF t2b.counter < 2 THEN t2b'.state = "finish" /\ t2b'.counter = t2b.counter + 1
                                    ELSE t2b'.state = "idle"
         /\ t2b'.state = "check_k" => t2b.state \in {"init", "k_increment"}
<1>0. t2b.counter \in 0 .. 3 /\ (t2b.counter < 2 => (t2b.counter + 1) % 4 = t2b.counter + 1)
  BY SmallNumbers DEF T2bType
<1>1. CASE T2bIdle(state = "task2b_wait_1")
  BY <1>1 DEF T2bIdle, T2bType
<1>2. CASE T2bClear
  BY <1>2 DEF T2bClear, T2bType
<1>3. CASE T2bCheckK \/ T2bIncrementI
  BY <1>3 DEF T2bCheckK, T2bIncrementI, T2bType, Fresh2b
<1>4. CASE T2bGetI \/ T2bGotI(sq) \/ T2bCalculateJ
  BY <1>4 DEF T2bGetI, T2bGotI, T2bCalculateJ, T2bType, Fresh2b
<1>5. CASE T2bGetJ \/ T2bGotJ(sq) \/ T2bSwap1 \/ T2bSwap2
  BY <1>5 DEF T2bGetJ, T2bGotJ, T2bSwap1, T2bSwap2, T2bType, Fresh2b
<1>6. CASE T2bGetF \/ T2bGotF(sq, eq) \/ T2bDecrypt
  BY <1>6 DEF T2bGetF, T2bGotF, T2bDecrypt, T2bType, Fresh2b
<1>7. CASE T2bWrite \/ T2bIncrementK
  BY <1>7 DEF T2bWrite, T2bIncrementK, T2bType, Fresh2b
<1>8. CASE T2bPause
  BY <1>8 DEF T2bPause, T2bPauses, T2bType, Fresh2b
<1>9. CASE T2bFinishing
  BY <1>0, <1>9 DEF T2bFinishing, T2bType
<1>. QED  BY <1>1, <1>2, <1>3, <1>4, <1>5, <1>6, <1>7, <1>8, <1>9 DEF T2bTick

LEMMA T3Moves ==
  ASSUME T3Type, Fresh3, NEW dq, T3Tick(state = "task3_wait_1", dq)
  PROVE  /\ t3.state = "idle" => t3'.state = IF state = "task3_wait_1" THEN "init" ELSE "idle"
         /\ t3.state = "init" => t3'.state = "i_counter_check" /\ ~t3'.done /\ ~t3'.invalid
         /\ state = "task3_wait_1" /\ t3.state = "i_counter_check" => t3'.state # "finish"
         /\ t3.state \notin {"idle", "finish"} => t3'.state # "idle" /\ t3'.counter = 0
         /\ t3.state = "finish" => IF t3.counter < 2 THEN t3'.state = "finish" /\ t3'.counter = t3.counter + 1
                                   ELSE t3'.state = "idle"
         /\ t3'.state = "i_counter_check" => t3.state \in {"init", "i_increment"}
<1>0. t3.counter \in 0 .. 3 /\ (t3.counter < 2 => (t3.counter + 1) % 4 = t3.counter + 1)
  BY SmallNumbers DEF T3Type
<1>1. CASE T3Idle(state = "task3_wait_1")
  BY <1>1 DEF T3Idle, T3Type
<1>2. CASE T3Clear
  BY <1>2 DEF T3Clear, T3Type
<1>3. CASE T3CounterCheck \/ T3GetData \/ T3Wait \/ T3GotData(dq) \/ T3Increment
  BY <1>3 DEF T3CounterCheck, T3GetData, T3Wait, T3GotData, T3Increment, T3Type, Fresh3
<1>4. CASE T3CheckData
  BY <1>4 DEF T3CheckData, T3Type, Fresh3
<1>5. CASE T3Finishing
  BY <1>0, <1>5 DEF T3Finishing, T3Type
<1>. QED  BY <1>1, <1>2, <1>3, <1>4, <1>5 DEF T3Tick

-----------------------------------------------------------------------------
(***************************************************************************)
(* The steps.                                                              *)
(***************************************************************************)

LEMMA InitControl == Init => Control
<1>. SUFFICES ASSUME Init PROVE Control
  OBVIOUS
<1>1. t1.state = "idle" /\ t2a.state = "idle" /\ t2b.state = "idle" /\ t3.state = "idle" /\ state = "idle"
  BY DEF Init, T1Init, T2aInit, T2bInit, T3Init
<1>2. Meets1 /\ Meets2a /\ Meets2b /\ Meets3 /\ Fresh1 /\ Fresh2a /\ Fresh2b /\ Fresh3
  BY <1>1 DEF Meets1, Meets2a, Meets2b, Meets3, Fresh1, Fresh2a, Fresh2b, Fresh3, Handshake,
                Task1, Task2a, Task2b, Task3
<1>3. BusesDriven
  BY <1>1 DEF BusesDriven, In1, In2a, In2b, In3
<1>4. T1Type
  BY SmallNumbers DEF Init, T1Init, T1Type, T1States
<1>5. T2aType
  BY SmallNumbers DEF Init, T2aInit, T2aType, T2aStates
<1>6. T2bType
  BY SmallNumbers, T2bStateNames DEF Init, T2bInit, T2bType
<1>7. T3Type
  BY SmallNumbers DEF Init, T3Init, T3Type, T3States
<1>8. state \in CoreStates /\ clk \in {"low", "high"} /\ counter \in 0 .. 3 /\ secretKey \in 0 .. KeyWrap - 1
  BY <1>1, StateNamesAre, SmallNumbers, KeyWrapIs DEF StateNames, Init
<1>9. /\ sBus \in [addr : Byte, data : Byte, wren : BOOLEAN]
      /\ dBus \in [addr : MsgIndex, data : Byte, wren : BOOLEAN]
      /\ sMem \in [Byte -> Byte] /\ sReg \in Byte
      /\ dMem \in [MsgIndex -> Byte] /\ dReg \in MsgIndex /\ romReg \in MsgIndex
  BY SmallNumbers, Constants DEF Init
<1>10. /\ message \in Messages /\ other \in BOOLEAN /\ resets \in 0 .. MaxResets
       /\ full \in BOOLEAN /\ proper \in BOOLEAN /\ accept \in [BOOLEAN -> SUBSET Keys]
  <2>1. accept \in [BOOLEAN -> SUBSET Keys]
    <3>. DEFINE Found(again) == {key \in Keys : Readable(Filled(again), key, message)}
    <3>1. \A again \in BOOLEAN : Found(again) \in SUBSET Keys
      OBVIOUS
    <3>2. accept = [again \in BOOLEAN |-> Found(again)]
      BY DEF Init
    <3>. HIDE DEF Found
    <3>. QED  BY <3>1, <3>2
  <2>2. full \in BOOLEAN /\ proper \in BOOLEAN /\ other \in BOOLEAN
    BY DEF Init
  <2>3. message \in Messages /\ resets = 0
    BY DEF Init
  <2>4. resets \in 0 .. MaxResets
    BY <2>3, Constants
  <2>. QED  BY <2>1, <2>2, <2>3, <2>4
<1>11. TypeOK
  BY <1>4, <1>5, <1>6, <1>7, <1>8, <1>9, <1>10 DEF TypeOK
<1>. QED  BY <1>2, <1>3, <1>11 DEF Control

\* What the rising edge keeps of the types.
LEMMA RisingTypes ==
  ASSUME TypeOK, RisingEdge
  PROVE  TypeOK'
<1>1. /\ sMem \in [Byte -> Byte] /\ sReg \in Byte /\ dMem \in [MsgIndex -> Byte] /\ dReg \in MsgIndex
      /\ romReg \in MsgIndex /\ message \in [MsgIndex -> Byte] /\ secretKey \in Nat
      /\ sBus \in [addr : Byte, data : Byte, wren : BOOLEAN]
      /\ dBus \in [addr : MsgIndex, data : Byte, wren : BOOLEAN]
  BY Constants, KeyWrapIs DEF TypeOK
<1>2. sMem[sReg] \in Byte /\ message[romReg] \in Byte /\ dMem[dReg] \in Byte
  BY <1>1
<1>3. T1Type' /\ T2aType' /\ T2bType' /\ T3Type'
  <2>1. T1Type'
    BY T1Types DEF TypeOK, RisingEdge
  <2>2. T2aType'
    BY <1>1, <1>2, T2aTypes DEF TypeOK, RisingEdge
  <2>3. T2bType'
    BY <1>2, T2bTypes DEF TypeOK, RisingEdge
  <2>4. T3Type'
    BY <1>2, T3Types DEF TypeOK, RisingEdge
  <2>. QED  BY <2>1, <2>2, <2>3, <2>4
<1>4. state' \in CoreStates /\ clk' \in {"low", "high"}
  BY CoreMoves DEF TypeOK, RisingEdge
<1>5. /\ sMem' \in [Byte -> Byte] /\ dMem' \in [MsgIndex -> Byte]
      /\ sReg' \in Byte /\ dReg' \in MsgIndex /\ romReg' \in MsgIndex
  <2>1. sMem' = Written(sMem, sBus) /\ dMem' = Written(dMem, dBus)
    BY DEF RisingEdge, RamTick
  <2>2. sMem' \in [Byte -> Byte] /\ dMem' \in [MsgIndex -> Byte]
    BY <1>1, <2>1, WrittenIs
  <2>3. sReg' = sBus.addr /\ dReg' = dBus.addr /\ romReg' = t2b.romAddr /\ t2b.romAddr \in MsgIndex
    BY DEF RisingEdge, RamTick, TypeOK, T2bType
  <2>. QED  BY <1>1, <2>2, <2>3
<1>6. UNCHANGED <<counter, secretKey, sBus, dBus, message, other, resets, accept>>
  BY DEF RisingEdge, HistoryTick, busVars
<1>7. full' \in BOOLEAN /\ proper' \in BOOLEAN
  BY DEF TypeOK, RisingEdge, HistoryTick, LastWrite
<1>. QED  BY <1>3, <1>4, <1>5, <1>6, <1>7 DEF TypeOK

LEMMA FallingTypes ==
  ASSUME TypeOK, FallingEdge
  PROVE  TypeOK'
<1>1. clk' \in {"low", "high"} /\ UNCHANGED <<state, t1, t2a, t2b, t3>>
  BY DEF FallingEdge, taskVars
<1>2. UNCHANGED <<sMem, sReg, dMem, dReg, romReg, full, proper, accept, message, other, resets>>
  BY DEF FallingEdge, ramVars, history
<1>3. T1Type' /\ T2aType' /\ T2bType' /\ T3Type'
  BY <1>1 DEF TypeOK, T1Type, T2aType, T2bType, T3Type
<1>4. counter' \in 0 .. 3
  BY SmallNumbers DEF TypeOK, FallingEdge, CountStart
<1>5. secretKey' \in 0 .. KeyWrap - 1
  <2>1. FirstKey \in 0 .. KeyWrap - 1
    BY Constants, KeyWrapIs
  <2>2. PICK w \in Nat : w = KeyWrap /\ w >= 1
    BY KeyWrapIs
  <2>3. PICK x \in Nat : x = secretKey + Step
    BY <2>2, Constants DEF TypeOK
  <2>4. x % w \in 0 .. w - 1
    BY <2>2
  <2>. QED  BY <2>1, <2>2, <2>3, <2>4 DEF TypeOK, FallingEdge, LoadKey
<1>6. sBus' \in [addr : Byte, data : Byte, wren : BOOLEAN]
  BY DEF TypeOK, FallingEdge, DriveSBus, T1Type, T2aType, T2bType, T1Wren, T2aWren, T2bWren
<1>7. dBus' \in [addr : MsgIndex, data : Byte, wren : BOOLEAN]
  BY DEF TypeOK, FallingEdge, DriveDBus, T2bType, T3Type, T2bOutWren
<1>. QED  BY <1>1, <1>2, <1>3, <1>4, <1>5, <1>6, <1>7 DEF TypeOK

LEMMA ResetTypes ==
  ASSUME TypeOK, Reset
  PROVE  TypeOK'
<1>1. T1Type'
  BY DEF TypeOK, Reset, T1Reset, T1Type, T1States
<1>2. T2aType'
  BY DEF TypeOK, Reset, T2aReset, T2aType, T2aStates
<1>3. T2bType'
  BY T2bStateNames DEF TypeOK, Reset, T2bReset, T2bType
<1>4. T3Type'
  BY DEF TypeOK, Reset, T3Reset, T3Type, T3States
<1>5. state' \in CoreStates /\ secretKey' \in 0 .. KeyWrap - 1
  BY StateNamesAre, KeyWrapIs DEF Reset, StateNames
<1>6. resets' \in 0 .. MaxResets
  BY Constants DEF TypeOK, Reset
<1>. QED  BY <1>1, <1>2, <1>3, <1>4, <1>5, <1>6 DEF TypeOK, Reset, ramVars, history

-----------------------------------------------------------------------------

\* The tasks' part of the handshakes at a rising edge.
LEMMA TaskStepsAre ==
  ASSUME Control, RisingEdge
  PROVE  /\ TaskSteps(t1.state, t1.counter, t1'.state, t1'.counter, state, Task1)
         /\ TaskSteps(t2a.state, t2a.counter, t2a'.state, t2a'.counter, state, Task2a)
         /\ TaskSteps(t2b.state, t2b.counter, t2b'.state, t2b'.counter, state, Task2b)
         /\ TaskSteps(t3.state, t3.counter, t3'.state, t3'.counter, state, Task3)
<1>1. TaskSteps(t1.state, t1.counter, t1'.state, t1'.counter, state, Task1)
  BY T1Moves DEF Control, TypeOK, RisingEdge, TaskSteps, Task1
<1>2. TaskSteps(t2a.state, t2a.counter, t2a'.state, t2a'.counter, state, Task2a)
  BY T2aMoves DEF Control, TypeOK, RisingEdge, TaskSteps, Task2a
<1>3. TaskSteps(t2b.state, t2b.counter, t2b'.state, t2b'.counter, state, Task2b)
  BY T2bMoves DEF Control, TypeOK, RisingEdge, TaskSteps, Task2b
<1>4. TaskSteps(t3.state, t3.counter, t3'.state, t3'.counter, state, Task3)
  BY T3Moves DEF Control, TypeOK, RisingEdge, TaskSteps, Task3
<1>. QED  BY <1>1, <1>2, <1>3, <1>4

\* The orchestrator's part.
LEMMA CoreStepsAre ==
  ASSUME state \in StateNames, Moves
  PROVE  /\ CoreSteps(t1.state, state, counter, state', Task1)
         /\ CoreSteps(t2a.state, state, counter, state', Task2a)
         /\ CoreSteps(t2b.state, state, counter, state', Task2b)
         /\ CoreSteps(t3.state, state, counter, state', Task3)
<1>1. CoreSteps(t1.state, state, counter, state', Task1)
  BY DEF Moves, StateNames, CoreSteps, Task1
<1>2. CoreSteps(t2a.state, state, counter, state', Task2a)
  BY DEF Moves, StateNames, CoreSteps, Task2a
<1>3. CoreSteps(t2b.state, state, counter, state', Task2b)
  BY DEF Moves, StateNames, CoreSteps, Task2b
<1>4. CoreSteps(t3.state, state, counter, state', Task3)
  BY DEF Moves, StateNames, CoreSteps, Task3
<1>. QED  BY <1>1, <1>2, <1>3, <1>4

LEMMA RisingMeets ==
  ASSUME Control, RisingEdge
  PROVE  Meets1' /\ Meets2a' /\ Meets2b' /\ Meets3'
<1>1. /\ Moves /\ clk = "low" /\ clk' = "high" /\ counter' = counter /\ counter \in 0 .. 3
      /\ state \in StateNames
  BY CoreMoves, StateNamesAre DEF Control, TypeOK, RisingEdge, busVars
<1>2. Meets1'
  <2>1. Handshake(t1.state, t1.counter, state, counter, "low", Task1)
    BY <1>1 DEF Control, Meets1
  <2>2. Handshake(t1'.state, t1'.counter, state', counter, "high", Task1)
    BY <1>1, <2>1, ProperTasks, TaskStepsAre, CoreStepsAre, HandshakeRises
  <2>. QED  BY <1>1, <2>2 DEF Meets1
<1>3. Meets2a'
  <2>1. Handshake(t2a.state, t2a.counter, state, counter, "low", Task2a)
    BY <1>1 DEF Control, Meets2a
  <2>2. Handshake(t2a'.state, t2a'.counter, state', counter, "high", Task2a)
    BY <1>1, <2>1, ProperTasks, TaskStepsAre, CoreStepsAre, HandshakeRises
  <2>. QED  BY <1>1, <2>2 DEF Meets2a
<1>4. Meets2b'
  <2>1. Handshake(t2b.state, t2b.counter, state, counter, "low", Task2b)
    BY <1>1 DEF Control, Meets2b
  <2>2. Handshake(t2b'.state, t2b'.counter, state', counter, "high", Task2b)
    BY <1>1, <2>1, ProperTasks, TaskStepsAre, CoreStepsAre, HandshakeRises
  <2>. QED  BY <1>1, <2>2 DEF Meets2b
<1>5. Meets3'
  <2>1. Handshake(t3.state, t3.counter, state, counter, "low", Task3)
    BY <1>1 DEF Control, Meets3
  <2>2. Handshake(t3'.state, t3'.counter, state', counter, "high", Task3)
    BY <1>1, <2>1, ProperTasks, TaskStepsAre, CoreStepsAre, HandshakeRises
  <2>. QED  BY <1>1, <2>2 DEF Meets3
<1>. QED  BY <1>2, <1>3, <1>4, <1>5

LEMMA RisingFresh ==
  ASSUME Control, RisingEdge
  PROVE  Fresh1' /\ Fresh2a' /\ Fresh2b' /\ Fresh3'
<1>1. Moves /\ state \in StateNames
  BY CoreMoves, StateNamesAre DEF Control, TypeOK, RisingEdge
<1>2. Fresh1'
  <2>1. t1.state = "i_increment" => state' # "task1_wait_1"
    BY <1>1 DEF Control, Meets1, Handshake, Task1, Moves
  <2>. QED  BY <2>1, T1Moves DEF Control, TypeOK, RisingEdge, Fresh1
<1>3. Fresh2a'
  <2>1. t2a.state = "i_increment" => state' # "task2a_wait_1"
    BY <1>1 DEF Control, Meets2a, Handshake, Task2a, Moves
  <2>. QED  BY <2>1, T2aMoves DEF Control, TypeOK, RisingEdge, Fresh2a
<1>4. Fresh2b'
  <2>1. t2b.state = "k_increment" => state' # "task2b_wait_1"
    BY <1>1 DEF Control, Meets2b, Handshake, Task2b, Moves
  <2>. QED  BY <2>1, T2bMoves DEF Control, TypeOK, RisingEdge, Fresh2b
<1>5. Fresh3'
  <2>1. t3.state = "i_increment" => state' # "task3_wait_1"
    BY <1>1 DEF Control, Meets3, Handshake, Task3, Moves
  <2>. QED  BY <2>1, T3Moves DEF Control, TypeOK, RisingEdge, Fresh3
<1>. QED  BY <1>2, <1>3, <1>4, <1>5

LEMMA RisingKeeps ==
  ASSUME Control, RisingEdge
  PROVE  Control'
<1>1. TypeOK'
  BY RisingTypes DEF Control
<1>2. BusesDriven'
  BY DEF RisingEdge, BusesDriven
<1>. QED  BY <1>1, <1>2, RisingMeets, RisingFresh DEF Control

LEMMA FallingKeeps ==
  ASSUME Control, FallingEdge
  PROVE  Control'
<1>1. TypeOK'
  BY FallingTypes DEF Control
<1>2. UNCHANGED <<state, t1, t2a, t2b, t3>> /\ clk = "high" /\ clk' = "low" /\ counter \in 0 .. 3
  BY DEF FallingEdge, taskVars, Control, TypeOK
<1>3. state \in Wait1 => counter' = (counter + 1) % 4
  BY DEF FallingEdge, CountStart
<1>4. BusesDriven'
  BY <1>2 DEF FallingEdge, DriveSBus, DriveDBus, BusesDriven, In1, In2a, In2b, In3,
              T1Wren, T2aWren, T2bWren, T2bOutWren, Control, TypeOK
<1>5. /\ state = Task1.wait1 => counter' = (counter + 1) % 4
      /\ state = Task2a.wait1 => counter' = (counter + 1) % 4
      /\ state = Task2b.wait1 => counter' = (counter + 1) % 4
      /\ state = Task3.wait1 => counter' = (counter + 1) % 4
  BY <1>3 DEF Wait1, Task1, Task2a, Task2b, Task3
<1>6. Meets1'
  <2>1. Handshake(t1.state, t1.counter, state, counter, "high", Task1)
    BY <1>2 DEF Control, Meets1
  <2>2. Handshake(t1.state, t1.counter, state, counter', "low", Task1)
    BY <1>2, <1>5, <2>1, ProperTasks, HandshakeFalls
  <2>. QED  BY <1>2, <2>2 DEF Meets1
<1>7. Meets2a'
  <2>1. Handshake(t2a.state, t2a.counter, state, counter, "high", Task2a)
    BY <1>2 DEF Control, Meets2a
  <2>2. Handshake(t2a.state, t2a.counter, state, counter', "low", Task2a)
    BY <1>2, <1>5, <2>1, ProperTasks, HandshakeFalls
  <2>. QED  BY <1>2, <2>2 DEF Meets2a
<1>8. Meets2b'
  <2>1. Handshake(t2b.state, t2b.counter, state, counter, "high", Task2b)
    BY <1>2 DEF Control, Meets2b
  <2>2. Handshake(t2b.state, t2b.counter, state, counter', "low", Task2b)
    BY <1>2, <1>5, <2>1, ProperTasks, HandshakeFalls
  <2>. QED  BY <1>2, <2>2 DEF Meets2b
<1>9. Meets3'
  <2>1. Handshake(t3.state, t3.counter, state, counter, "high", Task3)
    BY <1>2 DEF Control, Meets3
  <2>2. Handshake(t3.state, t3.counter, state, counter', "low", Task3)
    BY <1>2, <1>5, <2>1, ProperTasks, HandshakeFalls
  <2>. QED  BY <1>2, <2>2 DEF Meets3
<1>10. Fresh1' /\ Fresh2a' /\ Fresh2b' /\ Fresh3'
  BY <1>2 DEF Control, Fresh1, Fresh2a, Fresh2b, Fresh3
<1>. QED  BY <1>1, <1>4, <1>6, <1>7, <1>8, <1>9, <1>10 DEF Control

LEMMA ResetKeeps ==
  ASSUME Control, Reset
  PROVE  Control'
<1>1. TypeOK'
  BY ResetTypes DEF Control
<1>2. state' = "idle" /\ t1'.state = "idle" /\ t2a'.state = "idle" /\ t2b'.state = "idle" /\ t3'.state = "idle"
  <2>1. T1Type /\ T2aType /\ T2bType /\ T3Type
    BY DEF Control, TypeOK
  <2>2. t1'.state = "idle" /\ t2a'.state = "idle"
    BY <2>1 DEF Reset, T1Reset, T2aReset, T1Type, T2aType
  <2>3. t2b'.state = "idle" /\ t3'.state = "idle"
    BY <2>1 DEF Reset, T2bReset, T3Reset, T2bType, T3Type
  <2>. QED  BY <2>2, <2>3 DEF Reset
<1>3. Meets1' /\ Meets2a' /\ Meets2b' /\ Meets3'
  BY <1>2 DEF Meets1, Meets2a, Meets2b, Meets3, Handshake, Task1, Task2a, Task2b, Task3
<1>4. Fresh1' /\ Fresh2a' /\ Fresh2b' /\ Fresh3' /\ BusesDriven'
  BY <1>2 DEF Fresh1, Fresh2a, Fresh2b, Fresh3, BusesDriven, In1, In2a, In2b, In3
<1>. QED  BY <1>1, <1>3, <1>4 DEF Control

LEMMA OtherKeeps ==
  ASSUME Control, OtherFinishes \/ UNCHANGED vars
  PROVE  Control'
<1>1. /\ UNCHANGED <<clk, state, t1, t2a, t2b, t3, counter, secretKey, sBus, dBus>>
      /\ UNCHANGED <<sMem, sReg, dMem, dReg, romReg, full, proper, accept, message, resets>>
      /\ other' \in BOOLEAN
  <2>1. CASE OtherFinishes
    BY <2>1 DEF OtherFinishes, taskVars, busVars, ramVars, history
  <2>2. CASE UNCHANGED vars
    BY <2>2 DEF vars, taskVars, busVars, ramVars, history, Control, TypeOK
  <2>. QED  BY <2>1, <2>2
<1>2. TypeOK'
  BY <1>1 DEF Control, TypeOK, T1Type, T2aType, T2bType, T3Type
<1>3. Meets1' /\ Meets2a' /\ Meets2b' /\ Meets3'
  BY <1>1 DEF Control, Meets1, Meets2a, Meets2b, Meets3
<1>4. Fresh1' /\ Fresh2a' /\ Fresh2b' /\ Fresh3' /\ BusesDriven'
  BY <1>1 DEF Control, Fresh1, Fresh2a, Fresh2b, Fresh3, BusesDriven, In1, In2a, In2b, In3,
              T1Wren, T2aWren, T2bWren, T2bOutWren
<1>. QED  BY <1>2, <1>3, <1>4 DEF Control

LEMMA NextControl == Control /\ [Next]_vars => Control'
  BY RisingKeeps, FallingKeeps, ResetKeeps, OtherKeeps DEF Next

-----------------------------------------------------------------------------

\* Every reachable state of the core satisfies Control.
THEOREM ControlHolds == Spec => []Control
<1>. QED  BY InitControl, NextControl, PTL DEF Spec

\* Every register keeps its type, whatever resets come: no index leaves its memory,
\* no machine reaches an unnamed state.
THEOREM CoreTypes == Spec => []TypeOK
<1>1. Control => TypeOK
  BY DEF Control
<1>. QED  BY <1>1, ControlHolds, PTL

\* A task that is writing owns the memory registers (the falling edge of
\* my_taskChallenge_algo.sv copies its signals): a write is never lost to the
\* orchestrator having moved on.
THEOREM WriteOwnership == Spec => []NoWriteLost
<1>1. Control => NoWriteLost
  BY DEF Control, NoWriteLost, Meets1, Meets2a, Meets2b, Handshake, Task1, Task2a, Task2b,
         T1Wren, T2aWren, T2bWren, T2bOutWren, In1, In2a, In2b
<1>. QED  BY <1>1, ControlHolds, PTL

\* The orchestrator never waits for a task that is not running: neither the start
\* flag, held two or three cycles, nor the finish flag, up three cycles, is missed.
THEOREM Handshakes == Spec => []NoMissedHandshake
<1>1. Control => NoMissedHandshake
  BY DEF Control, NoMissedHandshake, Meets1, Meets2a, Meets2b, Meets3, Handshake,
         Task1, Task2a, Task2b, Task3
<1>. QED  BY <1>1, ControlHolds, PTL

-----------------------------------------------------------------------------
(***************************************************************************)
(* Recursion over the numbers up to m.                                     *)
(***************************************************************************)

LEMMA Least ==
  ASSUME NEW S \in SUBSET Nat, S # {}
  PROVE  \E x \in S : \A y \in S : x <= y
<1>1. PICK x \in S : \A y \in S : ~ (<<y, x>> \in OpToRel(<, Nat))
  BY NatLessThanWellFounded, WFMin, Zenon
<1>2. ASSUME NEW y \in S PROVE x <= y
  <2>1. ~ (<<y, x>> \in {ss \in Nat \X Nat : ss[1] < ss[2]})
    BY <1>1 DEF OpToRel
  <2>. QED  BY <2>1
<1>. QED  BY <1>2

\* A set of numbers up to m without zero, in which none comes first, is empty.
LEMMA NoFirst ==
  ASSUME NEW m \in Nat, NEW T \in SUBSET (0 .. m), 0 \notin T,
         \A n \in 0 .. m - 1 : n \notin T => n + 1 \notin T
  PROVE  T = {}
<1>1. SUFFICES ASSUME T # {} PROVE FALSE
  OBVIOUS
<1>2. PICK x \in T : \A y \in T : x <= y
  BY <1>1, Least
<1>3. x - 1 \in 0 .. m - 1 /\ (x - 1) + 1 = x /\ ~(x <= x - 1)
  BY <1>2
<1>. QED  BY <1>2, <1>3

\* A function on 0 .. m that starts with r and goes on as `by' says.
Recursion(g, m, r, by) == g[0] = r /\ \A i \in 1 .. m : g[i] = by[<<i, g[i - 1]>>]

LEMMA RecursionExists ==
  ASSUME NEW V, NEW r \in V, NEW m \in Nat, NEW by \in [(1 .. m) \X V -> V]
  PROVE  \E g \in [0 .. m -> V] : Recursion(g, m, r, by)
<1>. DEFINE Done(n) == \E g \in [0 .. n -> V] : Recursion(g, n, r, by)
            T == {n \in 0 .. m : ~ Done(n)}
<1>1. 0 \notin T
  <2>. DEFINE g == [i \in 0 .. 0 |-> r]
  <2>1. g \in [0 .. 0 -> V] /\ Recursion(g, 0, r, by)
    BY DEF Recursion
  <2>. QED  BY <2>1
<1>2. ASSUME NEW n \in 0 .. m - 1, n \notin T PROVE n + 1 \notin T
  <2>1. PICK g \in [0 .. n -> V] : Recursion(g, n, r, by)
    BY <1>2
  <2>2. g[n] \in V /\ n + 1 \in 1 .. m /\ n + 1 # 0 /\ g[0] = r
    BY <2>1 DEF Recursion
  <2>. DEFINE v == by[<<n + 1, g[n]>>]
              h == [i \in 0 .. n + 1 |-> IF i = n + 1 THEN v ELSE g[i]]
  <2>3. v \in V
    BY <2>2
  <2>. HIDE DEF v
  <2>4. h \in [0 .. n + 1 -> V] /\ h[0] = r /\ h[n + 1] = v
    BY <2>2, <2>3
  <2>5. ASSUME NEW i \in 1 .. n + 1 PROVE h[i] = by[<<i, h[i - 1]>>]
    <3>1. CASE i = n + 1
      <4>1. i - 1 = n /\ n \in 0 .. n + 1 /\ n # n + 1
        BY <3>1
      <4>2. h[i - 1] = g[n]
        BY <4>1
      <4>. QED  BY <2>4, <3>1, <4>2 DEF v
    <3>2. CASE i # n + 1
      <4>1. i \in 1 .. n /\ i - 1 \in 0 .. n + 1 /\ i - 1 # n + 1 /\ i \in 0 .. n + 1
        BY <3>2
      <4>2. h[i - 1] = g[i - 1] /\ h[i] = g[i]
        BY <3>2, <4>1
      <4>. QED  BY <2>1, <4>1, <4>2 DEF Recursion
    <3>. QED  BY <3>1, <3>2
  <2>. HIDE DEF h
  <2>6. Recursion(h, n + 1, r, by)
    BY <2>4, <2>5 DEF Recursion
  <2>. QED  BY <2>4, <2>6
<1>. HIDE DEF Done
<1>3. T \in SUBSET (0 .. m) /\ \A n \in 0 .. m - 1 : n \notin T => n + 1 \notin T
  BY <1>2
<1>. HIDE DEF T
<1>4. T = {}
  BY <1>1, <1>3, NoFirst
<1>5. Done(m)
  BY <1>4 DEF T
<1>. QED  BY <1>5 DEF Done
-----------------------------------------------------------------------------
(***************************************************************************)
(* The rounds of key scheduling and of the keystream.                      *)
(***************************************************************************)

Memory == [Byte -> Byte]

LEMMA SwapIs ==
  ASSUME NEW s \in Memory, NEW a \in Byte, NEW b \in Byte
  PROVE  /\ Swap(s, a, b) \in Memory
         /\ Swap(s, a, b) = [[s EXCEPT ![b] = s[a]] EXCEPT ![a] = s[b]]
         /\ Swap(s, a, b)[a] = s[b] /\ Swap(s, a, b)[b] = s[a]
  BY DEF Swap, Memory

LEMMA ReachesAll ==
  ASSUME NEW m \in Nat, NEW V, NEW f, f[0] \in V, \A n \in 1 .. m : f[n - 1] \in V => f[n] \in V
  PROVE  \A n \in 0 .. m : f[n] \in V
<1>. DEFINE T == {n \in 0 .. m : f[n] \notin V}
<1>1. T \in SUBSET (0 .. m) /\ 0 \notin T
  OBVIOUS
<1>2. ASSUME NEW n \in 0 .. m - 1, n \notin T PROVE n + 1 \notin T
  <2>1. n + 1 \in 1 .. m /\ (n + 1) - 1 = n /\ f[n] \in V
    BY <1>2
  <2>. QED  BY <2>1
<1>. HIDE DEF T
<1>3. T = {}
  BY <1>1, <1>2, NoFirst
<1>. QED  BY <1>3 DEF T

\* One round of key scheduling.
KeyStates == [s : Memory, j : Byte]
KeyIndex(p, n, key) == (p.j + p.s[n] + KeyByte(key, n)) % Depth
KeyRound(p, n, key) == [s |-> Swap(p.s, n, KeyIndex(p, n, key)), j |-> KeyIndex(p, n, key)]

LEMMA KeyRoundIs ==
  ASSUME NEW p \in KeyStates, NEW n \in Byte, NEW key \in Nat
  PROVE  KeyIndex(p, n, key) \in Byte /\ KeyRound(p, n, key) \in KeyStates
<1>1. p.s[n] \in Byte /\ p.j \in Byte /\ p.s \in Memory /\ n \in Nat
  BY SmallNumbers DEF KeyStates, Memory
<1>2. p.j \in Int /\ p.s[n] \in Int /\ KeyByte(key, n) \in Int
  <2>1. p.j \in Int /\ p.s[n] \in Int
    BY <1>1 DEF Byte
  <2>. QED  BY <1>1, <2>1, KeyByteIs
<1>3. KeyIndex(p, n, key) \in Byte
  BY <1>2, ModByte DEF KeyIndex
<1>. QED  BY <1>1, <1>3, SwapIs DEF KeyRound, KeyStates

\* KeyRounds starts with s0 and makes one round after another.
LEMMA KeyRoundsAre ==
  ASSUME NEW s0 \in Memory, NEW key \in Nat
  PROVE  /\ KeyRounds(s0, key)[0] = [s |-> s0, j |-> 0]
         /\ \A n \in Byte : KeyRounds(s0, key)[n + 1] = KeyRound(KeyRounds(s0, key)[n], n, key)
         /\ \A n \in 0 .. Depth : KeyRounds(s0, key)[n] \in KeyStates
<1>. DEFINE Rounds(f) ==
       f = [n \in 0 .. Depth |->
              IF n = 0 THEN [s |-> s0, j |-> 0]
              ELSE [s |-> Swap(f[n - 1].s, n - 1,
                               (f[n - 1].j + f[n - 1].s[n - 1] + KeyByte(key, n - 1)) % Depth),
                    j |-> (f[n - 1].j + f[n - 1].s[n - 1] + KeyByte(key, n - 1)) % Depth]]
            by == [x \in (1 .. Depth) \X KeyStates |-> KeyRound(x[2], x[1] - 1, key)]
            start == [s |-> s0, j |-> 0]
            R == KeyRounds(s0, key)
<1>1. R = CHOOSE f : Rounds(f)
  BY DEF KeyRounds
<1>2. start \in KeyStates
  BY SmallNumbers DEF KeyStates
<1>3. by \in [(1 .. Depth) \X KeyStates -> KeyStates]
  <2>1. ASSUME NEW x \in (1 .. Depth) \X KeyStates PROVE KeyRound(x[2], x[1] - 1, key) \in KeyStates
    <3>1. x[2] \in KeyStates /\ x[1] - 1 \in Byte
      BY Constants DEF Byte
    <3>. QED  BY <3>1, KeyRoundIs
  <2>. QED  BY <2>1
<1>4. \E f : Rounds(f)
  <2>1. PICK g \in [0 .. Depth -> KeyStates] : Recursion(g, Depth, start, by)
    <3>. HIDE DEF start, by
    <3>. QED  BY <1>2, <1>3, Constants, RecursionExists
  <2>2. ASSUME NEW n \in 1 .. Depth PROVE g[n] = KeyRound(g[n - 1], n - 1, key)
    <3>1. n - 1 \in 0 .. Depth /\ g[n - 1] \in KeyStates
      BY <2>1, Constants
    <3>2. g[n] = by[<<n, g[n - 1]>>]
      BY <2>1 DEF Recursion
    <3>. QED  BY <3>1, <3>2
  <2>3. ASSUME NEW n \in 0 .. Depth
        PROVE  g[n] = IF n = 0 THEN [s |-> s0, j |-> 0]
              ELSE [s |-> Swap(g[n - 1].s, n - 1,
                               (g[n - 1].j + g[n - 1].s[n - 1] + KeyByte(key, n - 1)) % Depth),
                    j |-> (g[n - 1].j + g[n - 1].s[n - 1] + KeyByte(key, n - 1)) % Depth]
    <3>1. CASE n = 0
      BY <2>1, <3>1 DEF Recursion
    <3>2. CASE n # 0
      <4>1. n \in 1 .. Depth
        BY <3>2, Constants
      <4>. QED  BY <2>2, <3>2, <4>1 DEF KeyRound, KeyIndex
    <3>. QED  BY <3>1, <3>2
  <2>4. g = [n \in 0 .. Depth |-> g[n]]
    BY <2>1
  <2>5. Rounds(g)
    BY <2>3, <2>4
  <2>. QED  BY <2>5
<1>. HIDE DEF R
<1>5. Rounds(R)
  <2>. HIDE DEF Rounds
  <2>. QED  BY <1>1, <1>4
<1>6. R[0] = start
  <2>1. 0 \in 0 .. Depth
    BY Constants
  <2>. QED  BY <1>5, <2>1
<1>7. ASSUME NEW n \in Byte PROVE R[n + 1] = KeyRound(R[n], n, key)
  <2>1. n + 1 \in 0 .. Depth /\ n + 1 # 0 /\ (n + 1) - 1 = n
    BY Constants DEF Byte
  <2>. QED  BY <1>5, <2>1 DEF KeyRound, KeyIndex
<1>8. ASSUME NEW n \in 1 .. Depth, R[n - 1] \in KeyStates PROVE R[n] \in KeyStates
  <2>1. n - 1 \in Byte /\ (n - 1) + 1 = n
    BY Constants DEF Byte
  <2>2. R[n] = KeyRound(R[n - 1], n - 1, key)
    BY <1>7, <2>1
  <2>. QED  BY <1>8, <2>1, <2>2, KeyRoundIs
<1>. HIDE DEF Rounds, by, start
<1>9. \A n \in 0 .. Depth : R[n] \in KeyStates
  BY <1>2, <1>6, <1>8, Constants, ReachesAll
<1>. QED  BY <1>6, <1>7, <1>9 DEF R, start

\* One round of the keystream.
StreamStates == [s : Memory, j : Byte, byte : Byte]
StreamIndex(p, n) == (p.j + p.s[n]) % Depth
StreamSwap(p, n) == Swap(p.s, n, StreamIndex(p, n))
StreamByte(s, n, j) == s[(s[n] + s[j]) % Depth]
StreamRound(p, n) == [s |-> StreamSwap(p, n), j |-> StreamIndex(p, n),
                      byte |-> StreamByte(StreamSwap(p, n), n, StreamIndex(p, n))]

LEMMA StreamRoundIs ==
  ASSUME NEW p \in StreamStates, NEW n \in Byte
  PROVE  StreamIndex(p, n) \in Byte /\ StreamRound(p, n) \in StreamStates
<1>1. p.s[n] \in Byte /\ p.j \in Byte /\ p.s \in Memory
  BY DEF StreamStates, Memory
<1>2. p.j + p.s[n] \in Int
  BY <1>1 DEF Byte
<1>3. StreamIndex(p, n) \in Byte
  BY <1>2, ModByte DEF StreamIndex
<1>4. StreamSwap(p, n) \in Memory
  BY <1>1, <1>3, SwapIs DEF StreamSwap
<1>5. ASSUME NEW s \in Memory, NEW j \in Byte PROVE StreamByte(s, n, j) \in Byte
  <2>1. s[n] \in Byte /\ s[j] \in Byte
    BY DEF Memory
  <2>2. s[n] + s[j] \in Int
    BY <2>1 DEF Byte
  <2>3. (s[n] + s[j]) % Depth \in Byte
    BY <2>2, ModByte
  <2>. QED  BY <2>3 DEF StreamByte, Memory
<1>. QED  BY <1>3, <1>4, <1>5 DEF StreamRound, StreamStates

\* StreamRounds starts with s0 and makes one round after another.
LEMMA StreamRoundsAre ==
  ASSUME NEW s0 \in Memory
  PROVE  /\ StreamRounds(s0)[0] = [s |-> s0, j |-> 0, byte |-> 0]
         /\ \A n \in 1 .. MsgLen : StreamRounds(s0)[n] = StreamRound(StreamRounds(s0)[n - 1], n)
         /\ \A n \in 0 .. MsgLen : StreamRounds(s0)[n] \in StreamStates
<1>. DEFINE Rounds(f) ==
       f = [n \in 0 .. MsgLen |->
              IF n = 0 THEN [s |-> s0, j |-> 0, byte |-> 0]
              ELSE LET prev == f[n - 1]
                       i    == n % Depth
                       j    == (prev.j + prev.s[i]) % Depth
                       s    == Swap(prev.s, i, j)
                   IN  [s |-> s, j |-> j, byte |-> s[(s[i] + s[j]) % Depth]]]
            by == [x \in (1 .. MsgLen) \X StreamStates |-> StreamRound(x[2], x[1])]
            start == [s |-> s0, j |-> 0, byte |-> 0]
            R == StreamRounds(s0)
<1>1. R = CHOOSE f : Rounds(f)
  BY DEF StreamRounds
<1>2. start \in StreamStates
  BY SmallNumbers DEF StreamStates
<1>3. \A n \in 1 .. MsgLen : n \in Byte /\ n % Depth = n
  BY Constants DEF Byte
<1>4. by \in [(1 .. MsgLen) \X StreamStates -> StreamStates]
  <2>1. ASSUME NEW x \in (1 .. MsgLen) \X StreamStates PROVE StreamRound(x[2], x[1]) \in StreamStates
    <3>1. x[2] \in StreamStates /\ x[1] \in Byte
      BY <1>3
    <3>. QED  BY <3>1, StreamRoundIs
  <2>. QED  BY <2>1
<1>5. \E f : Rounds(f)
  <2>1. PICK g \in [0 .. MsgLen -> StreamStates] : Recursion(g, MsgLen, start, by)
    <3>. HIDE DEF start, by
    <3>. QED  BY <1>2, <1>4, Constants, RecursionExists
  <2>2. ASSUME NEW n \in 1 .. MsgLen PROVE g[n] = StreamRound(g[n - 1], n)
    <3>1. n - 1 \in 0 .. MsgLen /\ g[n - 1] \in StreamStates
      BY <2>1, Constants
    <3>2. g[n] = by[<<n, g[n - 1]>>]
      BY <2>1 DEF Recursion
    <3>. QED  BY <3>1, <3>2
  <2>3. g[0] = start
    BY <2>1 DEF Recursion
  <2>4. g = [n \in 0 .. MsgLen |-> IF n = 0 THEN start ELSE StreamRound(g[n - 1], n)]
    <3>1. \A n \in 0 .. MsgLen : n # 0 => n \in 1 .. MsgLen
      BY Constants
    <3>2. g = [n \in 0 .. MsgLen |-> g[n]]
      BY <2>1
    <3>. QED  BY <2>2, <2>3, <3>1, <3>2
  <2>5. \A n \in 0 .. MsgLen : n # 0 => n % Depth = n
    BY <1>3, Constants
  <2>6. Rounds(g)
    BY <2>4, <2>5 DEF StreamRound, StreamByte, StreamSwap, StreamIndex
  <2>. QED  BY <2>6
<1>. HIDE DEF R
<1>6. Rounds(R)
  <2>. HIDE DEF Rounds
  <2>. QED  BY <1>1, <1>5
<1>7. R[0] = start
  <2>1. 0 \in 0 .. MsgLen
    BY Constants
  <2>. QED  BY <1>6, <2>1
<1>8. ASSUME NEW n \in 1 .. MsgLen PROVE R[n] = StreamRound(R[n - 1], n)
  <2>1. n \in 0 .. MsgLen /\ n # 0 /\ n % Depth = n
    BY <1>3, Constants
  <2>. QED  BY <1>6, <2>1 DEF StreamRound, StreamByte, StreamSwap, StreamIndex
<1>9. ASSUME NEW n \in 1 .. MsgLen, R[n - 1] \in StreamStates PROVE R[n] \in StreamStates
  BY <1>3, <1>8, <1>9, StreamRoundIs
<1>. HIDE DEF Rounds, by, start
<1>10. \A n \in 0 .. MsgLen : R[n] \in StreamStates
  BY <1>2, <1>7, <1>9, Constants, ReachesAll
<1>. QED  BY <1>7, <1>8, <1>10 DEF R, start
-----------------------------------------------------------------------------
(***************************************************************************)
(* Key scheduling (task 2a).  rd holds the rounds, c the S memory's cells  *)
(* counting the write on the bus, reg the address the memory has captured, *)
(* ck the clock.                                                           *)
(***************************************************************************)

Peek(m, a) == m[a]
Put(m, a, v) == [m EXCEPT ![a] = v]

\* What a memory that holds c and has captured the address reg shows as out, while it
\* is not being written.
Shows(out, c, reg, wren) == ~wren => out = Peek(c, reg)

\* The S memory and j before round n.
CellsAt(rd, n) == rd[n].s
IndexAt(rd, n) == rd[n].j

NextIndex(j, v, n, key) == (j + v + KeyByte(key, n)) % Depth

Schedule(rd, key) ==
  /\ \A n \in 0 .. Depth : CellsAt(rd, n) \in Memory /\ IndexAt(rd, n) \in Byte
  /\ \A n \in Byte :
       /\ IndexAt(rd, n + 1) = NextIndex(IndexAt(rd, n), Peek(CellsAt(rd, n), n), n, key)
       /\ CellsAt(rd, n + 1) = Put(Put(CellsAt(rd, n), IndexAt(rd, n + 1), Peek(CellsAt(rd, n), n)),
                                   n, Peek(CellsAt(rd, n), IndexAt(rd, n + 1)))
  /\ IndexAt(rd, 0) = 0

BeforeJ == {"i_get_data_1", "i_get_data_2", "i_get_data_3", "j_calculate"}
ReadingJ == {"j_get_data_1", "j_get_data_2", "j_get_data_3", "swap_1"}
Swapping == {"swap_1_wait", "swap_2", "swap_2_wait"}

\* What task 2a has done of round i, by its state.
Schedules(a, c, rd, reg, ck) ==
  LET s == CellsAt(rd, a.i)
      half == Put(s, a.j, a.iData)
  IN  /\ a.state = "init" => c = CellsAt(rd, 0)
      /\ a.state = "i_counter_check" =>
           IF a.done THEN c = CellsAt(rd, Depth) ELSE c = s /\ a.j = IndexAt(rd, a.i)
      /\ a.state \in BeforeJ => c = s /\ a.j = IndexAt(rd, a.i)
      /\ a.state \in ReadingJ => c = s
      /\ a.state \in ReadingJ \cup Swapping \cup {"i_increment"} => a.j = IndexAt(rd, a.i + 1)
      /\ a.state \in (BeforeJ \ {"i_get_data_1"}) \cup ReadingJ \cup Swapping \cup {"i_increment"} =>
           (a.done <=> a.i = Depth - 1)
      /\ a.state \in {"i_get_data_2", "i_get_data_3"} => a.addr = a.i
      /\ a.state = "i_get_data_3" => reg = a.i
      /\ a.state \in {"j_get_data_2", "j_get_data_3"} => a.addr = a.j
      /\ a.state = "j_get_data_3" => reg = a.j
      /\ a.state \in {"j_calculate"} \cup ReadingJ \cup Swapping => a.iData = Peek(s, a.i)
      /\ a.state \in {"swap_1"} \cup Swapping => a.jData = Peek(s, a.j)
      /\ a.state = "swap_1_wait" =>
           a.addr = a.j /\ a.data = a.iData /\ c = IF ck = "low" THEN half ELSE s
      /\ a.state = "swap_2" => c = half
      /\ a.state = "swap_2_wait" =>
           a.addr = a.i /\ a.data = a.jData /\ c = IF ck = "low" THEN CellsAt(rd, a.i + 1) ELSE half
      /\ a.state = "i_increment" => c = CellsAt(rd, a.i + 1)
      /\ a.state = "finish" /\ a.counter = 0 => c = CellsAt(rd, Depth)

\* The rounds of Rc4 are such a schedule.
LEMMA ScheduleOfKey ==
  ASSUME NEW s0 \in Memory, NEW key \in Nat
  PROVE  /\ Schedule(KeyRounds(s0, key), key)
         /\ CellsAt(KeyRounds(s0, key), 0) = s0
         /\ CellsAt(KeyRounds(s0, key), Depth) = Scheduled(s0, key)
         /\ Scheduled(s0, key) \in Memory
<1>. DEFINE rd == KeyRounds(s0, key)
<1>1. /\ rd[0] = [s |-> s0, j |-> 0]
      /\ \A n \in Byte : rd[n + 1] = KeyRound(rd[n], n, key)
      /\ \A n \in 0 .. Depth : rd[n] \in KeyStates
  BY KeyRoundsAre
<1>2. CellsAt(rd, Depth) = Scheduled(s0, key)
  BY DEF CellsAt, Scheduled
<1>. HIDE DEF rd
<1>3. \A n \in 0 .. Depth : CellsAt(rd, n) \in Memory /\ IndexAt(rd, n) \in Byte
  BY <1>1 DEF CellsAt, IndexAt, KeyStates
<1>4. CellsAt(rd, 0) = s0 /\ IndexAt(rd, 0) = 0
  BY <1>1 DEF CellsAt, IndexAt
<1>5. ASSUME NEW n \in Byte
      PROVE  /\ IndexAt(rd, n + 1) = NextIndex(IndexAt(rd, n), Peek(CellsAt(rd, n), n), n, key)
             /\ CellsAt(rd, n + 1) = Put(Put(CellsAt(rd, n), IndexAt(rd, n + 1), Peek(CellsAt(rd, n), n)),
                                         n, Peek(CellsAt(rd, n), IndexAt(rd, n + 1)))
  <2>1. n \in 0 .. Depth
    BY Constants DEF Byte
  <2>. DEFINE p == rd[n]
              j == KeyIndex(p, n, key)
              m == CellsAt(rd, n)
  <2>2. rd[n + 1] = KeyRound(p, n, key) /\ p \in KeyStates
    BY <1>1, <2>1
  <2>3. j \in Byte /\ m \in Memory
    BY <1>3, <2>1, <2>2, KeyRoundIs
  <2>4. rd[n + 1] = [s |-> Swap(m, n, j), j |-> j]
    BY <2>2 DEF KeyRound, CellsAt
  <2>5. CellsAt(rd, n + 1) = Swap(m, n, j) /\ IndexAt(rd, n + 1) = j
    BY <2>4 DEF CellsAt, IndexAt
  <2>6. j = NextIndex(IndexAt(rd, n), Peek(m, n), n, key)
    BY DEF KeyIndex, NextIndex, IndexAt, CellsAt, Peek
  <2>. HIDE DEF p, j, m
  <2>7. Swap(m, n, j) = Put(Put(m, j, Peek(m, n)), n, Peek(m, j))
    BY <2>3, SwapIs DEF Put, Peek
  <2>. QED  BY <2>5, <2>6, <2>7 DEF m
<1>6. Depth \in 0 .. Depth
  BY Constants
<1>. QED  BY <1>2, <1>3, <1>4, <1>5, <1>6 DEF Schedule, rd

Begins(c, rd) == c = CellsAt(rd, 0)

\* A rising edge: sq is what the memory shows.
LEMMA SchedulingRises ==
  ASSUME T2aType, NEW c \in Memory, NEW rd, NEW key \in Nat, Schedule(rd, key),
         NEW reg, NEW sq, Shows(sq, c, reg, T2aWren), NEW start, start /\ t2a.state = "idle" => Begins(c, rd),
         Schedules(t2a, c, rd, reg, "low"), T2aTick(start, key, sq), Fresh2a
  PROVE  Schedules(t2a', c, rd, t2a.addr, "high")
<1>0. t2a.i \in Byte /\ 0 \in Byte
  BY SmallNumbers DEF T2aType
<1>1. CASE T2aIdle(start)
  BY <1>1 DEF T2aIdle, T2aType, Begins, Schedules, BeforeJ, ReadingJ, Swapping
<1>2. CASE T2aClear
  BY <1>2 DEF T2aClear, T2aType, Schedules, BeforeJ, ReadingJ, Swapping, Schedule
<1>3. CASE T2aCounterCheck
  BY <1>3 DEF T2aCounterCheck, T2aType, Schedules, BeforeJ, ReadingJ, Swapping
<1>4. CASE T2aGetI
  BY <1>4 DEF T2aGetI, T2aType, Schedules, BeforeJ, ReadingJ, Swapping
<1>5. CASE T2aGotI(sq)
  BY <1>5 DEF T2aGotI, T2aType, Schedules, BeforeJ, ReadingJ, Swapping, T2aWren, Shows
<1>6. CASE T2aCalculateJ(key)
  <2>1. IndexAt(rd, t2a.i + 1) = NextIndex(IndexAt(rd, t2a.i), Peek(CellsAt(rd, t2a.i), t2a.i), t2a.i, key)
    BY <1>0 DEF Schedule
  <2>2. NextIndex(t2a.j, t2a.iData, t2a.i, key) = IndexAt(rd, t2a.i + 1)
    BY <1>6, <2>1 DEF T2aCalculateJ, Schedules, BeforeJ
  <2>3. t2a'.j = NextIndex(t2a.j, t2a.iData, t2a.i, key)
    BY <1>6 DEF T2aCalculateJ, T2aType, NextIndex
  <2>. QED  BY <1>6, <2>2, <2>3 DEF T2aCalculateJ, T2aType, Schedules, BeforeJ, ReadingJ, Swapping
<1>7. CASE T2aGetJ
  BY <1>7 DEF T2aGetJ, T2aType, Schedules, BeforeJ, ReadingJ, Swapping
<1>8. CASE T2aGotJ(sq)
  BY <1>8 DEF T2aGotJ, T2aType, Schedules, BeforeJ, ReadingJ, Swapping, T2aWren, Shows
<1>9. CASE T2aSwap1
  BY <1>9 DEF T2aSwap1, T2aType, Schedules, BeforeJ, ReadingJ, Swapping
<1>10. CASE T2aSwap2
  BY <1>10 DEF T2aSwap2, T2aType, Schedules, BeforeJ, ReadingJ, Swapping
<1>11. CASE T2aPause
  <2>1. CASE t2a.state = "i_get_data_2"
    BY <1>11, <2>1 DEF T2aPause, T2aPauses, T2aType, Schedules, BeforeJ, ReadingJ, Swapping
  <2>2. CASE t2a.state = "j_get_data_2"
    BY <1>11, <2>2 DEF T2aPause, T2aPauses, T2aType, Schedules, BeforeJ, ReadingJ, Swapping
  <2>3. CASE t2a.state = "swap_1_wait"
    BY <1>11, <2>3 DEF T2aPause, T2aPauses, T2aType, Schedules, BeforeJ, ReadingJ, Swapping
  <2>4. CASE t2a.state = "swap_2_wait"
    BY <1>11, <2>4 DEF T2aPause, T2aPauses, T2aType, Schedules, BeforeJ, ReadingJ, Swapping
  <2>. QED  BY <1>11, <2>1, <2>2, <2>3, <2>4 DEF T2aPause, T2aPauses
<1>12. CASE T2aIncrement
  <2>1. PICK i \in Byte : i = t2a.i
    BY <1>0
  <2>2. i # Depth - 1 => (i + 1) % Depth = i + 1
    BY Constants DEF Byte
  <2>3. i = Depth - 1 => i + 1 = Depth
    BY Constants
  <2>. QED  BY <1>12, <2>1, <2>2, <2>3 DEF T2aIncrement, T2aType, Schedules, BeforeJ, ReadingJ, Swapping
<1>13. CASE T2aFinishing
  <2>1. t2a.counter < 2 => (t2a.counter + 1) % 4 = t2a.counter + 1 /\ t2a.counter + 1 # 0
    BY SmallNumbers DEF T2aType
  <2>. QED  BY <1>13, <2>1 DEF T2aFinishing, T2aType, Schedules, BeforeJ, ReadingJ, Swapping
<1>. QED  BY <1>1, <1>2, <1>3, <1>4, <1>5, <1>6, <1>7, <1>8, <1>9, <1>10, <1>11, <1>12, <1>13 DEF T2aTick

\* A falling edge puts the task's address, data and write enable on the bus.
LEMMA SchedulingFalls ==
  ASSUME T2aType, NEW c \in Memory, NEW rd, NEW key \in Nat, Schedule(rd, key), NEW reg,
         Schedules(t2a, c, rd, reg, "high")
  PROVE  Schedules(t2a, Written(c, [addr |-> t2a.addr, data |-> t2a.data, wren |-> T2aWren]), rd, reg, "low")
<1>. DEFINE w == Written(c, [addr |-> t2a.addr, data |-> t2a.data, wren |-> T2aWren])
<1>0. t2a.i \in Byte
  BY DEF T2aType
<1>1. w = IF T2aWren THEN Put(c, t2a.addr, t2a.data) ELSE c
  BY DEF Written, Put
<1>. HIDE DEF w
<1>2. CASE t2a.state = "swap_1_wait"
  <2>1. w = Put(c, t2a.addr, t2a.data)
    BY <1>1, <1>2 DEF T2aWren
  <2>. QED  BY <1>2, <2>1 DEF w, Schedules, BeforeJ, ReadingJ, Swapping
<1>3. CASE t2a.state = "swap_2_wait"
  <2>1. w = Put(c, t2a.addr, t2a.data)
    BY <1>1, <1>3 DEF T2aWren
  <2>2. w = CellsAt(rd, t2a.i + 1)
    BY <1>0, <1>3, <2>1 DEF Schedules, ReadingJ, Swapping, Schedule
  <2>. QED  BY <1>3, <2>2 DEF w, Schedules, BeforeJ, ReadingJ, Swapping
<1>4. CASE ~T2aWren
  <2>1. w = c
    BY <1>1, <1>4
  <2>. QED  BY <1>4, <2>1 DEF w, Schedules, BeforeJ, ReadingJ, Swapping, T2aWren
<1>. QED  BY <1>2, <1>3, <1>4 DEF T2aWren
-----------------------------------------------------------------------------
(***************************************************************************)
(* The keystream (task 2b).  q holds its rounds, pl the plaintext, h the   *)
(* decrypted-message memory's cells counting the write on the bus, msg the *)
(* encrypted message, rom the address its ROM has captured; c, reg and ck  *)
(* as before.                                                              *)
(***************************************************************************)

Characters == [MsgIndex -> Byte]

ByteAt(q, n) == q[n].byte
AddByte(x, y) == (x + y) % Depth

Stream(q) ==
  /\ \A n \in 0 .. MsgLen : CellsAt(q, n) \in Memory /\ IndexAt(q, n) \in Byte /\ ByteAt(q, n) \in Byte
  /\ \A k \in MsgIndex :
       /\ IndexAt(q, k + 1) = AddByte(IndexAt(q, k), Peek(CellsAt(q, k), k + 1))
       /\ CellsAt(q, k + 1) = Put(Put(CellsAt(q, k), IndexAt(q, k + 1), Peek(CellsAt(q, k), k + 1)),
                                  k + 1, Peek(CellsAt(q, k), IndexAt(q, k + 1)))
       /\ ByteAt(q, k + 1) =
            Peek(CellsAt(q, k + 1),
                 AddByte(Peek(CellsAt(q, k), k + 1), Peek(CellsAt(q, k), IndexAt(q, k + 1))))
  /\ IndexAt(q, 0) = 0

Decrypts(pl, q, msg) ==
  /\ pl \in Characters
  /\ \A k \in MsgIndex : Peek(pl, k) = Xor[<<ByteAt(q, k + 1), Peek(msg, k)>>]

\* The first n characters have been decrypted.
Decrypted(h, pl, n) == \A m \in 0 .. n - 1 : Peek(h, m) = Peek(pl, m)

AfterSwap == {"f_get_data_1", "f_get_data_2", "f_get_data_3", "decrypt_calculate", "decrypt_write",
              "decrypt_write_wait", "k_increment"}

\* What task 2b has done of round k, by its state.
Streams(b, c, h, q, pl, msg, reg, rom, ck) ==
  LET s == CellsAt(q, b.k)
      half == Put(s, b.j, b.iData)
  IN  /\ b.state = "init" => c = CellsAt(q, 0)
      /\ b.state = "check_k" =>
           IF b.done THEN Decrypted(h, pl, MsgLen)
           ELSE b.i = b.k /\ c = s /\ b.j = IndexAt(q, b.k) /\ Decrypted(h, pl, b.k)
      /\ b.state = "i_increment" => b.i = b.k /\ Decrypted(h, pl, b.k)
      /\ b.state \in BeforeJ \cup {"i_increment"} => c = s /\ b.j = IndexAt(q, b.k)
      /\ b.state \in ReadingJ => c = s
      /\ b.state \in ReadingJ \cup Swapping \cup AfterSwap => b.j = IndexAt(q, b.k + 1)
      /\ b.state \in BeforeJ \cup ReadingJ \cup Swapping \cup AfterSwap =>
           b.i = b.k + 1 /\ (b.done <=> b.k = MsgLen - 1) /\ Decrypted(h, pl, b.k)
      /\ b.state \in {"i_get_data_2", "i_get_data_3"} => b.addr = b.i
      /\ b.state = "i_get_data_3" => reg = b.i
      /\ b.state \in {"j_get_data_2", "j_get_data_3"} => b.addr = b.j
      /\ b.state = "j_get_data_3" => reg = b.j
      /\ b.state \in {"j_calculate", "f_get_data_1"} \cup ReadingJ \cup Swapping => b.iData = Peek(s, b.i)
      /\ b.state \in {"swap_1", "f_get_data_1"} \cup Swapping => b.jData = Peek(s, b.j)
      /\ b.state = "swap_1_wait" =>
           b.addr = b.j /\ b.data = b.iData /\ c = IF ck = "low" THEN half ELSE s
      /\ b.state = "swap_2" => c = half
      /\ b.state = "swap_2_wait" =>
           b.addr = b.i /\ b.data = b.jData /\ c = IF ck = "low" THEN CellsAt(q, b.k + 1) ELSE half
      /\ b.state \in AfterSwap => c = CellsAt(q, b.k + 1)
      /\ b.state \in {"f_get_data_2", "f_get_data_3"} =>
           b.romAddr = b.k /\ Peek(c, b.addr) = ByteAt(q, b.k + 1)
      /\ b.state = "f_get_data_3" => reg = b.addr /\ rom = b.k
      /\ b.state = "decrypt_calculate" => b.f = ByteAt(q, b.k + 1) /\ b.enc = Peek(msg, b.k)
      /\ b.state = "decrypt_write" => b.dec = Peek(pl, b.k)
      /\ b.state = "decrypt_write_wait" =>
           b.outAddr = b.k /\ b.outData = Peek(pl, b.k) /\ (ck = "low" => Decrypted(h, pl, b.k + 1))
      /\ b.state = "k_increment" => Decrypted(h, pl, b.k + 1)
      /\ b.state = "finish" /\ b.counter = 0 => Decrypted(h, pl, MsgLen)

\* The rounds of Rc4 are such a stream.
LEMMA StreamOfCells ==
  ASSUME NEW s0 \in Memory
  PROVE  Stream(StreamRounds(s0)) /\ CellsAt(StreamRounds(s0), 0) = s0
<1>. DEFINE q == StreamRounds(s0)
<1>1. /\ q[0] = [s |-> s0, j |-> 0, byte |-> 0]
      /\ \A n \in 1 .. MsgLen : q[n] = StreamRound(q[n - 1], n)
      /\ \A n \in 0 .. MsgLen : q[n] \in StreamStates
  BY StreamRoundsAre
<1>. HIDE DEF q
<1>2. \A n \in 0 .. MsgLen : CellsAt(q, n) \in Memory /\ IndexAt(q, n) \in Byte /\ ByteAt(q, n) \in Byte
  BY <1>1 DEF CellsAt, IndexAt, ByteAt, StreamStates
<1>3. CellsAt(q, 0) = s0 /\ IndexAt(q, 0) = 0
  BY <1>1 DEF CellsAt, IndexAt
<1>4. ASSUME NEW k \in MsgIndex
      PROVE  /\ IndexAt(q, k + 1) = AddByte(IndexAt(q, k), Peek(CellsAt(q, k), k + 1))
             /\ CellsAt(q, k + 1) = Put(Put(CellsAt(q, k), IndexAt(q, k + 1), Peek(CellsAt(q, k), k + 1)),
                                        k + 1, Peek(CellsAt(q, k), IndexAt(q, k + 1)))
             /\ ByteAt(q, k + 1) =
                  Peek(CellsAt(q, k + 1),
                       AddByte(Peek(CellsAt(q, k), k + 1), Peek(CellsAt(q, k), IndexAt(q, k + 1))))
  <2>1. k \in 0 .. MsgLen /\ k + 1 \in 1 .. MsgLen /\ (k + 1) - 1 = k /\ k + 1 \in Byte
    BY Constants DEF MsgIndex, Byte
  <2>. DEFINE p == q[k]
              i == k + 1
              j == StreamIndex(p, i)
              m == CellsAt(q, k)
              t == Swap(m, i, j)
  <2>2. q[k + 1] = StreamRound(p, i) /\ p \in StreamStates /\ i \in Byte
    BY <1>1, <2>1
  <2>3. j \in Byte /\ m \in Memory
    BY <1>2, <2>1, <2>2, StreamRoundIs
  <2>4. q[k + 1] = [s |-> t, j |-> j, byte |-> StreamByte(t, i, j)]
    BY <2>2 DEF StreamRound, StreamSwap, CellsAt
  <2>5. CellsAt(q, k + 1) = t /\ IndexAt(q, k + 1) = j /\ ByteAt(q, k + 1) = StreamByte(t, i, j)
    BY <2>4 DEF CellsAt, IndexAt, ByteAt
  <2>6. j = AddByte(IndexAt(q, k), Peek(m, i))
    BY DEF StreamIndex, AddByte, IndexAt, CellsAt, Peek
  <2>. HIDE DEF p, i, j, m
  <2>7. t = Put(Put(m, j, Peek(m, i)), i, Peek(m, j)) /\ t[i] = Peek(m, j) /\ t[j] = Peek(m, i)
    BY <2>2, <2>3, SwapIs DEF Put, Peek
  <2>8. StreamByte(t, i, j) = Peek(t, AddByte(Peek(m, i), Peek(m, j)))
    <3>1. Peek(m, i) \in Int /\ Peek(m, j) \in Int
      BY <2>2, <2>3 DEF Peek, Memory, Byte
    <3>2. PICK x \in Int, y \in Int : x = Peek(m, i) /\ y = Peek(m, j)
      BY <3>1
    <3>3. y + x = x + y
      OBVIOUS
    <3>. HIDE DEF t
    <3>4. StreamByte(t, i, j) = t[(y + x) % Depth]
      BY <2>7, <3>2 DEF StreamByte
    <3>. QED  BY <3>2, <3>3, <3>4 DEF AddByte, Peek
  <2>. HIDE DEF t
  <2>9. Put(Put(m, IndexAt(q, k + 1), Peek(m, i)), i, Peek(m, IndexAt(q, k + 1))) = CellsAt(q, k + 1)
    BY <2>5, <2>7
  <2>. QED  BY <2>5, <2>6, <2>8, <2>9 DEF m, i
<1>. QED  BY <1>2, <1>3, <1>4 DEF Stream, q

\* And Plaintext is what they decrypt the message to.
LEMMA PlaintextOfKey ==
  ASSUME NEW s0 \in Memory, NEW key \in Nat, NEW msg \in Characters
  PROVE  Decrypts(Plaintext(s0, key, msg), StreamRounds(Scheduled(s0, key)), msg)
<1>. DEFINE s1 == Scheduled(s0, key)
            q == StreamRounds(s1)
<1>1. s1 \in Memory
  BY ScheduleOfKey
<1>. HIDE DEF s1
<1>2. Stream(q)
  BY <1>1, StreamOfCells
<1>3. \A k \in MsgIndex : Keystream(s1)[k] = ByteAt(q, k + 1)
  BY DEF Keystream, ByteAt
<1>. HIDE DEF q
<1>4. \A k \in MsgIndex : ByteAt(q, k + 1) \in Byte /\ Peek(msg, k) \in Byte
  <2>1. \A k \in MsgIndex : k + 1 \in 0 .. MsgLen
    BY Constants DEF MsgIndex
  <2>. QED  BY <1>2, <2>1 DEF Stream, Peek, Characters
<1>5. \A k \in MsgIndex : Xor[<<ByteAt(q, k + 1), Peek(msg, k)>>] \in Byte
  BY <1>4, Constants
<1>6. Plaintext(s0, key, msg) = [k \in MsgIndex |-> Xor[<<ByteAt(q, k + 1), Peek(msg, k)>>]]
  BY <1>3 DEF Plaintext, s1, Peek
<1>. QED  BY <1>5, <1>6 DEF Decrypts, Characters, Peek, q, s1

LEMMA DecryptedMore ==
  ASSUME NEW h \in Characters, NEW pl, NEW k \in MsgIndex, Decrypted(h, pl, k)
  PROVE  Decrypted(Put(h, k, Peek(pl, k)), pl, k + 1)
<1>1. ASSUME NEW m \in 0 .. k PROVE Put(h, k, Peek(pl, k))[m] = Peek(pl, m)
  <2>1. m \in MsgIndex
    BY Constants DEF MsgIndex
  <2>2. CASE m = k
    BY <2>1, <2>2 DEF Put, Characters
  <2>3. CASE m # k
    <3>1. m \in 0 .. k - 1
      BY <2>3 DEF MsgIndex
    <3>. QED  BY <2>1, <2>3, <3>1 DEF Put, Characters, Decrypted, Peek
  <2>. QED  BY <2>2, <2>3
<1>2. 0 .. (k + 1) - 1 = 0 .. k
  BY DEF MsgIndex
<1>. QED  BY <1>1, <1>2 DEF Decrypted, Peek

LEMMA DecryptedAll ==
  ASSUME NEW h \in Characters, NEW pl \in Characters, Decrypted(h, pl, MsgLen)
  PROVE  h = pl
<1>1. \A m \in MsgIndex : h[m] = pl[m]
  BY DEF Decrypted, Peek, MsgIndex
<1>2. h = [m \in MsgIndex |-> h[m]] /\ pl = [m \in MsgIndex |-> pl[m]]
  BY DEF Characters
<1>. QED  BY <1>1, <1>2

\* A rising edge: sq and eq are what the S memory and the ROM show.
LEMMA StreamingRises ==
  ASSUME T2bType, NEW c \in Memory, NEW h, NEW q, Stream(q), NEW pl, NEW msg, Decrypts(pl, q, msg),
         NEW reg, NEW rom, NEW sq, Shows(sq, c, reg, T2bWren), NEW eq, eq = Peek(msg, rom),
         NEW start, start /\ t2b.state = "idle" => Begins(c, q),
         Streams(t2b, c, h, q, pl, msg, reg, rom, "low"), T2bTick(start, sq, eq), Fresh2b
  PROVE  Streams(t2b', c, h, q, pl, msg, t2b.addr, t2b.romAddr, "high")
<1>0. t2b.k \in MsgIndex /\ 0 \in MsgIndex
  BY SmallNumbers DEF T2bType
<1>1. CASE T2bIdle(start)
  BY <1>1 DEF T2bIdle, T2bType, Begins, Streams, BeforeJ, ReadingJ, Swapping, AfterSwap
<1>2. CASE T2bClear
  <2>1. Decrypted(h, pl, 0)
    BY DEF Decrypted
  <2>. QED  BY <1>2, <2>1 DEF T2bClear, T2bType, Streams, BeforeJ, ReadingJ, Swapping, AfterSwap, Stream
<1>3. CASE T2bCheckK
  BY <1>3 DEF T2bCheckK, T2bType, Streams, BeforeJ, ReadingJ, Swapping, AfterSwap
<1>4. CASE T2bIncrementI
  <2>1. \A k \in MsgIndex : (k + 1) % Depth = k + 1
    BY Constants DEF MsgIndex
  <2>. QED  BY <1>0, <1>4, <2>1 DEF T2bIncrementI, T2bType, Streams, BeforeJ, ReadingJ, Swapping, AfterSwap
<1>5. CASE T2bGetI
  BY <1>5 DEF T2bGetI, T2bType, Streams, BeforeJ, ReadingJ, Swapping, AfterSwap
<1>6. CASE T2bGotI(sq)
  BY <1>6 DEF T2bGotI, T2bType, Streams, BeforeJ, ReadingJ, Swapping, AfterSwap, T2bWren, Shows
<1>7. CASE T2bCalculateJ
  <2>1. IndexAt(q, t2b.k + 1) = AddByte(IndexAt(q, t2b.k), Peek(CellsAt(q, t2b.k), t2b.k + 1))
    BY <1>0 DEF Stream
  <2>2. t2b'.j = AddByte(t2b.j, t2b.iData)
    BY <1>7 DEF T2bCalculateJ, T2bType, AddByte
  <2>3. t2b'.j = IndexAt(q, t2b.k + 1)
    BY <1>7, <2>1, <2>2 DEF T2bCalculateJ, Streams, BeforeJ
  <2>. QED  BY <1>7, <2>3 DEF T2bCalculateJ, T2bType, Streams, BeforeJ, ReadingJ, Swapping, AfterSwap
<1>8. CASE T2bGetJ
  BY <1>8 DEF T2bGetJ, T2bType, Streams, BeforeJ, ReadingJ, Swapping, AfterSwap
<1>9. CASE T2bGotJ(sq)
  BY <1>9 DEF T2bGotJ, T2bType, Streams, BeforeJ, ReadingJ, Swapping, AfterSwap, T2bWren, Shows
<1>10. CASE T2bSwap1
  BY <1>10 DEF T2bSwap1, T2bType, Streams, BeforeJ, ReadingJ, Swapping, AfterSwap
<1>11. CASE T2bSwap2
  BY <1>11 DEF T2bSwap2, T2bType, Streams, BeforeJ, ReadingJ, Swapping, AfterSwap
<1>12. CASE T2bGetF
  <2>1. t2b'.addr = AddByte(t2b.iData, t2b.jData)
    BY <1>12 DEF T2bGetF, T2bType, AddByte
  <2>2. Peek(c, t2b'.addr) = ByteAt(q, t2b.k + 1)
    BY <1>0, <1>12, <2>1 DEF T2bGetF, Streams, AfterSwap, Stream
  <2>. QED  BY <1>12, <2>2 DEF T2bGetF, T2bType, Streams, BeforeJ, ReadingJ, Swapping, AfterSwap
<1>13. CASE T2bGotF(sq, eq)
  BY <1>13 DEF T2bGotF, T2bType, Streams, BeforeJ, ReadingJ, Swapping, AfterSwap, T2bWren, Shows
<1>14. CASE T2bDecrypt
  <2>1. t2b'.dec = Xor[<<t2b.f, t2b.enc>>]
    BY <1>14 DEF T2bDecrypt, T2bType
  <2>2. Peek(pl, t2b.k) = Xor[<<ByteAt(q, t2b.k + 1), Peek(msg, t2b.k)>>]
    BY <1>0 DEF Decrypts
  <2>3. t2b.f = ByteAt(q, t2b.k + 1) /\ t2b.enc = Peek(msg, t2b.k)
    BY <1>14 DEF T2bDecrypt, Streams
  <2>4. t2b'.dec = Peek(pl, t2b.k)
    BY <2>1, <2>2, <2>3
  <2>. QED  BY <1>14, <2>4 DEF T2bDecrypt, T2bType, Streams, BeforeJ, ReadingJ, Swapping, AfterSwap
<1>15. CASE T2bWrite
  BY <1>15 DEF T2bWrite, T2bType, Streams, BeforeJ, ReadingJ, Swapping, AfterSwap
<1>16. CASE T2bPause
  <2>1. CASE t2b.state = "i_get_data_2"
    BY <1>16, <2>1 DEF T2bPause, T2bPauses, T2bType, Streams, BeforeJ, ReadingJ, Swapping, AfterSwap
  <2>2. CASE t2b.state = "j_get_data_2"
    BY <1>16, <2>2 DEF T2bPause, T2bPauses, T2bType, Streams, BeforeJ, ReadingJ, Swapping, AfterSwap
  <2>3. CASE t2b.state = "swap_1_wait"
    BY <1>16, <2>3 DEF T2bPause, T2bPauses, T2bType, Streams, BeforeJ, ReadingJ, Swapping, AfterSwap
  <2>4. CASE t2b.state = "swap_2_wait"
    BY <1>16, <2>4 DEF T2bPause, T2bPauses, T2bType, Streams, BeforeJ, ReadingJ, Swapping, AfterSwap
  <2>5. CASE t2b.state = "f_get_data_2"
    BY <1>16, <2>5 DEF T2bPause, T2bPauses, T2bType, Streams, BeforeJ, ReadingJ, Swapping, AfterSwap
  <2>6. CASE t2b.state = "decrypt_write_wait"
    BY <1>16, <2>6 DEF T2bPause, T2bPauses, T2bType, Streams, BeforeJ, ReadingJ, Swapping, AfterSwap
  <2>. QED  BY <1>16, <2>1, <2>2, <2>3, <2>4, <2>5, <2>6 DEF T2bPause, T2bPauses
<1>17. CASE T2bIncrementK
  <2>1. PICK k \in MsgIndex : k = t2b.k
    BY <1>0
  <2>2. k # MsgLen - 1 => (k + 1) % MsgLen = k + 1
    BY Constants DEF MsgIndex
  <2>3. k = MsgLen - 1 => k + 1 = MsgLen
    BY Constants
  <2>. QED  BY <1>17, <2>1, <2>2, <2>3 DEF T2bIncrementK, T2bType, Streams, BeforeJ, ReadingJ, Swapping, AfterSwap
<1>18. CASE T2bFinishing
  <2>1. t2b.counter < 2 => (t2b.counter + 1) % 4 = t2b.counter + 1 /\ t2b.counter + 1 # 0
    BY SmallNumbers DEF T2bType
  <2>. QED  BY <1>18, <2>1 DEF T2bFinishing, T2bType, Streams, BeforeJ, ReadingJ, Swapping, AfterSwap
<1>. QED  BY <1>1, <1>2, <1>3, <1>4, <1>5, <1>6, <1>7, <1>8, <1>9, <1>10, <1>11, <1>12, <1>13, <1>14,
             <1>15, <1>16, <1>17, <1>18 DEF T2bTick

\* A falling edge puts the task's signals on both buses.
LEMMA StreamingFalls ==
  ASSUME T2bType, NEW c \in Memory, NEW h \in Characters, NEW q, Stream(q), NEW pl, NEW msg,
         NEW reg, NEW rom, Streams(t2b, c, h, q, pl, msg, reg, rom, "high")
  PROVE  Streams(t2b, Written(c, [addr |-> t2b.addr, data |-> t2b.data, wren |-> T2bWren]),
                 Written(h, [addr |-> t2b.outAddr, data |-> t2b.outData, wren |-> T2bOutWren]),
                 q, pl, msg, reg, rom, "low")
<1>. DEFINE w == Written(c, [addr |-> t2b.addr, data |-> t2b.data, wren |-> T2bWren])
            g == Written(h, [addr |-> t2b.outAddr, data |-> t2b.outData, wren |-> T2bOutWren])
<1>0. t2b.k \in MsgIndex
  BY DEF T2bType
<1>1. w = IF T2bWren THEN Put(c, t2b.addr, t2b.data) ELSE c
  BY DEF Written, Put
<1>2. g = IF T2bOutWren THEN Put(h, t2b.outAddr, t2b.outData) ELSE h
  BY DEF Written, Put
<1>. HIDE DEF w, g
<1>3. CASE t2b.state = "swap_1_wait"
  <2>1. w = Put(c, t2b.addr, t2b.data) /\ g = h
    BY <1>1, <1>2, <1>3 DEF T2bWren, T2bOutWren
  <2>2. Streams(t2b, w, g, q, pl, msg, reg, rom, "low")
    BY <1>3, <2>1 DEF Streams, BeforeJ, ReadingJ, Swapping, AfterSwap
  <2>. QED  BY <2>2 DEF w, g
<1>4. CASE t2b.state = "swap_2_wait"
  <2>1. w = Put(c, t2b.addr, t2b.data) /\ g = h
    BY <1>1, <1>2, <1>4 DEF T2bWren, T2bOutWren
  <2>2. w = CellsAt(q, t2b.k + 1)
    BY <1>0, <1>4, <2>1 DEF Streams, ReadingJ, Swapping, Stream
  <2>3. Streams(t2b, w, g, q, pl, msg, reg, rom, "low")
    BY <1>4, <2>1, <2>2 DEF Streams, BeforeJ, ReadingJ, Swapping, AfterSwap
  <2>. QED  BY <2>3 DEF w, g
<1>5. CASE t2b.state = "decrypt_write_wait"
  <2>1. w = c /\ g = Put(h, t2b.k, Peek(pl, t2b.k)) /\ Decrypted(h, pl, t2b.k)
    BY <1>1, <1>2, <1>5 DEF T2bWren, T2bOutWren, Streams, AfterSwap
  <2>2. Decrypted(g, pl, t2b.k + 1)
    BY <1>0, <2>1, DecryptedMore
  <2>3. Decrypted(g, pl, t2b.k)
    BY <1>0, <2>2 DEF Decrypted, MsgIndex
  <2>4. Streams(t2b, w, g, q, pl, msg, reg, rom, "low")
    BY <1>5, <2>1, <2>2, <2>3 DEF Streams, BeforeJ, ReadingJ, Swapping, AfterSwap
  <2>. QED  BY <2>4 DEF w, g
<1>6. CASE ~T2bWren /\ ~T2bOutWren
  <2>1. w = c /\ g = h
    BY <1>1, <1>2, <1>6
  <2>2. Streams(t2b, w, g, q, pl, msg, reg, rom, "low")
    BY <1>6, <2>1 DEF Streams, BeforeJ, ReadingJ, Swapping, AfterSwap, T2bWren, T2bOutWren
  <2>. QED  BY <2>2 DEF w, g
<1>. QED  BY <1>3, <1>4, <1>5, <1>6 DEF T2bWren, T2bOutWren
-----------------------------------------------------------------------------
(***************************************************************************)
(* The verdict (task 3).  The decrypted-message memory holds pl and has    *)
(* captured the address reg.                                               *)
(***************************************************************************)

ValidTo(pl, n) == \A m \in 0 .. n - 1 : Peek(pl, m) \in ValidChars

\* The count, and whether an invalid character has been found, after n characters.
Counted(a, pl, n) == IF a.invalid THEN a.valid < MsgLen /\ ~ValidTo(pl, MsgLen)
                     ELSE a.valid = n /\ ValidTo(pl, n)

Accepts(a, pl) == a.valid >= MsgLen <=> ValidTo(pl, MsgLen)

FetchingData == {"decrypt_wait", "decrypt_get_data_2", "decrypt_check_data"}

Judges(a, pl, reg) ==
  /\ a.state = "i_counter_check" =>
       Counted(a, pl, a.i) /\ (~a.invalid => IF a.done THEN a.i = MsgLen ELSE a.i < MsgLen)
  /\ a.state \in {"decrypt_get_data_1"} \cup FetchingData =>
       ~a.invalid /\ Counted(a, pl, a.i) /\ a.i < MsgLen
  /\ a.state \in FetchingData \cup {"i_increment"} => (a.done <=> a.i = MsgLen - 1)
  /\ a.state \in {"decrypt_wait", "decrypt_get_data_2"} => a.addr = a.i
  /\ a.state = "decrypt_get_data_2" => reg = a.i
  /\ a.state = "decrypt_check_data" => a.dec = Peek(pl, a.i)
  /\ a.state = "i_increment" => a.i < MsgLen /\ Counted(a, pl, a.i + 1)
  /\ a.state = "finish" /\ a.counter = 0 => Accepts(a, pl)

LEMMA JudgingRises ==
  ASSUME T3Type, NEW pl, NEW reg, NEW dq, dq = Peek(pl, reg), NEW start,
         Judges(t3, pl, reg), T3Tick(start, dq), Fresh3
  PROVE  Judges(t3', pl, t3.addr)
<1>0. t3.i \in Nat /\ t3.valid \in Nat /\ MsgLen \in Nat /\ MsgLen >= 1 /\ MsgLen < Depth /\ Depth \in Nat
  BY Constants DEF T3Type, Byte
<1>1. CASE T3Idle(start)
  BY <1>1 DEF T3Idle, T3Type, Judges, FetchingData
<1>2. CASE T3Clear
  <2>1. ValidTo(pl, 0)
    BY DEF ValidTo
  <2>2. t3'.state = "i_counter_check" /\ t3'.i = 0 /\ t3'.valid = 0 /\ ~t3'.invalid /\ ~t3'.done
    BY <1>2 DEF T3Clear, T3Type
  <2>. QED  BY <1>0, <2>1, <2>2 DEF Judges, Counted, FetchingData
<1>3. CASE T3CounterCheck
  <2>1. CASE t3.invalid
    BY <1>0, <1>3, <2>1 DEF T3CounterCheck, T3Type, Judges, Counted, Accepts, FetchingData
  <2>2. CASE ~t3.invalid /\ t3.done
    BY <1>0, <1>3, <2>2 DEF T3CounterCheck, T3Type, Judges, Counted, Accepts, FetchingData
  <2>3. CASE ~t3.invalid /\ ~t3.done
    BY <1>0, <1>3, <2>3 DEF T3CounterCheck, T3Type, Judges, Counted, Accepts, FetchingData
  <2>. QED  BY <2>1, <2>2, <2>3
<1>4. CASE T3GetData
  <2>1. t3.i < MsgLen
    BY <1>4 DEF T3GetData, Judges
  <2>2. PICK i \in Nat : i = t3.i
    BY <1>0
  <2>3. i % MsgLen = i
    BY <1>0, <2>1, <2>2
  <2>4. /\ t3'.state = "decrypt_wait" /\ t3'.addr = t3.i /\ t3'.i = t3.i
        /\ t3'.valid = t3.valid
    BY <1>4, <2>2, <2>3 DEF T3GetData, T3Type
  <2>5. /\ t3'.invalid <=> t3.invalid
        /\ t3'.done <=> t3.i = MsgLen - 1
    BY <1>4 DEF T3GetData, T3Type
  <2>6. ~t3.invalid /\ Counted(t3, pl, t3.i)
    BY <1>4 DEF T3GetData, Judges
  <2>7. ~t3'.invalid /\ Counted(t3', pl, t3'.i)
    BY <2>4, <2>5, <2>6 DEF Counted
  <2>. QED  BY <2>1, <2>4, <2>5, <2>7 DEF Judges, FetchingData
<1>5. CASE T3Wait \/ T3GotData(dq)
  <2>1. /\ t3.state \in {"decrypt_wait", "decrypt_get_data_2"} /\ t3'.i = t3.i /\ t3'.valid = t3.valid
        /\ t3'.addr = t3.addr
    BY <1>5 DEF T3Wait, T3GotData, T3Type
  <2>2. /\ t3'.invalid <=> t3.invalid
        /\ t3'.done <=> t3.done
    BY <1>5 DEF T3Wait, T3GotData, T3Type
  <2>3. ~t3.invalid /\ Counted(t3, pl, t3.i) /\ t3.i < MsgLen /\ t3.addr = t3.i
    BY <2>1 DEF Judges, FetchingData
  <2>4. t3.done <=> t3.i = MsgLen - 1
    BY <2>1 DEF Judges, FetchingData
  <2>5. ~t3'.invalid /\ Counted(t3', pl, t3'.i)
    BY <2>1, <2>2, <2>3 DEF Counted
  <2>6. CASE T3Wait
    <3>1. t3'.state = "decrypt_get_data_2"
      BY <2>6 DEF T3Wait, T3Type
    <3>. QED  BY <2>1, <2>2, <2>3, <2>4, <2>5, <3>1 DEF Judges, FetchingData
  <2>7. CASE T3GotData(dq)
    <3>1. t3'.state = "decrypt_check_data" /\ t3'.dec = Peek(pl, t3.i)
      BY <2>7 DEF T3GotData, T3Type, Judges
    <3>. QED  BY <2>1, <2>2, <2>3, <2>4, <2>5, <3>1 DEF Judges, FetchingData
  <2>. QED  BY <1>5, <2>6, <2>7
<1>6. CASE T3CheckData
  <2>0. /\ t3'.state = "i_increment" /\ t3'.i = t3.i /\ t3.i < MsgLen /\ t3.valid = t3.i
        /\ t3.dec = Peek(pl, t3.i) /\ ValidTo(pl, t3.i) /\ ~t3.invalid
    BY <1>6 DEF T3CheckData, T3Type, Judges, Counted, FetchingData
  <2>1. t3'.done <=> t3.i = MsgLen - 1
    BY <1>6 DEF T3CheckData, T3Type, Judges, FetchingData
  <2>2. CASE t3.dec \in ValidChars
    <3>1. PICK i \in Nat : i = t3.i /\ i < MsgLen
      BY <1>0, <2>0
    <3>2. (i + 1) % (2 * MsgLen) = i + 1
      BY <1>0, <3>1
    <3>3. t3'.valid = i + 1 /\ ~t3'.invalid
      BY <1>6, <2>0, <2>2, <3>1, <3>2 DEF T3CheckData, T3Type
    <3>4. ValidTo(pl, i + 1)
      <4>1. \A m \in 0 .. (i + 1) - 1 : m = i \/ m \in 0 .. i - 1
        BY <3>1
      <4>. QED  BY <2>0, <2>2, <3>1, <4>1 DEF ValidTo
    <3>5. Counted(t3', pl, t3'.i + 1)
      BY <2>0, <3>1, <3>3, <3>4 DEF Counted
    <3>. QED  BY <2>0, <2>1, <3>5 DEF Judges, FetchingData
  <2>3. CASE t3.dec \notin ValidChars
    <3>1. t3'.valid = t3.valid /\ t3'.invalid
      BY <1>6, <2>3 DEF T3CheckData, T3Type
    <3>2. ~ValidTo(pl, MsgLen)
      <4>1. t3.i \in 0 .. MsgLen - 1
        BY <1>0, <2>0
      <4>. QED  BY <2>0, <2>3, <4>1 DEF ValidTo
    <3>3. Counted(t3', pl, t3'.i + 1)
      BY <2>0, <3>1, <3>2 DEF Counted
    <3>. QED  BY <2>0, <2>1, <3>3 DEF Judges, FetchingData
  <2>. QED  BY <2>2, <2>3
<1>7. CASE T3Increment
  <2>0. /\ t3.state = "i_increment" /\ t3.i < MsgLen /\ Counted(t3, pl, t3.i + 1)
        /\ t3.done <=> t3.i = MsgLen - 1
    BY <1>7 DEF T3Increment, Judges
  <2>1. PICK i \in Nat : i = t3.i /\ i < MsgLen
    BY <1>0, <2>0
  <2>2. (i + 1) % Depth = i + 1
    BY <1>0, <2>1
  <2>3. t3'.state = "i_counter_check" /\ t3'.i = i + 1 /\ t3'.valid = t3.valid
    BY <1>7, <2>1, <2>2 DEF T3Increment, T3Type
  <2>4. /\ t3'.invalid <=> t3.invalid
        /\ t3'.done <=> t3.done
    BY <1>7 DEF T3Increment, T3Type
  <2>5. Counted(t3', pl, t3'.i)
    BY <2>0, <2>1, <2>3, <2>4 DEF Counted
  <2>6. IF t3'.done THEN t3'.i = MsgLen ELSE t3'.i < MsgLen
    BY <1>0, <2>0, <2>1, <2>3, <2>4
  <2>. QED  BY <2>3, <2>5, <2>6 DEF Judges, FetchingData
<1>8. CASE T3Finishing
  <2>1. t3.counter < 2 => (t3.counter + 1) % 4 = t3.counter + 1 /\ t3.counter + 1 # 0
    BY SmallNumbers DEF T3Type
  <2>. QED  BY <1>8, <2>1 DEF T3Finishing, T3Type, Judges, FetchingData
<1>. QED  BY <1>1, <1>2, <1>3, <1>4, <1>5, <1>6, <1>7, <1>8 DEF T3Tick
-----------------------------------------------------------------------------
(***************************************************************************)
(* The fill (task 1).  Each write stores the previous index, so the last   *)
(* cell is reached by the write that begins the next pass, or by one that  *)
(* a reset cut short.  fu and pr are the values of full and proper.        *)
(***************************************************************************)

Prefix(c, n) == \A m \in 0 .. n - 1 : Peek(c, m) = m
Top(c, fu) == fu => Peek(c, Depth - 1) = Depth - 1

\* The last cell: at its power-up value until task 1 has had the last index in its
\* registers; from then on right, or about to be made so.
LastCell(a, c, fu) ==
  /\ a.addr = a.data
  /\ ~fu => Peek(c, Depth - 1) = PowerUp /\ a.addr # Depth - 1
  /\ fu => a.addr = Depth - 1 \/ Peek(c, Depth - 1) = Depth - 1

IsFilled(c, fu, pr) == fu /\ c = Filled(pr)

\* What task 1 has filled before index i, by its state.
Fills(a, c, fu, pr, ck) ==
  /\ a.state = "check_finish" =>
       IF a.done THEN IsFilled(c, fu, pr) /\ a.addr = Depth - 1
       ELSE a.i > 0 => a.addr = a.i - 1 /\ Prefix(c, a.i - 1) /\ Top(c, fu)
  /\ a.state = "smem_write" =>
       /\ a.i > 0 => a.addr = a.i - 1 /\ Prefix(c, IF ck = "low" THEN a.i ELSE a.i - 1)
       /\ ck = "low" \/ a.i > 0 => Top(c, fu)
  /\ a.state = "i_increment" =>
       /\ a.addr = a.i /\ (a.done <=> a.i = Depth - 1)
       /\ IF a.done THEN IsFilled(c, fu, pr) ELSE Prefix(c, a.i) /\ Top(c, fu)
  /\ a.state = "finish" /\ a.counter = 0 => IsFilled(c, fu, pr) /\ a.addr = Depth - 1

LEMMA FilledIs ==
  ASSUME NEW c \in Memory, NEW fu \in BOOLEAN, Prefix(c, Depth - 1),
         Peek(c, Depth - 1) = IF fu THEN Depth - 1 ELSE PowerUp
  PROVE  c = Filled(fu)
<1>1. \A m \in Byte : m = Depth - 1 \/ m \in 0 .. (Depth - 1) - 1
  BY Constants DEF Byte
<1>2. c = [m \in Byte |-> c[m]]
  BY DEF Memory
<1>3. \A m \in Byte : c[m] = IF m = Depth - 1 /\ ~fu THEN PowerUp ELSE m
  BY <1>1 DEF Prefix, Peek
<1>4. c = [m \in Byte |-> IF m = Depth - 1 /\ ~fu THEN PowerUp ELSE m]
  BY <1>2, <1>3
<1>5. Filled(fu) = [m \in Byte |-> IF m = Depth - 1 /\ ~fu THEN PowerUp ELSE m]
  BY DEF Filled, Identity
<1>. QED  BY <1>4, <1>5

LEMMA FilledType ==
  ASSUME NEW again \in BOOLEAN
  PROVE  Filled(again) \in Memory
  BY Constants DEF Filled, Identity, Memory

\* A rising edge, with the history variables' new values fu1 and pr1.
LEMMA FillingRises ==
  ASSUME T1Type, NEW c \in Memory, NEW fu \in BOOLEAN, NEW pr, NEW fu1 \in BOOLEAN, NEW pr1,
         LastWrite => fu1 /\ pr1 = fu,
         ~LastWrite => (fu1 <=> fu) /\ pr1 = pr,
         LastCell(t1, c, fu), Fills(t1, c, fu, pr, "low"), NEW start, T1Tick(start), Fresh1
  PROVE  LastCell(t1', c, fu1) /\ Fills(t1', c, fu1, pr1, "high")
<1>0. t1.i \in Nat /\ t1.i <= Depth - 1 /\ Depth \in Nat /\ Depth >= 2
  BY Constants DEF T1Type, Byte
<1>1. CASE T1Idle(start)
  <2>1. (fu1 <=> fu) /\ t1'.addr = t1.addr /\ t1'.data = t1.data
    BY <1>1 DEF T1Idle, T1Type, LastWrite
  <2>2. t1'.i = 0 /\ ~t1'.done /\ t1'.state \in {"idle", "check_finish"}
    BY <1>1 DEF T1Idle, T1Type
  <2>. QED  BY <2>1, <2>2 DEF LastCell, Fills
<1>2. CASE T1CheckFinish
  <2>1. (fu1 <=> fu) /\ pr1 = pr
    BY <1>2 DEF T1CheckFinish, LastWrite
  <2>2. CASE t1.done
    BY <1>2, <2>1, <2>2 DEF T1CheckFinish, T1Type, LastCell, Fills, IsFilled
  <2>3. CASE ~t1.done
    BY <1>2, <2>1, <2>3 DEF T1CheckFinish, T1Type, LastCell, Fills, Top
  <2>. QED  BY <2>2, <2>3
<1>3. CASE T1SmemWrite
  <2>1. /\ t1'.state = "i_increment" /\ t1'.i = t1.i /\ t1'.addr = t1.i /\ t1'.data = t1.i
        /\ t1.state = "smem_write"
    BY <1>3 DEF T1SmemWrite, T1Type
  <2>2. t1'.done <=> t1.i = Depth - 1
    BY <1>3 DEF T1SmemWrite, T1Type
  <2>3. Top(c, fu) /\ (t1.i > 0 => Prefix(c, t1.i))
    BY <2>1 DEF Fills
  <2>4. Prefix(c, t1.i)
    <3>1. t1.i = 0 => Prefix(c, t1.i)
      BY DEF Prefix
    <3>. QED  BY <1>0, <2>3, <3>1
  <2>5. CASE t1.i = Depth - 1
    <3>1. fu1 /\ pr1 = fu
      BY <2>1, <2>5 DEF LastWrite
    <3>2. Peek(c, Depth - 1) = IF fu THEN Depth - 1 ELSE PowerUp
      BY <2>3 DEF Top, LastCell
    <3>3. c = Filled(fu)
      BY <2>4, <2>5, <3>2, FilledIs
    <3>. QED  BY <2>1, <2>2, <2>5, <3>1, <3>3 DEF LastCell, Fills, IsFilled
  <2>6. CASE t1.i # Depth - 1
    <3>1. fu1 <=> fu
      BY <2>1, <2>6 DEF LastWrite
    <3>. QED  BY <2>1, <2>2, <2>3, <2>4, <2>6, <3>1 DEF LastCell, Fills, Top
  <2>. QED  BY <2>5, <2>6
<1>4. CASE T1Increment
  <2>1. (fu1 <=> fu) /\ pr1 = pr
    BY <1>4 DEF T1Increment, LastWrite
  <2>2. t1'.state = "check_finish" /\ t1'.addr = t1.addr /\ t1'.data = t1.data
    BY <1>4 DEF T1Increment, T1Type
  <2>3. (t1'.done <=> t1.done) /\ t1'.i = (t1.i + 1) % Depth
    BY <1>4 DEF T1Increment, T1Type
  <2>4. CASE t1.done
    BY <1>4, <2>1, <2>2, <2>3, <2>4 DEF T1Increment, LastCell, Fills, IsFilled
  <2>5. CASE ~t1.done
    <3>1. PICK i \in Nat : i = t1.i /\ i < Depth - 1
      <4>1. t1.i # Depth - 1
        BY <1>4, <2>5 DEF T1Increment, Fills
      <4>. QED  BY <1>0, <4>1
    <3>2. (i + 1) % Depth = i + 1
      BY <1>0, <3>1
    <3>3. t1'.i = i + 1 /\ (i + 1) - 1 = i
      BY <2>3, <3>1, <3>2
    <3>4. t1.addr = i /\ Prefix(c, i) /\ Top(c, fu)
      BY <1>4, <2>5, <3>1 DEF T1Increment, Fills
    <3>. QED  BY <2>1, <2>2, <2>3, <2>5, <3>3, <3>4 DEF LastCell, Fills, Top
  <2>. QED  BY <2>4, <2>5
<1>5. CASE T1Finishing
  <2>1. t1.counter < 2 => (t1.counter + 1) % 4 = t1.counter + 1 /\ t1.counter + 1 # 0
    BY SmallNumbers DEF T1Type
  <2>2. fu1 <=> fu
    BY <1>5 DEF T1Finishing, LastWrite
  <2>. QED  BY <1>5, <2>1, <2>2 DEF T1Finishing, T1Type, LastCell, Fills
<1>. QED  BY <1>1, <1>2, <1>3, <1>4, <1>5 DEF T1Tick

\* A falling edge puts task 1's signals on the bus.
LEMMA FillingFalls ==
  ASSUME T1Type, NEW c \in Memory, NEW fu \in BOOLEAN, NEW pr,
         LastCell(t1, c, fu), Fills(t1, c, fu, pr, "high"), NEW w,
         w = Written(c, [addr |-> t1.addr, data |-> t1.data, wren |-> T1Wren])
  PROVE  LastCell(t1, w, fu) /\ Fills(t1, w, fu, pr, "low")
<1>0. /\ t1.i \in Nat /\ t1.i <= Depth - 1 /\ Depth \in Nat /\ Depth >= 2 /\ Depth - 1 \in Byte
      /\ t1.addr \in Byte /\ t1.data = t1.addr
  BY Constants DEF T1Type, Byte, LastCell
<1>1. CASE T1Wren
  <2>1. w = Put(c, t1.addr, t1.addr) /\ t1.state = "smem_write"
    BY <1>0, <1>1 DEF Written, Put, T1Wren
  <2>2. ASSUME NEW m \in Byte PROVE Peek(w, m) = IF m = t1.addr THEN m ELSE Peek(c, m)
    BY <2>1 DEF Put, Peek, Memory
  <2>3. LastCell(t1, w, fu) /\ Top(w, fu)
    BY <1>0, <2>2 DEF LastCell, Top
  <2>4. CASE t1.i > 0
    <3>1. t1.addr = t1.i - 1 /\ Prefix(c, t1.i - 1)
      BY <2>1, <2>4 DEF Fills
    <3>2. ASSUME NEW m \in 0 .. t1.i - 1 PROVE Peek(w, m) = m
      <4>1. m \in Byte /\ (m = t1.addr \/ m \in 0 .. (t1.i - 1) - 1)
        BY <1>0, <3>1 DEF Byte
      <4>. QED  BY <2>2, <3>1, <4>1 DEF Prefix
    <3>3. Prefix(w, t1.i)
      BY <3>2 DEF Prefix
    <3>. QED  BY <2>1, <2>3, <3>1, <3>3 DEF Fills
  <2>5. CASE ~(t1.i > 0)
    BY <2>1, <2>3, <2>5 DEF Fills
  <2>. QED  BY <2>4, <2>5
<1>2. CASE ~T1Wren
  <2>1. w = c
    BY <1>2 DEF Written
  <2>. QED  BY <1>2, <2>1 DEF Fills, T1Wren
<1>. QED  BY <1>1, <1>2

-----------------------------------------------------------------------------
(***************************************************************************)
(* The inductive invariant: the four tasks on the memories of the core.    *)
(***************************************************************************)

\* The memories' cells, counting the writes the buses hold until the next rising edge.
Cells == Written(sMem, sBus)
Chars == Written(dMem, dBus)

\* What RC4 makes of the current key.
Rounds == KeyRounds(Filled(proper), secretKey)
Keystreams == StreamRounds(Scheduled(Filled(proper), secretKey))
Plain == Plaintext(Filled(proper), secretKey, message)

\* A rising edge takes the writes.
Settled == clk = "high" => Cells = sMem /\ Chars = dMem

Filling == LastCell(t1, Cells, full) /\ Fills(t1, Cells, full, proper, clk)
Scheduling == Schedules(t2a, Cells, Rounds, sReg, clk)
Streaming == Streams(t2b, Cells, Chars, Keystreams, Plain, message, sReg, romReg, clk)
Judging == Judges(t3, Plain, dReg)

\* What a task leaves for the next one while neither is running.
Handover ==
  /\ state \in {"task2a_start", "task2b_start"} \/ In2a \/ In2b => full /\ t1.addr = Depth - 1
  /\ state = "task2a_start" \/ (In2a /\ t2a.state = "idle") => Cells = Filled(proper)
  /\ state = "task2b_start" \/ (In2b /\ t2b.state = "idle") => Cells = Scheduled(Filled(proper), secretKey)
  /\ state = "task2b_start" => ~sBus.wren
  /\ state = "task3_start" \/ In3 => Chars = Plain /\ ~dBus.wren
  /\ state = "check_valid_data_counter" => Accepts(t3, Plain)

Data == Settled /\ Filling /\ Scheduling /\ Streaming /\ Judging /\ Handover

\* A task that is not running, or is leaving: nothing is claimed of its data.
Quiet(a) == a.state = "idle" \/ (a.state = "finish" /\ a.counter # 0)

LEMMA QuietFills ==
  ASSUME NEW a, Quiet(a), NEW c, NEW fu, NEW pr, NEW ck
  PROVE  Fills(a, c, fu, pr, ck)
  BY DEF Quiet, Fills

LEMMA QuietSchedules ==
  ASSUME NEW a, Quiet(a), NEW c, NEW rd, NEW reg, NEW ck
  PROVE  Schedules(a, c, rd, reg, ck)
  BY DEF Quiet, Schedules, BeforeJ, ReadingJ, Swapping

LEMMA QuietStreams ==
  ASSUME NEW b, Quiet(b), NEW c, NEW h, NEW q, NEW pl, NEW msg, NEW reg, NEW rom, NEW ck
  PROVE  Streams(b, c, h, q, pl, msg, reg, rom, ck)
  BY DEF Quiet, Streams, BeforeJ, ReadingJ, Swapping, AfterSwap

LEMMA QuietJudges ==
  ASSUME NEW a, Quiet(a), NEW pl, NEW reg
  PROVE  Judges(a, pl, reg)
  BY DEF Quiet, Judges, FetchingData

\* A task runs only while the orchestrator attends to it.
LEMMA OthersQuiet ==
  ASSUME Control
  PROVE  /\ ~In1 => Quiet(t1) /\ ~LastWrite
         /\ ~In2a => Quiet(t2a)
         /\ ~In2b => Quiet(t2b)
         /\ ~In3 => Quiet(t3)
<1>1. ~In1 => Quiet(t1) /\ ~LastWrite
  BY DEF Control, Meets1, Handshake, Task1, In1, Quiet, LastWrite
<1>2. ~In2a => Quiet(t2a)
  BY DEF Control, Meets2a, Handshake, Task2a, In2a, Quiet
<1>3. ~In2b => Quiet(t2b)
  BY DEF Control, Meets2b, Handshake, Task2b, In2b, Quiet
<1>4. ~In3 => Quiet(t3)
  BY DEF Control, Meets3, Handshake, Task3, In3, Quiet
<1>. QED  BY <1>1, <1>2, <1>3, <1>4

LEMMA QuietRises ==
  ASSUME Control, RisingEdge
  PROVE  /\ ~In1 => Quiet(t1')
         /\ ~In2a => Quiet(t2a')
         /\ ~In2b => Quiet(t2b')
         /\ ~In3 => Quiet(t3')
<1>0. /\ t1.counter \in 0 .. 3 /\ t2a.counter \in 0 .. 3 /\ t2b.counter \in 0 .. 3 /\ t3.counter \in 0 .. 3
  BY DEF Control, TypeOK, T1Type, T2aType, T2bType, T3Type
<1>1. ~In1 => Quiet(t1')
  <2>1. T1Type /\ Fresh1 /\ Meets1 /\ T1Tick(state = "task1_wait_1")
    BY DEF Control, TypeOK, RisingEdge
  <2>. QED  BY <1>0, <2>1, T1Moves, OthersQuiet DEF Quiet, In1
<1>2. ~In2a => Quiet(t2a')
  <2>1. T2aType /\ Fresh2a /\ T2aTick(state = "task2a_wait_1", secretKey, sMem[sReg])
    BY DEF Control, TypeOK, RisingEdge
  <2>. QED  BY <1>0, <2>1, T2aMoves, OthersQuiet DEF Quiet, In2a
<1>3. ~In2b => Quiet(t2b')
  <2>1. T2bType /\ Fresh2b /\ T2bTick(state = "task2b_wait_1", sMem[sReg], message[romReg])
    BY DEF Control, TypeOK, RisingEdge
  <2>. QED  BY <1>0, <2>1, T2bMoves, OthersQuiet DEF Quiet, In2b
<1>4. ~In3 => Quiet(t3')
  <2>1. T3Type /\ Fresh3 /\ T3Tick(state = "task3_wait_1", dMem[dReg])
    BY DEF Control, TypeOK, RisingEdge
  <2>. QED  BY <1>0, <2>1, T3Moves, OthersQuiet DEF Quiet, In3
<1>. QED  BY <1>1, <1>2, <1>3, <1>4

\* The data of the current key are as the lemmas about the tasks need them.
LEMMA DataOfKey ==
  ASSUME Control
  PROVE  /\ Cells \in Memory /\ Chars \in Characters /\ secretKey \in Nat /\ message \in Characters
         /\ proper \in BOOLEAN /\ full \in BOOLEAN /\ clk \in {"low", "high"}
         /\ Schedule(Rounds, secretKey) /\ CellsAt(Rounds, 0) = Filled(proper)
         /\ CellsAt(Rounds, Depth) = Scheduled(Filled(proper), secretKey)
         /\ Stream(Keystreams) /\ CellsAt(Keystreams, 0) = Scheduled(Filled(proper), secretKey)
         /\ Decrypts(Plain, Keystreams, message)
<1>1. /\ Cells \in Memory /\ Chars \in Characters
  BY WrittenIs DEF Control, TypeOK, Cells, Chars, Memory, Characters
<1>2. /\ secretKey \in Nat /\ message \in Characters /\ proper \in BOOLEAN /\ full \in BOOLEAN
      /\ clk \in {"low", "high"}
  BY Constants, KeyWrapIs DEF Control, TypeOK, Characters
<1>3. Filled(proper) \in Memory
  BY <1>2, FilledType
<1>4. /\ Schedule(Rounds, secretKey) /\ CellsAt(Rounds, 0) = Filled(proper)
      /\ CellsAt(Rounds, Depth) = Scheduled(Filled(proper), secretKey)
      /\ Scheduled(Filled(proper), secretKey) \in Memory
  BY <1>2, <1>3, ScheduleOfKey DEF Rounds
<1>5. Stream(Keystreams) /\ CellsAt(Keystreams, 0) = Scheduled(Filled(proper), secretKey)
  BY <1>4, StreamOfCells DEF Keystreams
<1>6. Decrypts(Plain, Keystreams, message)
  BY <1>2, <1>3, PlaintextOfKey DEF Plain, Keystreams
<1>. QED  BY <1>1, <1>2, <1>4, <1>5, <1>6

LEMMA WrittenTwice ==
  ASSUME NEW I, NEW mem \in [I -> Byte], NEW bus \in [addr : I, data : Byte, wren : BOOLEAN]
  PROVE  Written(Written(mem, bus), bus) = Written(mem, bus)
  BY DEF Written

-----------------------------------------------------------------------------
(***************************************************************************)
(* The rising edge.                                                        *)
(***************************************************************************)

\* The memories take the writes and capture the active task's addresses.
LEMMA RisingMemories ==
  ASSUME Control, RisingEdge
  PROVE  /\ Cells' = Cells /\ Chars' = Chars /\ sMem' = Cells /\ dMem' = Chars
         /\ clk = "low" /\ clk' = "high" /\ romReg' = t2b.romAddr
         /\ UNCHANGED <<secretKey, message, sBus, dBus>>
         /\ In2a => sReg' = t2a.addr
         /\ In2b => sReg' = t2b.addr
         /\ In3 => dReg' = t3.addr
<1>1. /\ sMem \in [Byte -> Byte] /\ dMem \in [MsgIndex -> Byte]
      /\ sBus \in [addr : Byte, data : Byte, wren : BOOLEAN]
      /\ dBus \in [addr : MsgIndex, data : Byte, wren : BOOLEAN]
  BY DEF Control, TypeOK
<1>2. /\ sMem' = Cells /\ dMem' = Chars /\ sReg' = sBus.addr /\ dReg' = dBus.addr
      /\ romReg' = t2b.romAddr /\ UNCHANGED <<secretKey, message, sBus, dBus>>
      /\ clk = "low" /\ clk' = "high"
  BY DEF RisingEdge, RamTick, Cells, Chars, busVars
<1>3. Cells' = Written(Written(sMem, sBus), sBus) /\ Chars' = Written(Written(dMem, dBus), dBus)
  BY <1>2 DEF Cells, Chars
<1>4. Cells' = Cells /\ Chars' = Chars
  BY <1>1, <1>3, WrittenTwice DEF Cells, Chars
<1>5. /\ In2a => sBus.addr = t2a.addr
      /\ In2b => sBus.addr = t2b.addr
      /\ In3 => dBus.addr = t3.addr
  BY <1>2 DEF Control, BusesDriven
<1>. QED  BY <1>2, <1>4, <1>5

\* Outside task 1 the pass, hence what RC4 makes of the key, stays the same.
LEMMA RisingPass ==
  ASSUME Control, RisingEdge, ~LastWrite
  PROVE  /\ full' = full /\ proper' = proper
         /\ Rounds' = Rounds /\ Keystreams' = Keystreams /\ Plain' = Plain
<1>1. full' = full /\ proper' = proper
  BY DEF RisingEdge, HistoryTick, Control, TypeOK
<1>2. UNCHANGED <<secretKey, message>>
  BY RisingMemories
<1>. QED  BY <1>1, <1>2 DEF Rounds, Keystreams, Plain

LEMMA RisingFilling ==
  ASSUME Control, Data, RisingEdge
  PROVE  Filling'
<1>1. /\ Cells' = Cells /\ clk = "low" /\ clk' = "high" /\ Cells \in Memory
      /\ full \in BOOLEAN /\ full' \in BOOLEAN
  BY RisingMemories, DataOfKey, RisingTypes DEF Control, TypeOK
<1>2. /\ LastWrite => full' /\ proper' = full
      /\ ~LastWrite => (full' <=> full) /\ proper' = proper
  BY DEF RisingEdge, HistoryTick
<1>3. T1Type /\ Fresh1 /\ T1Tick(state = "task1_wait_1")
  BY DEF Control, TypeOK, RisingEdge
<1>4. LastCell(t1, Cells, full) /\ Fills(t1, Cells, full, proper, "low")
  BY <1>1 DEF Data, Filling
<1>5. LastCell(t1', Cells, full') /\ Fills(t1', Cells, full', proper', "high")
  BY <1>1, <1>2, <1>3, <1>4, FillingRises
<1>. QED  BY <1>1, <1>5 DEF Filling

LEMMA RisingScheduling ==
  ASSUME Control, Data, RisingEdge
  PROVE  Scheduling'
<1>1. /\ Cells' = Cells /\ clk = "low" /\ clk' = "high" /\ (In2a => sReg' = t2a.addr)
  BY RisingMemories
<1>2. CASE In2a
  <2>1. ~LastWrite
    BY <1>2, OthersQuiet DEF In1, In2a
  <2>2. Rounds' = Rounds
    BY <2>1, RisingPass
  <2>3. T2aType /\ Fresh2a /\ T2aTick(state = "task2a_wait_1", secretKey, sMem[sReg])
    BY DEF Control, TypeOK, RisingEdge
  <2>4. Shows(sMem[sReg], Cells, sReg, T2aWren)
    <3>1. sBus.wren = T2aWren
      BY <1>1, <1>2 DEF Control, BusesDriven
    <3>2. ~T2aWren => Cells = sMem
      BY <3>1 DEF Cells, Written
    <3>. QED  BY <3>2 DEF Shows, Peek
  <2>5. (state = "task2a_wait_1") /\ t2a.state = "idle" => Begins(Cells, Rounds)
    BY <1>2, DataOfKey DEF Data, Handover, Begins
  <2>6. Schedules(t2a, Cells, Rounds, sReg, "low")
    BY <1>1 DEF Data, Scheduling
  <2>7. Schedules(t2a', Cells, Rounds, t2a.addr, "high")
    BY <2>3, <2>4, <2>5, <2>6, DataOfKey, SchedulingRises
  <2>. QED  BY <1>1, <1>2, <2>2, <2>7 DEF Scheduling
<1>3. CASE ~In2a
  BY <1>3, QuietRises, QuietSchedules DEF Scheduling
<1>. QED  BY <1>2, <1>3

LEMMA RisingStreaming ==
  ASSUME Control, Data, RisingEdge
  PROVE  Streaming'
<1>1. /\ Cells' = Cells /\ Chars' = Chars /\ clk = "low" /\ clk' = "high" /\ message' = message
      /\ (In2b => sReg' = t2b.addr) /\ romReg' = t2b.romAddr
  BY RisingMemories
<1>2. CASE In2b
  <2>1. ~LastWrite
    BY <1>2, OthersQuiet DEF In1, In2b
  <2>2. Keystreams' = Keystreams /\ Plain' = Plain
    BY <2>1, RisingPass
  <2>3. T2bType /\ Fresh2b /\ T2bTick(state = "task2b_wait_1", sMem[sReg], message[romReg])
    BY DEF Control, TypeOK, RisingEdge
  <2>4. Shows(sMem[sReg], Cells, sReg, T2bWren)
    <3>1. sBus.wren = T2bWren
      BY <1>1, <1>2 DEF Control, BusesDriven
    <3>2. ~T2bWren => Cells = sMem
      BY <3>1 DEF Cells, Written
    <3>. QED  BY <3>2 DEF Shows, Peek
  <2>5. (state = "task2b_wait_1") /\ t2b.state = "idle" => Begins(Cells, Keystreams)
    BY <1>2, DataOfKey DEF Data, Handover, Begins
  <2>6. Streams(t2b, Cells, Chars, Keystreams, Plain, message, sReg, romReg, "low")
    BY <1>1 DEF Data, Streaming
  <2>7. message[romReg] = Peek(message, romReg)
    BY DEF Peek
  <2>8. Streams(t2b', Cells, Chars, Keystreams, Plain, message, t2b.addr, t2b.romAddr, "high")
    BY <2>3, <2>4, <2>5, <2>6, <2>7, DataOfKey, StreamingRises
  <2>. QED  BY <1>1, <1>2, <2>2, <2>8 DEF Streaming
<1>3. CASE ~In2b
  BY <1>3, QuietRises, QuietStreams DEF Streaming
<1>. QED  BY <1>2, <1>3

LEMMA RisingJudging ==
  ASSUME Control, Data, RisingEdge
  PROVE  Judging'
<1>1. clk = "low" /\ (In3 => dReg' = t3.addr)
  BY RisingMemories
<1>2. CASE In3
  <2>1. ~LastWrite
    BY <1>2, OthersQuiet DEF In1, In3
  <2>2. Plain' = Plain
    BY <2>1, RisingPass
  <2>3. T3Type /\ Fresh3 /\ T3Tick(state = "task3_wait_1", dMem[dReg])
    BY DEF Control, TypeOK, RisingEdge
  <2>4. dMem[dReg] = Peek(Plain, dReg)
    <3>1. Chars = Plain /\ ~dBus.wren
      BY <1>2 DEF Data, Handover
    <3>2. dMem = Plain
      BY <3>1 DEF Chars, Written
    <3>. QED  BY <3>2 DEF Peek
  <2>5. Judges(t3, Plain, dReg)
    BY DEF Data, Judging
  <2>6. Judges(t3', Plain, t3.addr)
    BY <2>3, <2>4, <2>5, JudgingRises
  <2>. QED  BY <1>1, <1>2, <2>2, <2>6 DEF Judging
<1>3. CASE ~In3
  BY <1>3, QuietRises, QuietJudges DEF Judging
<1>. QED  BY <1>2, <1>3

\* A task has just been left: it is in state finish, for the first cycle.
LEMMA Leaving ==
  ASSUME Control, RisingEdge
  PROVE  /\ state' = "task2a_start" => state = "task1_wait_2" /\ t1.state = "finish" /\ t1.counter = 0
         /\ state' = "task2b_start" => state = "task2a_wait_2" /\ t2a.state = "finish" /\ t2a.counter = 0
         /\ state' = "task3_start" => state = "task2b_wait_2" /\ t2b.state = "finish" /\ t2b.counter = 0
         /\ state' = "check_valid_data_counter" =>
              state = "task3_wait_2" /\ t3.state = "finish" /\ t3.counter = 0
         /\ In2a' => In2a \/ state = "task2a_start"
         /\ In2b' => In2b \/ state = "task2b_start"
         /\ In3' => In3 \/ state = "task3_start"
<1>1. Moves /\ state \in StateNames
  BY CoreMoves, StateNamesAre DEF Control, TypeOK, RisingEdge
<1>2. /\ state' = "task2a_start" => state = "task1_wait_2" /\ t1.state = "finish"
      /\ state' = "task2b_start" => state = "task2a_wait_2" /\ t2a.state = "finish"
      /\ state' = "task3_start" => state = "task2b_wait_2" /\ t2b.state = "finish"
      /\ state' = "check_valid_data_counter" => state = "task3_wait_2" /\ t3.state = "finish"
  BY <1>1 DEF Moves, StateNames
<1>3. /\ In2a' => In2a \/ state = "task2a_start"
      /\ In2b' => In2b \/ state = "task2b_start"
      /\ In3' => In3 \/ state = "task3_start"
  BY <1>1 DEF Moves, StateNames, In2a, In2b, In3
<1>4. /\ state = "task1_wait_2" /\ t1.state = "finish" => t1.counter = 0
      /\ state = "task2a_wait_2" /\ t2a.state = "finish" => t2a.counter = 0
      /\ state = "task2b_wait_2" /\ t2b.state = "finish" => t2b.counter = 0
      /\ state = "task3_wait_2" /\ t3.state = "finish" => t3.counter = 0
  BY DEF Control, Meets1, Meets2a, Meets2b, Meets3, Handshake, Task1, Task2a, Task2b, Task3
<1>. QED  BY <1>2, <1>3, <1>4

LEMMA RisingHandover ==
  ASSUME Control, Data, RisingEdge
  PROVE  Handover'
<1>1. /\ Cells' = Cells /\ Chars' = Chars /\ clk = "low" /\ UNCHANGED <<secretKey, message, sBus, dBus>>
  BY RisingMemories
<1>2. /\ state' \in {"task2a_start", "task2b_start"} \/ In2a' \/ In2b' => full' /\ t1'.addr = Depth - 1
  <2>1. SUFFICES ASSUME state' \in {"task2a_start", "task2b_start"} \/ In2a' \/ In2b'
                 PROVE  full' /\ t1'.addr = Depth - 1
    OBVIOUS
  <2>2. \/ state = "task1_wait_2" /\ t1.state = "finish" /\ t1.counter = 0
        \/ state \in {"task2a_start", "task2b_start"} \/ In2a \/ In2b
    BY <2>1, Leaving DEF In2a
  <2>3. full /\ t1.addr = Depth - 1
    BY <2>2 DEF Data, Filling, Fills, IsFilled, Handover
  <2>4. full'
    BY <2>3 DEF RisingEdge, HistoryTick
  <2>5. t1.state \in {"idle", "finish"}
    BY <2>2, OthersQuiet DEF Quiet, In1, In2a, In2b
  <2>6. t1'.addr = t1.addr
    <3>1. T1Tick(state = "task1_wait_1") /\ T1Type
      BY DEF Control, TypeOK, RisingEdge
    <3>. QED  BY <2>5, <3>1 DEF T1Tick, T1Idle, T1Finishing, T1CheckFinish, T1SmemWrite, T1Increment, T1Type
  <2>. QED  BY <2>3, <2>4, <2>6
<1>3. state' = "task2a_start" \/ (In2a' /\ t2a'.state = "idle") => Cells' = Filled(proper)'
  <2>1. SUFFICES ASSUME state' = "task2a_start" \/ (In2a' /\ t2a'.state = "idle")
                 PROVE  Cells' = Filled(proper')
    BY DEF Filled, Identity
  <2>2. CASE state' = "task2a_start"
    <3>1. t1.state = "finish" /\ t1.counter = 0
      BY <2>2, Leaving
    <3>2. Cells = Filled(proper)
      BY <3>1 DEF Data, Filling, Fills, IsFilled
    <3>. QED  BY <1>1, <3>1, <3>2, RisingPass DEF LastWrite
  <2>3. CASE In2a' /\ t2a'.state = "idle"
    <3>1. state = "task2a_start" \/ In2a
      BY <2>3, Leaving
    <3>2. ~LastWrite
      BY <3>1, OthersQuiet DEF In1, In2a
    <3>3. In2a => t2a.state = "idle"
      <4>1. T2aType /\ Fresh2a /\ T2aTick(state = "task2a_wait_1", secretKey, sMem[sReg])
        BY DEF Control, TypeOK, RisingEdge
      <4>2. t2a.counter \in 0 .. 3
        BY <4>1 DEF T2aType
      <4>3. In2a /\ t2a.state = "finish" => t2a.counter = 0
        BY DEF Control, Meets2a, Handshake, Task2a, In2a
      <4>. QED  BY <2>3, <4>1, <4>2, <4>3, T2aMoves
    <3>4. Cells = Filled(proper)
      BY <3>1, <3>3 DEF Data, Handover
    <3>. QED  BY <1>1, <3>2, <3>4, RisingPass
  <2>. QED  BY <2>1, <2>2, <2>3
<1>4. /\ state' = "task2b_start" \/ (In2b' /\ t2b'.state = "idle") =>
           Cells' = Scheduled(Filled(proper), secretKey)'
      /\ state' = "task2b_start" => ~sBus'.wren
  <2>1. CASE state' = "task2b_start"
    <3>1. state = "task2a_wait_2" /\ t2a.state = "finish" /\ t2a.counter = 0
      BY <2>1, Leaving
    <3>2. Cells = Scheduled(Filled(proper), secretKey)
      BY <3>1, DataOfKey DEF Data, Scheduling, Schedules
    <3>3. ~LastWrite
      BY <3>1, OthersQuiet DEF In1
    <3>4. proper' = proper
      BY <3>3, RisingPass
    <3>5. Scheduled(Filled(proper), secretKey)' = Scheduled(Filled(proper), secretKey)
      BY <1>1, <3>4
    <3>6. sBus.wren = T2aWren
      BY <1>1, <3>1 DEF Control, BusesDriven, In2a
    <3>7. ~T2aWren
      BY <3>1 DEF T2aWren
    <3>. QED  BY <1>1, <3>2, <3>5, <3>6, <3>7
  <2>2. CASE In2b' /\ t2b'.state = "idle"
    <3>1. state = "task2b_start" \/ In2b
      BY <2>2, Leaving
    <3>2. ~LastWrite
      BY <3>1, OthersQuiet DEF In1, In2b
    <3>3. In2b => t2b.state = "idle"
      <4>1. T2bType /\ Fresh2b /\ T2bTick(state = "task2b_wait_1", sMem[sReg], message[romReg])
        BY DEF Control, TypeOK, RisingEdge
      <4>2. t2b.counter \in 0 .. 3
        BY <4>1 DEF T2bType
      <4>3. In2b /\ t2b.state = "finish" => t2b.counter = 0
        BY DEF Control, Meets2b, Handshake, Task2b, In2b
      <4>. QED  BY <2>2, <4>1, <4>2, <4>3, T2bMoves
    <3>4. Cells = Scheduled(Filled(proper), secretKey)
      BY <3>1, <3>3 DEF Data, Handover
    <3>5. proper' = proper
      BY <3>2, RisingPass
    <3>6. Scheduled(Filled(proper), secretKey)' = Scheduled(Filled(proper), secretKey)
      BY <1>1, <3>5
    <3>. QED  BY <1>1, <2>2, <3>4, <3>6 DEF In2b
  <2>. QED  BY <2>1, <2>2
<1>5. state' = "task3_start" \/ In3' => Chars' = Plain' /\ ~dBus'.wren
  <2>1. SUFFICES ASSUME state' = "task3_start" \/ In3'
                 PROVE  Chars = Plain /\ Plain' = Plain /\ ~dBus.wren
    BY <1>1
  <2>2. CASE state' = "task3_start"
    <3>1. state = "task2b_wait_2" /\ t2b.state = "finish" /\ t2b.counter = 0
      BY <2>2, Leaving
    <3>2. Decrypted(Chars, Plain, MsgLen)
      BY <3>1 DEF Data, Streaming, Streams
    <3>3. Chars = Plain
      BY <3>2, DataOfKey, DecryptedAll DEF Decrypts
    <3>4. ~LastWrite
      BY <3>1, OthersQuiet DEF In1
    <3>5. dBus.wren = T2bOutWren
      BY <1>1, <3>1 DEF Control, BusesDriven, In2b
    <3>6. ~T2bOutWren
      BY <3>1 DEF T2bOutWren
    <3>. QED  BY <3>3, <3>4, <3>5, <3>6, RisingPass
  <2>3. CASE In3'
    <3>1. state = "task3_start" \/ In3
      BY <2>3, Leaving
    <3>2. ~LastWrite
      BY <3>1, OthersQuiet DEF In1, In3
    <3>. QED  BY <3>1, <3>2, RisingPass DEF Data, Handover
  <2>. QED  BY <2>1, <2>2, <2>3
<1>6. state' = "check_valid_data_counter" => Accepts(t3', Plain')
  <2>1. SUFFICES ASSUME state' = "check_valid_data_counter"
                 PROVE  Accepts(t3', Plain')
    OBVIOUS
  <2>2. state = "task3_wait_2" /\ t3.state = "finish" /\ t3.counter = 0
    BY <2>1, Leaving
  <2>3. Accepts(t3, Plain)
    BY <2>2 DEF Data, Judging, Judges
  <2>4. t3'.valid = t3.valid
    <3>1. T3Tick(state = "task3_wait_1", dMem[dReg]) /\ T3Type
      BY DEF Control, TypeOK, RisingEdge
    <3>. QED  BY <2>2, <3>1 DEF T3Tick, T3Idle, T3Clear, T3CounterCheck, T3GetData, T3Wait, T3GotData,
                                T3CheckData, T3Increment, T3Finishing, T3Type
  <2>5. ~LastWrite
    BY <2>2, OthersQuiet DEF In1
  <2>. QED  BY <2>3, <2>4, <2>5, RisingPass DEF Accepts
<1>. QED  BY <1>2, <1>3, <1>4, <1>5, <1>6 DEF Handover

LEMMA RisingData ==
  ASSUME Control, Data, RisingEdge
  PROVE  Data'
<1>1. Settled'
  BY RisingMemories DEF Settled
<1>. QED  BY <1>1, RisingFilling, RisingScheduling, RisingStreaming, RisingJudging, RisingHandover DEF Data

-----------------------------------------------------------------------------
(***************************************************************************)
(* The falling edge.                                                       *)
(***************************************************************************)

\* The active task's write, if any, reaches the cells; nothing else changes them.
LEMMA FallingMemories ==
  ASSUME Control, Data, FallingEdge
  PROVE  /\ clk = "high" /\ clk' = "low"
         /\ UNCHANGED <<state, t1, t2a, t2b, t3, sMem, sReg, dMem, dReg, romReg, full, proper, message>>
         /\ In1 => Cells' = Written(Cells, [addr |-> t1.addr, data |-> t1.data, wren |-> T1Wren])
         /\ In2a => Cells' = Written(Cells, [addr |-> t2a.addr, data |-> t2a.data, wren |-> T2aWren])
         /\ In2b => /\ Cells' = Written(Cells, [addr |-> t2b.addr, data |-> t2b.data, wren |-> T2bWren])
                    /\ Chars' = Written(Chars, [addr |-> t2b.outAddr, data |-> t2b.outData,
                                                wren |-> T2bOutWren])
         /\ ~In1 /\ ~In2a /\ ~In2b => Cells' = Cells /\ sBus' = sBus
         /\ ~In2b => Chars' = Chars /\ dBus'.wren = dBus.wren
<1>1. /\ clk = "high" /\ clk' = "low"
      /\ UNCHANGED <<state, t1, t2a, t2b, t3, sMem, sReg, dMem, dReg, romReg, full, proper, message>>
  BY DEF FallingEdge, taskVars, ramVars, history
<1>2. Cells = sMem /\ Chars = dMem
  BY <1>1 DEF Data, Settled
<1>3. Cells' = Written(Cells, sBus') /\ Chars' = Written(Chars, dBus')
  <2>1. Cells' = Written(sMem, sBus') /\ Chars' = Written(dMem, dBus')
    BY <1>1 DEF Cells, Chars
  <2>. QED  BY <1>2, <2>1
<1>4. /\ In1 => sBus' = [addr |-> t1.addr, data |-> t1.data, wren |-> T1Wren]
      /\ In2a => sBus' = [addr |-> t2a.addr, data |-> t2a.data, wren |-> T2aWren]
      /\ In2b => sBus' = [addr |-> t2b.addr, data |-> t2b.data, wren |-> T2bWren]
      /\ ~In1 /\ ~In2a /\ ~In2b => sBus' = sBus
  BY DEF FallingEdge, DriveSBus, In1, In2a, In2b
<1>5. /\ In2b => dBus' = [addr |-> t2b.outAddr, data |-> t2b.outData, wren |-> T2bOutWren]
      /\ In3 => dBus' = [dBus EXCEPT !.addr = t3.addr]
      /\ ~In2b /\ ~In3 => dBus' = dBus
  BY DEF FallingEdge, DriveDBus, In2b, In3
<1>6. ~In1 /\ ~In2a /\ ~In2b => Cells' = Cells
  <2>1. Written(Cells, sBus) = Cells
    BY WrittenTwice DEF Control, TypeOK, Cells
  <2>. QED  BY <1>3, <1>4, <2>1
<1>7. ~In2b => Chars' = Chars /\ dBus'.wren = dBus.wren
  <2>1. dBus \in [addr : MsgIndex, data : Byte, wren : BOOLEAN]
    BY DEF Control, TypeOK
  <2>2. CASE In3
    <3>1. dBus'.wren = dBus.wren
      BY <1>5, <2>1, <2>2
    <3>2. ~dBus.wren
      BY <2>2 DEF Data, Handover
    <3>3. Chars' = Chars
      BY <1>3, <3>1, <3>2 DEF Written
    <3>. QED  BY <3>1, <3>3
  <2>3. CASE ~In3
    <3>1. Written(Chars, dBus) = Chars
      BY WrittenTwice DEF Control, TypeOK, Chars
    <3>. QED  BY <1>3, <1>5, <2>3, <3>1
  <2>. QED  BY <2>2, <2>3
<1>. QED  BY <1>1, <1>3, <1>4, <1>5, <1>6, <1>7

\* While a task runs, or hands over, the key stays.
LEMMA FallingKey ==
  ASSUME Control, Data, FallingEdge, state \notin {"init", "secret_key_increment"}
  PROVE  secretKey' = secretKey /\ Rounds' = Rounds /\ Keystreams' = Keystreams /\ Plain' = Plain
<1>1. secretKey' = secretKey
  BY DEF FallingEdge, LoadKey
<1>2. proper' = proper /\ message' = message
  BY FallingMemories
<1>. QED  BY <1>1, <1>2 DEF Rounds, Keystreams, Plain

LEMMA FallingFilling ==
  ASSUME Control, Data, FallingEdge
  PROVE  Filling'
<1>1. clk = "high" /\ clk' = "low" /\ UNCHANGED <<state, t1, full, proper>>
  BY FallingMemories
<1>2. T1Type /\ LastCell(t1, Cells, full) /\ Fills(t1, Cells, full, proper, "high")
  BY <1>1 DEF Control, TypeOK, Data, Filling
<1>3. CASE In1
  <2>1. LastCell(t1, Cells', full) /\ Fills(t1, Cells', full, proper, "low")
    BY <1>2, <1>3, FallingMemories, DataOfKey, FillingFalls
  <2>. QED  BY <1>1, <2>1 DEF Filling
<1>4. CASE ~In1
  <2>1. Quiet(t1)
    BY <1>4, OthersQuiet
  <2>2. LastCell(t1, Cells', full)
    <3>1. CASE In2a \/ In2b
      BY <1>2, <3>1 DEF Data, Handover, LastCell
    <3>2. CASE ~In2a /\ ~In2b
      BY <1>2, <1>4, <3>2, FallingMemories
    <3>. QED  BY <3>1, <3>2
  <2>. QED  BY <1>1, <2>1, <2>2, QuietFills DEF Filling
<1>. QED  BY <1>3, <1>4

LEMMA FallingScheduling ==
  ASSUME Control, Data, FallingEdge
  PROVE  Scheduling'
<1>1. clk = "high" /\ clk' = "low" /\ UNCHANGED <<t2a, sReg>>
  BY FallingMemories
<1>2. CASE In2a
  <2>1. T2aType /\ Schedules(t2a, Cells, Rounds, sReg, "high")
    BY <1>1 DEF Control, TypeOK, Data, Scheduling
  <2>2. Cells' = Written(Cells, [addr |-> t2a.addr, data |-> t2a.data, wren |-> T2aWren])
    BY <1>2, FallingMemories
  <2>3. Schedules(t2a, Cells', Rounds, sReg, "low")
    BY <2>1, <2>2, DataOfKey, SchedulingFalls
  <2>. QED  BY <1>1, <1>2, <2>3, FallingKey DEF Scheduling, In2a
<1>3. CASE ~In2a
  BY <1>1, <1>3, OthersQuiet, QuietSchedules DEF Scheduling
<1>. QED  BY <1>2, <1>3

LEMMA FallingStreaming ==
  ASSUME Control, Data, FallingEdge
  PROVE  Streaming'
<1>1. clk = "high" /\ clk' = "low" /\ UNCHANGED <<t2b, sReg, romReg, message>>
  BY FallingMemories
<1>2. CASE In2b
  <2>1. T2bType /\ Streams(t2b, Cells, Chars, Keystreams, Plain, message, sReg, romReg, "high")
    BY <1>1 DEF Control, TypeOK, Data, Streaming
  <2>2. /\ Cells' = Written(Cells, [addr |-> t2b.addr, data |-> t2b.data, wren |-> T2bWren])
        /\ Chars' = Written(Chars, [addr |-> t2b.outAddr, data |-> t2b.outData, wren |-> T2bOutWren])
    BY <1>2, FallingMemories
  <2>3. Streams(t2b, Cells', Chars', Keystreams, Plain, message, sReg, romReg, "low")
    BY <2>1, <2>2, DataOfKey, StreamingFalls
  <2>. QED  BY <1>1, <1>2, <2>3, FallingKey DEF Streaming, In2b
<1>3. CASE ~In2b
  BY <1>1, <1>3, OthersQuiet, QuietStreams DEF Streaming
<1>. QED  BY <1>2, <1>3

LEMMA FallingData ==
  ASSUME Control, Data, FallingEdge
  PROVE  Data'
<1>1. clk' = "low" /\ UNCHANGED <<state, t1, t2a, t2b, t3, dReg, full, proper>>
  BY FallingMemories
<1>2. Settled'
  BY <1>1 DEF Settled
<1>3. Judging'
  <2>1. CASE In3
    BY <1>1, <2>1, FallingKey DEF Data, Judging, In3
  <2>2. CASE ~In3
    BY <1>1, <2>2, OthersQuiet, QuietJudges DEF Judging
  <2>. QED  BY <2>1, <2>2
<1>4. Handover'
  <2>1. /\ In1' <=> In1
        /\ In2a' <=> In2a
        /\ In2b' <=> In2b
        /\ In3' <=> In3
    BY <1>1 DEF In1, In2a, In2b, In3
  <2>2. /\ state' \in {"task2a_start", "task2b_start"} \/ In2a' \/ In2b' => full' /\ t1'.addr = Depth - 1
    BY <1>1, <2>1 DEF Data, Handover
  <2>3. state' = "task2a_start" \/ (In2a' /\ t2a'.state = "idle") => Cells' = Filled(proper')
    <3>1. state = "task2a_start" => Cells' = Cells
      BY FallingMemories DEF In1, In2a, In2b
    <3>2. In2a /\ t2a.state = "idle" => Cells' = Cells
      BY FallingMemories DEF Written, T2aWren
    <3>. QED  BY <1>1, <2>1, <3>1, <3>2 DEF Data, Handover
  <2>4. /\ state' = "task2b_start" \/ (In2b' /\ t2b'.state = "idle") =>
             Cells' = Scheduled(Filled(proper'), secretKey')
        /\ state' = "task2b_start" => ~sBus'.wren
    <3>1. state = "task2b_start" => Cells' = Cells /\ sBus' = sBus
      BY FallingMemories DEF In1, In2a, In2b
    <3>2. In2b /\ t2b.state = "idle" => Cells' = Cells
      BY FallingMemories DEF Written, T2bWren
    <3>3. state = "task2b_start" \/ In2b => secretKey' = secretKey
      BY FallingKey DEF In2b
    <3>. QED  BY <1>1, <2>1, <3>1, <3>2, <3>3 DEF Data, Handover
  <2>5. state' = "task3_start" \/ In3' => Chars' = Plain' /\ ~dBus'.wren
    <3>1. state = "task3_start" \/ In3 => Chars' = Chars /\ dBus'.wren = dBus.wren /\ Plain' = Plain
      BY FallingMemories, FallingKey DEF In2b, In3
    <3>. QED  BY <1>1, <2>1, <3>1 DEF Data, Handover
  <2>6. state' = "check_valid_data_counter" => Accepts(t3', Plain')
    BY <1>1, FallingKey DEF Data, Handover
  <2>. QED  BY <2>2, <2>3, <2>4, <2>5, <2>6 DEF Handover
<1>. QED  BY <1>2, <1>3, <1>4, FallingFilling, FallingScheduling, FallingStreaming DEF Data

-----------------------------------------------------------------------------
(***************************************************************************)
(* The other steps, and the theorems.                                      *)
(***************************************************************************)

\* A reset leaves the memories, the buses and the tasks' registers alone.
LEMMA ResetData ==
  ASSUME Control, Data, Reset
  PROVE  Data'
<1>1. /\ UNCHANGED <<clk, sMem, dMem, sBus, dBus, full, proper>> /\ state' = "idle"
  BY DEF Reset, ramVars, history
<1>2. Cells' = Cells /\ Chars' = Chars
  BY <1>1 DEF Cells, Chars
<1>3. /\ t1'.state = "idle" /\ t1'.addr = t1.addr /\ t1'.data = t1.data
      /\ t2a'.state = "idle" /\ t2b'.state = "idle" /\ t3'.state = "idle"
  <2>1. T1Type /\ T2aType /\ T2bType /\ T3Type
    BY DEF Control, TypeOK
  <2>2. t1'.state = "idle" /\ t1'.addr = t1.addr /\ t1'.data = t1.data /\ t2a'.state = "idle"
    BY <2>1 DEF Reset, T1Reset, T2aReset, T1Type, T2aType
  <2>3. t2b'.state = "idle" /\ t3'.state = "idle"
    BY <2>1 DEF Reset, T2bReset, T3Reset, T2bType, T3Type
  <2>. QED  BY <2>2, <2>3
<1>4. Settled'
  BY <1>1, <1>2 DEF Data, Settled
<1>5. Filling'
  <2>1. LastCell(t1', Cells', full')
    BY <1>1, <1>2, <1>3 DEF Data, Filling, LastCell
  <2>. QED  BY <1>3, <2>1, QuietFills DEF Filling, Quiet
<1>6. Scheduling' /\ Streaming' /\ Judging'
  BY <1>3, QuietSchedules, QuietStreams, QuietJudges DEF Scheduling, Streaming, Judging, Quiet
<1>7. Handover'
  BY <1>1 DEF Handover, In2a, In2b, In3
<1>. QED  BY <1>4, <1>5, <1>6, <1>7 DEF Data

LEMMA OtherData ==
  ASSUME Data, OtherFinishes \/ UNCHANGED vars
  PROVE  Data'
<1>1. UNCHANGED <<clk, state, t1, t2a, t2b, t3, secretKey, sBus, dBus, sMem, sReg, dMem, dReg, romReg,
                  full, proper, message>>
  BY DEF OtherFinishes, vars, taskVars, busVars, ramVars, history
<1>2. Cells' = Cells /\ Chars' = Chars
  BY <1>1 DEF Cells, Chars
<1>3. Rounds' = Rounds /\ Keystreams' = Keystreams /\ Plain' = Plain
  BY <1>1 DEF Rounds, Keystreams, Plain
<1>4. Settled' /\ Filling' /\ Scheduling' /\ Streaming' /\ Judging'
  BY <1>1, <1>2, <1>3 DEF Data, Settled, Filling, Scheduling, Streaming, Judging
<1>5. Handover'
  BY <1>1, <1>2, <1>3 DEF Data, Handover, In2a, In2b, In3
<1>. QED  BY <1>4, <1>5 DEF Data

LEMMA InitData == Init => Data
<1>. SUFFICES ASSUME Init PROVE Data
  OBVIOUS
<1>1. /\ t1.state = "idle" /\ t2a.state = "idle" /\ t2b.state = "idle" /\ t3.state = "idle"
      /\ t1.addr = 0 /\ t1.data = 0
  BY DEF Init, T1Init, T2aInit, T2bInit, T3Init
<1>2. Cells = sMem /\ Chars = dMem
  BY DEF Init, Cells, Chars, Written
<1>3. LastCell(t1, Cells, full)
  <2>1. Depth - 1 \in Byte /\ Depth - 1 # 0
    BY Constants DEF Byte
  <2>2. Cells = [n \in Byte |-> PowerUp] /\ ~full
    BY <1>2 DEF Init
  <2>. QED  BY <1>1, <2>1, <2>2 DEF LastCell, Peek
<1>4. Filling /\ Scheduling /\ Streaming /\ Judging
  BY <1>1, <1>3, QuietFills, QuietSchedules, QuietStreams, QuietJudges
  DEF Filling, Scheduling, Streaming, Judging, Quiet
<1>5. Settled /\ Handover
  BY <1>2 DEF Init, Settled, Handover, In2a, In2b, In3
<1>. QED  BY <1>4, <1>5 DEF Data

LEMMA NextData == Control /\ Data /\ [Next]_vars => Data'
  BY RisingData, FallingData, ResetData, OtherData DEF Next

\* Every reachable state of the core satisfies Control and Data.
THEOREM DataHolds == Spec => [](Control /\ Data)
<1>1. Init => Control /\ Data
  BY InitControl, InitData
<1>2. Control /\ Data /\ [Next]_vars => (Control /\ Data)'
  BY NextControl, NextData
<1>. QED  BY <1>1, <1>2, PTL DEF Spec

\* Whatever resets came before, at whatever cycle, task 2a starts on the S memory that
\* task 1's lagging writes were meant to leave: the identity, except for the last cell
\* of the first fill.
THEOREM Fill == Spec => []FilledBeforeScheduling
<1>1. Control /\ Data => FilledBeforeScheduling
  <2>1. SUFFICES ASSUME Control, Data, t2a.state = "init" PROVE sMem = Filled(proper)
    BY DEF FilledBeforeScheduling
  <2>2. In2a
    BY <2>1, OthersQuiet DEF Quiet
  <2>3. Cells = Filled(proper)
    BY <2>1, DataOfKey DEF Data, Scheduling, Schedules
  <2>4. clk = "low" => sBus.wren = T2aWren
    BY <2>1, <2>2 DEF Control, BusesDriven
  <2>5. ~T2aWren
    BY <2>1 DEF T2aWren
  <2>6. clk = "low" => Cells = sMem
    BY <2>4, <2>5 DEF Cells, Written
  <2>7. clk = "high" => Cells = sMem
    BY <2>1 DEF Data, Settled
  <2>. QED  BY <2>1, <2>3, <2>6, <2>7, DataOfKey
<1>. QED  BY <1>1, DataHolds, PTL

\* When task 2a hands over, the S memory holds the key schedule of the current key.
THEOREM KeySchedule == Spec => []ScheduleCorrect
<1>1. Control /\ Data => ScheduleCorrect
  <2>1. SUFFICES ASSUME Control, Data, state = "task2b_start"
                 PROVE  sMem = Scheduled(Filled(proper), secretKey)
    BY DEF ScheduleCorrect
  <2>2. Cells = Scheduled(Filled(proper), secretKey) /\ ~sBus.wren
    BY <2>1 DEF Data, Handover
  <2>. QED  BY <2>2 DEF Cells, Written
<1>. QED  BY <1>1, DataHolds, PTL

\* When task 2b hands over, the decrypted-message memory holds RC4's plaintext.
THEOREM Decryption == Spec => []DecryptCorrect
<1>1. Control /\ Data => DecryptCorrect
  <2>1. SUFFICES ASSUME Control, Data, state = "task3_start"
                 PROVE  dMem = Plaintext(Filled(proper), secretKey, message)
    BY DEF DecryptCorrect
  <2>2. Chars = Plain /\ ~dBus.wren
    BY <2>1 DEF Data, Handover
  <2>. QED  BY <2>2 DEF Chars, Plain, Written
<1>. QED  BY <1>1, DataHolds, PTL

LEMMA ReadableIs == ValidTo(Plain, MsgLen) <=> Readable(Filled(proper), secretKey, message)
<1>1. MsgIndex = 0 .. MsgLen - 1
  BY DEF MsgIndex
<1>. QED  BY <1>1 DEF ValidTo, Plain, Readable, Peek

\* The orchestrator judges a key by RC4's plaintext of exactly that key.
THEOREM Verdict == Spec => []VerdictCorrect
<1>1. Control /\ Data => VerdictCorrect
  BY ReadableIs DEF Data, Handover, Accepts, VerdictCorrect
<1>. QED  BY <1>1, DataHolds, PTL

-----------------------------------------------------------------------------
(***************************************************************************)
(* The core takes only steps of SearchCore.                                *)
(***************************************************************************)

\* A key is being tried.
Trying == {"task1_start", "task2a_start", "task2b_start", "task3_start", "check_valid_data_counter"}
          \cup Wait1 \cup Wait2

\* What relates the core to SearchCore, besides Data: keys are tried in range, accept is
\* what RC4 says, and task 1's flag tells whether the fill is over.
Bridge ==
  /\ state \in Trying => secretKey < KeyBound
  /\ accept = [again \in BOOLEAN |-> {key \in Keys : Readable(Filled(again), key, message)}]
  /\ t1.state = "smem_write" => ~t1.done
  /\ t1.state = "finish" => t1.done
  /\ In1 /\ t1.state = "idle" => ~t1.done

LEMMA TryingIs ==
  Trying = {"task1_start", "task2a_start", "task2b_start", "task3_start", "check_valid_data_counter",
            "task1_wait_1", "task2a_wait_1", "task2b_wait_1", "task3_wait_1",
            "task1_wait_2", "task2a_wait_2", "task2b_wait_2", "task3_wait_2"}
  BY DEF Trying, Wait1, Wait2

\* At task1_start task 1 is idle.
LEMMA FillBegins ==
  ASSUME Control, state = "task1_start"
  PROVE  t1.state = "idle"
  BY DEF Control, Meets1, Handshake, Task1

\* What task 1 does to its flag at a rising edge.
LEMMA FlagRises ==
  ASSUME Control, Bridge, RisingEdge
  PROVE  /\ LastWrite => ~t1.done /\ t1'.done
         /\ ~LastWrite /\ t1.state # "idle" => t1'.done = t1.done
         /\ t1.state = "idle" => ~t1'.done
         /\ t1'.state = "smem_write" => ~t1'.done
         /\ t1'.state = "finish" => t1'.done
<1>0. T1Type /\ T1Tick(state = "task1_wait_1")
  BY DEF Control, TypeOK, RisingEdge
<1>1. CASE T1Idle(state = "task1_wait_1")
  BY <1>0, <1>1 DEF T1Idle, T1Type, LastWrite
<1>2. CASE T1CheckFinish
  BY <1>0, <1>2 DEF T1CheckFinish, T1Type, LastWrite
<1>3. CASE T1SmemWrite
  <2>1. /\ t1.state = "smem_write" /\ t1'.state = "i_increment"
        /\ t1'.done <=> t1.i = Depth - 1
    BY <1>0, <1>3 DEF T1SmemWrite, T1Type
  <2>2. ~t1.done /\ t1.done \in BOOLEAN /\ t1'.done \in BOOLEAN
    BY <1>0, <2>1, RisingTypes DEF Bridge, Control, TypeOK, T1Type
  <2>. QED  BY <2>1, <2>2 DEF LastWrite
<1>4. CASE T1Increment
  BY <1>0, <1>4 DEF T1Increment, T1Type, LastWrite
<1>5. CASE T1Finishing
  BY <1>0, <1>5 DEF T1Finishing, T1Type, LastWrite, Bridge
<1>. QED  BY <1>0, <1>1, <1>2, <1>3, <1>4, <1>5 DEF T1Tick

LEMMA BridgeKept ==
  ASSUME Control, Bridge, [Next]_vars
  PROVE  Bridge'
<1>1. accept' = accept /\ message' = message
  BY DEF Next, RisingEdge, HistoryTick, FallingEdge, Reset, OtherFinishes, history, vars
<1>2. (accept = [again \in BOOLEAN |-> {key \in Keys : Readable(Filled(again), key, message)}])'
  BY <1>1 DEF Bridge
<1>3. CASE RisingEdge
  <2>1. Moves /\ state \in StateNames
    BY <1>3, CoreMoves, StateNamesAre DEF Control, TypeOK, RisingEdge
  <2>2. secretKey' = secretKey
    BY <1>3, RisingMemories
  <2>3. state' \in Trying => secretKey' < KeyBound
    <3>1. state = "check_secret_key" /\ state' = "task1_start" => secretKey < KeyBound
      BY <1>3, StateNamesAre
      DEF RisingEdge, CoreTick, CoreIdle, CoreHop, Hops, CoreCheckKey, CoreHoldStart, Wait1, CoreAwaitFinish,
          Wait2, CoreJudge, CoreStay, CoreStopped
    <3>2. state' \in Trying => state \in Trying \/ (state = "check_secret_key" /\ state' = "task1_start")
      BY <2>1, TryingIs DEF Moves, StateNames
    <3>. QED  BY <2>2, <3>1, <3>2 DEF Bridge
  <2>4. In1' /\ t1'.state = "idle" => ~t1'.done
    <3>1. In1' => state = "task1_start" \/ In1
      BY <2>1 DEF Moves, StateNames, In1
    <3>2. In1 /\ t1'.state = "idle" => t1.state = "idle"
      <4>1. T1Type /\ Fresh1 /\ Meets1 /\ T1Tick(state = "task1_wait_1") /\ t1.counter \in 0 .. 3
        BY <1>3 DEF Control, TypeOK, RisingEdge, T1Type
      <4>2. In1 /\ t1.state = "finish" => t1.counter = 0
        BY DEF Control, Meets1, Handshake, Task1, In1
      <4>. QED  BY <4>1, <4>2, T1Moves
    <3>. QED  BY <1>3, <3>1, <3>2, FillBegins, FlagRises
  <2>. QED  BY <1>2, <1>3, <2>3, <2>4, FlagRises DEF Bridge
<1>4. CASE FallingEdge
  <2>1. UNCHANGED <<state, t1>>
    BY <1>4 DEF FallingEdge, taskVars
  <2>2. state \in Trying => secretKey' = secretKey
    BY <1>4, TryingIs DEF FallingEdge, LoadKey
  <2>. QED  BY <1>2, <2>1, <2>2 DEF Bridge, In1
<1>5. CASE Reset
  <2>1. state' = "idle" /\ t1'.state = "idle"
    BY <1>5 DEF Reset, T1Reset, Control, TypeOK, T1Type
  <2>. QED  BY <1>2, <2>1, TryingIs DEF Bridge, In1
<1>6. CASE OtherFinishes \/ UNCHANGED vars
  <2>1. UNCHANGED <<state, t1, secretKey>>
    BY <1>6 DEF OtherFinishes, taskVars, busVars, vars
  <2>. QED  BY <1>2, <2>1 DEF Bridge, In1
<1>. QED  BY <1>3, <1>4, <1>5, <1>6 DEF Next

\* The abstract state, by the concrete one.
AbsCases ==
  /\ state = "init" => AbsState = IF clk = "high" THEN "idle" ELSE "check_secret_key"
  /\ state = "secret_key_increment" =>
       AbsState = IF clk = "high" THEN "secret_key_increment" ELSE "check_secret_key"
  /\ state = "task1_start" \/ (In1 /\ ~t1.done) => AbsState = "fill"
  /\ (In1 /\ t1.done) \/ In2a \/ In2b \/ In3 => AbsState = "decrypt"
  /\ state \in {"task2a_start", "task2b_start", "task3_start"} => AbsState = "decrypt"
  /\ state \in {"idle", "check_secret_key", "check_valid_data_counter", "finish", "finish_othercore",
                "failed"} => AbsState = state

LEMMA AbsStateIs == AbsCases /\ AbsCases'
<1>1. AbsCases
  BY DEF AbsCases, AbsState, In1, In2a, In2b, In3
<1>2. AbsCases'
  BY DEF AbsCases, AbsState, In1, In2a, In2b, In3
<1>. QED  BY <1>1, <1>2

Steps == [Abs!Next]_(Abs!vars)

LEMMA RisingImplements ==
  ASSUME Control, Data, Bridge, RisingEdge
  PROVE  Steps
<1>1. Moves /\ state \in StateNames /\ clk = "low" /\ clk' = "high" /\ CoreTick
  BY CoreMoves, StateNamesAre DEF Control, TypeOK, RisingEdge
<1>2. UNCHANGED <<secretKey, other, accept>>
  BY DEF RisingEdge, busVars, HistoryTick
<1>3. ~LastWrite => UNCHANGED <<full, proper>>
  BY RisingPass
<1>. DEFINE Same == AbsState' = AbsState
<1>4. CASE ~LastWrite /\ Same
  BY <1>2, <1>3, <1>4 DEF Steps, Abs!vars
<1>5. CASE state \in {"idle", "init", "secret_key_increment", "failed", "finish", "finish_othercore"}
  <2>1. Same
    BY <1>1, <1>5, AbsStateIs DEF Moves, AbsCases
  <2>2. ~LastWrite
    BY <1>5, OthersQuiet DEF In1
  <2>. QED  BY <1>4, <2>1, <2>2
<1>6. CASE state = "check_secret_key"
  <2>1. state' = IF secretKey < KeyBound THEN "task1_start" ELSE "failed"
    BY <1>1, <1>6 DEF CoreTick, CoreIdle, CoreHop, Hops, CoreCheckKey, CoreHoldStart, Wait1, CoreAwaitFinish,
          Wait2, CoreJudge, CoreStay, CoreStopped
  <2>2. AbsState = "check_secret_key" /\ AbsState' = IF secretKey < KeyBound THEN "fill" ELSE "failed"
    BY <1>6, <2>1, AbsStateIs DEF AbsCases
  <2>3. ~LastWrite
    BY <1>6, OthersQuiet DEF In1
  <2>4. Abs!CheckKey
    BY <1>2, <1>3, <2>2, <2>3 DEF Abs!CheckKey
  <2>. QED  BY <2>4 DEF Steps, Abs!Next, Abs!Work
<1>7. CASE state = "task1_start"
  <2>1. t1.state = "idle" /\ ~t1'.done
    BY <1>7, FillBegins, FlagRises
  <2>2. In1'
    BY <1>1, <1>7 DEF Moves, In1
  <2>. QED  BY <1>4, <1>7, <2>1, <2>2, AbsStateIs DEF AbsCases, LastWrite
<1>8. CASE In1 /\ ~LastWrite
  <2>1. t1'.done <=> t1.done
    BY <1>8, FlagRises DEF Bridge
  <2>2. In1' \/ (state' = "task2a_start" /\ t1.state = "finish")
    BY <1>1, <1>8 DEF Moves, In1
  <2>3. Same
    <3>1. In1' => AbsState' = AbsState
      BY <1>8, <2>1, AbsStateIs DEF AbsCases, In1
    <3>2. state' = "task2a_start" /\ t1.state = "finish" => AbsState' = AbsState
      BY <1>8, AbsStateIs DEF AbsCases, Bridge, In1
    <3>. QED  BY <2>2, <3>1, <3>2
  <2>. QED  BY <1>4, <1>8, <2>3
<1>9. CASE In1 /\ LastWrite
  <2>1. ~t1.done /\ t1'.done
    BY <1>9, FlagRises
  <2>2. In1'
    BY <1>1, <1>9 DEF Moves, In1, LastWrite
  <2>3. AbsState = "fill" /\ AbsState' = "decrypt"
    BY <1>9, <2>1, <2>2, AbsStateIs DEF AbsCases, In1
  <2>4. proper' = full /\ full' = TRUE
    BY <1>9 DEF RisingEdge, HistoryTick
  <2>5. Abs!Fill
    BY <1>2, <2>3, <2>4 DEF Abs!Fill
  <2>. QED  BY <2>5 DEF Steps, Abs!Next, Abs!Work
<1>10. CASE \/ state \in {"task2a_start", "task2b_start", "task3_start"}
            \/ In2a \/ In2b \/ In3
  <2>1. ~LastWrite
    BY <1>10, OthersQuiet DEF In1, In2a, In2b, In3
  <2>2. AbsState = "decrypt"
    BY <1>10, AbsStateIs DEF AbsCases, In2a, In2b, In3
  <2>3. \/ state' \in {"task2b_start", "task3_start"} \/ In2a' \/ In2b' \/ In3'
        \/ state' = "check_valid_data_counter"
    BY <1>1, <1>10 DEF Moves, In2a, In2b, In3
  <2>4. CASE state' = "check_valid_data_counter"
    <3>1. AbsState' = "check_valid_data_counter"
      BY <2>4, AbsStateIs DEF AbsCases
    <3>2. Abs!Decrypt
      BY <1>2, <1>3, <2>1, <2>2, <3>1 DEF Abs!Decrypt
    <3>. QED  BY <3>2 DEF Steps, Abs!Next, Abs!Work
  <2>5. CASE state' \in {"task2b_start", "task3_start"} \/ In2a' \/ In2b' \/ In3'
    <3>1. AbsState' = "decrypt"
      BY <2>5, AbsStateIs DEF AbsCases, In2a, In2b, In3
    <3>. QED  BY <1>4, <2>1, <2>2, <3>1
  <2>. QED  BY <2>3, <2>4, <2>5
<1>11. CASE state = "check_valid_data_counter"
  <2>1. secretKey \in Keys
    BY <1>11, TryingIs, Constants, DataOfKey DEF Bridge, Keys
  <2>2. t3.valid >= MsgLen <=> secretKey \in accept[proper]
    <3>1. t3.valid >= MsgLen <=> Readable(Filled(proper), secretKey, message)
      BY <1>11, ReadableIs DEF Data, Handover, Accepts
    <3>2. secretKey \in accept[proper] <=> Readable(Filled(proper), secretKey, message)
      BY <2>1, DataOfKey DEF Bridge
    <3>. QED  BY <3>1, <3>2
  <2>3. state' = IF t3.valid >= MsgLen THEN "finish"
                 ELSE IF other THEN "finish_othercore" ELSE "secret_key_increment"
    BY <1>1, <1>11 DEF CoreTick, CoreIdle, CoreHop, Hops, CoreCheckKey, CoreHoldStart, Wait1, CoreAwaitFinish,
          Wait2, CoreJudge, CoreStay, CoreStopped
  <2>4. AbsState = "check_valid_data_counter" /\ AbsState' = state'
    BY <1>1, <1>11, <2>3, AbsStateIs DEF AbsCases
  <2>5. ~LastWrite
    BY <1>11, OthersQuiet DEF In1
  <2>6. Abs!Judge
    BY <1>2, <1>3, <2>2, <2>3, <2>4, <2>5 DEF Abs!Judge
  <2>. QED  BY <2>6 DEF Steps, Abs!Next, Abs!Work
<1>. QED  BY <1>1, <1>5, <1>6, <1>7, <1>8, <1>9, <1>10, <1>11 DEF StateNames, In1, In2a, In2b, In3

LEMMA FallingImplements ==
  ASSUME Control, Data, Bridge, FallingEdge
  PROVE  Steps
<1>1. /\ clk = "high" /\ clk' = "low" /\ UNCHANGED <<state, t1, full, proper, other, accept>>
      /\ secretKey' = CASE state = "init" -> FirstKey
                       [] state = "secret_key_increment" -> (secretKey + Step) % KeyWrap
                       [] OTHER -> secretKey
  BY DEF FallingEdge, LoadKey, taskVars, history
<1>2. CASE state = "init"
  <2>1. AbsState = "idle" /\ AbsState' = "check_secret_key"
    BY <1>1, <1>2, AbsStateIs DEF AbsCases
  <2>2. Abs!Start
    BY <1>1, <1>2, <2>1 DEF Abs!Start
  <2>. QED  BY <2>2 DEF Steps, Abs!Next
<1>3. CASE state = "secret_key_increment"
  <2>1. AbsState = "secret_key_increment" /\ AbsState' = "check_secret_key"
    BY <1>1, <1>3, AbsStateIs DEF AbsCases
  <2>2. Abs!Increment
    BY <1>1, <1>3, <2>1 DEF Abs!Increment
  <2>. QED  BY <2>2 DEF Steps, Abs!Next, Abs!Work
<1>4. CASE state \notin {"init", "secret_key_increment"}
  <2>1. AbsState' = AbsState
    BY <1>1, <1>4 DEF AbsState, In1, In2a, In2b, In3
  <2>. QED  BY <1>1, <1>4, <2>1 DEF Steps, Abs!vars
<1>. QED  BY <1>2, <1>3, <1>4

LEMMA NextImplements ==
  ASSUME Control, Data, Bridge, [Next]_vars
  PROVE  Steps
<1>1. CASE Reset
  <2>1. AbsState' = "idle"
    BY <1>1, AbsStateIs DEF Reset, AbsCases
  <2>2. Abs!Reset
    BY <1>1, <2>1 DEF Reset, history, Abs!Reset
  <2>. QED  BY <2>2 DEF Steps, Abs!Next
<1>2. CASE OtherFinishes
  <2>1. AbsState' = AbsState
    BY <1>2 DEF OtherFinishes, taskVars, AbsState, In1, In2a, In2b, In3
  <2>2. Abs!OtherFinishes
    BY <1>2, <2>1 DEF OtherFinishes, history, busVars, Abs!OtherFinishes
  <2>. QED  BY <2>2 DEF Steps, Abs!Next
<1>3. CASE UNCHANGED vars
  <2>1. AbsState' = AbsState
    BY <1>3 DEF vars, taskVars, AbsState, In1, In2a, In2b, In3
  <2>. QED  BY <1>3, <2>1 DEF vars, busVars, history, Steps, Abs!vars
<1>. QED  BY <1>1, <1>2, <1>3, RisingImplements, FallingImplements DEF Next

LEMMA InitImplements == Init => Abs!Init /\ Bridge
<1>. SUFFICES ASSUME Init PROVE Abs!Init /\ Bridge
  OBVIOUS
<1>1. AbsState = "idle"
  BY AbsStateIs DEF Init, AbsCases
<1>2. accept \in [BOOLEAN -> SUBSET (0 .. KeyBound - 1)]
  BY InitControl DEF Control, TypeOK, Keys
<1>3. Abs!Init
  BY <1>1, <1>2 DEF Init, Abs!Init
<1>4. Bridge
  BY TryingIs DEF Init, T1Init, Bridge, In1
<1>. QED  BY <1>3, <1>4

\* The cycle-by-cycle core takes only the steps SearchCore allows: it tries its keys in
\* order, gives each one a fill and a verdict that is RC4's, and stops where it should.
\* (That it gets there is Implements' fairness, which TLC checks.)
THEOREM Refinement == Spec => Abs!Init /\ [][Abs!Next]_(Abs!vars)
<1>1. Init => Control /\ Data /\ Bridge /\ Abs!Init
  BY InitControl, InitData, InitImplements
<1>2. Control /\ Data /\ Bridge /\ [Next]_vars => (Control /\ Data /\ Bridge)' /\ Steps
  BY NextControl, NextData, BridgeKept, NextImplements
<1>. QED  BY <1>1, <1>2, PTL DEF Spec, Steps
=============================================================================
