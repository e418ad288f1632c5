------------------------------ MODULE CrackCore ------------------------------
(***************************************************************************)
(* One core of the key search, cycle by cycle: my_taskChallenge_algo.sv    *)
(* with its four task machines and its three memories.                     *)
(*                                                                         *)
(* The clock alternates.  At a rising edge the orchestrator's state        *)
(* register, the four task machines and the memories' input registers all  *)
(* take their next values from the values before the edge.  At a falling   *)
(* edge the orchestrator copies the active task's memory signals to its    *)
(* own registers, which drive the memories.                                *)
(***************************************************************************)
EXTENDS FsmTask1, FsmTask2a, FsmTask2b, FsmTask3

CONSTANTS
  KeyBound,    \* 24'h400000, the first key that is not tried
  FirstKey,    \* secret_key_init
  Step,        \* parameter N
  Messages,    \* the encrypted messages the ROM may hold
  PowerUp,     \* the S memory cells' value at power-up
  MaxResets    \* bound on the presses of the reset button, for TLC

ASSUME CoreAssumption ==
  /\ Step \in Nat \ {0} /\ FirstKey \in 0 .. Step - 1
  /\ KeyBound \in Nat /\ KeyBound + Step <= KeyWrap
  /\ Messages \subseteq [MsgIndex -> Byte]
  /\ PowerUp \in Byte /\ MaxResets \in Nat

VARIABLES
  clk,         \* "low": the next edge rises; "high": the next edge falls
  state,       \* the orchestrator's state register
  counter,     \* its 2-bit counter
  secretKey,
  sBus,        \* address, data and write enable driven to the S memory
  dBus,        \* the same for the decrypted-message memory
  sMem, sReg,  \* S memory: contents, and the address captured at the last edge
  dMem, dReg,  \* decrypted-message memory
  romReg,      \* the encrypted-message ROM's captured address
  message,     \* the ROM's contents
  other,       \* flag_other_core_finish, an input
  resets,      \* presses of the reset button so far
  full,        \* history: task 1 has reached the last cell since power-up
  proper,      \* history: ... and had done so before the current pass
  accept       \* history: the keys RC4 decrypts the message with, for each
               \* value of proper; fixed, like the message

taskVars == <<t1, t2a, t2b, t3>>
busVars == <<counter, secretKey, sBus, dBus>>
ramVars == <<sMem, sReg, dMem, dReg, romReg>>
history == <<full, proper, accept>>
vars == <<clk, state, taskVars, busVars, ramVars, history, message, other, resets>>

(***************************************************************************)
(* The orchestrator's states.  Each task t has a start state, a wait_1     *)
(* state that holds its start flag, and a wait_2 state that waits for its  *)
(* finish flag.                                                            *)
(***************************************************************************)
Wait1 == {"task1_wait_1", "task2a_wait_1", "task2b_wait_1", "task3_wait_1"}
Wait2 == {"task1_wait_2", "task2a_wait_2", "task2b_wait_2", "task3_wait_2"}
In1 == state \in {"task1_wait_1", "task1_wait_2"}
In2a == state \in {"task2a_wait_1", "task2a_wait_2"}
In2b == state \in {"task2b_wait_1", "task2b_wait_2"}
In3 == state \in {"task3_wait_1", "task3_wait_2"}
CoreStopped == {"finish", "finish_othercore", "failed"}

\* Fault: task 3's start flag is never raised.
HopsNoStart == [init |-> "check_secret_key", secret_key_increment |-> "check_secret_key",
                task1_start |-> "task1_wait_1", task2a_start |-> "task2a_wait_1",
                task2b_start |-> "task2b_wait_1", task3_start |-> "task3_wait_2"]

\* States left unconditionally, with their successors.
Hops == [init |-> "check_secret_key", secret_key_increment |-> "check_secret_key",
         task1_start |-> "task1_wait_1", task2a_start |-> "task2a_wait_1",
         task2b_start |-> "task2b_wait_1", task3_start |-> "task3_wait_1"]

\* wait_1 to wait_2, and wait_2 to what follows the task.
AfterStart == [task1_wait_1 |-> "task1_wait_2", task2a_wait_1 |-> "task2a_wait_2",
               task2b_wait_1 |-> "task2b_wait_2", task3_wait_1 |-> "task3_wait_2"]
AfterFinish == [task1_wait_2 |-> "task2a_start", task2a_wait_2 |-> "task2b_start",
                task2b_wait_2 |-> "task3_start", task3_wait_2 |-> "check_valid_data_counter"]

CoreStates == {"idle", "check_secret_key", "check_valid_data_counter"}
              \cup DOMAIN Hops \cup Wait1 \cup Wait2 \cup CoreStopped

TaskFinish == [task1_wait_2 |-> T1Finish, task2a_wait_2 |-> T2aFinish,
               task2b_wait_2 |-> T2bFinish, task3_wait_2 |-> T3Finish]

CoreIdle ==
  /\ state = "idle"
  /\ state' \in {"idle", "init"}       \* key[0] up or pressed

CoreHop ==
  /\ state \in DOMAIN Hops
  /\ state' = Hops[state]

CoreCheckKey ==
  /\ state = "check_secret_key"
  /\ state' = IF secretKey < KeyBound THEN "task1_start" ELSE "failed"

CoreHoldStart ==
  /\ state \in Wait1
  /\ state' = IF counter < 2 THEN state ELSE AfterStart[state]

\* Fault: the finish flag is not awaited.
CoreAwaitNothing ==
  /\ state \in Wait2
  /\ state' = AfterFinish[state]

CoreAwaitFinish ==
  /\ state \in Wait2
  /\ state' = IF TaskFinish[state] THEN AfterFinish[state] ELSE state

\* Fault: another core's success hides this core's own.
CoreJudgeOtherFirst ==
  /\ state = "check_valid_data_counter"
  /\ state' = IF other THEN "finish_othercore"
              ELSE IF t3.valid >= MsgLen THEN "finish" ELSE "secret_key_increment"

CoreJudge ==
  /\ state = "check_valid_data_counter"
  /\ state' = IF t3.valid >= MsgLen THEN "finish"
              ELSE IF other THEN "finish_othercore" ELSE "secret_key_increment"

CoreStay ==
  /\ state \in CoreStopped
  /\ UNCHANGED state

CoreTick == CoreIdle \/ CoreHop \/ CoreCheckKey \/ CoreHoldStart \/ CoreAwaitFinish
            \/ CoreJudge \/ CoreStay

(***************************************************************************)
(* The memories: inputs are registered at the rising edge, outputs are     *)
(* not, and a read during a write returns the new data.                    *)
(***************************************************************************)
Written(mem, bus) == IF bus.wren THEN [mem EXCEPT ![bus.addr] = bus.data] ELSE mem

RamTick ==
  /\ sMem' = Written(sMem, sBus) /\ sReg' = sBus.addr
  /\ dMem' = Written(dMem, dBus) /\ dReg' = dBus.addr
  /\ romReg' = t2b.romAddr

\* Task 1 is about to store the last index in its address register.
LastWrite == t1.state = "smem_write" /\ t1.i = Depth - 1

HistoryTick ==
  /\ full' = (full \/ LastWrite)
  /\ proper' = IF LastWrite THEN full ELSE proper
  /\ UNCHANGED accept

RisingEdge ==
  /\ clk = "low" /\ clk' = "high"
  /\ CoreTick
  /\ T1Tick(state = "task1_wait_1")
  /\ T2aTick(state = "task2a_wait_1", secretKey, sMem[sReg])
  /\ T2bTick(state = "task2b_wait_1", sMem[sReg], message[romReg])
  /\ T3Tick(state = "task3_wait_1", dMem[dReg])
  /\ RamTick
  /\ HistoryTick
  /\ UNCHANGED <<busVars, message, other, resets>>

(***************************************************************************)
(* The falling edge.                                                       *)
(***************************************************************************)
CountStart == counter' = IF state \in Wait1 THEN (counter + 1) % 4
                         ELSE IF state \in Wait2 THEN 0 ELSE counter

\* Fault: the key is not incremented.
LoadKeyOnce == secretKey' = IF state = "init" THEN FirstKey ELSE secretKey

LoadKey ==
  secretKey' = CASE state = "init" -> FirstKey
                 [] state = "secret_key_increment" -> (secretKey + Step) % KeyWrap
                 [] OTHER -> secretKey

DriveSBus ==
  sBus' = CASE In1  -> [addr |-> t1.addr, data |-> t1.data, wren |-> T1Wren]
            [] In2a -> [addr |-> t2a.addr, data |-> t2a.data, wren |-> T2aWren]
            [] In2b -> [addr |-> t2b.addr, data |-> t2b.data, wren |-> T2bWren]
            [] OTHER -> sBus

\* Task 3 drives the address only.
DriveDBus ==
  dBus' = CASE In2b -> [addr |-> t2b.outAddr, data |-> t2b.outData, wren |-> T2bOutWren]
            [] In3  -> [dBus EXCEPT !.addr = t3.addr]
            [] OTHER -> dBus

FallingEdge ==
  /\ clk = "high" /\ clk' = "low"
  /\ CountStart /\ LoadKey /\ DriveSBus /\ DriveDBus
  /\ UNCHANGED <<state, taskVars, ramVars, history, message, other, resets>>

(***************************************************************************)
(* The environment.  The reset button works at any moment: it returns the  *)
(* five state registers to idle and clears the key; the counter, the other *)
(* registers of the tasks and the memories keep their values.              *)
(***************************************************************************)
Reset ==
  /\ resets < MaxResets /\ resets' = resets + 1
  /\ state' = "idle" /\ secretKey' = 0
  /\ T1Reset /\ T2aReset /\ T2bReset /\ T3Reset
  /\ other' = FALSE
  /\ UNCHANGED <<clk, counter, sBus, dBus, ramVars, history, message>>

OtherFinishes ==
  /\ ~other /\ other' = TRUE
  /\ UNCHANGED <<clk, state, taskVars, busVars, ramVars, history, message, resets>>

(***************************************************************************)
(* What S holds when key scheduling begins: the identity, except that the  *)
(* first fill since power-up does not reach the last cell, because each    *)
(* write stores the previous address and data registers.                   *)
(***************************************************************************)
Filled(again) == IF again THEN Identity ELSE [Identity EXCEPT ![Depth - 1] = PowerUp]

Keys == 0 .. KeyBound - 1

Init ==
  /\ clk = "low" /\ state = "idle" /\ counter = 0 /\ secretKey = 0
  /\ T1Init /\ T2aInit /\ T2bInit /\ T3Init
  /\ sBus = [addr |-> 0, data |-> 0, wren |-> FALSE]
  /\ dBus = [addr |-> 0, data |-> 0, wren |-> FALSE]
  /\ sMem = [n \in Byte |-> PowerUp] /\ sReg = 0
  /\ dMem = [n \in MsgIndex |-> PowerUp] /\ dReg = 0
  /\ romReg = 0
  /\ message \in Messages
  /\ other = FALSE /\ resets = 0 /\ full = FALSE /\ proper = FALSE
  /\ accept = [again \in BOOLEAN |-> {key \in Keys : Readable(Filled(again), key, message)}]

Next == RisingEdge \/ FallingEdge \/ Reset \/ OtherFinishes

\* The clock never stops; buttons and other cores need not act.
Spec == Init /\ [][Next]_vars /\ WF_vars(RisingEdge) /\ WF_vars(FallingEdge)

-----------------------------------------------------------------------------
TypeOK ==
  /\ clk \in {"low", "high"} /\ state \in CoreStates /\ counter \in 0 .. 3
  /\ secretKey \in 0 .. KeyWrap - 1
  /\ T1Type /\ T2aType /\ T2bType /\ T3Type
  /\ sBus \in [addr : Byte, data : Byte, wren : BOOLEAN]
  /\ dBus \in [addr : MsgIndex, data : Byte, wren : BOOLEAN]
  /\ sMem \in [Byte -> Byte] /\ sReg \in Byte
  /\ dMem \in [MsgIndex -> Byte] /\ dReg \in MsgIndex /\ romReg \in MsgIndex
  /\ message \in Messages
  /\ other \in BOOLEAN /\ resets \in 0 .. MaxResets
  /\ full \in BOOLEAN /\ proper \in BOOLEAN /\ accept \in [BOOLEAN -> SUBSET Keys]

\* Whatever resets came before, task 2a starts on the S memory Filled(proper), though
\* task 1's writes lag its registers by one index.
FilledBeforeScheduling == t2a.state = "init" => sMem = Filled(proper)

\* my_fsm_task1.sv:7 calls the pass over the S memory its initialization: task 2a
\* would start on the identity.  The first pass after power-up does not get there.
Initialised == t2a.state = "init" => sMem = Identity

\* When task 2a hands over, the S memory is the key schedule of the current
\* key: no read of the loop sampled the memory too early, no swap was lost.
ScheduleCorrect == state = "task2b_start" => sMem = Scheduled(Filled(proper), secretKey)

\* When task 2b hands over, the decrypted-message memory holds RC4's plaintext.
DecryptCorrect == state = "task3_start" => dMem = Plaintext(Filled(proper), secretKey, message)

\* The orchestrator judges a key by the plaintext of exactly that key, although
\* task 3 stops reading at the first invalid byte.
VerdictCorrect ==
  state = "check_valid_data_counter" =>
    (t3.valid >= MsgLen <=> Readable(Filled(proper), secretKey, message))

\* A task that is writing owns the memory registers: between its write state and
\* the next falling edge the orchestrator has not moved on to another task.
NoWriteLost ==
  clk = "high" => /\ (T1Wren => In1)
                  /\ (T2aWren => In2a)
                  /\ (T2bWren \/ T2bOutWren => In2b)

\* The orchestrator never waits for a task that is not running: neither the
\* start flag (2 or 3 cycles) nor the finish flag (3 cycles) is missed.
NoMissedHandshake ==
  /\ state = "task1_wait_2" => t1.state # "idle"
  /\ state = "task2a_wait_2" => t2a.state # "idle"
  /\ state = "task2b_wait_2" => t2b.state # "idle"
  /\ state = "task3_wait_2" => t3.state # "idle"

\* A core that has been started stops, unless the reset button is pressed.
Stops == state = "init" ~> state \in CoreStopped \cup {"idle"}

(***************************************************************************)
(* The core implements SearchCore.  The key register changes at the        *)
(* falling edge inside init and secret_key_increment; the abstract step is *)
(* taken there.  The fill is over when the last index has been written to  *)
(* the address register, the verdict is in when task 3 hands over.         *)
(***************************************************************************)
AbsState ==
  CASE state = "init" -> IF clk = "high" THEN "idle" ELSE "check_secret_key"
    [] state = "secret_key_increment" ->
         IF clk = "high" THEN "secret_key_increment" ELSE "check_secret_key"
    [] state = "task1_start" \/ (In1 /\ ~t1.done) -> "fill"
    [] \/ In1 /\ t1.done
       \/ In2a \/ In2b \/ In3
       \/ state \in {"task2a_start", "task2b_start", "task3_start"} -> "decrypt"
    [] OTHER -> state

Abs == INSTANCE SearchCore WITH state <- AbsState

Implements == Abs!Spec

=============================================================================
