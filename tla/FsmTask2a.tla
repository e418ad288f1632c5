------------------------------ MODULE FsmTask2a ------------------------------
(***************************************************************************)
(* my_fsm_task2a.sv: the key-scheduling loop over the S memory.  sq is the *)
(* memory's output, key the secret key.                                    *)
(***************************************************************************)
EXTENDS Rc4

VARIABLE t2a

\* States that only wait for the memory, with their successors.
T2aPauses == [i_get_data_2 |-> "i_get_data_3", j_get_data_2 |-> "j_get_data_3",
              swap_1_wait  |-> "swap_2",       swap_2_wait  |-> "i_increment"]

T2aStates ==
  {"idle", "init", "i_counter_check", "i_get_data_1", "i_get_data_3", "j_calculate",
   "j_get_data_1", "j_get_data_3", "swap_1", "swap_2", "i_increment", "finish"}
  \cup DOMAIN T2aPauses

T2aType == t2a \in [state : T2aStates, i : Byte, j : Byte, iData : Byte, jData : Byte,
                    addr : Byte, data : Byte, done : BOOLEAN, counter : 0 .. 3]

T2aInit == t2a = [state |-> "idle", i |-> 0, j |-> 0, iData |-> 0, jData |-> 0,
                  addr |-> 0, data |-> 0, done |-> FALSE, counter |-> 0]

T2aWren == t2a.state \in {"swap_1_wait", "swap_2_wait"}
T2aFinish == t2a.state = "finish"

T2aIdle(start) ==
  /\ t2a.state = "idle"
  /\ t2a' = [t2a EXCEPT !.state = IF start THEN "init" ELSE "idle"]

T2aClear ==
  /\ t2a.state = "init"
  /\ t2a' = [t2a EXCEPT !.state = "i_counter_check", !.i = 0, !.j = 0,
                        !.done = FALSE, !.counter = 0]

T2aCounterCheck ==
  /\ t2a.state = "i_counter_check"
  /\ t2a' = [t2a EXCEPT !.state = IF t2a.done THEN "finish" ELSE "i_get_data_1"]

\* Fault: the memory's output is sampled one cycle too early.
T2aGetIEarly ==
  /\ t2a.state = "i_get_data_1"
  /\ t2a' = [t2a EXCEPT !.state = "i_get_data_3", !.addr = t2a.i,
                        !.done = (t2a.i = Depth - 1)]

T2aGetI ==
  /\ t2a.state = "i_get_data_1"
  /\ t2a' = [t2a EXCEPT !.state = "i_get_data_2", !.addr = t2a.i,
                        !.done = (t2a.i = Depth - 1)]

T2aGotI(sq) ==
  /\ t2a.state = "i_get_data_3"
  /\ t2a' = [t2a EXCEPT !.state = "j_calculate", !.iData = sq]

T2aCalculateJ(key) ==
  /\ t2a.state = "j_calculate"
  /\ t2a' = [t2a EXCEPT !.state = "j_get_data_1",
                        !.j = (t2a.j + t2a.iData + KeyByte(key, t2a.i)) % Depth]

T2aGetJ ==
  /\ t2a.state = "j_get_data_1"
  /\ t2a' = [t2a EXCEPT !.state = "j_get_data_2", !.addr = t2a.j]

T2aGotJ(sq) ==
  /\ t2a.state = "j_get_data_3"
  /\ t2a' = [t2a EXCEPT !.state = "swap_1", !.jData = sq]

\* The two halves of the swap; the memory is written in the *_wait states.
T2aSwap1 ==
  /\ t2a.state = "swap_1"
  /\ t2a' = [t2a EXCEPT !.state = "swap_1_wait", !.addr = t2a.j, !.data = t2a.iData]

T2aSwap2 ==
  /\ t2a.state = "swap_2"
  /\ t2a' = [t2a EXCEPT !.state = "swap_2_wait", !.addr = t2a.i, !.data = t2a.jData]

T2aPause ==
  /\ t2a.state \in DOMAIN T2aPauses
  /\ t2a' = [t2a EXCEPT !.state = T2aPauses[t2a.state]]

T2aIncrement ==
  /\ t2a.state = "i_increment"
  /\ t2a' = [t2a EXCEPT !.state = "i_counter_check", !.i = (t2a.i + 1) % Depth]

T2aFinishing ==
  /\ t2a.state = "finish"
  /\ t2a' = [t2a EXCEPT !.state = IF t2a.counter < 2 THEN "finish" ELSE "idle",
                        !.counter = (t2a.counter + 1) % 4]

T2aTick(start, key, sq) ==
  \/ T2aIdle(start) \/ T2aClear \/ T2aCounterCheck
  \/ T2aGetI \/ T2aGotI(sq) \/ T2aCalculateJ(key) \/ T2aGetJ \/ T2aGotJ(sq)
  \/ T2aSwap1 \/ T2aSwap2 \/ T2aPause \/ T2aIncrement \/ T2aFinishing

T2aReset == t2a' = [t2a EXCEPT !.state = "idle"]

=============================================================================
