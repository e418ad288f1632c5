------------------------------ MODULE FsmTask3 ------------------------------
(***************************************************************************)
(* my_fsm_task3.sv: count the valid characters of the decrypted message,   *)
(* giving up at the first invalid one.  dq is the output of the            *)
(* decrypted-message memory.                                               *)
(***************************************************************************)
EXTENDS Rc4

VARIABLE t3

T3States == {"idle", "init", "i_counter_check", "decrypt_get_data_1", "decrypt_wait",
             "decrypt_get_data_2", "decrypt_check_data", "i_increment", "finish"}

T3Type == t3 \in [state : T3States, i : Byte, addr : MsgIndex, dec : Byte,
                  valid : 0 .. 2 * MsgLen - 1, invalid : BOOLEAN, done : BOOLEAN,
                  counter : 0 .. 3]

T3Init == t3 = [state |-> "idle", i |-> 0, addr |-> 0, dec |-> 0,
                valid |-> 0, invalid |-> FALSE, done |-> FALSE, counter |-> 0]

T3Finish == t3.state = "finish"

T3Idle(start) ==
  /\ t3.state = "idle"
  /\ t3' = [t3 EXCEPT !.state = IF start THEN "init" ELSE "idle"]

\* Fault: the count of the previous key is kept.
T3ClearKeepsCount ==
  /\ t3.state = "init"
  /\ t3' = [t3 EXCEPT !.state = "i_counter_check", !.i = 0, !.done = FALSE,
                      !.counter = 0, !.invalid = FALSE]

T3Clear ==
  /\ t3.state = "init"
  /\ t3' = [t3 EXCEPT !.state = "i_counter_check", !.i = 0, !.done = FALSE,
                      !.counter = 0, !.valid = 0, !.invalid = FALSE]

T3CounterCheck ==
  /\ t3.state = "i_counter_check"
  /\ t3' = [t3 EXCEPT !.state = IF t3.done \/ t3.invalid THEN "finish"
                                ELSE "decrypt_get_data_1"]

\* The 8-bit index drives the 5-bit address of the memory.
T3GetData ==
  /\ t3.state = "decrypt_get_data_1"
  /\ t3' = [t3 EXCEPT !.state = "decrypt_wait", !.addr = t3.i % MsgLen,
                      !.done = (t3.i = MsgLen - 1)]

T3Wait ==
  /\ t3.state = "decrypt_wait"
  /\ t3' = [t3 EXCEPT !.state = "decrypt_get_data_2"]

T3GotData(dq) ==
  /\ t3.state = "decrypt_get_data_2"
  /\ t3' = [t3 EXCEPT !.state = "decrypt_check_data", !.dec = dq]

T3CheckData ==
  /\ t3.state = "decrypt_check_data"
  /\ t3' = IF t3.dec \in ValidChars
           THEN [t3 EXCEPT !.state = "i_increment", !.valid = (t3.valid + 1) % (2 * MsgLen)]
           ELSE [t3 EXCEPT !.state = "i_increment", !.invalid = TRUE]

T3Increment ==
  /\ t3.state = "i_increment"
  /\ t3' = [t3 EXCEPT !.state = "i_counter_check", !.i = (t3.i + 1) % Depth]

T3Finishing ==
  /\ t3.state = "finish"
  /\ t3' = [t3 EXCEPT !.state = IF t3.counter < 2 THEN "finish" ELSE "idle",
                      !.counter = (t3.counter + 1) % 4]

T3Tick(start, dq) ==
  \/ T3Idle(start) \/ T3Clear \/ T3CounterCheck \/ T3GetData \/ T3Wait
  \/ T3GotData(dq) \/ T3CheckData \/ T3Increment \/ T3Finishing

T3Reset == t3' = [t3 EXCEPT !.state = "idle"]

=============================================================================
