------------------------------ MODULE FsmTask1 ------------------------------
(***************************************************************************)
(* my_fsm_task1.sv: fill the S memory with the identity.  One action per   *)
(* state of the machine, taken at the rising clock edge; it joins the      *)
(* next-state block and the output block of the source.                    *)
(***************************************************************************)
EXTENDS Rc4

VARIABLE t1   \* state register, index i, address and data registers,
              \* flag_smem_finish, and the 2-bit counter of state finish

T1States == {"idle", "check_finish", "smem_write", "i_increment", "finish"}

T1Type == t1 \in [state : T1States, i : Byte, addr : Byte, data : Byte,
                  done : BOOLEAN, counter : 0 .. 3]

T1Init == t1 = [state |-> "idle", i |-> 0, addr |-> 0, data |-> 0,
                done |-> FALSE, counter |-> 0]

\* Output assignments: bits of the state encoding.
T1Wren == t1.state = "smem_write"
T1Finish == t1.state = "finish"

T1Idle(start) ==
  /\ t1.state = "idle"
  /\ t1' = [t1 EXCEPT !.state = IF start THEN "check_finish" ELSE "idle",
                      !.i = 0, !.done = FALSE, !.counter = 0]

T1CheckFinish ==
  /\ t1.state = "check_finish"
  /\ t1' = [t1 EXCEPT !.state = IF t1.done THEN "finish" ELSE "smem_write"]

\* Fault: the last index is compared one too early.
T1SmemWriteShort ==
  /\ t1.state = "smem_write"
  /\ t1' = [t1 EXCEPT !.state = "i_increment", !.addr = t1.i, !.data = t1.i,
                      !.done = (t1.i = Depth - 2)]

\* wren is high during this state; address and data change on leaving it.
T1SmemWrite ==
  /\ t1.state = "smem_write"
  /\ t1' = [t1 EXCEPT !.state = "i_increment", !.addr = t1.i, !.data = t1.i,
                      !.done = (t1.i = Depth - 1)]

T1Increment ==
  /\ t1.state = "i_increment"
  /\ t1' = [t1 EXCEPT !.state = "check_finish", !.i = (t1.i + 1) % Depth]

T1Finishing ==
  /\ t1.state = "finish"
  /\ t1' = [t1 EXCEPT !.state = IF t1.counter < 2 THEN "finish" ELSE "idle",
                      !.counter = (t1.counter + 1) % 4]

T1Tick(start) == T1Idle(start) \/ T1CheckFinish \/ T1SmemWrite \/ T1Increment \/ T1Finishing

\* The asynchronous reset clears the state register and nothing else.
T1Reset == t1' = [t1 EXCEPT !.state = "idle"]

=============================================================================
