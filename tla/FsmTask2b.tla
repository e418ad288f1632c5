------------------------------ MODULE FsmTask2b ------------------------------
(***************************************************************************)
(* my_fsm_task2b.sv: the keystream loop.  Each round swaps two S cells,    *)
(* reads a third and writes the exclusive or of it and an encrypted byte   *)
(* into the decrypted-message memory.  sq and eq are the outputs of the S  *)
(* memory and of the encrypted-message ROM.                                *)
(***************************************************************************)
EXTENDS Rc4

VARIABLE t2b

T2bPauses == [i_get_data_2 |-> "i_get_data_3", j_get_data_2 |-> "j_get_data_3",
              swap_1_wait  |-> "swap_2",       swap_2_wait  |-> "f_get_data_1",
              f_get_data_2 |-> "f_get_data_3", decrypt_write_wait |-> "k_increment"]

T2bStates ==
  {"idle", "init", "check_k", "i_increment", "i_get_data_1", "i_get_data_3",
   "j_calculate", "j_get_data_1", "j_get_data_3", "swap_1", "swap_2",
   "f_get_data_1", "f_get_data_3", "decrypt_calculate", "decrypt_write",
   "k_increment", "finish"}
  \cup DOMAIN T2bPauses

\* addr, data: to the S memory; romAddr: to the ROM; outAddr, outData: to the
\* decrypted-message memory.
T2bType ==
  t2b \in [state : T2bStates, i : Byte, j : Byte, k : MsgIndex, done : BOOLEAN,
           iData : Byte, jData : Byte, f : Byte, enc : Byte, dec : Byte,
           addr : Byte, data : Byte, romAddr : MsgIndex,
           outAddr : MsgIndex, outData : Byte, counter : 0 .. 3]

T2bInit ==
  t2b = [state |-> "idle", i |-> 0, j |-> 0, k |-> 0, done |-> FALSE,
         iData |-> 0, jData |-> 0, f |-> 0, enc |-> 0, dec |-> 0,
         addr |-> 0, data |-> 0, romAddr |-> 0,
         outAddr |-> 0, outData |-> 0, counter |-> 0]

T2bWren == t2b.state \in {"swap_1_wait", "swap_2_wait"}
T2bOutWren == t2b.state = "decrypt_write_wait"
T2bFinish == t2b.state = "finish"

T2bIdle(start) ==
  /\ t2b.state = "idle"
  /\ t2b' = [t2b EXCEPT !.state = IF start THEN "init" ELSE "idle"]

T2bClear ==
  /\ t2b.state = "init"
  /\ t2b' = [t2b EXCEPT !.state = "check_k", !.i = 0, !.j = 0, !.k = 0,
                        !.iData = 0, !.jData = 0, !.f = 0, !.enc = 0, !.dec = 0,
                        !.done = FALSE, !.counter = 0]

T2bCheckK ==
  /\ t2b.state = "check_k"
  /\ t2b' = [t2b EXCEPT !.state = IF t2b.done THEN "finish" ELSE "i_increment"]

\* The round that starts with the last k is the last one.
T2bIncrementI ==
  /\ t2b.state = "i_increment"
  /\ t2b' = [t2b EXCEPT !.state = "i_get_data_1", !.i = (t2b.i + 1) % Depth,
                        !.done = (t2b.k = MsgLen - 1)]

T2bGetI ==
  /\ t2b.state = "i_get_data_1"
  /\ t2b' = [t2b EXCEPT !.state = "i_get_data_2", !.addr = t2b.i]

T2bGotI(sq) ==
  /\ t2b.state = "i_get_data_3"
  /\ t2b' = [t2b EXCEPT !.state = "j_calculate", !.iData = sq]

T2bCalculateJ ==
  /\ t2b.state = "j_calculate"
  /\ t2b' = [t2b EXCEPT !.state = "j_get_data_1", !.j = (t2b.j + t2b.iData) % Depth]

T2bGetJ ==
  /\ t2b.state = "j_get_data_1"
  /\ t2b' = [t2b EXCEPT !.state = "j_get_data_2", !.addr = t2b.j]

T2bGotJ(sq) ==
  /\ t2b.state = "j_get_data_3"
  /\ t2b' = [t2b EXCEPT !.state = "swap_1", !.jData = sq]

T2bSwap1 ==
  /\ t2b.state = "swap_1"
  /\ t2b' = [t2b EXCEPT !.state = "swap_1_wait", !.addr = t2b.j, !.data = t2b.iData]

\* Fault: the second half of the swap is not written.
T2bSwap2NoWait ==
  /\ t2b.state = "swap_2"
  /\ t2b' = [t2b EXCEPT !.state = "f_get_data_1", !.addr = t2b.i, !.data = t2b.jData]

T2bSwap2 ==
  /\ t2b.state = "swap_2"
  /\ t2b' = [t2b EXCEPT !.state = "swap_2_wait", !.addr = t2b.i, !.data = t2b.jData]

\* The S cell and the encrypted byte are fetched together.
T2bGetF ==
  /\ t2b.state = "f_get_data_1"
  /\ t2b' = [t2b EXCEPT !.state = "f_get_data_2", !.romAddr = t2b.k,
                        !.addr = (t2b.iData + t2b.jData) % Depth]

T2bGotF(sq, eq) ==
  /\ t2b.state = "f_get_data_3"
  /\ t2b' = [t2b EXCEPT !.state = "decrypt_calculate", !.f = sq, !.enc = eq]

T2bDecrypt ==
  /\ t2b.state = "decrypt_calculate"
  /\ t2b' = [t2b EXCEPT !.state = "decrypt_write", !.dec = Xor[<<t2b.f, t2b.enc>>]]

T2bWrite ==
  /\ t2b.state = "decrypt_write"
  /\ t2b' = [t2b EXCEPT !.state = "decrypt_write_wait", !.outAddr = t2b.k,
                        !.outData = t2b.dec]

T2bPause ==
  /\ t2b.state \in DOMAIN T2bPauses
  /\ t2b' = [t2b EXCEPT !.state = T2bPauses[t2b.state]]

\* Fault: k is wider than the message address.
T2bIncrementKWide ==
  /\ t2b.state = "k_increment"
  /\ t2b' = [t2b EXCEPT !.state = "check_k", !.k = t2b.k + 1]

T2bIncrementK ==
  /\ t2b.state = "k_increment"
  /\ t2b' = [t2b EXCEPT !.state = "check_k", !.k = (t2b.k + 1) % MsgLen]

T2bFinishing ==
  /\ t2b.state = "finish"
  /\ t2b' = [t2b EXCEPT !.state = IF t2b.counter < 2 THEN "finish" ELSE "idle",
                        !.counter = (t2b.counter + 1) % 4]

T2bTick(start, sq, eq) ==
  \/ T2bIdle(start) \/ T2bClear \/ T2bCheckK \/ T2bIncrementI
  \/ T2bGetI \/ T2bGotI(sq) \/ T2bCalculateJ \/ T2bGetJ \/ T2bGotJ(sq)
  \/ T2bSwap1 \/ T2bSwap2 \/ T2bGetF \/ T2bGotF(sq, eq)
  \/ T2bDecrypt \/ T2bWrite \/ T2bPause \/ T2bIncrementK \/ T2bFinishing

T2bReset == t2b' = [t2b EXCEPT !.state = "idle"]

=============================================================================
