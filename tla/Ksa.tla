-------------------------------- MODULE Ksa --------------------------------
(***************************************************************************)
(* ksa.sv: cores that split the key space between them.  Core c starts at  *)
(* key c and adds NumCores; the cores tell each other only whether any of  *)
(* them has finished.  Each core is seen here as SearchCore sees it, one   *)
(* step per stage of a pass.  The stages of different cores interleave: a  *)
(* pass takes longer the more valid characters task 3 reads, so the cores, *)
(* which share a clock, drift apart.                                       *)
(***************************************************************************)
EXTENDS Integers

CONSTANTS
  NumCores,   \* 4 on the board; also parameter N, each core's increment
  KeyBound,   \* 24'h400000
  KeyWrap     \* number of values of the 24-bit key register

ASSUME NumCoresAssumption == NumCores \in Nat \ {0}
ASSUME KeyBoundAssumption ==
  /\ KeyBound \in Nat /\ KeyWrap \in Nat
  /\ KeyBound + NumCores <= KeyWrap

Cores == 0 .. NumCores - 1
Keys == 0 .. KeyBound - 1

VARIABLES
  state, secretKey,   \* per core: stage and key register
  full, proper,       \* per core: the S memory has been filled once since
                      \* power-up; and had been before the current pass
  accept              \* the keys a pass accepts, for each value of proper

vars == <<state, secretKey, full, proper, accept>>

States == {"idle", "check_secret_key", "fill", "decrypt", "check_valid_data_counter",
           "secret_key_increment", "finish", "finish_othercore", "failed"}
Stopped == {"finish", "finish_othercore", "failed"}

(***************************************************************************)
(* The combinational part of the top level: LEDR[9], LEDR[8] and the key   *)
(* on the seven-segment displays.                                          *)
(***************************************************************************)
Finished == {c \in Cores : state[c] = "finish"}
CompareFinish == Finished # {}
CompareFail == \A c \in Cores : state[c] = "failed"
\* Fault: the display is wired to the first core.
DisplayFirstCore == secretKey[0]

Display == IF \E c \in Cores : Finished = {c}
           THEN secretKey[CHOOSE c \in Cores : Finished = {c}]
           ELSE secretKey[0]

Init ==
  /\ state = [c \in Cores |-> "idle"]
  /\ secretKey = [c \in Cores |-> 0]
  /\ full = [c \in Cores |-> FALSE]
  /\ proper = [c \in Cores |-> FALSE]
  /\ accept \in [BOOLEAN -> SUBSET Keys]

\* Fault: every core starts at key 0.
StartSameKey(c) ==
  /\ state[c] = "idle"
  /\ state' = [state EXCEPT ![c] = "check_secret_key"]
  /\ secretKey' = [secretKey EXCEPT ![c] = 0]
  /\ UNCHANGED <<full, proper, accept>>

\* key[0] is pressed, idle -> init -> check_secret_key.  The button is not
\* synchronised to the clock, so the cores need not see it at the same edge.
Start(c) ==
  /\ state[c] = "idle"
  /\ state' = [state EXCEPT ![c] = "check_secret_key"]
  /\ secretKey' = [secretKey EXCEPT ![c] = c]
  /\ UNCHANGED <<full, proper, accept>>

\* Fault: the last key in range is not tried.
CheckKeyShort(c) ==
  /\ state[c] = "check_secret_key"
  /\ state' = [state EXCEPT ![c] = IF secretKey[c] < KeyBound - 1 THEN "fill" ELSE "failed"]
  /\ UNCHANGED <<secretKey, full, proper, accept>>

\* Fault: the bound itself is still tried.
CheckKeyLong(c) ==
  /\ state[c] = "check_secret_key"
  /\ state' = [state EXCEPT ![c] = IF secretKey[c] <= KeyBound THEN "fill" ELSE "failed"]
  /\ UNCHANGED <<secretKey, full, proper, accept>>

CheckKey(c) ==
  /\ state[c] = "check_secret_key"
  /\ state' = [state EXCEPT ![c] = IF secretKey[c] < KeyBound THEN "fill" ELSE "failed"]
  /\ UNCHANGED <<secretKey, full, proper, accept>>

\* Task 1.
Fill(c) ==
  /\ state[c] = "fill"
  /\ state' = [state EXCEPT ![c] = "decrypt"]
  /\ proper' = [proper EXCEPT ![c] = full[c]]
  /\ full' = [full EXCEPT ![c] = TRUE]
  /\ UNCHANGED <<secretKey, accept>>

\* Tasks 2a, 2b and 3.
Decrypt(c) ==
  /\ state[c] = "decrypt"
  /\ state' = [state EXCEPT ![c] = "check_valid_data_counter"]
  /\ UNCHANGED <<secretKey, full, proper, accept>>

\* Fault: another core's success hides this core's own.
JudgeOtherFirst(c) ==
  /\ state[c] = "check_valid_data_counter"
  /\ state' = [state EXCEPT ![c] =
                 IF CompareFinish THEN "finish_othercore"
                 ELSE IF secretKey[c] \in accept[proper[c]] THEN "finish"
                 ELSE "secret_key_increment"]
  /\ UNCHANGED <<secretKey, full, proper, accept>>

\* The core's own success comes first, then that of the others.
Judge(c) ==
  /\ state[c] = "check_valid_data_counter"
  /\ state' = [state EXCEPT ![c] =
                 IF secretKey[c] \in accept[proper[c]] THEN "finish"
                 ELSE IF CompareFinish THEN "finish_othercore"
                 ELSE "secret_key_increment"]
  /\ UNCHANGED <<secretKey, full, proper, accept>>

\* Fault: the increment is not the number of cores.
IncrementMore(c) ==
  /\ state[c] = "secret_key_increment"
  /\ state' = [state EXCEPT ![c] = "check_secret_key"]
  /\ secretKey' = [secretKey EXCEPT ![c] = (secretKey[c] + NumCores + 1) % KeyWrap]
  /\ UNCHANGED <<full, proper, accept>>

\* Fault: the range check is skipped after the first key.
IncrementUnchecked(c) ==
  /\ state[c] = "secret_key_increment"
  /\ state' = [state EXCEPT ![c] = "fill"]
  /\ secretKey' = [secretKey EXCEPT ![c] = (secretKey[c] + NumCores) % KeyWrap]
  /\ UNCHANGED <<full, proper, accept>>

Increment(c) ==
  /\ state[c] = "secret_key_increment"
  /\ state' = [state EXCEPT ![c] = "check_secret_key"]
  /\ secretKey' = [secretKey EXCEPT ![c] = (secretKey[c] + NumCores) % KeyWrap]
  /\ UNCHANGED <<full, proper, accept>>

\* KEY[3] resets all cores; the memories keep their contents.
Reset ==
  /\ state' = [c \in Cores |-> "idle"]
  /\ secretKey' = [c \in Cores |-> 0]
  /\ UNCHANGED <<full, proper, accept>>

Work(c) == CheckKey(c) \/ Fill(c) \/ Decrypt(c) \/ Judge(c) \/ Increment(c)

Next == Reset \/ \E c \in Cores : Start(c) \/ Work(c)

\* The clock runs; nobody has to press a button.
Spec == Init /\ [][Next]_vars /\ \A c \in Cores : WF_vars(Work(c))

-----------------------------------------------------------------------------
\* Types.  A key register stays within one increment above the range, far below its
\* width: the addition never wraps round to keys that were tried already.
TypeOK ==
  /\ state \in [Cores -> States]
  /\ secretKey \in [Cores -> 0 .. KeyBound + NumCores - 1]
  /\ full \in [Cores -> BOOLEAN]
  /\ proper \in [Cores -> BOOLEAN]
  /\ accept \in [BOOLEAN -> SUBSET Keys]

\* The keys of core c's share.
Share(c) == {key \in Keys : key % NumCores = c}

\* A pass of core c has rejected the key: a proper pass, or the first pass
\* since power-up, which every core spends on its first key.
Rejected(c, key) == key \notin accept[TRUE] \/ (key = c /\ key \notin accept[FALSE])

\* No key is skipped: when a core moves on, every key of its share below its
\* key register has been rejected, whatever resets there were.
NoKeySkipped ==
  \A c \in Cores : state[c] # "idle" =>
    \A key \in Share(c) : key < secretKey[c] => Rejected(c, key)

\* When LEDR[8] reports failure, no key in range decrypts the message, except
\* possibly keys that only the first pass after power-up looked at.
FailSound == CompareFail => \A key \in accept[TRUE] : key < NumCores /\ key \notin accept[FALSE]

\* A message with at most one accepted key.
UniqueKey == \A a, b \in accept[TRUE] \cup accept[FALSE] : a = b

\* When LEDR[9] is on, the displays show an accepted key: with one key to find,
\* no two cores find it, so the selector never falls through to core 1.
DisplaySound == UniqueKey /\ CompareFinish => Display \in accept[TRUE] \cup accept[FALSE]

\* No key is given to two cores.
DisjointShares ==
  \A c, d \in Cores : c # d /\ "idle" \notin {state[c], state[d]} => secretKey[c] # secretKey[d]

\* A core that has been started stops, unless it is reset.
AllStop == \A c \in Cores : state[c] = "check_secret_key" ~> state[c] \in Stopped \cup {"idle"}

\* If all cores run and some key in range is accepted, one is found, unless the
\* cores are reset.
KeyFound ==
  (\A c \in Cores : state[c] # "idle") /\ accept[TRUE] \cap accept[FALSE] # {}
    ~> CompareFinish \/ \E c \in Cores : state[c] = "idle"

\* Every core of the system is a SearchCore whose input is whether another core
\* has finished.
Core(c) == INSTANCE SearchCore WITH
             FirstKey <- c, Step <- NumCores,
             state <- state[c], secretKey <- secretKey[c],
             full <- full[c], proper <- proper[c],
             other <- \E d \in Cores \ {c} : state[d] = "finish"

CoresImplement == [][\A c \in Cores : [Core(c)!Next]_(Core(c)!vars)]_vars

=============================================================================
