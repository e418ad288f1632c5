----------------------------- MODULE SearchCore -----------------------------
(***************************************************************************)
(* What one decryption core promises, seen from outside: it walks through  *)
(* the keys FirstKey, FirstKey + Step, ... below KeyBound, gives each one  *)
(* a full decryption pass, stops at the first key the pass accepts, gives  *)
(* up when another core has finished, and fails when its keys run out.     *)
(* A pass has two visible moments: the S memory has been filled (task 1),  *)
(* and the verdict is known (tasks 2a, 2b and 3).                          *)
(*                                                                         *)
(* The fill that follows power-up leaves the last S cell at its power-up   *)
(* value (see CrackCore), so acceptance depends on whether the S memory    *)
(* had been filled once before: accept[FALSE] is the set of keys accepted  *)
(* by that first pass, accept[TRUE] the keys accepted by every later one.  *)
(***************************************************************************)
EXTENDS Integers

CONSTANTS
  KeyBound,   \* the first key that is not tried
  KeyWrap,    \* number of values of the secret_key register
  FirstKey,   \* secret_key_init, below Step
  Step        \* the increment, parameter N of the source; KeyBound + Step <= KeyWrap

VARIABLES
  state,      \* where the core is
  secretKey,  \* the key register
  full,       \* the S memory has been filled once since power-up
  proper,     \* the current pass runs on a completely filled S memory
  other,      \* input: another core has finished
  accept      \* fixed by the encrypted message: which keys a pass accepts

vars == <<state, secretKey, full, proper, other, accept>>

States == {"idle", "check_secret_key", "fill", "decrypt", "check_valid_data_counter",
           "secret_key_increment", "finish", "finish_othercore", "failed"}
Stopped == {"finish", "finish_othercore", "failed"}

TypeOK ==
  /\ state \in States
  /\ secretKey \in 0 .. KeyWrap - 1
  /\ full \in BOOLEAN
  /\ proper \in BOOLEAN
  /\ other \in BOOLEAN
  /\ accept \in [BOOLEAN -> SUBSET (0 .. KeyBound - 1)]

Init ==
  /\ state = "idle"
  /\ secretKey = 0
  /\ full = FALSE
  /\ proper = FALSE
  /\ other = FALSE
  /\ accept \in [BOOLEAN -> SUBSET (0 .. KeyBound - 1)]

\* The start button: the core loads its first key.
Start ==
  /\ state = "idle"
  /\ state' = "check_secret_key"
  /\ secretKey' = FirstKey
  /\ UNCHANGED <<full, proper, other, accept>>

CheckKey ==
  /\ state = "check_secret_key"
  /\ state' = IF secretKey < KeyBound THEN "fill" ELSE "failed"
  /\ UNCHANGED <<secretKey, full, proper, other, accept>>

Fill ==
  /\ state = "fill"
  /\ state' = "decrypt"
  /\ proper' = full
  /\ full' = TRUE
  /\ UNCHANGED <<secretKey, other, accept>>

Decrypt ==
  /\ state = "decrypt"
  /\ state' = "check_valid_data_counter"
  /\ UNCHANGED <<secretKey, full, proper, other, accept>>

Judge ==
  /\ state = "check_valid_data_counter"
  /\ state' = IF secretKey \in accept[proper] THEN "finish"
              ELSE IF other THEN "finish_othercore" ELSE "secret_key_increment"
  /\ UNCHANGED <<secretKey, full, proper, other, accept>>

Increment ==
  /\ state = "secret_key_increment"
  /\ state' = "check_secret_key"
  /\ secretKey' = (secretKey + Step) % KeyWrap
  /\ UNCHANGED <<full, proper, other, accept>>

\* The reset button stops every core, so no core has finished any more.
Reset ==
  /\ state' = "idle"
  /\ secretKey' = 0
  /\ other' = FALSE
  /\ UNCHANGED <<full, proper, accept>>

OtherFinishes ==
  /\ other' = TRUE
  /\ UNCHANGED <<state, secretKey, full, proper, accept>>

Work == CheckKey \/ Fill \/ Decrypt \/ Judge \/ Increment

Next == Start \/ Work \/ Reset \/ OtherFinishes

Spec == Init /\ [][Next]_vars /\ WF_vars(Work)

=============================================================================
