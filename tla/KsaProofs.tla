----------------------------- MODULE KsaProofs -----------------------------
(***************************************************************************)
(* Proofs about Ksa for every number of cores, every key bound and every   *)
(* message: the invariant of a core's walk through its share of the keys,  *)
(* and from it that no key is skipped, that the two LEDs and the displays  *)
(* tell the truth, and that every core implements SearchCore.              *)
(***************************************************************************)
EXTENDS Ksa, TLAPS

USE NumCoresAssumption, KeyBoundAssumption

\* The number of increments that lead from c to key.
Reaches(c, key) == \E n \in Nat : key = c + n * NumCores

PassStates == {"decrypt", "check_valid_data_counter", "secret_key_increment",
               "finish", "finish_othercore"}

(***************************************************************************)
(* What holds of core c at all times.  Walk is the arithmetic of the key   *)
(* register, Fills ties the S memory's history to the first key, Verdict   *)
(* is what the passes so far have shown.                                   *)
(***************************************************************************)
Walk(c) ==
  /\ state[c] # "idle" => Reaches(c, secretKey[c])
  /\ state[c] \in PassStates \cup {"fill"} => secretKey[c] < KeyBound
  /\ state[c] = "failed" => secretKey[c] >= KeyBound

Fills(c) ==
  /\ state[c] \in PassStates => full[c]
  /\ state[c] \in {"check_secret_key", "fill"} /\ ~full[c] => secretKey[c] = c
  /\ state[c] \in PassStates /\ ~proper[c] => secretKey[c] = c

Verdict(c) ==
  /\ state[c] = "finish" => secretKey[c] \in accept[proper[c]]
  /\ state[c] \in {"secret_key_increment", "finish_othercore"} => Rejected(c, secretKey[c])
  /\ state[c] # "idle" =>
       \A key \in Keys : Reaches(c, key) /\ key < secretKey[c] => Rejected(c, key)

CoreInv(c) == Walk(c) /\ Fills(c) /\ Verdict(c)

IInv == TypeOK /\ \A c \in Cores : CoreInv(c)

-----------------------------------------------------------------------------
(***************************************************************************)
(* Arithmetic.                                                             *)
(***************************************************************************)

\* Below the register's width the modulus changes nothing.
LEMMA ModSmall == ASSUME NEW a \in Nat, NEW b \in Nat, a < b PROVE a % b = a
  OBVIOUS

\* A key reaches itself from its residue.
LEMMA ReachesResidue ==
  ASSUME NEW key \in Nat
  PROVE  key % NumCores \in Cores /\ Reaches(key % NumCores, key)
<1>1. key = (key % NumCores) + (key \div NumCores) * NumCores /\ key \div NumCores \in Nat
  OBVIOUS
<1>2. key % NumCores \in Cores
  BY DEF Cores
<1>. QED  BY <1>1, <1>2 DEF Reaches

\* One increment is the least distance between two keys of a core.
LEMMA AtLeastStep == ASSUME NEW n \in Nat, n >= 1 PROVE n * NumCores >= NumCores
  OBVIOUS

\* Keys at most one increment apart, counted from residues c and d, are the
\* same key of the same core.
LEMMA SameKey ==
  ASSUME NEW c \in Cores, NEW m \in Nat, NEW n \in Nat,
         c + m * NumCores >= c + n * NumCores,
         c + m * NumCores < c + n * NumCores + NumCores
  PROVE  m = n
<1>1. CASE m > n
  <2>1. m - n \in Nat /\ m - n >= 1  BY <1>1
  <2>2. (m - n) * NumCores >= NumCores  BY <2>1, AtLeastStep
  <2>3. (m - n) * NumCores = m * NumCores - n * NumCores  OBVIOUS
  <2>. QED  BY <2>2, <2>3 DEF Cores
<1>2. CASE m < n
  <2>1. n - m \in Nat /\ n - m >= 1  BY <1>2
  <2>2. (n - m) * NumCores >= NumCores  BY <2>1, AtLeastStep
  <2>3. (n - m) * NumCores = n * NumCores - m * NumCores  OBVIOUS
  <2>. QED  BY <2>2, <2>3 DEF Cores
<1>. QED  BY <1>1, <1>2

\* A key reached from two cores would make them the same core.
LEMMA SameCore ==
  ASSUME NEW c \in Cores, NEW d \in Cores, NEW key \in Nat,
         Reaches(c, key), Reaches(d, key)
  PROVE  c = d
<1>1. PICK m \in Nat : key = c + m * NumCores  BY DEF Reaches
<1>2. PICK n \in Nat : key = d + n * NumCores  BY DEF Reaches
<1>3. CASE m = n  BY <1>1, <1>2, <1>3 DEF Cores
<1>4. CASE m > n
  <2>1. m - n \in Nat /\ m - n >= 1  BY <1>4
  <2>2. (m - n) * NumCores >= NumCores  BY <2>1, AtLeastStep
  <2>3. (m - n) * NumCores = m * NumCores - n * NumCores  OBVIOUS
  <2>. QED  BY <1>1, <1>2, <2>2, <2>3 DEF Cores
<1>5. CASE m < n
  <2>1. n - m \in Nat /\ n - m >= 1  BY <1>5
  <2>2. (n - m) * NumCores >= NumCores  BY <2>1, AtLeastStep
  <2>3. (n - m) * NumCores = n * NumCores - m * NumCores  OBVIOUS
  <2>. QED  BY <1>1, <1>2, <2>2, <2>3 DEF Cores
<1>. QED  BY <1>3, <1>4, <1>5

\* A core's keys below its next key are its keys below the current one, and
\* the current one.
LEMMA NextKey ==
  ASSUME NEW c \in Cores, NEW here \in Nat, NEW key \in Nat,
         Reaches(c, here), Reaches(c, key), key < here + NumCores
  PROVE  key < here \/ key = here
<1>1. PICK m \in Nat : key = c + m * NumCores  BY DEF Reaches
<1>2. PICK n \in Nat : here = c + n * NumCores  BY DEF Reaches
<1>3. CASE key >= here
  <2>1. m = n  BY <1>1, <1>2, <1>3, SameKey
  <2>. QED  BY <2>1, <1>1, <1>2
<1>. QED  BY <1>3, <1>1, <1>2 DEF Cores

\* Incrementing stays on the core's walk.
LEMMA NextReached ==
  ASSUME NEW c \in Cores, NEW here \in Nat, Reaches(c, here)
  PROVE  Reaches(c, here + NumCores)
<1>1. PICK n \in Nat : here = c + n * NumCores  BY DEF Reaches
<1>2. n + 1 \in Nat /\ here + NumCores = c + (n + 1) * NumCores  BY <1>1 DEF Cores
<1>. QED  BY <1>2 DEF Reaches

-----------------------------------------------------------------------------
(***************************************************************************)
(* The invariant is inductive.                                             *)
(***************************************************************************)

\* A step that leaves core d's registers alone leaves its invariant alone.
LEMMA Untouched ==
  ASSUME NEW d \in Cores, CoreInv(d), accept' = accept,
         state'[d] = state[d], secretKey'[d] = secretKey[d],
         full'[d] = full[d], proper'[d] = proper[d]
  PROVE  CoreInv(d)'
  BY DEF CoreInv, Walk, Fills, Verdict, Reaches, Rejected

\* The first configuration satisfies it: nothing has been loaded or rejected.
LEMMA InitIInv == Init => IInv
<1>. SUFFICES ASSUME Init PROVE IInv
  OBVIOUS
<1>1. TypeOK
  BY DEF Init, TypeOK, Cores, Keys, States
<1>2. ASSUME NEW c \in Cores PROVE CoreInv(c)
  BY DEF Init, CoreInv, Walk, Fills, Verdict, PassStates, Cores
<1>. QED  BY <1>1, <1>2 DEF IInv

\* The types are preserved.  Only an increment needs more than the types: the
\* core is in a pass, so its key is in range, and the sum does not wrap.
LEMMA NextTypeOK == IInv /\ [Next]_vars => TypeOK'
<1>. SUFFICES ASSUME IInv, [Next]_vars PROVE TypeOK'
  OBVIOUS
<1>. TypeOK  BY DEF IInv
<1>. USE DEF TypeOK, States
<1>1. CASE Reset  BY <1>1 DEF Reset, Cores
<1>2. ASSUME NEW c \in Cores, Start(c) PROVE TypeOK'
  BY <1>2 DEF Start, Cores
<1>3. ASSUME NEW c \in Cores, CheckKey(c) PROVE TypeOK'
  BY <1>3 DEF CheckKey
<1>4. ASSUME NEW c \in Cores, Fill(c) PROVE TypeOK'
  BY <1>4 DEF Fill
<1>5. ASSUME NEW c \in Cores, Decrypt(c) PROVE TypeOK'
  BY <1>5 DEF Decrypt
<1>6. ASSUME NEW c \in Cores, Judge(c) PROVE TypeOK'
  BY <1>6 DEF Judge
<1>7. ASSUME NEW c \in Cores, Increment(c) PROVE TypeOK'
  <2>1. secretKey[c] \in Nat /\ secretKey[c] < KeyBound
    BY <1>7 DEF Increment, IInv, CoreInv, Walk, PassStates
  <2>2. (secretKey[c] + NumCores) % KeyWrap = secretKey[c] + NumCores
    BY <2>1, ModSmall
  <2>3. secretKey[c] + NumCores \in 0 .. KeyBound + NumCores - 1
    BY <2>1
  <2>. QED  BY <1>7, <2>2, <2>3 DEF Increment
<1>8. CASE UNCHANGED vars  BY <1>8 DEF vars
<1>. QED  BY <1>1, <1>2, <1>3, <1>4, <1>5, <1>6, <1>7, <1>8 DEF Next, Work

\* A core's own step preserves its invariant.
LEMMA OwnStep ==
  ASSUME TypeOK, NEW c \in Cores, CoreInv(c), Start(c) \/ Work(c)
  PROVE  CoreInv(c)'
<1>. USE DEF CoreInv, Walk, Fills, Verdict, PassStates
<1>. accept' = accept
  BY DEF Start, Work, CheckKey, Fill, Decrypt, Judge, Increment
<1>1. CASE Start(c)
  <2>1. state'[c] = "check_secret_key" /\ secretKey'[c] = c
        /\ full'[c] = full[c] /\ proper'[c] = proper[c]
    BY <1>1 DEF Start, TypeOK
  <2>2. c \in Nat /\ c < NumCores /\ c = c + 0 * NumCores
    BY DEF Cores
  <2>3. Reaches(c, c)  BY <2>2 DEF Reaches
  <2>4. ASSUME NEW key \in Keys, Reaches(c, key) PROVE ~(key < c)
    <3>1. PICK n \in Nat : key = c + n * NumCores  BY <2>4 DEF Reaches
    <3>2. n * NumCores >= 0  OBVIOUS
    <3>. QED  BY <3>1, <3>2, <2>2
  <2>5. Walk(c)'  BY <2>1, <2>2, <2>3 DEF Reaches
  <2>6. Fills(c)'  BY <2>1
  <2>7. Verdict(c)'  BY <2>1, <2>4 DEF Reaches
  <2>. QED  BY <2>5, <2>6, <2>7
<1>2. CASE CheckKey(c)
  <2>1. /\ state[c] = "check_secret_key"
        /\ state'[c] = IF secretKey[c] < KeyBound THEN "fill" ELSE "failed"
        /\ secretKey'[c] = secretKey[c] /\ full'[c] = full[c] /\ proper'[c] = proper[c]
    BY <1>2 DEF CheckKey, TypeOK
  <2>2. secretKey[c] \in Nat  BY DEF TypeOK
  <2>3. Walk(c)'  BY <2>1, <2>2 DEF Reaches
  <2>4. Fills(c)'  BY <2>1
  <2>5. Verdict(c)'  BY <2>1 DEF Reaches, Rejected
  <2>. QED  BY <2>3, <2>4, <2>5
<1>3. CASE Fill(c)
  <2>1. /\ state[c] = "fill" /\ state'[c] = "decrypt"
        /\ secretKey'[c] = secretKey[c] /\ full'[c] = TRUE /\ proper'[c] = full[c]
    BY <1>3 DEF Fill, TypeOK
  <2>3. Walk(c)'  BY <2>1 DEF Reaches
  <2>4. Fills(c)'  BY <2>1
  <2>5. Verdict(c)'  BY <2>1 DEF Reaches, Rejected
  <2>. QED  BY <2>3, <2>4, <2>5
<1>4. CASE Decrypt(c)
  <2>1. /\ state[c] = "decrypt" /\ state'[c] = "check_valid_data_counter"
        /\ secretKey'[c] = secretKey[c] /\ full'[c] = full[c] /\ proper'[c] = proper[c]
    BY <1>4 DEF Decrypt, TypeOK
  <2>3. Walk(c)'  BY <2>1 DEF Reaches
  <2>4. Fills(c)'  BY <2>1
  <2>5. Verdict(c)'  BY <2>1 DEF Reaches, Rejected
  <2>. QED  BY <2>3, <2>4, <2>5
<1>5. CASE Judge(c)
  <2>1. /\ state[c] = "check_valid_data_counter"
        /\ state'[c] \in {"finish", "finish_othercore", "secret_key_increment"}
        /\ secretKey[c] \in accept[proper[c]] => state'[c] = "finish"
        /\ secretKey[c] \notin accept[proper[c]] => state'[c] # "finish"
        /\ secretKey'[c] = secretKey[c] /\ full'[c] = full[c] /\ proper'[c] = proper[c]
    BY <1>5 DEF Judge, TypeOK
  <2>2. secretKey[c] \notin accept[proper[c]] => Rejected(c, secretKey[c])
    <3>1. CASE proper[c] = TRUE  BY <3>1 DEF Rejected
    <3>2. CASE proper[c] = FALSE  BY <3>2, <2>1 DEF Rejected
    <3>. QED  BY <3>1, <3>2 DEF TypeOK
  <2>3. Walk(c)'  BY <2>1 DEF Reaches
  <2>4. Fills(c)'  BY <2>1
  <2>5. Verdict(c)'  BY <2>1, <2>2 DEF Reaches, Rejected
  <2>. QED  BY <2>3, <2>4, <2>5
<1>6. CASE Increment(c)
  <2>1. /\ state[c] = "secret_key_increment" /\ state'[c] = "check_secret_key"
        /\ secretKey'[c] = (secretKey[c] + NumCores) % KeyWrap
        /\ full'[c] = full[c] /\ proper'[c] = proper[c]
    BY <1>6 DEF Increment, TypeOK
  <2>2. secretKey[c] \in Nat /\ secretKey[c] < KeyBound /\ Reaches(c, secretKey[c])
        /\ full[c]
    BY <2>1 DEF TypeOK
  <2>3. secretKey'[c] = secretKey[c] + NumCores
    <3>1. secretKey[c] + NumCores \in Nat /\ secretKey[c] + NumCores < KeyWrap
      BY <2>2
    <3>. QED  BY <2>1, <3>1, ModSmall
  <2>4. Reaches(c, secretKey[c] + NumCores)  BY <2>2, NextReached
  <2>5. Walk(c)'  BY <2>1, <2>2, <2>3, <2>4 DEF Reaches
  <2>6. Fills(c)'  BY <2>1, <2>2
  <2>7. ASSUME NEW key \in Keys, Reaches(c, key), key < secretKey[c] + NumCores
        PROVE  Rejected(c, key)
    <3>1. key \in Nat  BY DEF Keys
    <3>2. key < secretKey[c] \/ key = secretKey[c]
      BY <2>7, <3>1, <2>2, NextKey
    <3>. QED  BY <3>2, <2>1, <2>7
  <2>8. Verdict(c)'  BY <2>1, <2>3, <2>7 DEF Reaches, Rejected
  <2>. QED  BY <2>5, <2>6, <2>8
<1>. QED  BY <1>1, <1>2, <1>3, <1>4, <1>5, <1>6 DEF Work

\* Every step preserves the invariant.
LEMMA NextIInv == IInv /\ [Next]_vars => IInv'
<1>. SUFFICES ASSUME IInv, [Next]_vars PROVE IInv'
  OBVIOUS
<1>1. TypeOK'  BY NextTypeOK
<1>2. ASSUME NEW d \in Cores PROVE CoreInv(d)'
  <2>1. CASE Reset
    <3>1. state'[d] = "idle" /\ secretKey'[d] = 0  BY <2>1 DEF Reset
    <3>. QED  BY <3>1 DEF CoreInv, Walk, Fills, Verdict, PassStates, Reaches, Rejected
  <2>2. ASSUME NEW c \in Cores, Start(c) \/ Work(c) PROVE CoreInv(d)'
    <3>1. CASE c = d  BY <2>2, <3>1, OwnStep DEF IInv
    <3>2. CASE c # d
      <4>1. accept' = accept /\ state'[d] = state[d] /\ secretKey'[d] = secretKey[d]
            /\ full'[d] = full[d] /\ proper'[d] = proper[d]
        BY <2>2, <3>2 DEF IInv, TypeOK, Start, Work, CheckKey, Fill, Decrypt, Judge, Increment
      <4>. QED  BY <4>1, Untouched DEF IInv
    <3>. QED  BY <3>1, <3>2
  <2>3. CASE UNCHANGED vars  BY <2>3, Untouched DEF vars, IInv
  <2>. QED  BY <2>1, <2>2, <2>3 DEF Next
<1>. QED  BY <1>1, <1>2 DEF IInv

\* The invariant holds in every reachable state.
THEOREM Invariance == Spec => []IInv
  BY InitIInv, NextIInv, PTL DEF Spec

-----------------------------------------------------------------------------
(***************************************************************************)
(* What it is for.                                                         *)
(***************************************************************************)

\* The registers keep their types; in particular a key register never exceeds
\* KeyBound + NumCores - 1, so it never wraps into keys that were tried already.
THEOREM TypeCorrect == Spec => []TypeOK
<1>1. IInv => TypeOK  BY DEF IInv
<1>. QED  BY <1>1, Invariance, PTL

\* Core c only ever visits keys whose residue is c.
LEMMA ShareReached ==
  ASSUME NEW c \in Cores, NEW key \in Share(c)
  PROVE  key \in Keys /\ Reaches(c, key)
  BY ReachesResidue DEF Share, Keys

\* No core moves past a key of its share that it has not rejected.
THEOREM NoKeySkippedAlways == Spec => []NoKeySkipped
<1>1. IInv => NoKeySkipped
  BY ShareReached DEF IInv, CoreInv, Verdict, NoKeySkipped
<1>. QED  BY <1>1, Invariance, PTL

\* LEDR[8] is lit only when no key in range decrypts the message, apart from the
\* first keys that only a first pass since power-up has looked at.
THEOREM FailSoundAlways == Spec => []FailSound
<1>1. IInv => FailSound
  <2>. SUFFICES ASSUME IInv, CompareFail, NEW key \in Keys, key \in accept[TRUE]
                PROVE  key < NumCores /\ key \notin accept[FALSE]
    BY DEF FailSound, IInv, TypeOK
  <2>1. key \in Nat  BY DEF Keys
  <2>2. PICK c \in Cores : c = key % NumCores /\ Reaches(c, key)
    BY <2>1, ReachesResidue
  <2>3. state[c] = "failed" /\ key < secretKey[c]
    BY <2>1 DEF CompareFail, IInv, TypeOK, CoreInv, Walk, Keys
  <2>4. Rejected(c, key)
    BY <2>1, <2>2, <2>3 DEF IInv, CoreInv, Verdict
  <2>5. key = c /\ key \notin accept[FALSE]  BY <2>4 DEF Rejected
  <2>6. c < NumCores  BY DEF Cores
  <2>. QED  BY <2>5, <2>6
<1>. QED  BY <1>1, Invariance, PTL

\* Two running cores hold different keys.
THEOREM DisjointSharesAlways == Spec => []DisjointShares
<1>1. IInv => DisjointShares
  <2>. SUFFICES ASSUME IInv, NEW c \in Cores, NEW d \in Cores, c # d,
                       state[c] # "idle", state[d] # "idle",
                       secretKey[c] = secretKey[d]
                PROVE  FALSE
    BY DEF DisjointShares
  <2>1. secretKey[c] \in Nat /\ Reaches(c, secretKey[c]) /\ Reaches(d, secretKey[c])
    BY DEF IInv, TypeOK, CoreInv, Walk
  <2>. QED  BY <2>1, SameCore
<1>. QED  BY <1>1, Invariance, PTL

\* With one key to find, LEDR[9] is lit only while the displays show that key.
THEOREM DisplaySoundAlways == Spec => []DisplaySound
<1>1. IInv => DisplaySound
  <2>. SUFFICES ASSUME IInv, UniqueKey, CompareFinish
                PROVE  Display \in accept[TRUE] \cup accept[FALSE]
    BY DEF DisplaySound
  <2>1. ASSUME NEW c \in Cores, state[c] = "finish"
        PROVE  secretKey[c] \in accept[TRUE] \cup accept[FALSE]
    BY <2>1 DEF IInv, TypeOK, CoreInv, Verdict
  <2>2. ASSUME NEW c \in Cores, NEW d \in Cores, state[c] = "finish", state[d] = "finish"
        PROVE  c = d
    <3>1. secretKey[c] = secretKey[d]  BY <2>1, <2>2 DEF UniqueKey
    <3>2. secretKey[c] \in Nat /\ Reaches(c, secretKey[c]) /\ Reaches(d, secretKey[c])
      BY <2>2, <3>1 DEF IInv, TypeOK, CoreInv, Walk
    <3>. QED  BY <3>2, SameCore
  <2>3. PICK c \in Cores : Finished = {c} /\ state[c] = "finish"
    BY <2>2 DEF CompareFinish, Finished
  <2>4. Display = secretKey[CHOOSE d \in Cores : Finished = {d}]
    BY <2>3 DEF Display
  <2>5. (CHOOSE d \in Cores : Finished = {d}) = c
    BY <2>3
  <2>. QED  BY <2>1, <2>3, <2>4, <2>5
<1>. QED  BY <1>1, Invariance, PTL

-----------------------------------------------------------------------------
(***************************************************************************)
(* The cores implement SearchCore.                                         *)
(***************************************************************************)
Others(c) == \E d \in Cores \ {c} : state[d] = "finish"

\* A step of another core can only raise core c's input.
LEMMA OtherStep ==
  ASSUME TypeOK, NEW c \in Cores, NEW d \in Cores, d # c, Start(d) \/ Work(d)
  PROVE  /\ state'[c] = state[c] /\ secretKey'[c] = secretKey[c]
         /\ full'[c] = full[c] /\ proper'[c] = proper[c] /\ accept' = accept
         /\ Others(c) => Others(c)'
<1>1. /\ accept' = accept
      /\ \A e \in Cores \ {d} : /\ state'[e] = state[e] /\ secretKey'[e] = secretKey[e]
                                /\ full'[e] = full[e] /\ proper'[e] = proper[e]
      /\ state[d] # "finish"
  BY DEF TypeOK, Start, Work, CheckKey, Fill, Decrypt, Judge, Increment
<1>. QED  BY <1>1 DEF Others

\* A step of core c is a step of SearchCore.
LEMMA CoreStep ==
  ASSUME TypeOK, NEW c \in Cores, Start(c) \/ Work(c)
  PROVE  Core(c)!Next
<1>1. \A d \in Cores \ {c} : state'[d] = state[d]
  BY DEF TypeOK, Start, Work, CheckKey, Fill, Decrypt, Judge, Increment
<1>2. (\E d \in Cores \ {c} : state'[d] = "finish") <=> (\E d \in Cores \ {c} : state[d] = "finish")
  BY <1>1
<1>3. CASE Start(c)
  BY <1>2, <1>3 DEF Start, TypeOK, Core!Next, Core!Start
<1>4. CASE CheckKey(c)
  BY <1>2, <1>4 DEF CheckKey, TypeOK, Core!Next, Core!Work, Core!CheckKey
<1>5. CASE Fill(c)
  BY <1>2, <1>5 DEF Fill, TypeOK, Core!Next, Core!Work, Core!Fill
<1>6. CASE Decrypt(c)
  BY <1>2, <1>6 DEF Decrypt, TypeOK, Core!Next, Core!Work, Core!Decrypt
<1>7. CASE Judge(c)
  <2>1. CompareFinish <=> \E d \in Cores \ {c} : state[d] = "finish"
    BY <1>7 DEF Judge, CompareFinish, Finished
  <2>. QED  BY <1>2, <1>7, <2>1 DEF Judge, TypeOK, Core!Next, Core!Work, Core!Judge
<1>8. CASE Increment(c)
  BY <1>2, <1>8 DEF Increment, TypeOK, Core!Next, Core!Work, Core!Increment
<1>. QED  BY <1>3, <1>4, <1>5, <1>6, <1>7, <1>8 DEF Work

\* Every step of the system is, for every core, a step of SearchCore or stutters.
THEOREM CoresImplementAlways == Spec => CoresImplement
<1>1. TypeOK /\ [Next]_vars => [\A c \in Cores : [Core(c)!Next]_(Core(c)!vars)]_vars
  <2>. SUFFICES ASSUME TypeOK, Next, NEW c \in Cores
                PROVE  [Core(c)!Next]_(Core(c)!vars)
    OBVIOUS
  <2>1. CASE Reset
    <3>1. \A d \in Cores : state'[d] = "idle" /\ secretKey'[d] = 0  BY <2>1 DEF Reset
    <3>. QED  BY <2>1, <3>1 DEF Reset, Core!Next, Core!Reset
  <2>2. CASE Start(c) \/ Work(c)
    BY <2>2, CoreStep
  <2>3. ASSUME NEW d \in Cores, d # c, Start(d) \/ Work(d)
        PROVE  [Core(c)!Next]_(Core(c)!vars)
    <3>1. /\ state'[c] = state[c] /\ secretKey'[c] = secretKey[c]
          /\ full'[c] = full[c] /\ proper'[c] = proper[c] /\ accept' = accept
          /\ Others(c) => Others(c)'
      BY <2>3, OtherStep
    <3>2. CASE Others(c)'
      BY <3>1, <3>2 DEF Others, Core!Next, Core!OtherFinishes
    <3>3. CASE ~Others(c)'
      BY <3>1, <3>3 DEF Others, Core!vars
    <3>. QED  BY <3>2, <3>3
  <2>. QED  BY <2>1, <2>2, <2>3 DEF Next
<1>. QED  BY <1>1, TypeCorrect, PTL DEF Spec, CoresImplement

\* Initially every core is in SearchCore's initial state.
THEOREM CoresStart == Init => \A c \in Cores : Core(c)!Init
<1>. SUFFICES ASSUME Init, NEW c \in Cores PROVE Core(c)!Init
  OBVIOUS
<1>. QED  BY DEF Init, Keys, Core!Init

=============================================================================
