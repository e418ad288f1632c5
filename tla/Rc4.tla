-------------------------------- MODULE Rc4 --------------------------------
(***************************************************************************)
(* The data of the Lab 4 decryption engine: the S memory, the encrypted    *)
(* and the decrypted message, the 24-bit secret key and its three bytes,   *)
(* and RC4 as a pure function of them, the reference against which the     *)
(* state machines of my_fsm_task1/2a/2b/3.sv are compared.                 *)
(*                                                                         *)
(* Sizes are parameters: the board has Depth = 256 S cells, MsgLen = 32    *)
(* message bytes.  A byte is a number below Depth, so a key, three bytes,  *)
(* is a number below Depth^3.                                              *)
(***************************************************************************)
EXTENDS Integers

CONSTANTS
  Depth,        \* cells of the S memory; also the number of byte values
  MsgLen,       \* bytes of the encrypted and of the decrypted message
  Xor,          \* Xor[<<a, b>>]: the bitwise exclusive or of two bytes
  ValidChars    \* the bytes task 3 accepts: 'a'..'z' and ' '

ASSUME DepthAssumption == Depth \in Nat \ {0, 1}
ASSUME MsgLenAssumption == MsgLen \in 1 .. Depth - 1

Byte == 0 .. Depth - 1
MsgIndex == 0 .. MsgLen - 1
KeyWrap == Depth * Depth * Depth

ASSUME XorAssumption == Xor \in [Byte \X Byte -> Byte]
ASSUME ValidCharsAssumption == ValidChars \subseteq Byte

\* secret_key_byte[n % keylength]: byte 0 is the key's most significant one.
KeyByte(key, n) ==
  << key \div (Depth * Depth), (key \div Depth) % Depth, key % Depth >>[(n % 3) + 1]

Swap(s, a, b) == [s EXCEPT ![a] = s[b], ![b] = s[a]]

(***************************************************************************)
(* RC4, from an arbitrary initial S so that a pass over a badly filled S   *)
(* memory has a meaning too.                                               *)
(***************************************************************************)
Identity == [n \in Byte |-> n]

\* The rounds of key scheduling: the S contents and the index j after each.
KeyRounds(s0, key) ==
  LET round[n \in 0 .. Depth] ==
        IF n = 0 THEN [s |-> s0, j |-> 0]
        ELSE LET prev == round[n - 1]
                 j    == (prev.j + prev.s[n - 1] + KeyByte(key, n - 1)) % Depth
             IN  [s |-> Swap(prev.s, n - 1, j), j |-> j]
  IN  round

Scheduled(s0, key) == KeyRounds(s0, key)[Depth].s

\* The rounds of the keystream, each with the byte it produces.
StreamRounds(s0) ==
  LET round[n \in 0 .. MsgLen] ==
        IF n = 0 THEN [s |-> s0, j |-> 0, byte |-> 0]
        ELSE LET prev == round[n - 1]
                 i    == n % Depth
                 j    == (prev.j + prev.s[i]) % Depth
                 s    == Swap(prev.s, i, j)
             IN  [s |-> s, j |-> j, byte |-> s[(s[i] + s[j]) % Depth]]
  IN  round

\* Byte k of the keystream is produced by round k + 1.
Keystream(s0) == [k \in MsgIndex |-> StreamRounds(s0)[k + 1].byte]

Plaintext(s0, key, message) ==
  LET stream == Keystream(Scheduled(s0, key))
  IN  [k \in MsgIndex |-> Xor[<<stream[k], message[k]>>]]

\* Does the message decrypt to valid characters only?
Readable(s0, key, message) ==
  \A k \in MsgIndex : Plaintext(s0, key, message)[k] \in ValidChars

=============================================================================
