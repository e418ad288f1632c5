---------------------------- MODULE MCCrackCore ----------------------------
(***************************************************************************)
(* A small decryption core: 2-bit bytes, a message of two bytes, keys      *)
(* below 64.                                                               *)
(***************************************************************************)
EXTENDS CrackCore

\* Exclusive or of two 2-bit numbers.
MCXor == [p \in (0 .. 3) \X (0 .. 3) |->
            LET Bit(n) == (((p[1] \div n) % 2) + ((p[2] \div n) % 2)) % 2
            IN  2 * Bit(2) + Bit(1)]

\* Found on the first pass only because S is not filled; found after a reset
\* only; found on the second key; found on the fifth.
MCMessages == {[k \in 0 .. 1 |-> p[k + 1]] : p \in {<<1, 1>>, <<1, 2>>, <<2, 1>>, <<3, 3>>}}

=============================================================================
