---------------------------- MODULE AudioStream ----------------------------
(***************************************************************************)
(* What a listener hears of the Lab 3 player: in each word the next of the *)
(* bytes still to come, in the current direction, and after the last one   *)
(* the neighbouring word.  While the direction stays, each byte of a word  *)
(* sounds once.  A turn within a word takes effect at once and breaks      *)
(* that: as many bytes are still to come as before, but their mirror       *)
(* images.  After bytes 0 and 1, a turn makes 1 and 0 sound again, and     *)
(* 2 and 3 are never heard.  A restart goes to the last word.              *)
(***************************************************************************)
EXTENDS Integers

CONSTANTS LastWord, WordBytes

VARIABLES
  word,      \* the address being played
  ahead,     \* the places in the word of the bytes still to come
  byte,      \* the place of the byte that sounds
  backward   \* the direction

vars == <<word, ahead, byte, backward>>

Places == 0 .. WordBytes - 1

Init ==
  /\ word = LastWord /\ ahead = Places /\ byte = 0
  /\ backward \in BOOLEAN

After(w) == IF w = LastWord THEN 0 ELSE w + 1
Before(w) == IF w = 0 THEN LastWord ELSE w - 1

\* The first of the bytes to come, seen in the direction of play.
PlayByte ==
  /\ \E b \in ahead :
        /\ \A c \in ahead : IF backward THEN c <= b ELSE b <= c
        /\ byte' = b
        /\ ahead' = ahead \ {b}
  /\ UNCHANGED <<word, backward>>

NextWord ==
  /\ ahead = {}
  /\ ahead' = Places
  /\ word' = IF backward THEN Before(word) ELSE After(word)
  /\ UNCHANGED <<byte, backward>>

Mirror(places) == {WordBytes - 1 - b : b \in places}

\* Between two words, before a word's first byte or after its last, nothing is
\* lost or repeated.
Turn ==
  /\ backward' = ~backward
  /\ ahead' = Mirror(ahead)
  /\ UNCHANGED <<word, byte>>

Restart ==
  /\ word' = LastWord /\ ahead' = Places /\ byte' = 0
  /\ UNCHANGED backward

Next == PlayByte \/ NextWord \/ Turn \/ Restart

Spec == Init /\ [][Next]_vars

=============================================================================
