--------------------------- MODULE JtagUartProofs ---------------------------
(***************************************************************************)
(* Proofs about JtagUart for every size of the ring and of the device's    *)
(* FIFOs, any number of tasks that write and read, any program of theirs   *)
(* and any host: both rings hold what was put in and not yet taken out, in *)
(* order, and no interrupt that is needed stays off.                       *)
(***************************************************************************)
EXTENDS JtagUart, WellFoundedInduction, SequenceTheorems, TLAPS

-----------------------------------------------------------------------------
(***************************************************************************)
(* The parts of the inductive invariant.                                   *)
(***************************************************************************)

Rings == [in : Slots, out : Slots, mem : [Slots -> Bytes \cup {Nil}]]

Places == {"idle", "lock", "look", "copy", "kick", "pend", "wait", "woken", "check", "unlock", "enable"}

CallStates ==
    [at : Places, left : Nat, done : Nat, n : Nat, seen : Nat, nonblock : BOOLEAN,
     ready : SUBSET {"R", "W", "T"}]

Devices == [input : Seq(Bytes), output : 0 .. FifoDepth, active : BOOLEAN, paused : BOOLEAN]

Types ==
    /\ use \in Uses
    /\ call \in [Tasks -> CallStates]
    /\ rx \in Rings /\ tx \in Rings
    /\ device \in Devices
    /\ events \in SUBSET {"R", "W", "T"}
    /\ owed \in [rx : Seq(Bytes), tx : Seq(Bytes)]

\* Who has written or is about to write a ring's index has the semaphore.
Exclusive ==
    /\ \A t \in Writers : call[t].at \notin {"idle", "lock"} => writeLock = t
    /\ \A t \in Readers : call[t].at \notin {"idle", "lock", "enable"} => readLock = t

\* What a task has found in its look at a ring still holds when it copies,
\* whatever the handler has moved since.
Planned ==
    /\ \A t \in Writers : call[t].at = "copy" =>
          call[t].n <= call[t].left /\ tx.in + call[t].n <= BufLen /\ Held(tx) + call[t].n < BufLen
    /\ \A t \in Readers : call[t].at = "copy" =>
          call[t].n <= call[t].left /\ call[t].n <= Held(rx)

IInv == Types /\ Exclusive /\ Planned /\ RingsFaithful /\ InterruptsArmed

-----------------------------------------------------------------------------
(***************************************************************************)
(* The ring.                                                               *)
(***************************************************************************)

LEMMA Constants ==
    /\ BufLen \in Nat /\ BufLen >= 2
    /\ FifoDepth \in Nat /\ FifoDepth >= 1
    /\ Writers \cap Readers = {} /\ Nil \notin Writers /\ Nil \notin Readers /\ Nil \notin Bytes
    /\ Programs \subseteq Uses
  BY JtagAssumption DEF JtagAssumption

\* An index that runs past the end once wraps to the beginning.
Wrapped(x) == IF x < BufLen THEN x ELSE x - BufLen

LEMMA Wrap ==
  ASSUME NEW x \in Nat, x < BufLen + BufLen
  PROVE  x % BufLen = Wrapped(x) /\ x % BufLen \in Slots
<1>1. BufLen \in Nat /\ BufLen >= 2
  BY Constants
<1>2. x % BufLen = Wrapped(x)
  BY <1>1 DEF Wrapped
<1>. QED  BY <1>1, <1>2 DEF Slots, Wrapped

LEMMA HeldIs ==
  ASSUME NEW r \in Rings
  PROVE  /\ r.in \in Slots /\ r.out \in Slots /\ r.mem \in [Slots -> Bytes \cup {Nil}]
         /\ r.in \in Nat /\ r.out \in Nat /\ r.in < BufLen /\ r.out < BufLen
         /\ Held(r) = IF r.in >= r.out THEN r.in - r.out ELSE r.in - r.out + BufLen
         /\ Held(r) \in Nat /\ Held(r) < BufLen
<1>1. r.in \in Slots /\ r.out \in Slots /\ r.mem \in [Slots -> Bytes \cup {Nil}]
  BY DEF Rings
<1>2. r.in \in Nat /\ r.out \in Nat /\ r.in < BufLen /\ r.out < BufLen /\ BufLen \in Nat
  BY <1>1, Constants DEF Slots
<1>3. PICK x \in Nat : x = r.in - r.out + BufLen /\ x < BufLen + BufLen
  BY <1>2
<1>4. Held(r) = x % BufLen
  BY <1>3 DEF Held
<1>5. Held(r) = Wrapped(x)
  BY <1>3, <1>4, Wrap
<1>. QED  BY <1>1, <1>2, <1>3, <1>5 DEF Wrapped

\* The slot of the i-th character held.
Slot(r, i) == Wrapped(r.out + i - 1)

LEMMA SlotIs ==
  ASSUME NEW r \in Rings, NEW i \in 1 .. BufLen
  PROVE  (r.out + i - 1) % BufLen = Slot(r, i) /\ Slot(r, i) \in Slots
<1>1. r.out \in Nat /\ r.out < BufLen /\ BufLen \in Nat
  BY HeldIs, Constants
<1>2. PICK x \in Nat : x = r.out + i - 1 /\ x < BufLen + BufLen
  BY <1>1
<1>3. x % BufLen = Wrapped(x) /\ x % BufLen \in Slots
  BY <1>2, Wrap
<1>. QED  BY <1>2, <1>3 DEF Slot

LEMMA ContentsIs ==
  ASSUME NEW r \in Rings
  PROVE  /\ Contents(r) \in Seq(Bytes \cup {Nil}) /\ Len(Contents(r)) = Held(r)
         /\ \A i \in 1 .. Held(r) : Contents(r)[i] = r.mem[Slot(r, i)] /\ Slot(r, i) \in Slots
<1>1. Held(r) \in Nat /\ Held(r) < BufLen /\ r.mem \in [Slots -> Bytes \cup {Nil}]
  BY HeldIs
<1>2. \A i \in 1 .. Held(r) : (r.out + i - 1) % BufLen = Slot(r, i) /\ Slot(r, i) \in Slots
  <2>1. \A i \in 1 .. Held(r) : i \in 1 .. BufLen
    BY <1>1, Constants
  <2>. QED  BY <2>1, SlotIs
<1>3. Contents(r) = [i \in 1 .. Held(r) |-> r.mem[Slot(r, i)]]
  BY <1>2 DEF Contents
<1>4. \A i \in 1 .. Held(r) : r.mem[Slot(r, i)] \in Bytes \cup {Nil}
  BY <1>1, <1>2
<1>. QED  BY <1>1, <1>2, <1>3, <1>4

\* The slots from the index in on come behind those held.
LEMMA SlotsBehind ==
  ASSUME NEW r \in Rings, NEW l \in Nat, r.in + l <= BufLen, Held(r) + l < BufLen
  PROVE  /\ (IF Wrapped(r.in + l) >= r.out THEN Wrapped(r.in + l) - r.out
             ELSE Wrapped(r.in + l) - r.out + BufLen) = Held(r) + l
         /\ \A i \in 1 .. Held(r) : ~(Slot(r, i) >= r.in /\ Slot(r, i) < r.in + l)
         /\ \A i \in (Held(r) + 1) .. (Held(r) + l) :
               /\ Slot(r, i) >= r.in /\ Slot(r, i) < r.in + l
               /\ Slot(r, i) - r.in + 1 = i - Held(r)
<1>1. BufLen \in Nat
  BY Constants
<1>2. PICK in \in Nat, out \in Nat, h \in Nat :
         /\ in = r.in /\ out = r.out /\ h = Held(r)
         /\ in < BufLen /\ out < BufLen
         /\ h = IF in >= out THEN in - out ELSE in - out + BufLen
  BY HeldIs
<1>3. in + l <= BufLen /\ h + l < BufLen
  BY <1>2
<1>4. (IF Wrapped(in + l) >= out THEN Wrapped(in + l) - out ELSE Wrapped(in + l) - out + BufLen) = h + l
  BY <1>1, <1>2, <1>3 DEF Wrapped
<1>5. \A i \in 1 .. h : ~(Wrapped(out + i - 1) >= in /\ Wrapped(out + i - 1) < in + l)
  BY <1>1, <1>2, <1>3 DEF Wrapped
<1>6. \A i \in (h + 1) .. (h + l) :
         /\ Wrapped(out + i - 1) >= in /\ Wrapped(out + i - 1) < in + l
         /\ Wrapped(out + i - 1) - in + 1 = i - h
  BY <1>1, <1>2, <1>3 DEF Wrapped
<1>. QED  BY <1>2, <1>4, <1>5, <1>6 DEF Slot

\* Characters stored before the end of the buffer come after those held.
LEMMA StoreKept ==
  ASSUME NEW r \in Rings, NEW s \in Seq(Bytes), r.in + Len(s) <= BufLen, Held(r) + Len(s) < BufLen
  PROVE  /\ Store(r, s) \in Rings /\ Held(Store(r, s)) = Held(r) + Len(s)
         /\ Contents(Store(r, s)) = Contents(r) \o s
<1>. DEFINE mem == [i \in Slots |-> IF i >= r.in /\ i < r.in + Len(s) THEN s[i - r.in + 1] ELSE r.mem[i]]
            in == (r.in + Len(s)) % BufLen
            q == Store(r, s)
<1>1. /\ r.in \in Nat /\ r.out \in Nat /\ r.in < BufLen /\ r.out < BufLen
      /\ Held(r) = IF r.in >= r.out THEN r.in - r.out ELSE r.in - r.out + BufLen
      /\ Held(r) \in Nat /\ Held(r) < BufLen /\ r.mem \in [Slots -> Bytes \cup {Nil}]
  BY HeldIs
<1>2. Len(s) \in Nat /\ BufLen \in Nat /\ BufLen >= 2
  BY Constants
<1>3. /\ (IF Wrapped(r.in + Len(s)) >= r.out THEN Wrapped(r.in + Len(s)) - r.out
          ELSE Wrapped(r.in + Len(s)) - r.out + BufLen) = Held(r) + Len(s)
      /\ \A i \in 1 .. Held(r) : ~(Slot(r, i) >= r.in /\ Slot(r, i) < r.in + Len(s))
      /\ \A i \in (Held(r) + 1) .. (Held(r) + Len(s)) :
            /\ Slot(r, i) >= r.in /\ Slot(r, i) < r.in + Len(s)
            /\ Slot(r, i) - r.in + 1 = i - Held(r)
  BY <1>2, SlotsBehind
<1>4. in = Wrapped(r.in + Len(s)) /\ in \in Slots
  <2>1. PICK x \in Nat : x = r.in + Len(s) /\ x < BufLen + BufLen
    BY <1>1, <1>2
  <2>2. x % BufLen = Wrapped(x) /\ x % BufLen \in Slots
    BY <2>1, Wrap
  <2>. QED  BY <2>1, <2>2
<1>5. mem \in [Slots -> Bytes \cup {Nil}]
  <2>1. ASSUME NEW i \in Slots, i >= r.in, i < r.in + Len(s) PROVE s[i - r.in + 1] \in Bytes
    BY <1>1, <1>2, <2>1 DEF Slots
  <2>. QED  BY <1>1, <2>1
<1>6. q = [r EXCEPT !.mem = mem, !.in = in]
  BY DEF Store
<1>. HIDE DEF in, mem
<1>7. q \in Rings /\ q.in = in /\ q.out = r.out /\ q.mem = mem
  BY <1>4, <1>5, <1>6 DEF Rings
<1>. HIDE DEF q
<1>8. Held(q) = Held(r) + Len(s)
  <2>1. Held(q) = IF q.in >= q.out THEN q.in - q.out ELSE q.in - q.out + BufLen
    BY <1>7, HeldIs
  <2>. QED  BY <1>3, <1>4, <1>7, <2>1
<1>9. /\ Contents(r) \in Seq(Bytes \cup {Nil}) /\ Len(Contents(r)) = Held(r)
      /\ \A i \in 1 .. Held(r) : Contents(r)[i] = r.mem[Slot(r, i)]
  BY ContentsIs
<1>10. /\ Contents(q) \in Seq(Bytes \cup {Nil}) /\ Len(Contents(q)) = Held(q)
       /\ \A i \in 1 .. Held(q) : Contents(q)[i] = q.mem[Slot(q, i)] /\ Slot(q, i) \in Slots
  BY <1>7, ContentsIs
<1>11. ASSUME NEW i \in 1 .. Held(q)
       PROVE  Contents(q)[i] = IF i <= Held(r) THEN Contents(r)[i] ELSE s[i - Held(r)]
  <2>1. Contents(q)[i] = mem[Slot(r, i)] /\ Slot(r, i) \in Slots
    BY <1>7, <1>10 DEF Slot
  <2>2. mem[Slot(r, i)] = IF Slot(r, i) >= r.in /\ Slot(r, i) < r.in + Len(s)
                          THEN s[Slot(r, i) - r.in + 1] ELSE r.mem[Slot(r, i)]
    BY <2>1 DEF mem
  <2>3. CASE i <= Held(r)
    <3>1. i \in 1 .. Held(r)
      BY <1>1, <1>2, <1>8, <2>3
    <3>. QED  BY <1>3, <1>9, <2>1, <2>2, <2>3, <3>1
  <2>4. CASE i > Held(r)
    <3>1. i \in (Held(r) + 1) .. (Held(r) + Len(s)) /\ ~(i <= Held(r))
      BY <1>1, <1>2, <1>8, <2>4
    <3>2. Slot(r, i) >= r.in /\ Slot(r, i) < r.in + Len(s) /\ Slot(r, i) - r.in + 1 = i - Held(r)
      BY <1>3, <3>1
    <3>. QED  BY <2>1, <2>2, <3>1, <3>2
  <2>. QED  BY <1>1, <1>2, <1>8, <2>3, <2>4
<1>12. Contents(q) = Contents(r) \o s
  <2>1. s \in Seq(Bytes \cup {Nil})
    OBVIOUS
  <2>2. /\ Contents(r) \o s \in Seq(Bytes \cup {Nil}) /\ Len(Contents(r) \o s) = Held(r) + Len(s)
        /\ \A i \in 1 .. Held(r) + Len(s) :
              (Contents(r) \o s)[i] = IF i <= Held(r) THEN Contents(r)[i] ELSE s[i - Held(r)]
    <3>. DEFINE c == Contents(r)
    <3>1. c \in Seq(Bytes \cup {Nil}) /\ Len(c) = Held(r)
      BY <1>9
    <3>. HIDE DEF c
    <3>2. /\ c \o s \in Seq(Bytes \cup {Nil}) /\ Len(c \o s) = Len(c) + Len(s)
          /\ \A i \in 1 .. Len(c) + Len(s) : (c \o s)[i] = IF i <= Len(c) THEN c[i] ELSE s[i - Len(c)]
      BY <2>1, <3>1, ConcatProperties
    <3>3. /\ c \o s \in Seq(Bytes \cup {Nil}) /\ Len(c \o s) = Held(r) + Len(s)
          /\ \A i \in 1 .. Held(r) + Len(s) : (c \o s)[i] = IF i <= Held(r) THEN c[i] ELSE s[i - Held(r)]
      BY <3>1, <3>2
    <3>. QED  BY <3>3 DEF c
  <2>. QED  BY <1>8, <1>10, <1>11, <2>2, SeqEqual
<1>. QED  BY <1>7, <1>8, <1>12 DEF q

\* The slot of the i-th character held is i - 1 past out, going round.
LEMMA SlotDistance ==
  ASSUME NEW r \in Rings, NEW i \in 1 .. BufLen
  PROVE  (Slot(r, i) - r.out + BufLen) % BufLen = i - 1
<1>1. BufLen \in Nat /\ r.out \in Nat /\ r.out < BufLen
  BY Constants, HeldIs
<1>2. PICK x \in Nat : x = Slot(r, i) - r.out + BufLen /\ x < BufLen + BufLen /\ Wrapped(x) = i - 1
  BY <1>1 DEF Slot, Wrapped
<1>3. x % BufLen = Wrapped(x)
  BY <1>2, Wrap
<1>. QED  BY <1>2, <1>3

\* What is left after the first n are taken, and that they all are characters.
LEMMA DropKept ==
  ASSUME NEW r \in Rings, NEW n \in 0 .. Held(r)
  PROVE  /\ Drop(r, n) \in Rings /\ Drop(r, n).in = r.in /\ Held(Drop(r, n)) = Held(r) - n
         /\ Contents(Drop(r, n)) = SubSeq(Contents(r), n + 1, Len(Contents(r)))
<1>. DEFINE mem == [i \in Slots |-> IF (i - r.out + BufLen) % BufLen < n THEN Nil ELSE r.mem[i]]
            out == (r.out + n) % BufLen
            q == Drop(r, n)
<1>1. PICK in \in Nat, o \in Nat, h \in Nat :
         /\ in = r.in /\ o = r.out /\ h = Held(r)
         /\ in < BufLen /\ o < BufLen /\ h < BufLen
         /\ h = IF in >= o THEN in - o ELSE in - o + BufLen
  BY HeldIs
<1>2. BufLen \in Nat /\ n \in Nat /\ n <= h /\ r.mem \in [Slots -> Bytes \cup {Nil}]
  BY <1>1, Constants, HeldIs
<1>3. out = Wrapped(o + n) /\ out \in Slots
  <2>1. PICK x \in Nat : x = o + n /\ x < BufLen + BufLen
    BY <1>1, <1>2
  <2>2. x % BufLen = Wrapped(x) /\ x % BufLen \in Slots
    BY <2>1, Wrap
  <2>. QED  BY <1>1, <2>1, <2>2
<1>4. mem \in [Slots -> Bytes \cup {Nil}]
  BY <1>2
<1>5. q = [r EXCEPT !.mem = mem, !.out = out]
  BY DEF Drop
<1>6. ASSUME NEW i \in Slots PROVE mem[i] = IF (i - r.out + BufLen) % BufLen < n THEN Nil ELSE r.mem[i]
  OBVIOUS
<1>. HIDE DEF mem, out
<1>7. q \in Rings /\ q.in = in /\ q.out = out /\ q.mem = mem
  BY <1>1, <1>3, <1>4, <1>5 DEF Rings
<1>. HIDE DEF q
<1>8. Held(q) = h - n
  <2>1. Held(q) = IF q.in >= q.out THEN q.in - q.out ELSE q.in - q.out + BufLen
    BY <1>7, HeldIs
  <2>. QED  BY <1>1, <1>2, <1>3, <1>7, <2>1 DEF Wrapped
<1>9. /\ Contents(r) \in Seq(Bytes \cup {Nil}) /\ Len(Contents(r)) = h
      /\ \A i \in 1 .. h : Contents(r)[i] = r.mem[Slot(r, i)]
  BY <1>1, ContentsIs
<1>10. /\ Contents(q) \in Seq(Bytes \cup {Nil}) /\ Len(Contents(q)) = h - n
       /\ \A i \in 1 .. h - n : Contents(q)[i] = q.mem[Slot(q, i)]
  BY <1>7, <1>8, ContentsIs
<1>11. ASSUME NEW i \in 1 .. h - n PROVE Contents(q)[i] = Contents(r)[n + i]
  <2>1. n + i \in 1 .. h /\ n + i \in 1 .. BufLen
    BY <1>1, <1>2
  <2>2. Slot(q, i) = Slot(r, n + i)
    BY <1>1, <1>2, <1>3, <1>7 DEF Slot, Wrapped
  <2>3. Slot(r, n + i) \in Slots /\ (Slot(r, n + i) - r.out + BufLen) % BufLen = n + i - 1
    BY <2>1, SlotIs, SlotDistance
  <2>4. mem[Slot(r, n + i)] = r.mem[Slot(r, n + i)]
    <3>1. ~(n + i - 1 < n)
      BY <1>1, <1>2
    <3>. QED  BY <1>6, <2>3, <3>1
  <2>. QED  BY <1>7, <1>9, <1>10, <2>1, <2>2, <2>4
<1>12. Contents(q) = SubSeq(Contents(r), n + 1, h)
  <2>. DEFINE c == Contents(r)
  <2>1. \A i \in n + 1 .. h : c[i] \in Bytes \cup {Nil}
    BY <1>1, <1>2, <1>9
  <2>2. \A i \in 1 .. h - n : Contents(q)[i] = c[n + i]
    BY <1>11
  <2>. HIDE DEF c
  <2>3. /\ SubSeq(c, n + 1, h) \in Seq(Bytes \cup {Nil})
        /\ Len(SubSeq(c, n + 1, h)) = IF n + 1 <= h THEN h - (n + 1) + 1 ELSE 0
        /\ \A i \in 1 .. h - (n + 1) + 1 : SubSeq(c, n + 1, h)[i] = c[(n + 1) + i - 1]
    <3>1. n + 1 \in Int /\ h \in Int
      BY <1>1, <1>2
    <3>. QED  BY <2>1, <3>1, SubSeqProperties
  <2>4. Len(SubSeq(c, n + 1, h)) = h - n
    BY <1>1, <1>2, <2>3
  <2>5. \A i \in 1 .. h - n : Contents(q)[i] = SubSeq(c, n + 1, h)[i]
    BY <1>1, <1>2, <2>2, <2>3
  <2>6. Contents(q) = SubSeq(c, n + 1, h)
    BY <1>10, <2>3, <2>4, <2>5, SeqEqual
  <2>. QED  BY <2>6 DEF c
<1>. QED  BY <1>1, <1>7, <1>8, <1>9, <1>12 DEF q

LEMMA First ==
  ASSUME NEW S \in SUBSET Nat, S # {}
  PROVE  \E x \in S : \A y \in S : x <= y
<1>1. PICK x \in S : \A y \in S : ~ (<<y, x>> \in OpToRel(<, Nat))
  BY NatLessThanWellFounded, WFMin, Zenon
<1>2. ASSUME NEW y \in S PROVE x <= y
  <2>1. ~ (<<y, x>> \in {ss \in Nat \X Nat : ss[1] < ss[2]})
    BY <1>1 DEF OpToRel
  <2>. QED  BY <2>1
<1>. QED  BY <1>2

\* A set of numbers without zero, in which none comes first, is empty.
LEMMA NoneFirst ==
  ASSUME NEW T \in SUBSET Nat, 0 \notin T, \A n \in Nat : n + 1 \in T => n \in T
  PROVE  T = {}
<1>1. SUFFICES ASSUME T # {} PROVE FALSE
  OBVIOUS
<1>2. PICK x \in T : \A y \in T : x <= y
  BY <1>1, First
<1>3. x - 1 \in Nat /\ (x - 1) + 1 = x /\ ~(x <= x - 1)
  BY <1>2
<1>4. x - 1 \in T
  BY <1>2, <1>3
<1>. QED  BY <1>2, <1>3, <1>4

\* The handler's loop: the ring after each of its first m characters.
Filling(r, s, m, g) ==
    g = [i \in 0 .. m |-> IF i = 0 THEN r ELSE Store(g[i - 1], <<s[i]>>)]

LEMMA FillingExists ==
  ASSUME NEW r, NEW s, NEW m \in Nat
  PROVE  \E g : Filling(r, s, m, g)
<1>. DEFINE T == {n \in Nat : ~ \E g : Filling(r, s, n, g)}
<1>1. 0 \notin T
  <2>. DEFINE g == [i \in 0 .. 0 |-> r]
  <2>1. g = [i \in 0 .. 0 |-> IF i = 0 THEN r ELSE Store(g[i - 1], <<s[i]>>)]
    OBVIOUS
  <2>2. Filling(r, s, 0, g)
    BY <2>1 DEF Filling
  <2>. QED  BY <2>2
<1>2. ASSUME NEW n \in Nat, n \notin T PROVE n + 1 \notin T
  <2>1. PICK g : Filling(r, s, n, g)
    BY <1>2
  <2>2. \A i \in 0 .. n : g[i] = IF i = 0 THEN r ELSE Store(g[i - 1], <<s[i]>>)
    BY <2>1 DEF Filling
  <2>. DEFINE h == [i \in 0 .. n + 1 |-> IF i = n + 1 THEN Store(g[n], <<s[n + 1]>>) ELSE g[i]]
  <2>3. ASSUME NEW i \in 0 .. n + 1
        PROVE  h[i] = IF i = 0 THEN r ELSE Store(h[i - 1], <<s[i]>>)
    <3>1. CASE i = n + 1
      <4>1. n \in 0 .. n + 1 /\ n # n + 1 /\ i - 1 = n /\ i # 0
        BY <3>1
      <4>2. h[n] = g[n]
        BY <4>1
      <4>. QED  BY <3>1, <4>1, <4>2
    <3>2. CASE i # n + 1 /\ i # 0
      <4>1. i \in 0 .. n /\ i - 1 \in 0 .. n + 1 /\ i - 1 # n + 1
        BY <3>2
      <4>2. h[i - 1] = g[i - 1] /\ h[i] = g[i]
        BY <3>2, <4>1
      <4>. QED  BY <2>2, <3>2, <4>1, <4>2
    <3>3. CASE i = 0
      <4>1. 0 \in 0 .. n /\ 0 # n + 1
        OBVIOUS
      <4>. QED  BY <2>2, <3>3, <4>1
    <3>. QED  BY <3>1, <3>2, <3>3
  <2>4. h = [i \in 0 .. n + 1 |-> h[i]]
    OBVIOUS
  <2>. HIDE DEF h
  <2>5. h = [i \in 0 .. n + 1 |-> IF i = 0 THEN r ELSE Store(h[i - 1], <<s[i]>>)]
    BY <2>3, <2>4
  <2>6. Filling(r, s, n + 1, h)
    BY <2>5 DEF Filling
  <2>. QED  BY <2>6
<1>3. T \in SUBSET Nat /\ \A n \in Nat : n + 1 \in T => n \in T
  BY <1>2
<1>. HIDE DEF T
<1>4. T = {}
  BY <1>1, <1>3, NoneFirst
<1>. QED  BY <1>4 DEF T

\* Characters stored one at a time, over the end of the buffer, come after those held.
LEMMA StoreEachKept ==
  ASSUME NEW r \in Rings, NEW s \in Seq(Bytes), Held(r) + Len(s) < BufLen
  PROVE  /\ StoreEach(r, s) \in Rings /\ Held(StoreEach(r, s)) = Held(r) + Len(s)
         /\ Contents(StoreEach(r, s)) = Contents(r) \o s
<1>. DEFINE L == Len(s)
            g == CHOOSE f : Filling(r, s, L, f)
            Kept(i) == /\ g[i] \in Rings /\ Held(g[i]) = Held(r) + i
                       /\ Contents(g[i]) = Contents(r) \o SubSeq(s, 1, i)
            T == {n \in Nat : n <= L /\ ~ Kept(n)}
<1>1. L \in Nat /\ Held(r) \in Nat /\ BufLen \in Nat /\ Held(r) + L < BufLen
  BY Constants, HeldIs
<1>2. Filling(r, s, L, g)
  BY <1>1, FillingExists
<1>3. StoreEach(r, s) = g[L]
  BY DEF StoreEach, Filling
<1>4. Contents(r) \in Seq(Bytes \cup {Nil})
  BY ContentsIs
<1>. HIDE DEF g
<1>5. \A i \in 0 .. L : g[i] = IF i = 0 THEN r ELSE Store(g[i - 1], <<s[i]>>)
  BY <1>2 DEF Filling
<1>6. 0 \notin T
  <2>1. g[0] = r
    <3>. HIDE DEF L
    <3>1. 0 \in 0 .. L
      BY <1>1
    <3>. QED  BY <1>5, <3>1
  <2>2. SubSeq(s, 1, 0) = <<>>
    BY SubSeqEmpty
  <2>3. Contents(r) \o <<>> = Contents(r)
    BY <1>4, ConcatEmptySeq
  <2>4. Held(r) = Held(r) + 0
    BY <1>1
  <2>5. Kept(0)
    BY <2>1, <2>2, <2>3, <2>4
  <2>. QED  BY <2>5
<1>7. ASSUME NEW n \in Nat, n \notin T PROVE n + 1 \notin T
  <2>1. SUFFICES ASSUME n + 1 <= L PROVE Kept(n + 1)
    OBVIOUS
  <2>2. Kept(n)
    BY <1>1, <1>7, <2>1
  <2>. HIDE DEF L
  <2>3. n + 1 \in 0 .. L /\ n + 1 # 0 /\ (n + 1) - 1 = n /\ n + 1 \in 1 .. L /\ n \in 0 .. L
    BY <1>1, <2>1
  <2>4. g[n + 1] = Store(g[n], <<s[n + 1]>>)
    BY <1>5, <2>3
  <2>5. s[n + 1] \in Bytes /\ <<s[n + 1]>> \in Seq(Bytes) /\ Len(<<s[n + 1]>>) = 1
    BY <2>3 DEF L
  <2>. DEFINE one == <<s[n + 1]>>
              q == g[n]
  <2>6. one \in Seq(Bytes) /\ Len(one) = 1 /\ q \in Rings /\ Held(q) = Held(r) + n
    BY <2>2, <2>5
  <2>7. q.in + Len(one) <= BufLen /\ Held(q) + Len(one) < BufLen
    <3>1. q.in \in Nat /\ q.in < BufLen
      BY <2>6, HeldIs
    <3>. QED  BY <1>1, <2>1, <2>6, <3>1
  <2>. HIDE DEF one, q
  <2>8. /\ Store(q, one) \in Rings /\ Held(Store(q, one)) = Held(q) + Len(one)
        /\ Contents(Store(q, one)) = Contents(q) \o one
    BY <2>6, <2>7, StoreKept
  <2>9. SubSeq(s, 1, n + 1) = SubSeq(s, 1, n) \o one /\ SubSeq(s, 1, n) \in Seq(Bytes)
    BY <2>3 DEF L, one
  <2>10. (Contents(r) \o SubSeq(s, 1, n)) \o one = Contents(r) \o SubSeq(s, 1, n + 1)
    <3>. DEFINE c == Contents(r)
                u == SubSeq(s, 1, n)
    <3>1. c \in Seq(Bytes \cup {Nil}) /\ u \in Seq(Bytes \cup {Nil}) /\ one \in Seq(Bytes \cup {Nil})
      BY <1>4, <2>6, <2>9
    <3>. HIDE DEF c, u
    <3>2. (c \o u) \o one = c \o (u \o one)
      BY <3>1, ConcatAssociative
    <3>. QED  BY <2>9, <3>2 DEF c, u
  <2>11. Held(r) + n + 1 = Held(r) + (n + 1)
    BY <1>1
  <2>. QED  BY <2>2, <2>4, <2>6, <2>8, <2>10, <2>11 DEF one, q
<1>8. T \in SUBSET Nat /\ \A n \in Nat : n + 1 \in T => n \in T
  BY <1>7
<1>. HIDE DEF T
<1>9. T = {}
  BY <1>6, <1>8, NoneFirst
<1>10. Kept(L)
  BY <1>1, <1>9 DEF T
<1>11. SubSeq(s, 1, L) = s
  BY SubSeqFull
<1>. QED  BY <1>3, <1>10, <1>11

-----------------------------------------------------------------------------
(***************************************************************************)
(* The two halves of InterruptsArmed, and the room and the run that a task *)
(* finds when it looks at a ring.                                          *)
(***************************************************************************)

Sender(c) == c.at \in {"look", "copy", "kick"}
Getter(c) == c.done > 0 /\ c.at \in {"look", "unlock", "enable"}

Sending == Held(tx) > 0 => "WE" \in irqEnable \/ \E t \in Writers : Sender(call[t])
Receiving == "RE" \notin irqEnable => Held(rx) > 0 \/ \E t \in Readers : Getter(call[t])

LEMMA ArmedIs == InterruptsArmed <=> Sending /\ Receiving
  BY DEF InterruptsArmed, Sending, Receiving, Sender, Getter

LEMMA IdleIs == Idle \in CallStates /\ Idle.at = "idle" /\ Idle.done = 0
  BY DEF Idle, CallStates, Places

LEMMA LeastIs ==
  ASSUME NEW a \in Nat, NEW b \in Nat
  PROVE  Least(a, b) \in Nat /\ Least(a, b) <= a /\ Least(a, b) <= b /\ (Least(a, b) = a \/ Least(a, b) = b)
  BY DEF Least

LEMMA RoomIs ==
  ASSUME tx \in Rings
  PROVE  Room \in Nat /\ tx.in + Room <= BufLen /\ Held(tx) + Room < BufLen
<1>1. /\ tx.in \in Nat /\ tx.out \in Nat /\ tx.in < BufLen /\ tx.out < BufLen
      /\ Held(tx) = IF tx.in >= tx.out THEN tx.in - tx.out ELSE tx.in - tx.out + BufLen
  BY HeldIs
<1>. QED  BY <1>1, Constants DEF Room

LEMMA RunIs ==
  ASSUME rx \in Rings
  PROVE  Run \in Nat /\ Run <= Held(rx) /\ (Run = 0 => Held(rx) = 0)
<1>1. /\ rx.in \in Nat /\ rx.out \in Nat /\ rx.in < BufLen /\ rx.out < BufLen
      /\ Held(rx) = IF rx.in >= rx.out THEN rx.in - rx.out ELSE rx.in - rx.out + BufLen
  BY HeldIs
<1>. QED  BY <1>1, Constants DEF Run

LEMMA TaskKinds ==
  /\ \A t \in Writers : t \in Tasks /\ t \notin Readers /\ t # Nil
  /\ \A t \in Readers : t \in Tasks /\ t \notin Writers /\ t # Nil
  BY Constants DEF Tasks

-----------------------------------------------------------------------------
(***************************************************************************)
(* Initially.                                                              *)
(***************************************************************************)

LEMMA InitIInv == Init => IInv
<1>. SUFFICES ASSUME Init PROVE IInv
  OBVIOUS
<1>1. EmptyRing \in Rings
  BY Constants DEF EmptyRing, Rings, Slots
<1>2. Held(EmptyRing) = 0
  <2>1. EmptyRing.in = 0 /\ EmptyRing.out = 0
    BY DEF EmptyRing
  <2>. QED  BY <1>1, <2>1, HeldIs
<1>3. Contents(EmptyRing) = <<>>
  BY <1>1, <1>2, ContentsIs
<1>4. \A t \in Tasks : call[t] = Idle /\ call[t].at = "idle"
  BY IdleIs DEF Init
<1>5. Types
  <2>1. use \in Uses
    BY Constants DEF Init
  <2>2. call \in [Tasks -> CallStates]
    BY IdleIs DEF Init
  <2>3. rx \in Rings /\ tx \in Rings
    BY <1>1 DEF Init
  <2>4. device \in Devices
    <3>1. 0 \in 0 .. FifoDepth
      BY Constants
    <3>. QED  BY <3>1 DEF Init, Devices
  <2>5. events \in SUBSET {"R", "W", "T"} /\ owed \in [rx : Seq(Bytes), tx : Seq(Bytes)]
    BY DEF Init
  <2>. QED  BY <2>1, <2>2, <2>3, <2>4, <2>5 DEF Types
<1>6. Exclusive /\ Planned
  BY <1>4, TaskKinds DEF Exclusive, Planned
<1>7. RingsFaithful
  <2>1. rx = EmptyRing /\ tx = EmptyRing /\ owed.rx = <<>> /\ owed.tx = <<>>
    BY DEF Init
  <2>2. 0 < BufLen
    BY Constants
  <2>. QED  BY <1>2, <1>3, <2>1, <2>2 DEF RingsFaithful
<1>8. InterruptsArmed
  <2>1. "RE" \in irqEnable /\ tx = EmptyRing /\ ~(Held(tx) > 0)
    BY <1>2 DEF Init
  <2>. QED  BY <2>1 DEF InterruptsArmed
<1>. QED  BY <1>5, <1>6, <1>7, <1>8 DEF IInv

-----------------------------------------------------------------------------
(***************************************************************************)
(* The steps of a task that leave the rings alone: c is the call it is in  *)
(* afterwards.                                                             *)
(***************************************************************************)

LEMMA CallStep ==
  ASSUME IInv, NEW t \in Tasks, NEW c \in CallStates, call' = [call EXCEPT ![t] = c],
         UNCHANGED <<use, rx, tx, device, owed>>,
         events' \in SUBSET {"R", "W", "T"}, irqEnable \subseteq irqEnable',
         writeLock' = writeLock \/ writeLock = Nil \/ writeLock = t,
         readLock' = readLock \/ readLock = Nil \/ readLock = t,
         t \in Writers =>
            /\ c.at \notin {"idle", "lock"} => writeLock' = t
            /\ c.at = "copy" => c.n <= c.left /\ tx.in + c.n <= BufLen /\ Held(tx) + c.n < BufLen
            /\ Sender(call[t]) => Sender(c) \/ "WE" \in irqEnable',
         t \in Readers =>
            /\ c.at \notin {"idle", "lock", "enable"} => readLock' = t
            /\ c.at = "copy" => c.n <= c.left /\ c.n <= Held(rx)
            /\ Getter(call[t]) => Getter(c) \/ "RE" \in irqEnable' \/ Held(rx) > 0
  PROVE  IInv'
<1>1. call \in [Tasks -> CallStates] /\ Types /\ Exclusive /\ Planned /\ RingsFaithful /\ InterruptsArmed
  BY DEF IInv, Types
<1>2. call'[t] = c /\ (\A u \in Tasks : u # t => call'[u] = call[u]) /\ call' \in [Tasks -> CallStates]
  BY <1>1
<1>3. Held(tx)' = Held(tx) /\ Held(rx)' = Held(rx) /\ tx' = tx /\ rx' = rx
  OBVIOUS
<1>4. Types'
  BY <1>1, <1>2 DEF Types
<1>5. Exclusive'
  <2>1. ASSUME NEW u \in Writers, call'[u].at \notin {"idle", "lock"} PROVE writeLock' = u
    BY <1>1, <1>2, <2>1, TaskKinds DEF Exclusive
  <2>2. ASSUME NEW u \in Readers, call'[u].at \notin {"idle", "lock", "enable"} PROVE readLock' = u
    BY <1>1, <1>2, <2>2, TaskKinds DEF Exclusive
  <2>. QED  BY <2>1, <2>2 DEF Exclusive
<1>6. Planned'
  <2>1. ASSUME NEW u \in Writers, call'[u].at = "copy"
        PROVE  call'[u].n <= call'[u].left /\ tx.in + call'[u].n <= BufLen /\ Held(tx) + call'[u].n < BufLen
    <3>1. CASE u = t
      BY <1>2, <2>1, <3>1
    <3>2. CASE u # t
      BY <1>1, <1>2, <2>1, <3>2, TaskKinds DEF Planned
    <3>. QED  BY <3>1, <3>2
  <2>2. ASSUME NEW u \in Readers, call'[u].at = "copy"
        PROVE  call'[u].n <= call'[u].left /\ call'[u].n <= Held(rx)
    <3>1. CASE u = t
      BY <1>2, <2>2, <3>1
    <3>2. CASE u # t
      BY <1>1, <1>2, <2>2, <3>2, TaskKinds DEF Planned
    <3>. QED  BY <3>1, <3>2
  <2>. QED  BY <1>3, <2>1, <2>2 DEF Planned
<1>7. RingsFaithful'
  BY <1>1 DEF RingsFaithful, Contents, Held
<1>8. Sending'
  <2>1. SUFFICES ASSUME Held(tx) > 0, "WE" \notin irqEnable'
                 PROVE  \E u \in Writers : Sender(call'[u])
    BY <1>3 DEF Sending, Sender
  <2>2. PICK u \in Writers : Sender(call[u])
    BY <1>1, <2>1, ArmedIs DEF Sending
  <2>. QED  BY <1>2, <2>1, <2>2, TaskKinds
<1>9. Receiving'
  <2>1. SUFFICES ASSUME ~(Held(rx) > 0), "RE" \notin irqEnable'
                 PROVE  \E u \in Readers : Getter(call'[u])
    BY <1>3 DEF Receiving, Getter
  <2>2. PICK u \in Readers : Getter(call[u])
    BY <1>1, <2>1, ArmedIs DEF Receiving
  <2>. QED  BY <1>2, <2>1, <2>2, TaskKinds
<1>10. InterruptsArmed'
  BY <1>8, <1>9 DEF InterruptsArmed, Sending, Receiving, Sender, Getter
<1>. QED  BY <1>4, <1>5, <1>6, <1>7, <1>10 DEF IInv

\* The calls of a task after a change of one of them, and the fields of the change.
LEMMA FieldsIs ==
  ASSUME NEW c \in CallStates
  PROVE  /\ c.at \in Places /\ c.left \in Nat /\ c.done \in Nat /\ c.n \in Nat /\ c.nonblock \in BOOLEAN
         /\ c.ready \in SUBSET {"R", "W", "T"}
         /\ \A a \in Places : [c EXCEPT !.at = a] \in CallStates
         /\ \A a \in Places : [c EXCEPT !.at = a, !.ready = {}] \in CallStates
         /\ \A a \in Places, m \in Nat : [c EXCEPT !.at = a, !.n = m] \in CallStates
         /\ \A a \in Places, m \in Nat, k \in Nat : [c EXCEPT !.at = a, !.seen = k, !.n = m] \in CallStates
         /\ \A a \in Places, k \in Nat, m \in Nat :
               [c EXCEPT !.at = a, !.left = k, !.done = m, !.n = 0] \in CallStates
  BY DEF CallStates

LEMMA StartStep ==
  ASSUME IInv, NEW t \in Tasks, NEW n \in Nat, NEW nonblock \in BOOLEAN, call[t].at = "idle",
         call' = [call EXCEPT ![t] = [Idle EXCEPT !.at = "lock", !.left = n, !.nonblock = nonblock]],
         UNCHANGED <<use, writeLock, readLock, rx, tx, irqEnable, hostInactive, events, device, owed>>
  PROVE  IInv'
<1>. DEFINE c == [Idle EXCEPT !.at = "lock", !.left = n, !.nonblock = nonblock]
<1>1. c \in CallStates /\ c.at = "lock"
  BY DEF Idle, CallStates, Places
<1>2. events' \in SUBSET {"R", "W", "T"}
  BY DEF IInv, Types
<1>. HIDE DEF c
<1>3. call' = [call EXCEPT ![t] = c]
  BY DEF c
<1>. QED  BY <1>1, <1>2, <1>3, CallStep DEF Sender, Getter

LEMMA FlagPendStep ==
  ASSUME IInv, NEW t \in Tasks, FlagPend(t)
  PROVE  IInv'
<1>1. PICK a \in {"wait", "check"} : call' = [call EXCEPT ![t].at = a]
  BY DEF FlagPend
<1>2. call[t].at = "pend" /\ UNCHANGED <<use, writeLock, readLock, rx, tx, irqEnable, hostInactive, device, owed>>
  BY DEF FlagPend
<1>. DEFINE c == [call[t] EXCEPT !.at = a]
<1>3. call[t] \in CallStates /\ a \in Places
  BY DEF IInv, Types, Places
<1>4. c \in CallStates
  BY <1>3, FieldsIs
<1>5. c.at = a
  BY <1>3 DEF CallStates
<1>6. events' \in SUBSET {"R", "W", "T"}
  BY DEF IInv, Types, FlagPend
<1>7. (t \in Writers => writeLock = t) /\ (t \in Readers => readLock = t)
  BY <1>2 DEF IInv, Exclusive
<1>. HIDE DEF c
<1>8. call' = [call EXCEPT ![t] = c]
  BY <1>1 DEF c
<1>. QED  BY <1>2, <1>4, <1>5, <1>6, <1>7, <1>8, CallStep DEF Sender, Getter

LEMMA FlagPendEndStep ==
  ASSUME IInv, NEW t \in Tasks, FlagPendEnd(t)
  PROVE  IInv'
<1>2. /\ call[t].at = "woken" /\ call' = [call EXCEPT ![t].at = "check", ![t].ready = {}]
      /\ UNCHANGED <<use, writeLock, readLock, rx, tx, irqEnable, hostInactive, device, owed>>
  BY DEF FlagPendEnd
<1>. DEFINE c == [call[t] EXCEPT !.at = "check", !.ready = {}]
<1>3. call[t] \in CallStates /\ "check" \in Places
  BY DEF IInv, Types, Places
<1>4. c \in CallStates
  BY <1>3, FieldsIs
<1>5. c.at = "check"
  BY <1>3 DEF CallStates
<1>6. events' \in SUBSET {"R", "W", "T"}
  BY DEF IInv, Types, FlagPendEnd
<1>7. (t \in Writers => writeLock = t) /\ (t \in Readers => readLock = t)
  BY <1>2 DEF IInv, Exclusive
<1>. HIDE DEF c
<1>8. call' = [call EXCEPT ![t] = c]
  BY <1>2 DEF c
<1>. QED  BY <1>2, <1>4, <1>5, <1>6, <1>7, <1>8, CallStep DEF Sender, Getter

-----------------------------------------------------------------------------
(***************************************************************************)
(* A writer.                                                               *)
(***************************************************************************)

LEMMA WriteLockedStep ==
  ASSUME IInv, NEW t \in Writers, WriteLocked(t)
  PROVE  IInv'
<1>1. /\ call[t].at = "lock" /\ writeLock = Nil /\ writeLock' = t /\ call' = [call EXCEPT ![t].at = "look"]
      /\ UNCHANGED <<use, readLock, rx, tx, irqEnable, hostInactive, events, device, owed>>
  BY DEF WriteLocked
<1>. DEFINE c == [call[t] EXCEPT !.at = "look"]
<1>2. t \in Tasks /\ t \notin Readers /\ call[t] \in CallStates /\ "look" \in Places
  BY TaskKinds DEF IInv, Types, Places
<1>3. c \in CallStates
  BY <1>2, FieldsIs
<1>4. c.at = "look"
  BY <1>2 DEF CallStates
<1>5. events' \in SUBSET {"R", "W", "T"}
  BY <1>1 DEF IInv, Types
<1>. HIDE DEF c
<1>6. call' = [call EXCEPT ![t] = c]
  BY <1>1 DEF c
<1>. QED  BY <1>1, <1>2, <1>3, <1>4, <1>5, <1>6, CallStep DEF Sender

LEMMA WriteLookStep ==
  ASSUME IInv, NEW t \in Writers, WriteLook(t)
  PROVE  IInv'
<1>1. /\ t \in Tasks /\ t \notin Readers /\ call[t] \in CallStates /\ tx \in Rings
      /\ call[t].at = "look" /\ call[t].left \in Nat /\ writeLock = t
      /\ UNCHANGED <<use, writeLock, readLock, rx, tx, irqEnable, hostInactive, events, device, owed>>
  BY TaskKinds, FieldsIs DEF IInv, Types, Exclusive, WriteLook
<1>2. PICK a \in {"kick", "copy"}, m \in Nat :
         /\ call' = [call EXCEPT ![t].at = a, ![t].n = m] /\ m = Least(Room, call[t].left)
  <2>1. Least(Room, call[t].left) \in Nat
    BY <1>1, RoomIs, LeastIs
  <2>. QED  BY <2>1 DEF WriteLook
<1>3. m <= call[t].left /\ tx.in + m <= BufLen /\ Held(tx) + m < BufLen
  <2>1. Room \in Nat /\ tx.in + Room <= BufLen /\ Held(tx) + Room < BufLen
    BY <1>1, RoomIs
  <2>2. m <= Room /\ m <= call[t].left
    BY <1>1, <1>2, <2>1, LeastIs
  <2>3. tx.in \in Nat /\ Held(tx) \in Nat /\ BufLen \in Nat
    BY <1>1, HeldIs, Constants
  <2>. QED  BY <2>1, <2>2, <2>3
<1>. DEFINE c == [call[t] EXCEPT !.at = a, !.n = m]
<1>4. c \in CallStates
  <2>1. a \in Places
    BY DEF Places
  <2>. QED  BY <1>1, <2>1, FieldsIs
<1>5. c.at = a /\ c.n = m /\ c.left = call[t].left
  BY <1>1 DEF CallStates
<1>6. events' \in SUBSET {"R", "W", "T"}
  BY <1>1 DEF IInv, Types
<1>. HIDE DEF c
<1>7. call' = [call EXCEPT ![t] = c]
  BY <1>2 DEF c
<1>. QED  BY <1>1, <1>3, <1>4, <1>5, <1>6, <1>7, CallStep DEF Sender

LEMMA WriteKickStep ==
  ASSUME IInv, NEW t \in Writers, WriteKick(t)
  PROVE  IInv'
<1>1. /\ t \in Tasks /\ t \notin Readers /\ call[t] \in CallStates
      /\ call[t].at = "kick" /\ writeLock = t
      /\ irqEnable' = irqEnable \cup {"WE"}
      /\ UNCHANGED <<use, writeLock, readLock, rx, tx, hostInactive, events, device, owed>>
  BY TaskKinds DEF IInv, Types, Exclusive, WriteKick
<1>2. PICK a \in {"pend", "unlock"} : call' = [call EXCEPT ![t].at = a]
  BY DEF WriteKick
<1>. DEFINE c == [call[t] EXCEPT !.at = a]
<1>3. c \in CallStates
  <2>1. a \in Places
    BY DEF Places
  <2>. QED  BY <1>1, <2>1, FieldsIs
<1>4. c.at = a
  BY <1>1 DEF CallStates
<1>5. events' \in SUBSET {"R", "W", "T"}
  BY <1>1 DEF IInv, Types
<1>. HIDE DEF c
<1>6. call' = [call EXCEPT ![t] = c]
  BY <1>2 DEF c
<1>. QED  BY <1>1, <1>3, <1>4, <1>5, <1>6, CallStep

LEMMA WriteCheckStep ==
  ASSUME IInv, NEW t \in Writers, WriteCheck(t)
  PROVE  IInv'
<1>1. /\ t \in Tasks /\ t \notin Readers /\ call[t] \in CallStates
      /\ call[t].at = "check" /\ writeLock = t
      /\ UNCHANGED <<use, writeLock, readLock, rx, tx, irqEnable, hostInactive, events, device, owed>>
  BY TaskKinds DEF IInv, Types, Exclusive, WriteCheck
<1>2. PICK a \in {"look", "unlock"} : call' = [call EXCEPT ![t].at = a]
  BY DEF WriteCheck
<1>. DEFINE c == [call[t] EXCEPT !.at = a]
<1>3. c \in CallStates
  <2>1. a \in Places
    BY DEF Places
  <2>. QED  BY <1>1, <2>1, FieldsIs
<1>4. c.at = a
  BY <1>1 DEF CallStates
<1>5. events' \in SUBSET {"R", "W", "T"}
  BY <1>1 DEF IInv, Types
<1>. HIDE DEF c
<1>6. call' = [call EXCEPT ![t] = c]
  BY <1>2 DEF c
<1>. QED  BY <1>1, <1>3, <1>4, <1>5, <1>6, CallStep DEF Sender

LEMMA WriteUnlockStep ==
  ASSUME IInv, NEW t \in Writers, WriteUnlock(t)
  PROVE  IInv'
<1>1. /\ t \in Tasks /\ t \notin Readers /\ call[t].at = "unlock" /\ writeLock = t
      /\ call' = [call EXCEPT ![t] = Idle]
      /\ UNCHANGED <<use, readLock, rx, tx, irqEnable, hostInactive, events, device, owed>>
  BY TaskKinds DEF IInv, Exclusive, WriteUnlock
<1>2. events' \in SUBSET {"R", "W", "T"}
  BY <1>1 DEF IInv, Types
<1>. QED  BY <1>1, <1>2, IdleIs, CallStep DEF Sender

LEMMA WriteCopyStep ==
  ASSUME IInv, NEW t \in Writers, WriteCopy(t)
  PROVE  IInv'
<1>. DEFINE n == call[t].n
            a == IF call[t].left = n THEN "kick" ELSE "look"
            c == [call[t] EXCEPT !.at = a, !.left = call[t].left - n, !.done = call[t].done + n, !.n = 0]
<1>1. PICK s \in [1 .. n -> use.written] : tx' = Store(tx, s) /\ owed' = [owed EXCEPT !.tx = @ \o s]
  BY DEF WriteCopy
<1>2. /\ call[t].at = "copy" /\ call' = [call EXCEPT ![t] = c]
      /\ UNCHANGED <<use, writeLock, readLock, rx, irqEnable, hostInactive, events, device>>
  BY DEF WriteCopy
<1>3. /\ t \in Tasks /\ t \notin Readers /\ call[t] \in CallStates /\ n \in Nat /\ call[t].left \in Nat
      /\ call[t].done \in Nat /\ n <= call[t].left /\ tx.in + n <= BufLen /\ Held(tx) + n < BufLen
      /\ tx \in Rings /\ writeLock = t /\ Types /\ Exclusive /\ Planned /\ RingsFaithful /\ InterruptsArmed
  BY <1>2, TaskKinds, FieldsIs DEF IInv, Types, Exclusive, Planned
<1>4. s \in Seq(Bytes) /\ Len(s) = n
  <2>1. use.written \subseteq Bytes
    BY <1>3 DEF Types, Uses
  <2>. QED  BY <1>3, <2>1
<1>5. /\ Store(tx, s) \in Rings /\ Held(Store(tx, s)) = Held(tx) + n
      /\ Contents(Store(tx, s)) = Contents(tx) \o s
  BY <1>3, <1>4, StoreKept
<1>6. c \in CallStates
  <2>1. a \in Places
    BY DEF Places
  <2>2. call[t].left - n \in Nat /\ call[t].done + n \in Nat
    BY <1>3
  <2>. QED  BY <1>3, <2>1, <2>2, FieldsIs
<1>7. c.at = a /\ a \in {"kick", "look"}
  BY <1>3 DEF CallStates
<1>. HIDE DEF c, a, n
<1>8. /\ call \in [Tasks -> CallStates] /\ call' \in [Tasks -> CallStates] /\ call'[t] = c
      /\ \A u \in Tasks : u # t => call'[u] = call[u]
  BY <1>2, <1>3, <1>6 DEF Types
<1>9. owed'.tx = owed.tx \o s /\ owed'.rx = owed.rx /\ owed' \in [rx : Seq(Bytes), tx : Seq(Bytes)]
  <2>1. owed.tx \o s \in Seq(Bytes) /\ owed \in [rx : Seq(Bytes), tx : Seq(Bytes)]
    BY <1>3, <1>4 DEF Types
  <2>. QED  BY <1>1, <2>1
<1>10. Types'
  BY <1>1, <1>2, <1>3, <1>5, <1>8, <1>9 DEF Types
<1>11. Exclusive'
  <2>1. \A u \in Writers : call'[u].at \notin {"idle", "lock"} => writeLock' = u
    BY <1>2, <1>3, <1>8, TaskKinds DEF Exclusive
  <2>2. \A u \in Readers : call'[u].at \notin {"idle", "lock", "enable"} => readLock' = u
    BY <1>2, <1>3, <1>8, TaskKinds DEF Exclusive
  <2>. QED  BY <2>1, <2>2 DEF Exclusive
<1>12. Planned'
  <2>1. \A u \in Writers : call'[u].at # "copy"
    BY <1>3, <1>7, <1>8, TaskKinds DEF Exclusive
  <2>2. \A u \in Readers : call'[u] = call[u]
    BY <1>3, <1>8, TaskKinds
  <2>3. rx' = rx /\ \A u \in Readers : call[u].at = "copy" => call[u].n <= call[u].left /\ call[u].n <= Held(rx)
    BY <1>2, <1>3 DEF Planned
  <2>4. \A u \in Readers : call'[u].at = "copy" => call'[u].n <= call'[u].left /\ call'[u].n <= Held(rx')
    BY <2>2, <2>3
  <2>. QED  BY <2>1, <2>4 DEF Planned
<1>13. RingsFaithful'
  <2>1. Contents(tx') = owed'.tx /\ Held(tx') < BufLen
    BY <1>1, <1>3, <1>5, <1>9 DEF RingsFaithful
  <2>2. rx' = rx /\ Contents(rx) = owed'.rx /\ Held(rx) < BufLen
    BY <1>2, <1>3, <1>9 DEF RingsFaithful
  <2>3. Contents(rx') = owed'.rx /\ Held(rx') < BufLen
    BY <2>2
  <2>. QED  BY <2>1, <2>3 DEF RingsFaithful
<1>14. InterruptsArmed'
  <2>1. Sender(call'[t])
    BY <1>7, <1>8 DEF Sender
  <2>2. Sending'
    BY <2>1 DEF Sending, Sender
  <2>3. Receiving
    BY <1>3, ArmedIs
  <2>4. \A u \in Readers : call'[u] = call[u]
    BY <1>3, <1>8, TaskKinds
  <2>5. irqEnable' = irqEnable /\ Held(rx') = Held(rx)
    BY <1>2
  <2>6. "RE" \notin irqEnable' => Held(rx') > 0 \/ \E u \in Readers : Getter(call'[u])
    BY <2>3, <2>4, <2>5 DEF Receiving
  <2>7. Receiving'
    BY <2>6 DEF Receiving, Getter
  <2>. QED  BY <2>2, <2>7 DEF InterruptsArmed, Sending, Receiving, Sender, Getter
<1>. QED  BY <1>10, <1>11, <1>12, <1>13, <1>14 DEF IInv

-----------------------------------------------------------------------------
(***************************************************************************)
(* A reader.                                                               *)
(***************************************************************************)

LEMMA ReadLockedStep ==
  ASSUME IInv, NEW t \in Readers, ReadLocked(t)
  PROVE  IInv'
<1>1. /\ call[t].at = "lock" /\ readLock = Nil /\ readLock' = t /\ call' = [call EXCEPT ![t].at = "look"]
      /\ UNCHANGED <<use, writeLock, rx, tx, irqEnable, hostInactive, events, device, owed>>
  BY DEF ReadLocked
<1>. DEFINE c == [call[t] EXCEPT !.at = "look"]
<1>2. t \in Tasks /\ t \notin Writers /\ call[t] \in CallStates /\ "look" \in Places
  BY TaskKinds DEF IInv, Types, Places
<1>3. c \in CallStates
  BY <1>2, FieldsIs
<1>4. c.at = "look"
  BY <1>2 DEF CallStates
<1>5. events' \in SUBSET {"R", "W", "T"} /\ ~Getter(call[t])
  BY <1>1 DEF IInv, Types, Getter
<1>. HIDE DEF c
<1>6. call' = [call EXCEPT ![t] = c]
  BY <1>1 DEF c
<1>. QED  BY <1>1, <1>2, <1>3, <1>4, <1>5, <1>6, CallStep

LEMMA ReadLookStep ==
  ASSUME IInv, NEW t \in Readers, ReadLook(t)
  PROVE  IInv'
<1>. DEFINE a == IF Run > 0 THEN "copy" ELSE IF call[t].done > 0 \/ call[t].nonblock THEN "unlock" ELSE "pend"
            k == IF Run = 0 THEN rx.in ELSE 0
            m == Least(Run, call[t].left)
            c == [call[t] EXCEPT !.at = a, !.seen = k, !.n = m]
<1>1. /\ t \in Tasks /\ t \notin Writers /\ call[t] \in CallStates /\ rx \in Rings
      /\ call[t].at = "look" /\ call[t].left \in Nat /\ call[t].done \in Nat /\ readLock = t
      /\ call' = [call EXCEPT ![t] = c]
      /\ UNCHANGED <<use, writeLock, readLock, rx, tx, irqEnable, hostInactive, events, device, owed>>
  BY TaskKinds, FieldsIs DEF IInv, Types, Exclusive, ReadLook
<1>2. Run \in Nat /\ Run <= Held(rx) /\ (Run = 0 => Held(rx) = 0) /\ rx.in \in Nat /\ Held(rx) \in Nat
  BY <1>1, RunIs, HeldIs
<1>3. m \in Nat /\ m <= call[t].left /\ m <= Held(rx)
  <2>1. m \in Nat /\ m <= call[t].left /\ m <= Run
    BY <1>1, <1>2, LeastIs
  <2>. HIDE DEF m
  <2>. QED  BY <1>2, <2>1
<1>4. a \in Places /\ k \in Nat /\ a # "idle" /\ a # "lock"
  BY <1>2 DEF Places
<1>5. a = "copy" => Held(rx) > 0
  BY <1>2
<1>6. a # "copy" /\ call[t].done > 0 => a = "unlock"
  OBVIOUS
<1>. HIDE DEF a, k, m
<1>7. c \in CallStates
  BY <1>1, <1>3, <1>4, FieldsIs
<1>8. c.at = a /\ c.n = m /\ c.left = call[t].left /\ c.done = call[t].done
  BY <1>1 DEF CallStates
<1>9. events' \in SUBSET {"R", "W", "T"}
  BY <1>1 DEF IInv, Types
<1>. HIDE DEF c
<1>10. Getter(call[t]) => Getter(c) \/ Held(rx) > 0
  BY <1>5, <1>6, <1>8 DEF Getter
<1>. QED  BY <1>1, <1>3, <1>4, <1>7, <1>8, <1>9, <1>10, CallStep

LEMMA ReadCheckStep ==
  ASSUME IInv, NEW t \in Readers, ReadCheck(t)
  PROVE  IInv'
<1>1. /\ t \in Tasks /\ t \notin Writers /\ call[t] \in CallStates
      /\ call[t].at = "check" /\ readLock = t
      /\ UNCHANGED <<use, writeLock, readLock, rx, tx, irqEnable, hostInactive, events, device, owed>>
  BY TaskKinds DEF IInv, Types, Exclusive, ReadCheck
<1>2. PICK a \in {"look", "unlock"} : call' = [call EXCEPT ![t].at = a]
  BY DEF ReadCheck
<1>. DEFINE c == [call[t] EXCEPT !.at = a]
<1>3. c \in CallStates
  <2>1. a \in Places
    BY DEF Places
  <2>. QED  BY <1>1, <2>1, FieldsIs
<1>4. c.at = a
  BY <1>1 DEF CallStates
<1>5. events' \in SUBSET {"R", "W", "T"} /\ ~Getter(call[t])
  BY <1>1 DEF IInv, Types, Getter
<1>. HIDE DEF c
<1>6. call' = [call EXCEPT ![t] = c]
  BY <1>2 DEF c
<1>. QED  BY <1>1, <1>3, <1>4, <1>5, <1>6, CallStep

LEMMA ReadUnlockStep ==
  ASSUME IInv, NEW t \in Readers, ReadUnlock(t)
  PROVE  IInv'
<1>. DEFINE c == IF call[t].done > 0 THEN [call[t] EXCEPT !.at = "enable"] ELSE Idle
<1>1. /\ t \in Tasks /\ t \notin Writers /\ call[t] \in CallStates /\ call[t].at = "unlock" /\ readLock = t
      /\ call' = [call EXCEPT ![t] = c]
      /\ UNCHANGED <<use, writeLock, rx, tx, irqEnable, hostInactive, events, device, owed>>
  BY TaskKinds DEF IInv, Types, Exclusive, ReadUnlock
<1>2. c \in CallStates
  <2>1. "enable" \in Places
    BY DEF Places
  <2>. QED  BY <1>1, <2>1, FieldsIs, IdleIs
<1>3. c.at \in {"idle", "enable"} /\ (call[t].done > 0 => c.at = "enable" /\ c.done = call[t].done)
  BY <1>1, IdleIs DEF CallStates
<1>4. events' \in SUBSET {"R", "W", "T"}
  BY <1>1 DEF IInv, Types
<1>. HIDE DEF c
<1>5. Getter(call[t]) => Getter(c)
  BY <1>3 DEF Getter
<1>. QED  BY <1>1, <1>2, <1>3, <1>4, <1>5, CallStep

LEMMA ReadEnableStep ==
  ASSUME IInv, NEW t \in Readers, ReadEnable(t)
  PROVE  IInv'
<1>1. /\ t \in Tasks /\ t \notin Writers /\ call[t].at = "enable"
      /\ irqEnable' = irqEnable \cup {"RE"} /\ call' = [call EXCEPT ![t] = Idle]
      /\ UNCHANGED <<use, writeLock, readLock, rx, tx, hostInactive, events, device, owed>>
  BY TaskKinds DEF IInv, Exclusive, ReadEnable
<1>2. events' \in SUBSET {"R", "W", "T"}
  BY <1>1 DEF IInv, Types
<1>. QED  BY <1>1, <1>2, IdleIs, CallStep

LEMMA ReadCopyStep ==
  ASSUME IInv, NEW t \in Readers, ReadCopy(t)
  PROVE  IInv'
<1>. DEFINE n == call[t].n
            a == IF call[t].left = n THEN "unlock" ELSE "look"
            c == [call[t] EXCEPT !.at = a, !.left = call[t].left - n, !.done = call[t].done + n, !.n = 0]
<1>1. /\ call[t].at = "copy" /\ call' = [call EXCEPT ![t] = c] /\ rx' = Drop(rx, n)
      /\ owed' = [owed EXCEPT !.rx = SubSeq(@, n + 1, Len(@))]
      /\ UNCHANGED <<use, writeLock, readLock, tx, irqEnable, hostInactive, events, device>>
  BY DEF ReadCopy
<1>2. /\ t \in Tasks /\ t \notin Writers /\ call[t] \in CallStates /\ n \in Nat /\ call[t].left \in Nat
      /\ call[t].done \in Nat /\ n <= call[t].left /\ n <= Held(rx)
      /\ rx \in Rings /\ readLock = t /\ Types /\ Exclusive /\ Planned /\ RingsFaithful /\ InterruptsArmed
  BY <1>1, TaskKinds, FieldsIs DEF IInv, Types, Exclusive, Planned
<1>3. n \in 0 .. Held(rx) /\ Held(rx) \in Nat
  BY <1>2, HeldIs
<1>4. /\ Drop(rx, n) \in Rings /\ Held(Drop(rx, n)) = Held(rx) - n
      /\ Contents(Drop(rx, n)) = SubSeq(Contents(rx), n + 1, Len(Contents(rx)))
  <2>. HIDE DEF n
  <2>. QED  BY <1>2, <1>3, DropKept
<1>5. c \in CallStates /\ (n > 0 => call[t].done + n > 0)
  <2>1. a \in Places
    BY DEF Places
  <2>2. call[t].left - n \in Nat /\ call[t].done + n \in Nat /\ (n > 0 => call[t].done + n > 0)
    BY <1>2
  <2>. QED  BY <1>2, <2>1, <2>2, FieldsIs
<1>6. c.at = a /\ c.done = call[t].done + n /\ a \in {"unlock", "look"}
  BY <1>2 DEF CallStates
<1>. HIDE DEF c, a, n
<1>7. /\ call \in [Tasks -> CallStates] /\ call' \in [Tasks -> CallStates] /\ call'[t] = c
      /\ \A u \in Tasks : u # t => call'[u] = call[u]
  BY <1>1, <1>2, <1>5 DEF Types
<1>8. /\ owed'.rx = SubSeq(owed.rx, n + 1, Len(owed.rx)) /\ owed'.tx = owed.tx
      /\ owed' \in [rx : Seq(Bytes), tx : Seq(Bytes)]
  <2>1. owed \in [rx : Seq(Bytes), tx : Seq(Bytes)]
    BY <1>2 DEF Types
  <2>2. SubSeq(owed.rx, n + 1, Len(owed.rx)) \in Seq(Bytes)
    <3>1. n + 1 \in Int /\ Len(owed.rx) \in Int /\ \A i \in n + 1 .. Len(owed.rx) : owed.rx[i] \in Bytes
      BY <1>2, <2>1
    <3>. QED  BY <3>1, SubSeqProperties
  <2>. QED  BY <1>1, <2>1, <2>2
<1>9. Types'
  BY <1>1, <1>2, <1>4, <1>7, <1>8 DEF Types
<1>10. Exclusive'
  <2>1. \A u \in Writers : call'[u].at \notin {"idle", "lock"} => writeLock' = u
    BY <1>1, <1>2, <1>7, TaskKinds DEF Exclusive
  <2>2. \A u \in Readers : call'[u].at \notin {"idle", "lock", "enable"} => readLock' = u
    BY <1>1, <1>2, <1>7, TaskKinds DEF Exclusive
  <2>. QED  BY <2>1, <2>2 DEF Exclusive
<1>11. Planned'
  <2>1. \A u \in Readers : call'[u].at # "copy"
    BY <1>2, <1>6, <1>7, TaskKinds DEF Exclusive
  <2>2. \A u \in Writers : call'[u] = call[u]
    BY <1>2, <1>7, TaskKinds
  <2>3. tx' = tx /\ \A u \in Writers : call[u].at = "copy" =>
            call[u].n <= call[u].left /\ tx.in + call[u].n <= BufLen /\ Held(tx) + call[u].n < BufLen
    BY <1>1, <1>2 DEF Planned
  <2>4. \A u \in Writers : call'[u].at = "copy" =>
            call'[u].n <= call'[u].left /\ tx'.in + call'[u].n <= BufLen /\ Held(tx') + call'[u].n < BufLen
    BY <2>2, <2>3
  <2>. QED  BY <2>1, <2>4 DEF Planned
<1>12. RingsFaithful'
  <2>1. Contents(rx') = owed'.rx /\ Held(rx') < BufLen
    <3>1. Held(rx') < BufLen
      BY <1>1, <1>4, HeldIs
    <3>. QED  BY <1>1, <1>2, <1>4, <1>8, <3>1 DEF RingsFaithful
  <2>2. tx' = tx /\ Contents(tx) = owed'.tx /\ Held(tx) < BufLen
    BY <1>1, <1>2, <1>8 DEF RingsFaithful
  <2>3. Contents(tx') = owed'.tx /\ Held(tx') < BufLen
    BY <2>2
  <2>. QED  BY <2>1, <2>3 DEF RingsFaithful
<1>13. InterruptsArmed'
  <2>1. Sending /\ Receiving
    BY <1>2, ArmedIs
  <2>2. \A u \in Writers : call'[u] = call[u]
    BY <1>2, <1>7, TaskKinds
  <2>3. irqEnable' = irqEnable /\ Held(tx') = Held(tx)
    BY <1>1
  <2>4. Held(tx') > 0 => "WE" \in irqEnable' \/ \E u \in Writers : Sender(call'[u])
    BY <2>1, <2>2, <2>3 DEF Sending
  <2>5. "RE" \notin irqEnable' => Held(rx') > 0 \/ \E u \in Readers : Getter(call'[u])
    <3>1. SUFFICES ASSUME "RE" \notin irqEnable, ~(Held(rx) - n > 0) PROVE \E u \in Readers : Getter(call'[u])
      BY <1>1, <1>4, <2>3
    <3>2. CASE n > 0
      BY <1>5, <1>6, <1>7, <3>2 DEF Getter
    <3>3. CASE ~(n > 0)
      <4>1. ~(Held(rx) > 0)
        BY <1>2, <1>3, <3>1, <3>3
      <4>2. PICK u \in Readers : Getter(call[u])
        BY <2>1, <3>1, <4>1 DEF Receiving
      <4>3. u # t
        BY <1>1, <4>2 DEF Getter
      <4>. QED  BY <1>7, <4>2, <4>3, TaskKinds
    <3>. QED  BY <3>2, <3>3
  <2>. QED  BY <2>4, <2>5 DEF InterruptsArmed, Sender, Getter
<1>. QED  BY <1>9, <1>10, <1>11, <1>12, <1>13 DEF IInv

-----------------------------------------------------------------------------
(***************************************************************************)
(* The handler, the alarm and the host.                                    *)
(***************************************************************************)

\* Posting flags wakes tasks that wait, and does nothing else to a call.
LEMMA WokenIs ==
  ASSUME Types, NEW posted \in SUBSET {"R", "W", "T"}
  PROVE  /\ Woken(call, posted) \in [Tasks -> CallStates]
         /\ \A t \in Tasks :
              \/ Woken(call, posted)[t] = call[t]
              \/ call[t].at = "wait" /\ Woken(call, posted)[t].at = "woken"
<1>1. events \in SUBSET {"R", "W", "T"} /\ call \in [Tasks -> CallStates]
  BY DEF Types
<1>2. ASSUME NEW t \in Tasks, NEW flags \in SUBSET {"R", "W", "T"}
      PROVE  /\ [call[t] EXCEPT !.at = "woken", !.ready = flags] \in CallStates
             /\ [call[t] EXCEPT !.at = "woken", !.ready = flags].at = "woken"
  <2>1. call[t] \in CallStates /\ "woken" \in Places
    BY <1>1 DEF Places
  <2>. QED  BY <2>1 DEF CallStates
<1>3. \A t \in Tasks : Wanted(t) \cap (events \cup posted) \in SUBSET {"R", "W", "T"}
  BY <1>1
<1>4. \A t \in Tasks : /\ Woken(call, posted)[t] \in CallStates
                       /\ \/ Woken(call, posted)[t] = call[t]
                          \/ call[t].at = "wait" /\ Woken(call, posted)[t].at = "woken"
  BY <1>1, <1>2, <1>3 DEF Woken
<1>5. Woken(call, posted) = [t \in Tasks |-> Woken(call, posted)[t]]
  BY DEF Woken
<1>. QED  BY <1>4, <1>5

\* What a step that posts flags keeps of the calls.
LEMMA PostedStep ==
  ASSUME IInv, NEW posted \in SUBSET {"R", "W", "T"}, FlagPost(posted), UNCHANGED <<writeLock, readLock>>
  PROVE  /\ events' \in SUBSET {"R", "W", "T"} /\ call' \in [Tasks -> CallStates] /\ Exclusive'
         /\ \A t \in Tasks : call'[t].at = "copy" => call'[t] = call[t]
         /\ \A t \in Tasks : Sender(call[t]) \/ Getter(call[t]) => call'[t] = call[t]
<1>1. call' = Woken(call, posted) /\ events' = events \cup posted /\ Types /\ Exclusive
  BY DEF FlagPost, IInv
<1>2. call' \in [Tasks -> CallStates]
  BY <1>1, WokenIs
<1>3. \A t \in Tasks : call'[t] = call[t] \/ (call[t].at = "wait" /\ call'[t].at = "woken")
  BY <1>1, WokenIs
<1>4. events' \in SUBSET {"R", "W", "T"}
  BY <1>1 DEF Types
<1>5. Exclusive'
  <2>1. \A u \in Writers : call'[u].at \notin {"idle", "lock"} => writeLock' = u
    BY <1>1, <1>3, TaskKinds DEF Exclusive
  <2>2. \A u \in Readers : call'[u].at \notin {"idle", "lock", "enable"} => readLock' = u
    BY <1>1, <1>3, TaskKinds DEF Exclusive
  <2>. QED  BY <2>1, <2>2 DEF Exclusive
<1>. QED  BY <1>2, <1>3, <1>4, <1>5 DEF Sender, Getter

LEMMA InterruptStep ==
  ASSUME IInv, Interrupt
  PROVE  IInv'
<1>. DEFINE in == IF ReadPending THEN Least(Len(device.input), BufLen - 1 - Held(rx)) ELSE 0
            space == FifoDepth - device.output
            out == IF WritePending THEN Least(space, Held(tx)) ELSE 0
            rest == SubSeq(device.input, in + 1, Len(device.input))
            received == SubSeq(device.input, 1, in)
            off == (IF ReadPending /\ rest # <<>> THEN {"RE"} ELSE {})
                      \cup (IF WritePending /\ space > out THEN {"WE"} ELSE {})
            posted == (IF in > 0 THEN {"R"} ELSE {}) \cup (IF out > 0 THEN {"W"} ELSE {})
<1>1. /\ rx' = StoreEach(rx, received) /\ tx' = Drop(tx, out)
      /\ owed' = [rx |-> owed.rx \o received, tx |-> SubSeq(owed.tx, out + 1, Len(owed.tx))]
      /\ device' = [device EXCEPT !.input = rest, !.output = @ + out, !.paused = @ /\ in = 0]
      /\ irqEnable' = irqEnable \ off /\ FlagPost(posted)
      /\ UNCHANGED <<use, writeLock, readLock, hostInactive>>
  BY DEF Interrupt
<1>2. Types /\ Exclusive /\ Planned /\ RingsFaithful /\ Sending /\ Receiving
  BY ArmedIs DEF IInv
<1>3. /\ rx \in Rings /\ tx \in Rings /\ device.input \in Seq(Bytes) /\ Len(device.input) \in Nat
      /\ device.output \in 0 .. FifoDepth /\ space \in Nat /\ FifoDepth \in Nat
      /\ owed \in [rx : Seq(Bytes), tx : Seq(Bytes)]
  BY <1>2, Constants DEF Types, Devices
<1>4. Held(rx) \in Nat /\ Held(tx) \in Nat /\ BufLen \in Nat /\ Held(rx) < BufLen /\ Held(tx) < BufLen /\ BufLen >= 2
  BY <1>3, HeldIs, Constants
<1>5. /\ in \in Nat /\ in <= Len(device.input) /\ Held(rx) + in < BufLen
      /\ ReadPending /\ in # Len(device.input) => Held(rx) + in >= 1
  <2>1. BufLen - 1 - Held(rx) \in Nat
    BY <1>4
  <2>. DEFINE room == BufLen - 1 - Held(rx)
              l == Least(Len(device.input), room)
  <2>2. l \in Nat /\ l <= Len(device.input) /\ l <= room /\ (l = Len(device.input) \/ l = room)
    BY <1>3, <2>1, LeastIs
  <2>. HIDE DEF l
  <2>3. CASE ReadPending
    <3>1. in = l
      BY <2>3 DEF l
    <3>. HIDE DEF in
    <3>. QED  BY <1>4, <2>2, <2>3, <3>1
  <2>4. CASE ~ReadPending
    <3>1. in = 0
      BY <2>4
    <3>. HIDE DEF in
    <3>. QED  BY <1>3, <1>4, <2>4, <3>1
  <2>. QED  BY <2>3, <2>4
<1>6. out \in 0 .. Held(tx) /\ out <= space /\ (WritePending /\ space > out => out = Held(tx))
  <2>. DEFINE l == Least(space, Held(tx))
  <2>1. l \in Nat /\ l <= space /\ l <= Held(tx) /\ (l = space \/ l = Held(tx))
    BY <1>3, <1>4, LeastIs
  <2>. HIDE DEF l
  <2>2. CASE WritePending
    <3>1. out = l
      BY <2>2 DEF l
    <3>. HIDE DEF out
    <3>. QED  BY <1>3, <1>4, <2>1, <3>1
  <2>3. CASE ~WritePending
    <3>1. out = 0
      BY <2>3
    <3>. HIDE DEF out
    <3>. QED  BY <1>3, <1>4, <2>3, <3>1
  <2>. QED  BY <2>2, <2>3
<1>7. posted \in SUBSET {"R", "W", "T"}
  OBVIOUS
<1>8. in = Len(device.input) => rest = <<>>
  BY <1>3, SubSeqEmpty
<1>9. "RE" \in off => ReadPending /\ in # Len(device.input)
  BY <1>8
<1>10. "WE" \in off => WritePending /\ space > out
  OBVIOUS
<1>. HIDE DEF in, out, posted, off, space
<1>11. rest \in Seq(Bytes) /\ received \in Seq(Bytes) /\ Len(received) = in
  <2>. DEFINE input == device.input
  <2>1. /\ in + 1 \in Int /\ in \in Int /\ 1 \in Int /\ Len(input) \in Int
        /\ (\A i \in in + 1 .. Len(input) : input[i] \in Bytes) /\ \A i \in 1 .. in : input[i] \in Bytes
    BY <1>3, <1>5
  <2>2. Len(SubSeq(input, 1, in)) = IF 1 <= in THEN in - 1 + 1 ELSE 0
    BY <2>1, SubSeqProperties
  <2>3. SubSeq(input, in + 1, Len(input)) \in Seq(Bytes) /\ SubSeq(input, 1, in) \in Seq(Bytes)
    BY <2>1, SubSeqProperties
  <2>. QED  BY <1>5, <2>2, <2>3
<1>. HIDE DEF rest, received
<1>12. /\ rx' \in Rings /\ Held(rx') = Held(rx) + in /\ Contents(rx') = Contents(rx) \o received
  BY <1>1, <1>3, <1>5, <1>11, StoreEachKept
<1>13. /\ tx' \in Rings /\ tx'.in = tx.in /\ Held(tx') = Held(tx) - out
       /\ Contents(tx') = SubSeq(Contents(tx), out + 1, Len(Contents(tx)))
  BY <1>1, <1>3, <1>6, DropKept
<1>14. /\ events' \in SUBSET {"R", "W", "T"} /\ call' \in [Tasks -> CallStates] /\ Exclusive'
       /\ \A t \in Tasks : call'[t].at = "copy" => call'[t] = call[t]
       /\ \A t \in Tasks : Sender(call[t]) \/ Getter(call[t]) => call'[t] = call[t]
  BY <1>1, <1>7, PostedStep
<1>15. Types'
  <2>1. device' \in Devices
    <3>1. device.output + out \in 0 .. FifoDepth
      <4>1. space = FifoDepth - device.output
        BY DEF space
      <4>2. out \in Nat /\ out <= space
        BY <1>4, <1>6
      <4>. QED  BY <1>3, <4>1, <4>2
    <3>2. device \in Devices
      BY <1>2 DEF Types
    <3>3. (device.paused /\ in = 0) \in BOOLEAN
      OBVIOUS
    <3>. QED  BY <1>1, <1>11, <3>1, <3>2, <3>3 DEF Devices
  <2>2. owed' \in [rx : Seq(Bytes), tx : Seq(Bytes)]
    <3>1. owed.rx \o received \in Seq(Bytes)
      BY <1>3, <1>11
    <3>2. SubSeq(owed.tx, out + 1, Len(owed.tx)) \in Seq(Bytes)
      <4>1. out + 1 \in Int /\ Len(owed.tx) \in Int /\ \A i \in out + 1 .. Len(owed.tx) : owed.tx[i] \in Bytes
        BY <1>3, <1>4, <1>6
      <4>. QED  BY <4>1, SubSeqProperties
    <3>. QED  BY <1>1, <3>1, <3>2
  <2>3. use' \in Uses
    BY <1>1, <1>2 DEF Types
  <2>. QED  BY <1>12, <1>13, <1>14, <2>1, <2>2, <2>3 DEF Types
<1>16. Planned'
  <2>1. ASSUME NEW u \in Writers, call'[u].at = "copy"
        PROVE  call'[u].n <= call'[u].left /\ tx'.in + call'[u].n <= BufLen /\ Held(tx') + call'[u].n < BufLen
    <3>1. call'[u] = call[u] /\ call[u] \in CallStates
      BY <1>2, <1>14, <2>1, TaskKinds DEF Types
    <3>2. call[u].n <= call[u].left /\ tx.in + call[u].n <= BufLen /\ Held(tx) + call[u].n < BufLen
      BY <1>2, <2>1, <3>1 DEF Planned
    <3>3. call[u].n \in Nat
      BY <3>1, FieldsIs
    <3>4. Held(tx) - out + call[u].n < BufLen
      BY <1>4, <1>6, <3>2, <3>3
    <3>. QED  BY <1>13, <3>1, <3>2, <3>4
  <2>2. ASSUME NEW u \in Readers, call'[u].at = "copy"
        PROVE  call'[u].n <= call'[u].left /\ call'[u].n <= Held(rx')
    <3>1. call'[u] = call[u] /\ call[u] \in CallStates
      BY <1>2, <1>14, <2>2, TaskKinds DEF Types
    <3>2. call[u].n <= call[u].left /\ call[u].n <= Held(rx)
      BY <1>2, <2>2, <3>1 DEF Planned
    <3>3. call[u].n \in Nat
      BY <3>1, FieldsIs
    <3>4. call[u].n <= Held(rx) + in
      BY <1>4, <1>5, <3>2, <3>3
    <3>. QED  BY <1>12, <3>1, <3>2, <3>4
  <2>. QED  BY <2>1, <2>2 DEF Planned
<1>17. RingsFaithful'
  <2>1. Contents(rx') = owed'.rx
    BY <1>1, <1>2, <1>12 DEF RingsFaithful
  <2>2. Contents(tx') = owed'.tx
    BY <1>1, <1>2, <1>13 DEF RingsFaithful
  <2>3. Held(rx') < BufLen /\ Held(tx') < BufLen
    BY <1>12, <1>13, HeldIs
  <2>. QED  BY <2>1, <2>2, <2>3 DEF RingsFaithful
<1>18. InterruptsArmed'
  <2>1. Held(tx') > 0 => "WE" \in irqEnable' \/ \E u \in Writers : Sender(call'[u])
    <3>1. SUFFICES ASSUME Held(tx) - out > 0, "WE" \notin irqEnable' PROVE \E u \in Writers : Sender(call'[u])
      BY <1>13
    <3>2. Held(tx) > 0 /\ out # Held(tx)
      BY <1>4, <1>6, <3>1
    <3>3. "WE" \notin irqEnable
      BY <1>1, <1>6, <1>10, <3>1, <3>2
    <3>4. PICK u \in Writers : Sender(call[u])
      BY <1>2, <3>2, <3>3 DEF Sending
    <3>. QED  BY <1>14, <3>4, TaskKinds
  <2>2. "RE" \notin irqEnable' => Held(rx') > 0 \/ \E u \in Readers : Getter(call'[u])
    <3>1. SUFFICES ASSUME ~(Held(rx) + in > 0), "RE" \notin irqEnable' PROVE \E u \in Readers : Getter(call'[u])
      BY <1>12
    <3>2. ~(Held(rx) > 0) /\ ~(Held(rx) + in >= 1)
      BY <1>4, <1>5, <3>1
    <3>3. "RE" \notin irqEnable
      BY <1>1, <1>5, <1>9, <3>1, <3>2
    <3>4. PICK u \in Readers : Getter(call[u])
      BY <1>2, <3>2, <3>3 DEF Receiving
    <3>. QED  BY <1>14, <3>4, TaskKinds
  <2>. QED  BY <2>1, <2>2 DEF InterruptsArmed, Sender, Getter
<1>. QED  BY <1>14, <1>15, <1>16, <1>17, <1>18 DEF IInv

LEMMA AlarmStep ==
  ASSUME IInv, Alarm
  PROVE  IInv'
<1>1. UNCHANGED <<use, writeLock, readLock, rx, tx, irqEnable, owed>>
  BY DEF Alarm
<1>2. Types /\ Exclusive /\ Planned /\ RingsFaithful /\ Sending /\ Receiving /\ call \in [Tasks -> CallStates]
  BY ArmedIs DEF IInv, Types
<1>3. /\ events' \in SUBSET {"R", "W", "T"} /\ call' \in [Tasks -> CallStates] /\ Exclusive'
      /\ \A t \in Tasks : call'[t].at = "copy" => call'[t] = call[t]
      /\ \A t \in Tasks : Sender(call[t]) \/ Getter(call[t]) => call'[t] = call[t]
  <2>1. CASE device.active
    BY <1>1, <1>2, <2>1 DEF Alarm, Types, Exclusive
  <2>2. CASE ~device.active
    <3>. DEFINE posted == IF hostInactive + 1 >= Timeout THEN {"T"} ELSE {}
    <3>1. FlagPost(posted) /\ posted \in SUBSET {"R", "W", "T"}
      BY <2>2 DEF Alarm
    <3>. HIDE DEF posted
    <3>. QED  BY <1>1, <3>1, PostedStep
  <2>. QED  BY <2>1, <2>2
<1>4. Types'
  <2>1. device' \in Devices
    BY <1>2 DEF Alarm, Types, Devices
  <2>. QED  BY <1>1, <1>2, <1>3, <2>1 DEF Types
<1>5. Planned'
  <2>1. tx' = tx /\ rx' = rx
    BY <1>1
  <2>2. \A u \in Writers : call'[u].at = "copy" =>
           call'[u].n <= call'[u].left /\ tx.in + call'[u].n <= BufLen /\ Held(tx) + call'[u].n < BufLen
    BY <1>2, <1>3, TaskKinds DEF Planned
  <2>3. \A u \in Readers : call'[u].at = "copy" => call'[u].n <= call'[u].left /\ call'[u].n <= Held(rx)
    BY <1>2, <1>3, TaskKinds DEF Planned
  <2>. QED  BY <2>1, <2>2, <2>3 DEF Planned
<1>6. RingsFaithful'
  BY <1>1, <1>2 DEF RingsFaithful, Contents, Held
<1>7. InterruptsArmed'
  <2>1. Held(tx') = Held(tx) /\ Held(rx') = Held(rx) /\ irqEnable' = irqEnable
    BY <1>1
  <2>2. Held(tx') > 0 => "WE" \in irqEnable' \/ \E u \in Writers : Sender(call'[u])
    BY <1>2, <1>3, <2>1, TaskKinds DEF Sending
  <2>3. "RE" \notin irqEnable' => Held(rx') > 0 \/ \E u \in Readers : Getter(call'[u])
    BY <1>2, <1>3, <2>1, TaskKinds DEF Receiving
  <2>. QED  BY <2>2, <2>3 DEF InterruptsArmed, Sender, Getter
<1>. QED  BY <1>3, <1>4, <1>5, <1>6, <1>7 DEF IInv

\* The steps that leave everything but the device alone.
LEMMA DeviceStep ==
  ASSUME IInv, UNCHANGED <<use, call, writeLock, readLock, rx, tx, irqEnable, events, owed>>,
         device' \in Devices
  PROVE  IInv'
<1>1. Types'
  BY DEF IInv, Types
<1>2. Exclusive'
  BY DEF IInv, Exclusive
<1>3. Planned'
  BY DEF IInv, Planned, Held
<1>4. RingsFaithful'
  BY DEF IInv, RingsFaithful, Contents, Held
<1>5. InterruptsArmed'
  BY DEF IInv, InterruptsArmed, Held
<1>. QED  BY <1>1, <1>2, <1>3, <1>4, <1>5 DEF IInv

LEMMA HostStep ==
  ASSUME IInv, Host
  PROVE  IInv'
<1>1. device \in Devices /\ use.typed \subseteq Bytes
  BY DEF IInv, Types, Uses
<1>2. device.input \in Seq(Bytes) /\ device.output \in 0 .. FifoDepth
  BY <1>1 DEF Devices
<1>3. CASE HostTakes
  <2>1. device.output - 1 \in 0 .. FifoDepth
    BY <1>2, <1>3, Constants DEF HostTakes
  <2>2. device' \in Devices
    BY <1>1, <1>3, <2>1 DEF HostTakes, Devices
  <2>. QED  BY <2>2, DeviceStep DEF Host
<1>4. CASE HostSends
  <2>1. PICK b \in use.typed :
           device' = [device EXCEPT !.input = IF Len(@) < FifoDepth THEN Append(@, b) ELSE @,
                                    !.active = TRUE]
    BY <1>4 DEF HostSends
  <2>2. Append(device.input, b) \in Seq(Bytes)
    BY <1>1, <1>2, <2>1
  <2>3. device' \in Devices
    BY <1>1, <1>2, <2>1, <2>2 DEF Devices
  <2>. QED  BY <2>3, DeviceStep DEF Host
<1>5. CASE HostPauses
  <2>1. device' = [device EXCEPT !.active = TRUE, !.paused = device.paused \/ device.input # <<>>]
    BY <1>5 DEF HostPauses
  <2>2. device' \in Devices
    BY <1>1, <2>1 DEF Devices
  <2>. QED  BY <2>2, DeviceStep DEF Host
<1>. QED  BY <1>3, <1>4, <1>5 DEF Host

-----------------------------------------------------------------------------
(***************************************************************************)
(* The invariant, and what follows from it.                                *)
(***************************************************************************)

LEMMA NextKept ==
  ASSUME IInv, [Next]_vars
  PROVE  IInv'
<1>1. CASE Calls
  <2>1. PICK t \in Tasks, n \in use.counts, nonblock \in BOOLEAN :
           \/ t \in Writers /\ Write(t, n, nonblock)
           \/ t \in Readers /\ Read(t, n, nonblock)
    BY <1>1 DEF Calls
  <2>2. n \in Nat
    BY DEF IInv, Types, Uses
  <2>. QED  BY <2>1, <2>2, StartStep DEF Write, Read
<1>2. ASSUME NEW t \in Writers, Writing(t) PROVE IInv'
  <2>1. t \in Tasks
    BY TaskKinds
  <2>. QED  BY <1>2, <2>1, WriteLockedStep, WriteLookStep, WriteCopyStep, WriteKickStep, FlagPendStep,
               FlagPendEndStep, WriteCheckStep, WriteUnlockStep DEF Writing
<1>3. ASSUME NEW t \in Readers, Reading(t) PROVE IInv'
  <2>1. t \in Tasks
    BY TaskKinds
  <2>. QED  BY <1>3, <2>1, ReadLockedStep, ReadLookStep, ReadCopyStep, FlagPendStep, FlagPendEndStep,
               ReadCheckStep, ReadUnlockStep, ReadEnableStep DEF Reading
<1>4. CASE UNCHANGED vars
  <2>1. device' \in Devices
    BY <1>4 DEF vars, IInv, Types
  <2>. QED  BY <1>4, <2>1, DeviceStep DEF vars
<1>. QED  BY <1>1, <1>2, <1>3, <1>4, InterruptStep, AlarmStep, HostStep DEF Next

LEMMA Invariance == Spec => []IInv
<1>1. IInv /\ [Next]_vars => IInv'
  BY NextKept
<1>. QED  BY InitIInv, <1>1, PTL DEF Spec

\* Whatever the sizes of ring and FIFO, however many tasks write and read and
\* however the handler's moves fall between a task's look at a ring and its
\* copy: no character is lost, doubled, overwritten or reordered.
THEOREM Characters == Spec => []RingsFaithful
<1>1. IInv => RingsFaithful
  BY DEF IInv
<1>. QED  BY Invariance, <1>1, PTL

\* For the same instances, no interrupt that is needed stays off: while characters
\* wait to be sent it is enabled or a writer will enable it, and the receive
\* interrupt is off only while characters wait or a reader is about to enable it.
THEOREM Armed == Spec => []InterruptsArmed
<1>1. IInv => InterruptsArmed
  BY DEF IInv
<1>. QED  BY Invariance, <1>1, PTL
=============================================================================
