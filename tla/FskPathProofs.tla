---------------------------- MODULE FskPathProofs ----------------------------
(***************************************************************************)
(* Proofs about FskPath for every ratio of the two clocks and every        *)
(* position of their edges: no word is copied while it changes, and the    *)
(* increment follows the bit that left the shift register.                 *)
(***************************************************************************)
EXTENDS FskPath, TLAPS

\* The deadline leaves no room for a slow clock of fewer than three cycles.
LEMMA Bounds ==
    /\ Half \in Nat /\ Latency \in Nat /\ Service \in Nat
    /\ Half >= 3 /\ 4 <= Latency /\ Latency < Service /\ Service < 2 * Half
  BY PathAssumption DEF PathAssumption

USE Bounds

(***************************************************************************)
(* The parts of the inductive invariant.  Each says what a register must   *)
(* hold once the slow clock has been at its level for so many fast cycles. *)
(***************************************************************************)
Flags ==
    /\ fast \in BOOLEAN /\ slow \in BOOLEAN /\ q1 \in BOOLEAN /\ enable \in BOOLEAN
    /\ d1 \in BOOLEAN /\ d2 \in BOOLEAN /\ edgeCap \in BOOLEAN

Timers ==
    /\ age \in 0 .. Half
    /\ since \in 0 .. Service

\* The enable is the slow clock two falling edges of the fast clock ago.
EnableLags ==
    /\ age >= 2 \/ (age = 1 /\ ~fast) => (q1 <=> slow)
    /\ age >= 3 \/ (age = 2 /\ ~fast) => (enable <=> slow)

\* How long ago the slow clock rose follows from how long it has had its level.
RiseLags ==
    /\ since < Half /\ since < Service => slow /\ age = since
    /\ slow => since >= age \/ since = Service
    /\ slow => since <= age \/ age = Half
    /\ ~slow => since >= Half + age \/ since = Service

\* The slow clock, sampled twice, meets itself risen one cycle after it rises
\* and never again before the next edge.
EdgeLags ==
    /\ age = 0 => (d1 <=> d2) /\ (slow => ~d1)
    /\ age >= 1 => (d1 <=> slow)
    /\ age = 1 /\ slow => ~d2
    /\ age >= 2 => (d2 <=> slow)

\* The word is in the middle register three cycles after it was sent, and on
\* the fast side one cycle later.
WordLags ==
    /\ reg1 = sent
    /\ since >= 3 => reg3 = sent
    /\ since >= 4 => sync = sent

Answers(inc) == inc = IF Bit(sent, 0) = 1 THEN High ELSE Low

\* What the handler knows at each of its accesses, and after them.
HandlerSteps ==
    /\ isr \in {"idle", "write", "clear"}
    /\ isr # "idle" => edgeCap /\ since >= Latency
    /\ edgeCap => since >= 2 /\ since < Service
    /\ isr = "write" => value = Bit(sent, 0)
    /\ isr = "clear" => Answers(increment)
    /\ since >= 2 /\ ~edgeCap => increment = 0 \/ Answers(increment)

FromSlow == RiseLags /\ EdgeLags /\ WordLags /\ HandlerSteps

IInv ==
    /\ Flags
    /\ Timers
    /\ EnableLags
    /\ direction = "slow2fast" => FromSlow
    /\ direction # "slow2fast" => ~edgeCap /\ isr = "idle"

-----------------------------------------------------------------------------

\* Everything is clear before the first edge.
LEMMA InitIInv == Init => IInv
<1>. SUFFICES ASSUME Init PROVE IInv
  OBVIOUS
<1>1. Flags
  BY DEF Init, Flags
<1>2. Timers
  BY DEF Init, Timers
<1>3. EnableLags
  BY DEF Init, EnableLags
<1>4. RiseLags
  BY DEF Init, RiseLags
<1>5. EdgeLags
  BY DEF Init, EdgeLags
<1>6. WordLags
  BY DEF Init, WordLags
<1>7. HandlerSteps
  BY DEF Init, HandlerSteps
<1>. QED  BY <1>1, <1>2, <1>3, <1>4, <1>5, <1>6, <1>7 DEF Init, IInv, FromSlow

\* Flags stay flags: each is set to a constant, another flag or a formula.
LEMMA FlagsKept ==
  ASSUME Flags, [Next]_vars
  PROVE  Flags'
<1>1. CASE FastRise
  BY <1>1 DEF Flags, FastRise, pio
<1>2. CASE FastFall
  BY <1>2 DEF Flags, FastFall, pio
<1>3. CASE SlowRise
  BY <1>3 DEF Flags, SlowRise, pio
<1>4. CASE SlowFall
  BY <1>4 DEF Flags, SlowFall, pio
<1>5. CASE Handler
  BY <1>5 DEF Flags, Handler, ReadValue, WriteIncrement, ClearEdge, Hardware
<1>6. CASE ResetLfsr
  BY <1>6 DEF Flags, ResetLfsr, pio
<1>7. CASE UNCHANGED vars
  BY <1>7 DEF Flags, vars, pio
<1>. QED  BY <1>1, <1>2, <1>3, <1>4, <1>5, <1>6, <1>7 DEF Next

\* The handler is never busy at an edge of the slow clock that sends a word.
LEMMA IdleAtRise ==
  ASSUME IInv, SlowRise, direction = "slow2fast"
  PROVE  since = Service /\ ~edgeCap /\ isr = "idle"
  BY DEF IInv, Timers, FromSlow, RiseLags, HandlerSteps, SlowRise

LEMMA FastRiseIInv == IInv /\ FastRise => IInv'
<1>. SUFFICES ASSUME IInv, FastRise PROVE IInv'
  OBVIOUS
<1>. USE DEF IInv, FastRise, Served
<1>1. Flags'
  BY FlagsKept DEF Next
<1>2. Timers'
  BY DEF Timers
<1>3. EnableLags'
  BY DEF EnableLags, Timers
<1>4. ASSUME direction = "slow2fast" PROVE FromSlow'
  <2>1. RiseLags'
    BY <1>4 DEF RiseLags, FromSlow, Timers
  <2>2. EdgeLags'
    BY <1>4 DEF EdgeLags, FromSlow, Timers
  <2>3. WordLags'
    BY <1>4 DEF WordLags, RiseLags, EnableLags, FromSlow, Loaded, Timers
  <2>4. d1 /\ ~d2 => since = 1
    BY <1>4 DEF EdgeLags, RiseLags, FromSlow, Timers
  <2>5. since = 1 => d1 /\ ~d2
    BY <1>4 DEF EdgeLags, RiseLags, FromSlow, Timers
  <2>6. edgeCap' <=> edgeCap \/ since = 1
    BY <1>4, <2>4, <2>5 DEF Flags
  <2>7. since' = IF since < Service THEN since + 1 ELSE Service
    OBVIOUS
  <2>8. edgeCap \/ isr # "idle" => since + 1 < Service
    OBVIOUS
  <2>9. UNCHANGED <<isr, value, increment, sent>>
    BY DEF handler
  <2>10. HandlerSteps'
    BY <1>4, <2>6, <2>7, <2>8, <2>9 DEF HandlerSteps, FromSlow, Timers, Answers
  <2>. QED  BY <2>1, <2>2, <2>3, <2>10 DEF FromSlow
<1>5. direction # "slow2fast" => (~edgeCap /\ isr = "idle")'
  BY DEF pio, handler
<1>. QED  BY <1>1, <1>2, <1>3, <1>4, <1>5

LEMMA FastFallIInv == IInv /\ FastFall => IInv'
<1>. SUFFICES ASSUME IInv, FastFall PROVE IInv'
  OBVIOUS
<1>1. Flags'
  BY FlagsKept DEF IInv, Next
<1>2. Timers' /\ EnableLags'
  BY DEF IInv, FastFall, Timers, EnableLags
<1>3. UNCHANGED <<direction, edgeCap, isr>> /\ (FromSlow => FromSlow')
  BY DEF IInv, FastFall, FromSlow, RiseLags, EdgeLags, WordLags, HandlerSteps, Answers,
         pio, handler
<1>. QED  BY <1>1, <1>2, <1>3 DEF IInv

LEMMA SlowRiseIInv == IInv /\ SlowRise => IInv'
<1>. SUFFICES ASSUME IInv, SlowRise PROVE IInv'
  OBVIOUS
<1>1. Flags'
  BY FlagsKept DEF IInv, Next
<1>2. Timers' /\ EnableLags'
  BY DEF IInv, SlowRise, Timers, EnableLags
<1>3. CASE direction = "slow2fast"
  <2>1. since = Service /\ ~edgeCap /\ isr = "idle"
    BY <1>3, IdleAtRise
  <2>2. UNCHANGED <<d1, d2, edgeCap, isr>> /\ slow' /\ age' = 0 /\ since' = 0
    BY <1>3 DEF SlowRise, pio, handler
  <2>3. RiseLags'
    BY <2>2 DEF RiseLags
  <2>4. EdgeLags'
    BY <1>3, <2>2 DEF IInv, SlowRise, Timers, FromSlow, EdgeLags
  <2>5. WordLags'
    BY <1>3 DEF SlowRise, WordLags
  <2>6. HandlerSteps'
    BY <2>1, <2>2 DEF HandlerSteps
  <2>. QED  BY <1>1, <1>2, <1>3, <2>3, <2>4, <2>5, <2>6 DEF IInv, FromSlow, SlowRise
<1>4. CASE direction # "slow2fast"
  BY <1>1, <1>2, <1>4 DEF IInv, SlowRise, pio, handler
<1>. QED  BY <1>3, <1>4

LEMMA SlowFallIInv == IInv /\ SlowFall => IInv'
<1>. SUFFICES ASSUME IInv, SlowFall PROVE IInv'
  OBVIOUS
<1>1. Flags'
  BY FlagsKept DEF IInv, Next
<1>2. Timers' /\ EnableLags'
  BY DEF IInv, SlowFall, Timers, EnableLags
<1>3. UNCHANGED <<direction, since, reg1, reg3, sync, d1, d2, edgeCap, isr, value, increment, sent>>
  BY DEF SlowFall, pio, handler
<1>4. FromSlow => RiseLags' /\ EdgeLags'
  BY <1>3 DEF IInv, SlowFall, Timers, FromSlow, RiseLags, EdgeLags
<1>5. FromSlow => WordLags' /\ HandlerSteps'
  BY <1>3 DEF FromSlow, WordLags, HandlerSteps, Answers
<1>. QED  BY <1>1, <1>2, <1>3, <1>4, <1>5 DEF IInv, FromSlow

LEMMA HandlerIInv == IInv /\ Handler => IInv'
<1>. SUFFICES ASSUME IInv, Handler PROVE IInv'
  OBVIOUS
<1>1. Flags'
  BY FlagsKept DEF IInv, Next
<1>2. direction = "slow2fast" /\ edgeCap
  BY DEF Handler, ReadValue, WriteIncrement, ClearEdge, IInv, FromSlow, HandlerSteps
<1>3. UNCHANGED <<direction, fast, slow, age, since, q1, enable, reg1, reg3, sync, d1, d2, sent>>
  BY DEF Handler, ReadValue, WriteIncrement, ClearEdge, Hardware
<1>4. Timers' /\ EnableLags' /\ RiseLags' /\ EdgeLags' /\ WordLags'
  BY <1>2, <1>3 DEF IInv, Timers, EnableLags, FromSlow, RiseLags, EdgeLags, WordLags
<1>5. HandlerSteps'
  <2>. USE DEF HandlerSteps, Answers
  <2>1. CASE ReadValue
    BY <1>2, <1>3, <2>1 DEF ReadValue, IInv, Timers, FromSlow, WordLags
  <2>2. CASE WriteIncrement
    BY <1>2, <1>3, <2>2 DEF WriteIncrement, IInv, Timers, FromSlow
  <2>3. CASE ClearEdge
    BY <1>2, <1>3, <2>3 DEF ClearEdge, IInv, Timers, FromSlow
  <2>. QED  BY <2>1, <2>2, <2>3 DEF Handler
<1>. QED  BY <1>1, <1>2, <1>3, <1>4, <1>5 DEF IInv, FromSlow

\* A step that leaves everything but the shift register alone.
LEMMA IdleIInv ==
  ASSUME IInv, UNCHANGED <<direction, fast, slow, age, since, q1, enable, reg1, reg3, sync,
                           pio, handler, sent>>
  PROVE  IInv'
  BY DEF IInv, Flags, Timers, EnableLags, FromSlow, RiseLags, EdgeLags, WordLags,
         HandlerSteps, Answers, pio, handler

LEMMA NextIInv == IInv /\ [Next]_vars => IInv'
<1>. SUFFICES ASSUME IInv, [Next]_vars PROVE IInv'
  OBVIOUS
<1>1. CASE ResetLfsr
  BY <1>1, IdleIInv DEF ResetLfsr
<1>2. CASE UNCHANGED vars
  BY <1>2, IdleIInv DEF vars
<1>. QED
  BY <1>1, <1>2, FastRiseIInv, FastFallIInv, SlowRiseIInv, SlowFallIInv, HandlerIInv DEF Next

\* The invariant holds throughout.
LEMMA Invariance == Spec => []IInv
<1>. QED  BY InitIInv, NextIInv, PTL DEF Spec

-----------------------------------------------------------------------------

\* No word is copied while it changes (my_clockDomain_slow2fast.sv,
\* my_clockDomain_fast2slow.sv): when the slow clock rises the middle register
\* is not being loaded, for every ratio of the clocks of at least three fast
\* cycles to half a slow one and every position of the edges.
THEOREM Crossing == Spec => NoTornWord
<1>1. IInv => [SlowRise => ~enable]_vars
  BY DEF IInv, SlowRise, Timers, EnableLags
<1>. QED  BY <1>1, Invariance, PTL DEF NoTornWord

\* Once an interrupt of the shift register is served (student_code.c), and
\* until the next one, the increment is that of the bit that left the shift
\* register, and the crossing has delivered the same bit.
THEOREM Modulation == Spec => []IncrementFollowsBit
<1>1. IInv => IncrementFollowsBit
  BY DEF IInv, Timers, FromSlow, WordLags, HandlerSteps, Answers, IncrementFollowsBit
<1>. QED  BY <1>1, Invariance, PTL
=============================================================================
