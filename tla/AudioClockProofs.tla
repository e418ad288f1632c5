-------------------------- MODULE AudioClockProofs --------------------------
(***************************************************************************)
(* Proofs about AudioClock for every width of its registers and every      *)
(* sequence of presses: the divisor is never zero and never wraps to zero, *)
(* the counter never runs past the divisor it started under, and each edge *)
(* of the divided clock makes one pulse.                                   *)
(***************************************************************************)
EXTENDS AudioClock, TLAPS

\* What the assumption says of each constant.
LEMMA Constants ==
    /\ Modulus \in Nat /\ Default \in Nat /\ Step \in Nat /\ Apart \in Nat
    /\ Step >= 1 /\ Default >= 1 /\ Default < Modulus
    /\ Modulus % Step = 0 /\ Default % Step # 0
  BY ClockAssumption DEF ClockAssumption

USE Constants

\* The divisors the buttons reach: they keep the remainder of the default.
OnGrid(d) ==
    /\ d \in 1 .. Modulus - 1
    /\ \E k \in Nat : d = (Default % Step) + k * Step

IInv ==
    /\ OnGrid(divisor)
    /\ counter \in 0 .. Modulus - 1
    /\ top \in Nat /\ divisor <= top
    /\ counter < top

-----------------------------------------------------------------------------
(* Arithmetic.                                                             *)

LEMMA ModBelow == ASSUME NEW a \in Nat, NEW b \in Nat, a < b PROVE a % b = a
  OBVIOUS

\* A sum and a difference of registers that carry or borrow at most once.
LEMMA ModSum ==
  ASSUME NEW a \in Nat, NEW b \in Nat, NEW n \in Nat, a < n, b <= n
  PROVE  (a + b) % n = IF a + b < n THEN a + b ELSE a + b - n
  OBVIOUS

LEMMA ModDifference ==
  ASSUME NEW a \in Nat, NEW b \in Nat, NEW n \in Nat, a < n, b <= n
  PROVE  (a - b + n) % n = IF a >= b THEN a - b ELSE a - b + n
  OBVIOUS

\* The modulus is a number of steps, and the default is not.
LEMMA Grid ==
    /\ Default % Step \in 1 .. Step - 1
    /\ Default = (Default % Step) + (Default \div Step) * Step /\ Default \div Step \in Nat
    /\ Modulus = (Modulus \div Step) * Step /\ Modulus \div Step \in Nat
    /\ Modulus \div Step >= 1 /\ Step <= Modulus
<1>1. Default % Step \in 1 .. Step - 1
  OBVIOUS
<1>2. Default = (Default % Step) + (Default \div Step) * Step /\ Default \div Step \in Nat
  OBVIOUS
<1>3. Modulus = (Modulus \div Step) * Step /\ Modulus \div Step \in Nat
  OBVIOUS
<1>4. Modulus \div Step >= 1
  BY <1>3
<1>5. (Modulus \div Step) * Step >= 1 * Step
  BY <1>3, <1>4
<1>. QED  BY <1>1, <1>2, <1>3, <1>4, <1>5

LEMMA DefaultOnGrid == OnGrid(Default)
<1>1. Default \in 1 .. Modulus - 1
  OBVIOUS
<1>. QED  BY <1>1, Grid DEF OnGrid

\* A press up stays on the grid, a carry out of the top bit included.
LEMMA StepUp ==
  ASSUME NEW d, OnGrid(d)
  PROVE  OnGrid((d + Step) % Modulus)
<1>. DEFINE r == Default % Step
            m == Modulus \div Step
<1>1. r \in 1 .. Step - 1 /\ m \in Nat /\ m >= 1 /\ Modulus = m * Step 
  BY Grid
<1>. HIDE DEF r, m
<1>0. Step <= Modulus
  BY Grid
<1>2. PICK k \in Nat : d = r + k * Step
  BY DEF OnGrid, r
<1>3. d \in 1 .. Modulus - 1
  BY DEF OnGrid
<1>4. d \in Nat /\ d < Modulus /\ Step \in Nat /\ Modulus \in Nat
  BY <1>3
<1>5. (d + Step) % Modulus = IF d + Step < Modulus THEN d + Step ELSE d + Step - Modulus
  BY <1>0, <1>4
<1>6. d + Step = r + (k + 1) * Step
  BY <1>1, <1>2
<1>7. CASE d + Step < Modulus
  <2>1. (d + Step) % Modulus = d + Step
    BY <1>7, <1>5
  <2>2. k + 1 \in Nat /\ d + Step \in 1 .. Modulus - 1
    BY <1>3, <1>7
  <2>. QED  BY <1>6, <2>1, <2>2 DEF OnGrid, r
<1>8. CASE d + Step >= Modulus
  <2>1. (d + Step) % Modulus = d + Step - Modulus
    BY <1>8, <1>4, <1>5
  <2>2. d + Step - Modulus = r + (k + 1 - m) * Step
    <3>1. (k + 1 - m) * Step = (k + 1) * Step - m * Step
      BY <1>1
    <3>2. d + Step - Modulus = r + ((k + 1) * Step - m * Step)
      BY <1>1, <1>3, <1>6
    <3>. QED  BY <3>1, <3>2
  <2>3. k + 1 - m >= 0
    <3>. SUFFICES ASSUME k + 1 - m <= -1 PROVE FALSE
      BY <1>1
    <3>1. (k + 1 - m) * Step <= (-1) * Step
      BY <1>1
    <3>. QED  BY <1>1, <1>3, <1>8, <2>2, <3>1
  <2>4. k + 1 - m \in Nat
    BY <2>3, <1>1
  <2>5. (k + 1 - m) * Step >= 0
    BY <2>4
  <2>6. (d + Step) % Modulus \in 1 .. Modulus - 1
    BY <1>1, <1>3, <2>1, <2>2, <2>5
  <2>. QED  BY <2>1, <2>2, <2>4, <2>6 DEF OnGrid, r
<1>. QED  BY <1>3, <1>7, <1>8

\* A press down stays on the grid, a borrow included.
LEMMA StepDown ==
  ASSUME NEW d, OnGrid(d)
  PROVE  OnGrid((d - Step + Modulus) % Modulus)
<1>. DEFINE r == Default % Step
            m == Modulus \div Step
<1>1. r \in 1 .. Step - 1 /\ m \in Nat /\ m >= 1 /\ Modulus = m * Step 
  BY Grid
<1>. HIDE DEF r, m
<1>0. Step <= Modulus
  BY Grid
<1>2. PICK k \in Nat : d = r + k * Step
  BY DEF OnGrid, r
<1>3. d \in 1 .. Modulus - 1
  BY DEF OnGrid
<1>4. d \in Nat /\ d < Modulus /\ Step \in Nat /\ Modulus \in Nat
  BY <1>3
<1>5. (d - Step + Modulus) % Modulus = IF d >= Step THEN d - Step ELSE d - Step + Modulus
  BY <1>0, <1>4, ModDifference
<1>6. CASE d >= Step
  <2>1. (d - Step + Modulus) % Modulus = d - Step
    BY <1>6, <1>5
  <2>2. d - Step = r + (k - 1) * Step
    BY <1>1, <1>2
  <2>3. k # 0
    BY <1>1, <1>2, <1>6
  <2>4. k - 1 \in Nat /\ (k - 1) * Step >= 0
    BY <2>3
  <2>5. d - Step \in 1 .. Modulus - 1
    BY <1>1, <1>3, <2>2, <2>4
  <2>. QED  BY <2>1, <2>2, <2>4, <2>5 DEF OnGrid, r
<1>7. CASE d < Step
  <2>1. (d - Step + Modulus) % Modulus = d - Step + Modulus
    BY <1>7, <1>4, <1>5
  <2>2. d - Step + Modulus = r + (k - 1 + m) * Step
    BY <1>1, <1>2
  <2>3. k - 1 + m \in Nat /\ (k - 1 + m) * Step >= 0
    BY <1>1
  <2>4. d - Step + Modulus \in 1 .. Modulus - 1
    BY <1>1, <1>3, <1>7, <2>2, <2>3
  <2>. QED  BY <2>1, <2>2, <2>3, <2>4 DEF OnGrid, r
<1>. QED  BY <1>3, <1>6, <1>7

\* A press of any button stays on the grid.
LEMMA PressKept ==
  ASSUME OnGrid(divisor), NEW d \in Divisors
  PROVE  OnGrid(d)
  BY DefaultOnGrid, StepUp, StepDown DEF Divisors

-----------------------------------------------------------------------------

\* The divider starts below its divisor.
LEMMA InitIInv == Init => IInv
  BY DefaultOnGrid DEF Init, IInv

\* An edge of the divider keeps its counter below the bound, whichever branch
\* its registers take while the divisor changes.
LEMMA TickIInv == IInv /\ Tick27 => IInv'
<1>. SUFFICES ASSUME IInv, Tick27 PROVE IInv'
  OBVIOUS
<1>1. divisor' = divisor /\ OnGrid(divisor) /\ divisor \in 1 .. Modulus - 1
  BY DEF IInv, Tick27, OnGrid
<1>2. PICK clear \in IF changing THEN BOOLEAN ELSE {Reaches} :
          /\ counter' = IF clear THEN 0 ELSE (counter + 1) % Modulus
          /\ top' = IF clear THEN divisor
                    ELSE IF changing THEN Larger(top, counter + 2) ELSE top
  BY DEF Tick27
<1>3. (divisor - 1 + Modulus) % Modulus = divisor - 1
  BY <1>1, ModDifference
<1>4. CASE clear
  BY <1>1, <1>2, <1>4 DEF IInv
<1>5. CASE ~clear /\ ~changing
  <2>0. ~Reaches
    BY <1>2, <1>5
  <2>1. counter < divisor - 1
    BY <1>1, <1>3, <2>0 DEF Reaches, IInv
  <2>2. counter' = counter + 1 /\ top' = top
    BY <1>1, <1>2, <1>5, <2>1, ModBelow DEF IInv
  <2>. QED  BY <1>1, <2>1, <2>2 DEF IInv
<1>6. CASE ~clear /\ changing
  <2>1. top' = Larger(top, counter + 2)
    BY <1>2, <1>6
  <2>2. top' \in Nat /\ top' >= top /\ top' >= counter + 2
    BY <2>1 DEF Larger, IInv
  <2>3. counter' = (counter + 1) % Modulus
    BY <1>2, <1>6
  <2>4. counter' \in 0 .. Modulus - 1 /\ counter' <= counter + 1
    <3>1. CASE counter + 1 < Modulus
      BY <2>3, <3>1, ModBelow DEF IInv
    <3>2. CASE counter + 1 = Modulus
      BY <2>3, <3>2, ModSum DEF IInv
    <3>. QED  BY <3>1, <3>2 DEF IInv
  <2>. QED  BY <1>1, <2>2, <2>4 DEF IInv
<1>. QED  BY <1>4, <1>5, <1>6

\* Every step keeps the invariant.
LEMMA NextIInv == IInv /\ [Next]_vars => IInv'
<1>. SUFFICES ASSUME IInv, [Next]_vars PROVE IInv'
  OBVIOUS
<1>1. CASE Rise50
  <2>1. UNCHANGED counter /\ top' = Larger(top, divisor')
    BY <1>1 DEF Rise50, SpeedCtrl, divider
  <2>2. OnGrid(divisor')
    BY <1>1, PressKept DEF Rise50, SpeedCtrl, IInv
  <2>3. divisor' \in Nat
    BY <2>2 DEF OnGrid
  <2>. QED  BY <2>1, <2>2, <2>3 DEF IInv, Larger
<1>2. CASE Fall50
  BY <1>2 DEF Fall50, IInv, divider
<1>3. CASE UNCHANGED vars
  BY <1>3 DEF vars, IInv
<1>. QED  BY <1>1, <1>2, <1>3, TickIInv DEF Next

-----------------------------------------------------------------------------

\* The counter never passes the largest divisor in force since it was cleared
\* (my_clk_divider.sv), for every divisor the buttons can reach from the
\* default (my_speed_ctrl.sv): none of them is zero, under which the counter
\* would run through all its values.
THEOREM Divider == Spec => []NeverOverruns
<1>1. IInv => NeverOverruns
  BY DEF IInv, NeverOverruns
<1>. QED  BY <1>1, InitIInv, NextIInv, PTL DEF Spec

-----------------------------------------------------------------------------
(***************************************************************************)
(* One pulse for each edge.                                                *)
(***************************************************************************)

\* The divisors keep a remainder of at least three (307 = 19 * 16 + 3), and a button
\* does not step the divisor twice within four cycles.  With less of either an edge
\* can come before the pulse maker is free, and is lost.
Spaced == Default % Step >= 3 /\ Apart >= 4

Flags ==
    /\ clk50 \in BOOLEAN /\ changing \in BOOLEAN /\ outclk \in BOOLEAN
    /\ first \in BOOLEAN /\ second \in BOOLEAN /\ out \in BOOLEAN /\ fdc1 \in BOOLEAN

Timers ==
    /\ since \in 0 .. 2 /\ full \in 0 .. 3 /\ rest \in 0 .. Apart
    /\ due \in Int /\ width \in Nat
    /\ changing => rest = 0 /\ clk50

\* The four flip-flops when r rising edges of the 50 MHz clock have come since an
\* edge of the divided clock that is on its way through them.
Passing(r) ==
    /\ first <=> r \in {0, 1} \/ (r = 2 /\ clk50)
    /\ second <=> r \in {1, 2}
    /\ out <=> r \in {2, 3}
    /\ fdc1 <=> (r = 2 /\ ~clk50) \/ r \in {3, 4}
    /\ r = 4 => clk50
    /\ due = IF r < 2 THEN 1 ELSE 0
    /\ width \in IF r < 2 THEN {0, 2} ELSE IF r = 2 THEN {1} ELSE {2}

\* The divider in the meantime, when g of those edges came before the last edge of
\* its own clock: none before the one that made the edge, one or two by the next,
\* three or four by the one after, and more before any other.  A divisor caught
\* changing can toggle the divided clock once at the wrong time, but not twice.
Dividing(g) ==
    /\ g \in 0 .. 4
    /\ g = 0 => outclk /\ (counter = 0 \/ rest = since)
    /\ g = 1 => full = 0
    /\ g \in {1, 2} /\ ~outclk => counter <= 1 /\ since <= rest /\ rest <= since + 2
    /\ g = 3 => full <= 1

Busy == \E r \in 0 .. 4 : Passing(r) /\ Dividing(r - since)

Quiet == ~first /\ ~second /\ ~out /\ ~fdc1 /\ due = 0 /\ width \in {0, 2}

PulseInv == IInv /\ Flags /\ Timers /\ (Quiet \/ Busy)

\* The pulse maker is quiet when the clocks start.
LEMMA InitPulse == Init => PulseInv
<1>. SUFFICES ASSUME Init PROVE PulseInv
  OBVIOUS
<1>1. Flags /\ Quiet
  BY DEF Init, Flags, Quiet
<1>2. Timers
  BY DEF Init, Timers
<1>. QED  BY <1>1, <1>2, InitIInv DEF PulseInv

\* A divisor on the grid is at least the remainder.
LEMMA AtLeastThree == ASSUME Spaced, NEW d, OnGrid(d) PROVE d \in Nat /\ d >= 3
<1>1. PICK k \in Nat : d = (Default % Step) + k * Step
  BY DEF OnGrid
<1>2. k * Step >= 0 /\ k * Step \in Int
  OBVIOUS
<1>. QED  BY <1>1, <1>2, Grid DEF Spaced

LEMMA RiseMoves ==
  ASSUME PulseInv, Rise50
  PROVE  /\ ~clk50 /\ clk50' /\ since < 2 /\ since' = since + 1
         /\ (second' <=> first) /\ (out' <=> second)
         /\ due' = IF second /\ ~out THEN due - 1 ELSE due
         /\ width' = IF second THEN (IF out THEN width + 1 ELSE 1) ELSE width
         /\ \/ rest' = (IF rest < Apart THEN rest + 1 ELSE Apart) /\ ~changing'
            \/ rest = Apart /\ rest' = 0
         /\ full' = full /\ counter' = counter /\ outclk' = outclk
         /\ (first' <=> first) /\ (fdc1' <=> fdc1)
         /\ changing' \in BOOLEAN /\ Flags'
<1>1. changing' = (divisor' # divisor)
  BY DEF Rise50, SpeedCtrl
<1>2. \/ divisor' = divisor /\ rest' = (IF rest < Apart THEN rest + 1 ELSE Apart)
      \/ rest = Apart /\ rest' = 0
  BY DEF Rise50, SpeedCtrl
<1>3. /\ \/ rest' = (IF rest < Apart THEN rest + 1 ELSE Apart) /\ ~changing'
         \/ rest = Apart /\ rest' = 0
      /\ changing' \in BOOLEAN
  BY <1>1, <1>2
<1>4. Flags'
  BY <1>3 DEF Rise50, PulseInv, Flags, divider
<1>. QED  BY <1>3, <1>4 DEF Rise50, divider

\* Each rising edge of the 50 MHz clock moves the pulse one flip-flop on.
LEMMA RisePulse ==
  ASSUME Spaced, PulseInv, Rise50
  PROVE  PulseInv'
<1>1. IInv' /\ Flags' /\ Flags /\ Timers /\ (Quiet \/ Busy)
  BY NextIInv, RiseMoves DEF PulseInv, Next
<1>2. Timers'
  BY <1>1, RiseMoves DEF Timers
<1>3. CASE Quiet
  <2>1. Quiet'
    BY <1>3, RiseMoves DEF Quiet
  <2>. QED  BY <1>1, <1>2, <2>1 DEF PulseInv
<1>4. CASE Busy
  <2>1. PICK r \in 0 .. 4 : Passing(r) /\ Dividing(r - since)
    BY <1>4 DEF Busy
  <2>2. r # 4 /\ r + 1 \in 0 .. 4
    BY <2>1, RiseMoves DEF Passing
  <2>3. r - since = (r + 1) - since'
    BY <1>1, <2>1, RiseMoves DEF Timers
  <2>4. Passing(r + 1)'
    BY <1>1, <2>1, <2>2, RiseMoves DEF Passing, Timers
  <2>5. Dividing((r + 1) - since)'
    BY <1>1, <2>1, <2>3, RiseMoves DEF Dividing, Timers, Spaced
  <2>6. Busy'
    BY <2>2, <2>4, <2>5 DEF Busy
  <2>. QED  BY <1>1, <1>2, <2>6 DEF PulseInv
<1>. QED  BY <1>1, <1>3, <1>4

\* A falling edge clears the trap behind the pulse.
LEMMA FallPulse ==
  ASSUME Spaced, PulseInv, Fall50
  PROVE  PulseInv'
<1>1. IInv' /\ Flags /\ Timers /\ (Quiet \/ Busy)
  BY NextIInv DEF PulseInv, Next
<1>2. /\ clk50 /\ ~clk50' /\ ~changing' /\ (fdc1' <=> out) /\ (first' <=> first /\ ~out)
      /\ UNCHANGED <<since, full, rest, counter, outclk, second, out, due, width>>
  BY DEF Fall50, divider
<1>3. Flags'
  BY <1>1 DEF Fall50, Flags, divider
<1>4. Timers'
  BY <1>1, <1>2 DEF Timers
<1>5. CASE Quiet
  BY <1>1, <1>2, <1>3, <1>4, <1>5 DEF PulseInv, Quiet
<1>6. CASE Busy
  <2>1. PICK r \in 0 .. 4 : Passing(r) /\ Dividing(r - since)
    BY <1>6 DEF Busy
  <2>2. CASE r = 4
    BY <1>1, <1>2, <1>3, <1>4, <2>1, <2>2 DEF PulseInv, Quiet, Passing
  <2>3. CASE r # 4
    <3>1. Passing(r)'
      BY <1>2, <2>1, <2>3 DEF Passing
    <3>2. Dividing(r - since)'
      BY <1>2, <2>1 DEF Dividing
    <3>. QED  BY <1>1, <1>3, <1>4, <3>1, <3>2 DEF PulseInv, Busy
  <2>. QED  BY <2>2, <2>3
<1>. QED  BY <1>1, <1>5, <1>6

LEMMA TickMoves ==
  ASSUME Spaced, PulseInv, Tick27
  PROVE  /\ since = 2 \/ (since = 1 /\ full = 3)
         /\ since' = 0
         /\ full' = IF since = 1 THEN 0 ELSE IF full = 3 THEN 3 ELSE full + 1
         /\ ~changing' /\ clk50' = clk50 /\ rest' = rest /\ width' = width
         /\ second' = second /\ out' = out /\ fdc1' = fdc1
         /\ \E clear, toggle \in BOOLEAN :
               /\ ~changing => (clear <=> toggle) /\ (toggle => counter >= 2)
               /\ counter' \in Nat /\ counter' <= counter + 1 /\ (clear => counter' = 0)
               /\ outclk' <=> (outclk <=> ~toggle)
               /\ IF toggle /\ ~outclk THEN (first' <=> ~fdc1) /\ due' = due + 1
                                       ELSE (first' <=> first) /\ due' = due
<1>1. PICK clear, toggle \in IF changing THEN BOOLEAN ELSE {Reaches} :
          /\ counter' = IF clear THEN 0 ELSE (counter + 1) % Modulus
          /\ outclk' = (outclk # toggle)
          /\ first' = IF toggle /\ ~outclk THEN ~fdc1 ELSE first
          /\ due' = IF toggle /\ ~outclk THEN due + 1 ELSE due
  BY Zenon DEF Tick27
<1>2. clear \in BOOLEAN /\ toggle \in BOOLEAN
  <2>1. CASE changing
    BY <1>1, <2>1, Zenon
  <2>2. CASE ~changing
    <3>1. Reaches \in BOOLEAN
      BY DEF Reaches, PulseInv, IInv
    <3>2. clear = Reaches /\ toggle = Reaches
      BY <1>1, <2>2, Zenon
    <3>. QED  BY <3>1, <3>2, Zenon
  <2>. QED  BY <2>1, <2>2, Zenon
<1>3. ~changing => (clear <=> Reaches) /\ (toggle <=> Reaches)
  BY <1>1, Zenon
<1>4. divisor \in 1 .. Modulus - 1 /\ divisor >= 3 /\ counter \in 0 .. Modulus - 1
  BY AtLeastThree DEF PulseInv, IInv, OnGrid
<1>5. (divisor - 1 + Modulus) % Modulus = divisor - 1
  BY <1>4, ModDifference
<1>6. Reaches => counter >= 2
  BY <1>4, <1>5 DEF Reaches
<1>7. (counter + 1) % Modulus \in Nat /\ (counter + 1) % Modulus <= counter + 1
  <2>1. CASE counter + 1 < Modulus
    BY <1>4, <2>1, ModBelow
  <2>2. CASE counter + 1 = Modulus
    BY <1>4, <2>2, ModSum
  <2>. QED  BY <1>4, <2>1, <2>2
<1>8. counter' \in Nat /\ counter' <= counter + 1 /\ (clear => counter' = 0)
  BY <1>1, <1>4, <1>7
<1>9. outclk \in BOOLEAN /\ first \in BOOLEAN /\ fdc1 \in BOOLEAN
  BY DEF PulseInv, Flags
<1>10. /\ outclk' <=> (outclk <=> ~toggle)
       /\ IF toggle /\ ~outclk THEN (first' <=> ~fdc1) /\ due' = due + 1
                               ELSE (first' <=> first) /\ due' = due
  BY <1>1, <1>2, <1>9
<1>11. \E c, t \in BOOLEAN :
          /\ ~changing => (c <=> t) /\ (t => counter >= 2)
          /\ counter' \in Nat /\ counter' <= counter + 1 /\ (c => counter' = 0)
          /\ outclk' <=> (outclk <=> ~t)
          /\ IF t /\ ~outclk THEN (first' <=> ~fdc1) /\ due' = due + 1
                             ELSE (first' <=> first) /\ due' = due
  <2>1. ~changing => (clear <=> toggle) /\ (toggle => counter >= 2)
    BY <1>3, <1>6, Zenon
  <2>. QED  BY <1>2, <1>8, <1>10, <2>1, Zenon
<1>12. /\ since = 2 \/ (since = 1 /\ full = 3)
       /\ since' = 0
       /\ full' = IF since = 1 THEN 0 ELSE IF full = 3 THEN 3 ELSE full + 1
       /\ ~changing' /\ clk50' = clk50 /\ rest' = rest /\ width' = width
       /\ second' = second /\ out' = out /\ fdc1' = fdc1
  BY DEF Tick27
<1>. QED  BY <1>11, <1>12

\* An edge of the divider finds the pulse maker quiet, or does not raise the
\* divided clock.
LEMMA TickPulse ==
  ASSUME Spaced, PulseInv, Tick27
  PROVE  PulseInv'
<1>1. IInv /\ IInv' /\ Flags /\ Timers /\ (Quiet \/ Busy)
  BY NextIInv DEF PulseInv, Next
<1>2. PICK clear, toggle \in BOOLEAN :
               /\ ~changing => (clear <=> toggle) /\ (toggle => counter >= 2)
               /\ counter' \in Nat /\ counter' <= counter + 1 /\ (clear => counter' = 0)
               /\ outclk' <=> (outclk <=> ~toggle)
               /\ IF toggle /\ ~outclk THEN (first' <=> ~fdc1) /\ due' = due + 1
                                       ELSE (first' <=> first) /\ due' = due
  BY TickMoves
<1>3. /\ since = 2 \/ (since = 1 /\ full = 3)
      /\ since' = 0
      /\ full' = IF since = 1 THEN 0 ELSE IF full = 3 THEN 3 ELSE full + 1
      /\ ~changing' /\ clk50' = clk50 /\ rest' = rest /\ width' = width
      /\ second' = second /\ out' = out /\ fdc1' = fdc1
  BY TickMoves
<1>4. Flags'
  <2>1. outclk' \in BOOLEAN /\ first' \in BOOLEAN /\ changing' \in BOOLEAN
    BY <1>1 DEF Tick27, Flags
  <2>. QED  BY <1>1, <1>3, <2>1 DEF Flags
<1>5. Timers'
  BY <1>1, <1>2, <1>3 DEF Timers
<1>6. counter \in Nat
  BY <1>1 DEF IInv
<1>7. CASE Quiet
  <2>1. CASE toggle /\ ~outclk
    <3>1. first' /\ ~second' /\ ~out' /\ ~fdc1' /\ due' = 1 /\ width' \in {0, 2} /\ outclk'
      BY <1>1, <1>2, <1>3, <1>7, <2>1 DEF Quiet, Flags
    <3>2. counter' = 0 \/ rest' = 0
      BY <1>1, <1>2, <1>3, <2>1 DEF Timers
    <3>3. Passing(0)' /\ Dividing(0 - since)'
      BY <1>3, <3>1, <3>2 DEF Passing, Dividing
    <3>. QED  BY <1>1, <1>4, <1>5, <3>3 DEF PulseInv, Busy
  <2>2. CASE ~(toggle /\ ~outclk)
    <3>1. Quiet'
      BY <1>1, <1>2, <1>3, <1>7, <2>2 DEF Quiet, Flags
    <3>. QED  BY <1>1, <1>4, <1>5, <3>1 DEF PulseInv
  <2>. QED  BY <2>1, <2>2
<1>8. CASE Busy
  <2>1. PICK r \in 0 .. 4 : Passing(r) /\ Dividing(r - since)
    BY <1>8 DEF Busy
  <2>2. r - since \in {0, 1, 2}
    BY <1>1, <1>3, <2>1 DEF Dividing, Timers
  <2>3. ~(toggle /\ ~outclk)
    <3>1. CASE r - since = 0
      BY <2>1, <3>1 DEF Dividing
    <3>2. CASE r - since \in {1, 2}
      <4>1. ~outclk => counter <= 1 /\ rest >= 1
        BY <1>1, <1>3, <2>1, <3>2 DEF Dividing, Timers
      <4>2. rest >= 1 => ~changing
        BY <1>1 DEF Timers
      <4>. QED  BY <1>2, <1>6, <4>1, <4>2
    <3>. QED  BY <2>2, <3>1, <3>2
  <2>4. (first' <=> first) /\ due' = due
    BY <1>2, <2>3
  <2>5. Passing(r)'
    BY <1>3, <2>1, <2>4 DEF Passing
  <2>6. Dividing(r - since)'
    <3>1. CASE r - since = 0
      <4>1. outclk /\ (counter = 0 \/ rest = since) /\ r = since
        BY <1>1, <2>1, <3>1 DEF Dividing, Timers
      <4>2. ASSUME ~outclk' PROVE counter' <= 1 /\ rest' <= 2
        <5>1. toggle
          BY <1>1, <1>2, <4>1, <4>2 DEF Flags
        <5>2. CASE changing
          <6>1. rest = 0 /\ since >= 1
            BY <1>1, <1>3, <5>2 DEF Timers
          <6>2. counter = 0
            BY <1>1, <4>1, <6>1 DEF Timers
          <6>. QED  BY <1>2, <1>3, <6>1, <6>2
        <5>3. CASE ~changing
          <6>1. counter >= 2 /\ counter' = 0
            BY <1>2, <5>1, <5>3
          <6>2. rest = since
            BY <4>1, <6>1
          <6>. QED  BY <1>1, <1>3, <6>1, <6>2 DEF Timers
        <5>. QED  BY <5>2, <5>3
      <4>. QED  BY <1>1, <1>3, <1>5, <4>1, <4>2 DEF Dividing, Timers
    <3>2. CASE r - since \in {1, 2}
      BY <1>1, <1>3, <2>1, <3>2 DEF Dividing, Timers
    <3>. QED  BY <2>2, <3>1, <3>2
  <2>. QED  BY <1>1, <1>4, <1>5, <2>5, <2>6 DEF PulseInv, Busy
<1>. QED  BY <1>1, <1>7, <1>8

\* With a remainder of three or more and presses at least four cycles apart, every rising
\* edge of the divided clock becomes exactly one pulse of two cycles (my_FDC_async.sv),
\* whatever the phase of the two clocks, the divisor, or what the divider makes of a
\* divisor that is changing.
THEOREM Pulses ==
  ASSUME Spaced
  PROVE  Spec => []EveryEdgeOnePulse
<1>1. PulseInv /\ [Next]_vars => PulseInv'
  <2>. SUFFICES ASSUME PulseInv, [Next]_vars PROVE PulseInv'
    OBVIOUS
  <2>1. CASE UNCHANGED vars
    <3>1. /\ IInv' /\ Flags' /\ Timers' /\ (Quiet \/ Busy)
          /\ Quiet => Quiet'
      BY <2>1, NextIInv DEF PulseInv, vars, pulse, divider, Flags, Timers, Quiet
    <3>2. Busy => Busy'
      BY <2>1 DEF Busy, Passing, Dividing, vars, pulse, divider
    <3>. QED  BY <3>1, <3>2 DEF PulseInv
  <2>. QED  BY <2>1, RisePulse, FallPulse, TickPulse DEF Next
<1>2. PulseInv => EveryEdgeOnePulse
  <2>. SUFFICES ASSUME PulseInv PROVE EveryEdgeOnePulse
    OBVIOUS
  <2>1. CASE Quiet
    BY <2>1 DEF Quiet, EveryEdgeOnePulse
  <2>2. CASE Busy
    <3>1. PICK r \in 0 .. 4 : Passing(r)
      BY <2>2 DEF Busy
    <3>. QED  BY <3>1 DEF Passing, EveryEdgeOnePulse
  <2>. QED  BY <2>1, <2>2 DEF PulseInv
<1>. QED  BY <1>1, <1>2, InitPulse, PTL DEF Spec

=============================================================================
