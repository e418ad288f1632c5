----------------------------- MODULE AudioClock -----------------------------
(***************************************************************************)
(* Lab 3's audio clock: a divider on the 27 MHz clock (my_clk_divider),    *)
(* its divisor, which two buttons step and a third restores on the 50 MHz  *)
(* clock (my_speed_ctrl), and the circuit that makes a pulse of 50 MHz     *)
(* cycles of every rising edge (my_FDC_async, four my_FDC flip-flops).     *)
(*                                                                         *)
(* The two clocks are unrelated: an edge of one comes before or after one  *)
(* of the other.  Between two edges of the 27 MHz clock lie two of the     *)
(* 50 MHz clock, but only one every sixth or seventh time (50/27 = 1.85).  *)
(* The divisor crosses without a synchroniser: if it changes just before   *)
(* an edge of the divider, each of the divider's two registers may take    *)
(* either branch.                                                          *)
(***************************************************************************)
EXTENDS Integers

CONSTANTS
    Modulus,   \* values of the divisor's and the counter's 32 bits, 2^32
    Default,   \* speed_default, 307
    Step,      \* what a press changes, 16
    Apart      \* least number of 50 MHz cycles between two presses, millions

ASSUME ClockAssumption ==
    /\ Modulus \in Nat \ {0} /\ Default \in Nat \ {0}
    /\ Step \in Nat \ {0} /\ Apart \in Nat \ {0}
    /\ Default < Modulus
    /\ Modulus % Step = 0 /\ Default % Step # 0

VARIABLES
    clk50,      \* the 50 MHz clock is high
    since,      \* its rising edges since the last edge of the 27 MHz clock
    full,       \* 27 MHz cycles since one that held a single edge, at most 3
    divisor,    \* temp_speed
    changing,   \* the divisor's bits are changing
    rest,       \* 50 MHz cycles since the last press, at most Apart
    counter,    \* the divider's counter
    outclk,     \* the divided clock, async_sig of the pulse maker
    first, second, out, fdc1,  \* the outputs of the four flip-flops
    due,        \* history: rising edges of outclk not yet turned into a pulse
    width,      \* history: 50 MHz cycles the last pulse has lasted
    top         \* history: largest divisor since the counter was last cleared

pulse == <<first, second, out, fdc1, due, width>>
divider == <<counter, outclk>>
vars == <<clk50, since, full, divisor, changing, rest, counter, outclk, pulse, top>>

Larger(m, n) == IF m > n THEN m ELSE n

-----------------------------------------------------------------------------

\* my_speed_ctrl: at a 50 MHz edge a button is seen or not.
Divisors == {(divisor + Step) % Modulus, (divisor - Step + Modulus) % Modulus, Default}

SpeedCtrl ==
    /\ \/ divisor' = divisor /\ rest' = (IF rest < Apart THEN rest + 1 ELSE Apart)
       \/ rest = Apart /\ divisor' \in Divisors /\ rest' = 0
    /\ changing' = (divisor' # divisor)
    /\ top' = Larger(top, divisor')

\* A rising 50 MHz edge: the second and third flip-flop.
Rise50 ==
    /\ ~clk50 /\ clk50' = TRUE
    /\ since < 2 /\ since' = since + 1
    /\ second' = first
    /\ out' = second
    /\ due' = IF second /\ ~out THEN due - 1 ELSE due
    /\ width' = IF second THEN (IF out THEN width + 1 ELSE 1) ELSE width
    /\ SpeedCtrl
    /\ UNCHANGED <<full, divider, first, fdc1>>

\* Fault: the trap is cleared as soon as the second flip-flop has the edge.
Fall50Early ==
    /\ clk50 /\ clk50' = FALSE
    /\ changing' = FALSE
    /\ fdc1' = second
    /\ first' = (first /\ ~second)
    /\ UNCHANGED <<since, full, divisor, rest, divider, second, out, due, width, top>>

\* A falling edge: the fourth flip-flop follows the pulse, and while it is high
\* it clears the first.
Fall50 ==
    /\ clk50 /\ clk50' = FALSE
    /\ changing' = FALSE
    /\ fdc1' = out
    /\ first' = (first /\ ~out)
    /\ UNCHANGED <<since, full, divisor, rest, divider, second, out, due, width, top>>

\* Fault: the counter is compared for equality.
ReachesExactly == counter = divisor - 1

\* counter >= clk_divisor - 1
Reaches == counter >= (divisor - 1 + Modulus) % Modulus

\* An edge of the 27 MHz clock.
Tick27 ==
    /\ since = 2 \/ (since = 1 /\ full = 3)
    /\ since' = 0
    /\ full' = IF since = 1 THEN 0 ELSE IF full = 3 THEN 3 ELSE full + 1
    /\ \E clear, toggle \in IF changing THEN BOOLEAN ELSE {Reaches} :
          /\ counter' = IF clear THEN 0 ELSE (counter + 1) % Modulus
          /\ outclk' = (outclk # toggle)
          /\ first' = IF toggle /\ ~outclk THEN ~fdc1 ELSE first
          /\ due' = IF toggle /\ ~outclk THEN due + 1 ELSE due
          /\ top' = IF clear THEN divisor
                    ELSE IF changing THEN Larger(top, counter + 2) ELSE top
    /\ changing' = FALSE
    /\ UNCHANGED <<clk50, divisor, rest, second, out, fdc1, width>>

-----------------------------------------------------------------------------

Init ==
    /\ clk50 = FALSE
    /\ since \in 0 .. 2
    /\ full \in 0 .. 3
    /\ divisor = Default
    /\ changing = FALSE
    /\ rest = Apart
    /\ counter = 0
    /\ outclk = FALSE
    /\ first = FALSE /\ second = FALSE /\ out = FALSE /\ fdc1 = FALSE
    /\ due = 0
    /\ width = 0
    /\ top = Default

Next == Rise50 \/ Fall50 \/ Tick27

Spec == Init /\ [][Next]_vars

-----------------------------------------------------------------------------
(* Properties.                                                             *)

\* Every rising edge of the divided clock becomes exactly one pulse of exactly
\* two 50 MHz cycles, at every phase of the clocks and for every divisor the
\* buttons can reach: none comes while the trap is still being cleared for the
\* one before.
EveryEdgeOnePulse ==
    /\ due \in {0, 1}
    /\ due = 1 => first \/ second
    /\ width <= 2
    /\ ~out => width \in {0, 2}

\* The counter never passes the largest divisor in force since it was cleared:
\* one that drops below the running count ends the half-period at once and does
\* not wait for the counter to wrap.
NeverOverruns == counter < top
=============================================================================
