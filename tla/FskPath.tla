------------------------------- MODULE FskPath -------------------------------
(***************************************************************************)
(* How a word crosses between two clocks in Lab 5, and what FSK makes of   *)
(* it.  The crossing (my_clockDomain_slow2fast, my_clockDomain_fast2slow)  *)
(* is three registers in a row; the middle one is loaded under an enable,  *)
(* which is the slow clock as it was two falling edges of the fast clock   *)
(* ago.  In the slow-to-fast direction the word is the low bits of the     *)
(* shift register my_lfsr, which the same slow clock shifts; its rising    *)
(* edge also interrupts the processor, whose handler (student_code.c)      *)
(* reads the bit that arrived and sets the DDS increment by it.            *)
(*                                                                         *)
(* The fast clock is cut into its two edges.  Edges of the slow clock fall *)
(* anywhere between them, at least Half fast cycles apart; the handler's   *)
(* accesses too, within Service cycles of the interrupting edge.           *)
(***************************************************************************)
EXTENDS Integers

CONSTANTS
    Half,      \* least number of fast cycles the slow clock stays high, or low
    Latency,   \* least number from the slow edge to the handler's first access
    Service    \* largest number from the slow edge to the handler's end

ASSUME PathAssumption ==
    /\ {Half, Latency, Service} \subseteq Nat
    /\ Half >= 2
    /\ 4 <= Latency /\ Latency < Service /\ Service < 2 * Half

Words == 0 .. 3
Direct == {"slow2fast", "fast2slow"}
High == 429   \* 0x1AD, the increment for a bit that is one
Low == 86     \* 0x56

VARIABLES
    direction,  \* which of the two crossings this is, fixed
    fast,       \* the fast clock is high
    slow,       \* the slow clock is high
    age,        \* fast cycles since the slow clock changed, at most Half
    since,      \* fast cycles since its last rising edge, at most Service
    q1, enable, \* the two flip-flops of the enable
    reg1, reg3, sync,  \* the three registers; sync is sync_out
    lfsr,       \* the shift register
    d1, d2, edgeCap,   \* the interrupt generator: its input, delayed, and the capture
    isr,        \* the handler: "idle", or the access that is next
    value,      \* lfsr_value
    increment,  \* dds_increment, 0 before the first interrupt
    sent        \* history: the word the slow register took at the last edge

pio == <<d1, d2, edgeCap>>
handler == <<isr, value, increment>>
vars == <<direction, fast, slow, age, since, q1, enable, reg1, reg3, sync, lfsr, pio, handler, sent>>

Bit(n, i) == (n \div 2^i) % 2

\* my_lfsr: the exclusive or of bits 0 and 2 is shifted in at the top.
Shifted == 16 * ((Bit(lfsr, 0) + Bit(lfsr, 2)) % 2) + lfsr \div 2

-----------------------------------------------------------------------------

\* Time does not pass the handler's deadline while it has work to do.
Served == (edgeCap \/ isr # "idle") => since + 1 < Service

Loaded(r, new) == IF enable THEN new ELSE r

\* A rising edge of the fast clock.  In fast2slow the word comes from this side.
FastRise ==
    /\ ~fast /\ fast' = TRUE
    /\ Served
    /\ age' = IF age < Half THEN age + 1 ELSE Half
    /\ since' = IF since < Service THEN since + 1 ELSE Service
    /\ reg3' = Loaded(reg3, reg1)
    /\ IF direction = "slow2fast"
         THEN /\ sync' = reg3
              /\ d1' = slow /\ d2' = d1
              /\ edgeCap' = (edgeCap \/ (d1 /\ ~d2))
              /\ UNCHANGED reg1
         ELSE /\ reg1' \in Words
              /\ UNCHANGED <<sync, pio>>
    /\ UNCHANGED <<direction, slow, q1, enable, lfsr, handler, sent>>

\* Fault: the enable is the low half of the slow clock.
FastFallInverted ==
    /\ fast /\ fast' = FALSE
    /\ q1' = ~slow
    /\ enable' = q1
    /\ UNCHANGED <<direction, slow, age, since, reg1, reg3, sync, lfsr, pio, handler, sent>>

FastFall ==
    /\ fast /\ fast' = FALSE
    /\ q1' = slow
    /\ enable' = q1
    /\ UNCHANGED <<direction, slow, age, since, reg1, reg3, sync, lfsr, pio, handler, sent>>

\* A rising edge of the slow clock.  The shift register moves on as its old
\* word is taken.
SlowRise ==
    /\ ~slow /\ slow' = TRUE
    /\ age = Half /\ age' = 0
    /\ IF direction = "slow2fast"
         THEN /\ reg1' = lfsr % 4
              /\ sent' = lfsr % 4
              /\ lfsr' = Shifted
              /\ since' = 0
              /\ UNCHANGED sync
         ELSE /\ sync' = reg3
              /\ UNCHANGED <<since, reg1, sent, lfsr>>
    /\ UNCHANGED <<direction, fast, q1, enable, reg3, pio, handler>>

SlowFall ==
    /\ slow /\ slow' = FALSE
    /\ age = Half /\ age' = 0
    /\ UNCHANGED <<direction, fast, since, q1, enable, reg1, reg3, sync, lfsr, pio, handler, sent>>

-----------------------------------------------------------------------------
(* The handler, one access to a port at a time.                            *)

Hardware == <<direction, fast, slow, age, since, q1, enable, reg1, reg3, sync, lfsr, d1, d2, sent>>

\* Fault: the handler reads the shift register itself.
ReadValueAhead ==
    /\ isr = "idle" /\ edgeCap /\ since >= Latency
    /\ value' = Bit(lfsr, 0)
    /\ isr' = "write"
    /\ UNCHANGED <<Hardware, edgeCap, increment>>

ReadValue ==
    /\ isr = "idle" /\ edgeCap /\ since >= Latency
    /\ value' = Bit(sync, 0)
    /\ isr' = "write"
    /\ UNCHANGED <<Hardware, edgeCap, increment>>

WriteIncrement ==
    /\ isr = "write"
    /\ increment' = IF value = 1 THEN High ELSE Low
    /\ isr' = "clear"
    /\ UNCHANGED <<Hardware, edgeCap, value>>

\* An edge captured since the interrupt was taken is cleared with it.
ClearEdge ==
    /\ isr = "clear"
    /\ edgeCap' = FALSE
    /\ isr' = "idle"
    /\ UNCHANGED <<Hardware, value, increment>>

\* KEY[1] puts the shift register back.
ResetLfsr ==
    /\ direction = "slow2fast"
    /\ lfsr' = 1
    /\ UNCHANGED <<direction, fast, slow, age, since, q1, enable, reg1, reg3, sync, pio, handler, sent>>

-----------------------------------------------------------------------------

\* The shift register has been reset and init_lfsr_interrupt called.
Init ==
    /\ direction \in Direct
    /\ fast = FALSE /\ slow = FALSE /\ age \in 0 .. Half /\ since = Service
    /\ q1 = FALSE /\ enable = FALSE
    /\ reg1 = 0 /\ reg3 = 0 /\ sync = 0
    /\ lfsr = 1
    /\ d1 = FALSE /\ d2 = FALSE /\ edgeCap = FALSE
    /\ isr = "idle" /\ value = 0
    /\ increment = 0
    /\ sent = 0

Handler == ReadValue \/ WriteIncrement \/ ClearEdge

Next == FastRise \/ FastFall \/ SlowRise \/ SlowFall \/ Handler \/ ResetLfsr

Spec == Init /\ [][Next]_vars

-----------------------------------------------------------------------------
(* Properties.                                                             *)

\* No word is copied while it changes: when the slow clock rises, at which the
\* first register (slow to fast) or the last one (fast to slow) takes a word,
\* the middle register is not being loaded, wherever the edges fall.
NoTornWord == [][SlowRise => ~enable]_vars

\* Once an interrupt is served, and until the next one, the increment is that
\* of the bit that left the shift register at the interrupting edge, and the
\* same bit has arrived on the fast side: the handler does not read the port
\* before the crossing, and no edge is cleared unserved.
IncrementFollowsBit ==
    direction = "slow2fast" /\ increment # 0 /\ since = Service =>
       /\ sync = sent
       /\ increment = IF Bit(sent, 0) = 1 THEN High ELSE Low
=============================================================================
