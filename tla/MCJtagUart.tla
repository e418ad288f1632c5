----------------------------- MODULE MCJtagUart -----------------------------
(***************************************************************************)
(* JtagUart for TLC: a ring of three slots, FIFOs of two characters of     *)
(* which the one interrupts when empty and the other when full or at a     *)
(* pause, and three programs.                                              *)
(***************************************************************************)
EXTENDS JtagUart

CONSTANTS W1, W2, R1, a, b

\* Two writers, one of which calls with O_NONBLOCK.
TwoWriters == [calls |-> {<<W1, FALSE>>, <<W2, TRUE>>}, counts |-> {1, 2},
               written |-> {a, b}, typed |-> {}]

\* A reader, with and without O_NONBLOCK, of what is typed.
OneReader == [calls |-> {<<R1, FALSE>>, <<R1, TRUE>>}, counts |-> {1, 2},
              written |-> {}, typed |-> {a, b}]

\* A writer and a reader, to whom nobody types: they share the timeout flag.
WriterAndReader == [calls |-> {<<W1, FALSE>>, <<R1, FALSE>>}, counts |-> {2},
                    written |-> {a}, typed |-> {}]

MCPrograms == {TwoWriters, OneReader, WriterAndReader}

=============================================================================
