----------------------------- MODULE MCSequence -----------------------------
(***************************************************************************)
(* Small instances of Sequence, with machine integers of 6 bits.            *)
(***************************************************************************)
EXTENDS Sequence

MinInt6 == -32

SeqInfo(inc, min, max, start, cache, cycle) ==
    [IncrementBy |-> inc, Min |-> min, Max |-> max, Start |-> start,
     Cache |-> cache, Cycle |-> cycle]

Up    == SeqInfo(1, 1, 7, 2, 3, FALSE)

Kinds == {Up,
          SeqInfo(-1, -6, -1, -1, 3, FALSE),
          SeqInfo(2, 1, 9, 1, 3, FALSE),
          SeqInfo(1, 1, 4, 3, 2, TRUE),
          SeqInfo(-2, -4, 0, 0, 2, TRUE),
          SeqInfo(1, 1, 31, 27, 3, FALSE),
          SeqInfo(-1, MinInt6, -1, -28, 3, FALSE),
          SeqInfo(1, 1, 31, 29, 2, TRUE)}

(* The last three end with the machine integers, as the sequences of docids *)
(* and of stores do.                                                        *)
JustUp == {Up}
=============================================================================
