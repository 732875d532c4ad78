------------------------------ MODULE Sorting ------------------------------
(***************************************************************************)
(* The elements of a finite set in order: what the b-trees of the memory   *)
(* engine give.                                                             *)
(***************************************************************************)
EXTENDS Integers, Sequences, FiniteSets

(* The sequence of the elements of S, ordered by the set of pairs R.        *)
Arranged(S, R) ==
    CHOOSE q \in [1 .. Cardinality(S) -> S] :
        \A i, j \in 1 .. Cardinality(S) : i < j => <<q[i], q[j]>> \in R

(* R orders S strictly and totally.                                         *)
Orders(R, S) ==
    /\ \A a \in S : <<a, a>> \notin R
    /\ \A a, b, c \in S : <<a, b>> \in R /\ <<b, c>> \in R => <<a, c>> \in R
    /\ \A a, b \in S : a = b \/ <<a, b>> \in R \/ <<b, a>> \in R
=============================================================================
