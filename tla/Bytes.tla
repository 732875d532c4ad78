------------------------------- MODULE Bytes -------------------------------
(***************************************************************************)
(* Go's package bytes, on byte slices as sequences of numbers.              *)
(***************************************************************************)
EXTENDS Integers, Sequences

(* bytes.HasPrefix.                                                         *)
HasPrefix(s, prefix) ==
    Len(prefix) <= Len(s) /\ \A i \in 1 .. Len(prefix) : s[i] = prefix[i]

(* bytes.Compare(a, b) < 0.                                                 *)
Less(a, b) ==
    \/ a # b /\ HasPrefix(b, a)
    \/ \E i \in DOMAIN a \cap DOMAIN b :
          a[i] < b[i] /\ \A j \in 1 .. i - 1 : a[j] = b[j]
=============================================================================
