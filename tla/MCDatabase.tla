----------------------------- MODULE MCDatabase -----------------------------
(***************************************************************************)
(* Small instances of Database.                                             *)
(***************************************************************************)
EXTENDS Database, TLC

AnyOption == [readOnly : BOOLEAN, attached : BOOLEAN]

(* What happens after two goroutines have shared a transaction is not       *)
(* explored: nothing is claimed of it.                                      *)
Unshared == ~shared

Sym == Permutations(Proc) \cup Permutations(Tx)
=============================================================================
