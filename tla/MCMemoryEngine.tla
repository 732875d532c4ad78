--------------------------- MODULE MCMemoryEngine ---------------------------
(***************************************************************************)
(* Small instances of MemoryEngine.                                         *)
(***************************************************************************)
EXTENDS MemoryEngine, TLC

Sym == Permutations(Key) \cup Permutations(Handle) \cup Permutations(Name)
=============================================================================
