----------------------------- MODULE MCCatalog -----------------------------
(* Catalog on small sets of names.  No action tells two table names apart.  *)
EXTENDS Catalog, TLC

Sym == Permutations(TableName)
=============================================================================
