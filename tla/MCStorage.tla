------------------------------ MODULE MCStorage ------------------------------
(***************************************************************************)
(* Small instances of what database and catalog keep in stores: a sequence, *)
(* the catalog, and a table with its indexes.  One part is chosen at the    *)
(* start; the variables of the others keep their initial values.            *)
(*                                                                         *)
(* The catalog has two tables and two stores, or one table at a time, three *)
(* stores and transactions of one statement.                                *)
(***************************************************************************)
EXTENDS MCSequence, Catalog, TLC

CONSTANT Field

VARIABLES part, schema, docid, db, tblSaved, tx, nops, scan, torn

tblVars == <<schema, docid, db, tblSaved, tx, nops, scan, torn>>

ASSUME StorageAssumption == CatalogAssumptions /\ NewLists \subseteq Lists

Number(t, n) == [t |-> t, b |-> <<IF t = 144 THEN 0 ELSE 1, n>>]

Ix(paths, unique, typed) == [paths |-> paths, unique |-> unique, typed |-> typed]

\* A table with an untyped primary key; one with docids, a unique index and a
\* typed one; one with an integer primary key and a composite index.
Schemas ==
    {[pk |-> "any", notNull |-> {}, index |-> <<Ix(<<"a">>, FALSE, FALSE)>>],
     [pk |-> "docid", notNull |-> {}, index |-> <<Ix(<<"a">>, TRUE, FALSE), Ix(<<"b">>, FALSE, TRUE)>>],
     [pk |-> "integer", notNull |-> {"a"}, index |-> <<Ix(<<"a">>, TRUE, TRUE), Ix(<<"b", "a">>, FALSE, FALSE)>>]}

table == INSTANCE Table WITH
    Schema <- Schemas,
    Pk <- {Number(144, 1), Number(144, 2)},
    Written <- {[t |-> 0, b |-> <<>>], Number(160, 1), Number(160, 2)},
    MaxDocs <- 2, MaxOps <- 2, BatchSize <- 1,
    saved <- tblSaved

\* The tables whose name, or a name generated from it, is in use.
Tables ==
    {t \in TableName : \E n \in {t} \cup {g \in Generated : g[1] = t} :
                           {s.cache[n], s.rows[n], saved.rows[n]} # {None}}

\* The third store is for the databases that have one table at a time, and
\* transactions of one statement.
Stores == s.cur > 2 => Cardinality(Tables) <= 1 /\ stmts < 2

StorageInit ==
    /\ part \in {"sequence", "catalog", "table"}
    /\ SequenceInit /\ Init /\ table!Init
    /\ part # "sequence" => Info = Up
    /\ part # "table" => schema.pk = "any"

StorageNext ==
    /\ UNCHANGED part
    /\ \/ part = "sequence" /\ NextStep /\ UNCHANGED <<vars, tblVars>>
       \/ part = "catalog" /\ CatalogNext /\ Stores' /\ UNCHANGED <<sequenceVars, tblVars>>
       \/ part = "table" /\ table!Next /\ UNCHANGED <<sequenceVars, vars>>

StorageSpec == StorageInit /\ [][StorageNext]_<<part, sequenceVars, vars, tblVars>>

(* Types; the values and leases of a sequence stay within its bounds.       *)
StorageTypeOK == SequenceTypeOK /\ WithinBounds /\ TypeOK /\ table!TypeOK

(* Every index holds the values of the documents of its table and no others *)
(* (Table.Insert, Replace and Delete).                                      *)
IndexAgrees == table!IndexAgrees

(* A unique index never lets two documents of the table have the same       *)
(* values.                                                                  *)
UniqueHolds == table!UniqueHolds


(* Bound: a catalog that is marred and a table that is torn are left there. *)
Kempt == ~marred /\ ~torn

(* No action of the catalog tells two table names apart.                    *)
Sym == Permutations(TableName)
=============================================================================
