---------------------------- MODULE CatalogCalls ----------------------------
(***************************************************************************)
(* The calls the statements about the schema are made of: internal/catalog, *)
(* and the hooks of Transaction.Rollback.                                   *)
(*                                                                         *)
(* The catalog lives twice: in memory (catalogCache) and as rows of the     *)
(* table __genji_catalog.  The rows, the stores and the rows of             *)
(* __genji_sequence belong to the engine, which a rollback puts back; the   *)
(* cache is put back by the hooks each of its changes pushes on the         *)
(* transaction.  The names of stores come from a sequence whose value in    *)
(* memory no rollback touches (module Sequence).                            *)
(*                                                                         *)
(* A call maps a record x of all of these to what it leaves; its result is  *)
(* in x.res.  A call that fails half way keeps what it did.                 *)
(***************************************************************************)
EXTENDS Naturals, Sequences, FiniteSets

CONSTANTS TableName, IndexName,   \* names users choose
          None,
          MaxDup,      \* bound: numbers appended to generated names
          MaxStore,    \* bound: names of stores
          SeqCache     \* Cache of the store sequence, 16 in the code

(* Generated names: base name of a table's docid sequence or unique index,  *)
(* and the number generateUnusedName appends.                               *)
Generated == TableName \X {"seq", "idx"} \X (0 .. MaxDup)
Name == TableName \cup IndexName \cup Generated

(* What is known of the fields of a relation.  For a table, its list of     *)
(* constraints: none, those it was given, or also inferred ones, which come *)
(* first in the list when the first path goes through a document or array.  *)
(* An index has the types of its paths ("flat") or none.                    *)
Lists == {"none", "flat", "within", "nested"}

AnyRelation == [type : {"table", "index", "sequence"}, tbl : TableName \cup {None},
                store : Nat, docid : Generated \cup {None},
                owned : BOOLEAN, fields : Lists]

(* A catalog has finitely many names, nil is no relation, and a generated   *)
(* name is longer than the name of the table it begins with.                *)
CatalogAssumptions ==
    /\ IsFiniteSet(Name)
    /\ None \notin AnyRelation
    /\ \A g \in Generated : g # g[1]
    /\ {MaxDup, MaxStore} \subseteq Nat
    /\ SeqCache \in Nat \ {0}

Relation(tp, tbl, store, docid, owned, fields) ==
    [type |-> tp, tbl |-> tbl, store |-> store, docid |-> docid, owned |-> owned, fields |-> fields]

(* A row keeps the relation as the SQL text of its String, which leaves out *)
(* inferred constraints and the types of an index.  Where an inferred one   *)
(* is first, the text begins its list with a comma, and the parser refuses  *)
(* it.                                                                      *)
Readable(o) == o.type = "table" => o.fields # "nested"

FromDocument(o) ==
    [o EXCEPT !.fields = IF o.type = "index" \/ o.fields = "none" THEN "none" ELSE "flat"]

-----------------------------------------------------------------------------
(* The calls statements are made of.  Each leaves a failed x alone.         *)
Check(x, ok, err) == IF x.res = "ok" /\ ~ok THEN [x EXCEPT !.res = err] ELSE x

Then(x, y) == IF x.res = "ok" THEN y ELSE x

Is(x, tp, n) == x.cache[n] # None /\ x.cache[n].type = tp

(* Catalog.GetTable: the table is in the cache and its store exists.        *)
GetTable(x, t) == Is(x, "table", t) /\ x.cache[t].store \in x.stores

(* A change of the cache pushes the hook that undoes it.                    *)
SetCache(x, n, o) ==
    Then(x, [x EXCEPT !.cache[n] = o, !.hooks = Append(@, [name |-> n, old |-> x.cache[n]])])

CacheAdd(x, n, o)     == SetCache(Check(x, x.cache[n] = None, "exists"), n, o)
CacheReplace(x, n, o) == SetCache(Check(x, Is(x, o.type, n), "error"), n, o)
CacheDelete(x, tp, n) == SetCache(Check(x, Is(x, tp, n), "error"), n, None)

SetRow(x, n, o)     == Then(x, [x EXCEPT !.rows[n] = o])
RowInsert(x, n, o)  == SetRow(Check(x, x.rows[n] = None, "exists"), n, o)
RowReplace(x, n, o) == SetRow(Check(x, x.rows[n] # None, "error"), n, o)
RowDelete(x, n)     == SetRow(Check(x, x.rows[n] # None, "error"), n, None)

CreateStore(x, st) ==
    LET y == Check(x, st \notin x.stores, "error") IN Then(y, [y EXCEPT !.stores = @ \cup {st}])

DropStore(x, st) ==
    LET y == Check(x, st \in x.stores, "error") IN Then(y, [y EXCEPT !.stores = @ \ {st}])

(* generateUnusedName: the first name that is not in the cache.             *)
Unused(x, t, kind) == {i \in 0 .. MaxDup : x.cache[<<t, kind, i>>] = None}

GenerateUnusedName(x, t, kind) ==
    <<t, kind, CHOOSE i \in Unused(x, t, kind) : \A j \in Unused(x, t, kind) : i <= j>>

(* Variant: the lease covers only the value it is taken for.                *)
GenerateStoreNameSmallLease(x) ==
    LET v == x.cur + 1 IN
    Then(x, IF x.cur # 0 /\ x.cached + 1 <= SeqCache
            THEN [x EXCEPT !.cur = v, !.cached = @ + 1]
            ELSE [x EXCEPT !.cur = v, !.cached = 1, !.lease = v])

(* generateStoreName: Sequence.Next of the store sequence, left in cur.     *)
GenerateStoreName(x) ==
    LET v == x.cur + 1 IN
    Then(x, IF x.cur # 0 /\ x.cached + 1 <= SeqCache
            THEN [x EXCEPT !.cur = v, !.cached = @ + 1]
            ELSE [x EXCEPT !.cur = v, !.cached = 1, !.lease = v + SeqCache - 1])

TableIndexes(x, t) == {n \in Name : Is(x, "index", n) /\ x.cache[n].tbl = t}

(* The names of a set in the order of a map: any.                           *)
MapOrder(ns) ==
    CHOOSE q \in [1 .. Cardinality(ns) -> ns] :
        \A n \in ns : \E i \in 1 .. Cardinality(ns) : q[i] = n

-----------------------------------------------------------------------------
(* Variant: the row of the sequence is not initialised.                     *)
CreateSequenceNoInit(x, n, owner) ==
    LET o == Relation("sequence", owner, 0, None, FALSE, "none")
    IN  RowInsert(CacheAdd(x, n, o), n, o)

(* Catalog.CreateSequence, with Sequence.Init.                              *)
CreateSequence(x, n, owner) ==
    LET o == Relation("sequence", owner, 0, None, FALSE, "none")
        y == Check(RowInsert(CacheAdd(x, n, o), n, o), n \notin x.seqRows, "error")
    IN  Then(y, [y EXCEPT !.seqRows = @ \cup {n}])

(* Catalog.DropSequence, with Sequence.Drop.                                *)
DropSequence(x, n) ==
    LET y == Check(CacheDelete(x, "sequence", n), n \in x.seqRows, "error")
    IN  RowDelete(Then(y, [y EXCEPT !.seqRows = @ \ {n}]), n)

(* Catalog.CreateTable, with the list that Infer makes.                     *)
CreateTable(x, t, docid, list) ==
    LET y == GenerateStoreName(Check(Check(x, ~GetTable(x, t), "exists"), ~Is(x, "table", t), "error"))
        o == Relation("table", t, y.cur, docid, FALSE, list)
    IN  CacheAdd(CreateStore(RowInsert(y, t, o), o.store), t, o)

(* buildIndex.  Setting the first entry makes the store; build says whether *)
(* there is one, or two that a unique index refuses.                        *)
BuildIndex(x, st, build) ==
    LET y == Then(x, IF build = "empty" THEN x ELSE [x EXCEPT !.stores = @ \cup {st}])
    IN  Check(y, build # "duplicate", "error")

(* Catalog.CreateIndex.  Indexes are on a field with a constraint, if there *)
(* is one, and take its type.                                               *)
TypesFrom(x, t) == IF Is(x, "table", t) /\ x.cache[t].fields # "none" THEN "flat" ELSE "none"

CreateIndex(x, n, t, owned, build) ==
    LET y == GenerateStoreName(Check(x, Is(x, "table", t), "error"))
        o == Relation("index", t, y.cur, None, owned, TypesFrom(x, t))
        z == RowInsert(CacheAdd(y, n, o), n, o)
    IN  BuildIndex(Check(z, GetTable(z, t), "error"), o.store, build)

(* Catalog.dropIndex deletes the row.  It truncates an index without info,  *)
(* that is without the name of its store, which drops no store.             *)
DropIndexRow(x, n) == RowDelete(x, n)

DropOneIndex(x, n) == DropIndexRow(CacheDelete(x, "index", n), n)

DropIndexes(x, ns) ==
    LET q == MapOrder(ns)
        after[i \in 0 .. Cardinality(ns)] ==
          IF i = 0 THEN x ELSE DropOneIndex(after[i - 1], q[i])
    IN  after[Cardinality(ns)]

(* Variant: the indexes of a dropped table stay.                            *)
DropTableKeepsIndexes(x, t) ==
    DropStore(RowDelete(CacheDelete(x, "table", t), t), x.cache[t].store)

(* Catalog.DropTable.                                                       *)
DropTable(x, t) ==
    LET y == DropIndexes(x, TableIndexes(x, t))
    IN  DropStore(RowDelete(CacheDelete(y, "table", t), t), x.cache[t].store)

(* Catalog.DropIndex: an index that a constraint requires stays.            *)
DropIndex(x, n) == DropOneIndex(Check(x, Is(x, "index", n) /\ ~x.cache[n].owned, "error"), n)

(* Catalog.AddFieldConstraint.  The field has no constraint yet ("new"), an *)
(* inferred one that the new one takes the place of ("inferred"), or one    *)
(* that it conflicts with.  What a conflict leaves in an inferred           *)
(* constraint, which the clone shares, is in module Schema.                 *)
AddFieldConstraint(x, t, on) ==
    LET y == Check(x, Is(x, "table", t) /\ on # "conflict", "error")
        o == [x.cache[t] EXCEPT !.fields = IF on = "inferred" \/ @ = "none" THEN "flat" ELSE @]
    IN  Then(y, RowReplace(CacheReplace(y, t, o), t, o))

(* Catalog.RenameTable.  The row goes first, whatever it describes, and     *)
(* the row of an index is replaced by what it was.                          *)
MoveIndex(x, n, new) ==
    LET old == x.cache[n]
    IN  RowReplace(CacheAdd(CacheDelete(x, "index", n), n, [old EXCEPT !.tbl = new]), n, old)

MoveIndexes(x, ns, new) ==
    LET q == MapOrder(ns)
        after[i \in 0 .. Cardinality(ns)] ==
          IF i = 0 THEN x ELSE MoveIndex(after[i - 1], q[i], new)
    IN  after[Cardinality(ns)]

RenameTable(x, old, new) ==
    LET y == CacheDelete(RowDelete(x, old), "table", old)
        o == [x.cache[old] EXCEPT !.tbl = new]
        z == CacheAdd(RowInsert(y, new, o), new, o)
    IN  Then(y, Then(z, MoveIndexes(z, TableIndexes(z, old), new)))

(* Catalog.ReIndex; Index.Truncate drops the store if there is one.         *)
ReIndex(x, n, build) ==
    LET y == Check(x, Is(x, "index", n), "error")
        z == Then(y, Check(y, GetTable(y, x.cache[n].tbl), "error"))
        st == x.cache[n].store
    IN  Then(z, BuildIndex([z EXCEPT !.stores = @ \ {st}], st, build))

(* REINDEX of one index, of those of a table, or of all of them.            *)
ReIndexStmt(x, ns, build) ==
    LET q == MapOrder(ns)
        after[i \in 0 .. Cardinality(ns)] ==
          IF i = 0 THEN x ELSE ReIndex(after[i - 1], q[i], build)
    IN  after[Cardinality(ns)]

(* Table.Insert makes the stores of the table's indexes.                    *)
InsertStmt(x, t) ==
    LET y == Check(x, GetTable(x, t), "error")
    IN  Then(y, [y EXCEPT !.stores = @ \cup {x.cache[n].store : n \in TableIndexes(x, t)}])

-----------------------------------------------------------------------------
(* Variant: the hooks run in the order they were pushed.                    *)
RunHooksForward(x) ==
    LET after[i \in 0 .. Len(x.hooks)] ==
          IF i = 0 THEN x.cache
          ELSE [after[i - 1] EXCEPT ![x.hooks[i].name] = x.hooks[i].old]
    IN  after[Len(x.hooks)]

(* The hooks of Transaction.Rollback run, the last one first.               *)
RunHooks(x) ==
    LET N == Len(x.hooks)
        after[i \in 0 .. N] ==
          IF i = 0 THEN x.cache
          ELSE LET h == x.hooks[N + 1 - i] IN [after[i - 1] EXCEPT ![h.name] = h.old]
    IN  after[N]
=============================================================================
