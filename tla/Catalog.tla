------------------------------ MODULE Catalog ------------------------------
(***************************************************************************)
(* The DDL statements of internal/query/statement, and the transactions     *)
(* they run in, over the calls of CatalogCalls.                             *)
(*                                                                         *)
(* A statement is a pipeline of the calls it makes; after a call that fails *)
(* the rest is skipped and what was done stays, until somebody rolls the    *)
(* transaction back.  Outside BEGIN/COMMIT the query does that.             *)
(***************************************************************************)
EXTENDS CatalogCalls

CONSTANTS MaxStmts,   \* bound: statements in an explicit transaction
          NewLists    \* the lists of constraints CREATE TABLE is given

VARIABLES s,       \* what a statement works on
          saved,   \* what the engine holds since the last commit
          open,    \* an explicit transaction is open
          stmts,   \* statements it has run
          failed,  \* one of them failed
          behind,  \* a rollback took back a lease of the store sequence
          marred   \* history: a transaction was committed although a statement
                   \* of it failed, a table that has indexes was renamed, or
                   \* the process stopped while behind

vars == <<s, saved, open, stmts, failed, behind, marred>>

(* The part of s that the engine keeps.                                     *)
Durable(x) == [rows |-> x.rows, stores |-> x.stores, seqRows |-> x.seqRows, lease |-> x.lease]

Init ==
    /\ s = [cache   |-> [n \in Name |-> None],   \* catalogCache
            hooks   |-> <<>>,                    \* Transaction.OnRollbackHooks
            rows    |-> [n \in Name |-> None],   \* __genji_catalog
            stores  |-> {},
            seqRows |-> {},                      \* __genji_sequence
            lease   |-> 0,                       \* row of the store sequence
            cur     |-> 0, cached |-> 0,         \* the store sequence in memory
            res     |-> "ok"]                    \* "exists" is AlreadyExistsError
    /\ saved = Durable(s)
    /\ open = FALSE
    /\ stmts = 0
    /\ failed = FALSE
    /\ behind = FALSE
    /\ marred = FALSE

-----------------------------------------------------------------------------
(* The statements: Run of CreateTableStmt, CreateIndexStmt and the others.  *)
IfNotExists(x, b) == IF b /\ x.res = "exists" THEN [x EXCEPT !.res = "ok"] ELSE x

(* The error of CreateTable is overwritten by the result of CreateIndex.    *)
CreateTableStmt(x, t, pk, unique, list, ifNotExists, build) ==
    LET docid == IF pk THEN None ELSE GenerateUnusedName(x, t, "seq")
        y == IF pk THEN x ELSE CreateSequence(x, docid, t)
        z == CreateTable(y, t, docid, list)
        w == [z EXCEPT !.res = "ok"]
        onNew == IF z.res = "ok" THEN "empty" ELSE build
    IN  IF y.res = "ok" /\ unique /\ ~(ifNotExists /\ z.res = "exists")
        THEN CreateIndex(w, GenerateUnusedName(w, t, "idx"), t, TRUE, onNew)
        ELSE Then(y, IfNotExists(z, ifNotExists))

CreateIndexStmt(x, n, t, ifNotExists, build) ==
    LET y == CreateIndex(x, n, t, FALSE, build)
    IN  IfNotExists(Then(y, ReIndex(y, n, build)), ifNotExists)

CreateSequenceStmt(x, n, ifNotExists) == IfNotExists(CreateSequence(x, n, None), ifNotExists)

DropTableStmt(x, t) ==
    LET y == Check(x, GetTable(x, t), "error")
        z == Then(y, DropTable(y, t))
        docid == x.cache[t].docid
    IN  Then(z, IF docid = None THEN z ELSE DropSequence(z, docid))

-----------------------------------------------------------------------------
(* Transaction.Rollback: the engine goes back to what was committed, then   *)
(* the hooks run.                                                           *)
Rolled(x) ==
    [x EXCEPT !.cache = RunHooks(x), !.hooks = <<>>,
              !.rows = saved.rows, !.stores = saved.stores,
              !.seqRows = saved.seqRows, !.lease = saved.lease]

Committed(x) == [x EXCEPT !.hooks = <<>>]

(* Query.Run of one statement whose work ends in x.  Without BEGIN it has   *)
(* a transaction of its own, rolled back if the statement fails.            *)
Run(x) ==
    /\ x.cur <= MaxStore
    /\ IF open
       THEN /\ stmts < MaxStmts
            /\ stmts' = stmts + 1
            /\ failed' = (failed \/ x.res # "ok")
            /\ s' = [x EXCEPT !.res = "ok"]
            /\ UNCHANGED <<saved, open, behind>>
       ELSE /\ s' = [(IF x.res = "ok" THEN Committed(x) ELSE Rolled(x)) EXCEPT !.res = "ok"]
            /\ saved' = Durable(s')
            /\ behind' = (behind \/ s'.lease # x.lease)
            /\ UNCHANGED <<open, stmts, failed>>

(* What buildIndex finds in an existing table.                              *)
Built == {"empty", "filled", "duplicate"}

(* Names a statement may be given: unused generated ones are like any       *)
(* unused name.                                                             *)
Typed == IndexName \cup {n \in Name : s.cache[n] # None}

RunCreateTable ==
    \E t \in TableName, pk, unique \in BOOLEAN, list \in NewLists :
        /\ pk \/ unique => list # "none"
        /\ pk \/ Unused(s, t, "seq") # {}        \* bound MaxDup
        /\ unique => Unused(s, t, "idx") # {}
        /\ \E x \in {CreateTableStmt(s, t, pk, unique, list, b, build) :
                    b \in BOOLEAN, build \in IF unique /\ Is(s, "table", t) THEN Built ELSE {"empty"}} : Run(x)

RunCreateIndex ==
    \E x \in {CreateIndexStmt(s, n, t, b, build) :
                n \in IndexName, t \in TableName, b \in BOOLEAN, build \in Built} : Run(x)

RunCreateSequence == \E x \in {CreateSequenceStmt(s, n, b) : n \in IndexName, b \in BOOLEAN} : Run(x)

RunDropTable == \E x \in {DropTableStmt(s, t) : t \in TableName} : Run(x)

RunDropIndex == \E x \in {DropIndex(s, n) : n \in Typed} : Run(x)

RunRename ==
    \E old \in Typed :
        /\ marred' = (marred \/ TableIndexes(s, old) # {})
        /\ \E x \in {RenameTable(s, old, new) : new \in TableName \ {old}} : Run(x)

RunAddField ==
    \E t \in TableName, on \in {"new", "inferred", "conflict"} :
        /\ Is(s, "table", t) /\ on # "new" =>
              s.cache[t].fields \in IF on = "inferred" THEN {"within", "nested"} ELSE Lists \ {"none"}
        /\ \E x \in {AddFieldConstraint(s, t, on)} : Run(x)

RunReIndex ==
    \E ns \in {{n} : n \in Typed \ TableName} \cup {TableIndexes(s, t) : t \in TableName}
              \cup {{n \in Name : Is(s, "index", n)}} :
        \E x \in {ReIndexStmt(s, ns, build) : build \in {"empty", "filled"}} : Run(x)

RunInsert == \E x \in {InsertStmt(s, t) : t \in TableName} : Run(x)

(* BEGIN, COMMIT and ROLLBACK.                                              *)
Begin ==
    /\ ~open
    /\ open' = TRUE
    /\ stmts' = 0
    /\ failed' = FALSE
    /\ UNCHANGED <<s, saved, behind>>

End(x) ==
    /\ open
    /\ s' = x
    /\ saved' = Durable(x)
    /\ open' = FALSE
    /\ stmts' = 0
    /\ failed' = FALSE
    /\ behind' = (behind \/ x.lease # s.lease)

(* COMMIT is not refused after a statement that failed.                     *)
Commit == End(Committed(s)) /\ marred' = (marred \/ failed)

Rollback == End(Rolled(s))

(* Catalog.Load of a new process from what the engine holds.  A row that    *)
(* cannot be read, or a sequence that has no value, stops it.  A row that   *)
(* was read stands for what its text says from then on.                     *)
Loads(d) ==
    \A n \in Name : d.rows[n] # None =>
        Readable(d.rows[n]) /\ (d.rows[n].type = "sequence" => n \in d.seqRows)

FromRows(rows) == [n \in Name |-> IF rows[n] = None THEN None ELSE FromDocument(rows[n])]

Load(d) ==
    /\ Loads(d)
    /\ s' = [cache |-> FromRows(d.rows), hooks |-> <<>>, rows |-> FromRows(d.rows),
             stores |-> d.stores, seqRows |-> d.seqRows, lease |-> d.lease, cur |-> d.lease,
             cached |-> IF d.lease = 0 THEN 0 ELSE SeqCache, res |-> "ok"]
    /\ saved' = Durable(s')
    /\ open' = FALSE
    /\ stmts' = 0
    /\ failed' = FALSE
    /\ behind' = FALSE

(* The process stops.                                                       *)
Crash ==
    /\ saved.lease <= MaxStore       \* bound
    /\ Load(saved)
    /\ marred' = (marred \/ behind)

(* Database.Close stores the value of the sequence; then New.               *)
CloseAndReopen ==
    /\ ~open
    /\ Load([saved EXCEPT !.lease = IF s.cur = 0 THEN @ ELSE s.cur])

CatalogNext ==
    \/ /\ \/ RunCreateTable \/ RunCreateIndex \/ RunCreateSequence
          \/ RunDropTable \/ RunDropIndex
          \/ RunAddField \/ RunReIndex \/ RunInsert
          \/ Begin \/ Rollback \/ CloseAndReopen
       /\ UNCHANGED marred
    \/ RunRename \/ Commit \/ Crash

Spec == Init /\ [][CatalogNext]_vars

-----------------------------------------------------------------------------
Relations == {r \in AnyRelation : r.store <= MaxStore}

(* Types.  The hooks are empty outside a transaction, and the engine then   *)
(* holds what was committed: no statement leaves work behind.               *)
TypeOK ==
    /\ s.cache \in [Name -> Relations \cup {None}]
    /\ s.rows \in [Name -> Relations \cup {None}]
    /\ s.stores \subseteq 1 .. MaxStore
    /\ s.seqRows \subseteq Name
    /\ s.cur \in 0 .. MaxStore /\ s.cached \in 0 .. SeqCache
    /\ {open, failed, behind, marred} \subseteq BOOLEAN
    /\ ~open => s.hooks = <<>> /\ saved = Durable(s)

(* The cache and the rows of __genji_catalog say the same after a           *)
(* statement, after the hooks of a rollback, of failed statements too, and  *)
(* after loading: "Any modification is persisted into the __genji_catalog   *)
(* table" (catalog.go:24).  It does not hold while a statement has failed   *)
(* in the open transaction, or once the catalog is marred.                  *)
CacheAgrees == ~failed /\ ~marred => s.cache = s.rows

(* The same, of a catalog whose tables with indexes are renamed too.        *)
AlwaysAgrees == ~failed => s.cache = s.rows

(* Unless a statement failed in the open transaction or the catalog is      *)
(* marred, every table has its store and its docid sequence, and every      *)
(* index has its table: what GetTable, generateKey and ReIndex look up is   *)
(* there.                                                                   *)
SchemaClosed ==
    ~failed /\ ~marred =>
      \A n \in Name :
        /\ Is(s, "table", n) =>
              /\ s.cache[n].store \in s.stores
              /\ s.cache[n].tbl = n
              /\ s.cache[n].docid # None => Is(s, "sequence", s.cache[n].docid)
        /\ Is(s, "index", n) => Is(s, "table", s.cache[n].tbl)

(* Two tables or indexes never share a store, although store names are      *)
(* generated in memory ahead of what is committed (generateStoreName),      *)
(* until a process stops whose store sequence is ahead of its lease.        *)
StoresDistinct ==
    ~marred =>
      \A m, n \in Name :
        /\ m # n /\ s.cache[m] # None /\ s.cache[n] # None
        /\ s.cache[m].store # 0
        => s.cache[m].store # s.cache[n].store

(* Each sequence of a committed catalog has the row of __genji_sequence     *)
(* that loadSequences reads, and every such row has its sequence, so that a *)
(* table made again under an old name does not find its docids taken.       *)
SequencesHaveRows ==
    ~marred =>
      \A n \in Name :
        (saved.rows[n] # None /\ saved.rows[n].type = "sequence") <=> n \in saved.seqRows

(* A database that was committed can be opened: Load reads back the SQL     *)
(* that TableInfo.String wrote (info.go:41).                                *)
CanReopen == Loads(saved)
=============================================================================
