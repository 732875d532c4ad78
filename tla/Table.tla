------------------------------- MODULE Table -------------------------------
(***************************************************************************)
(* A table and its indexes: internal/database/table.go, index.go and       *)
(* conflict.go, the operators of internal/stream that write a table, the   *)
(* UPDATE and DELETE loops, and REINDEX (internal/catalog).                *)
(*                                                                         *)
(* A byte string is a sequence of numbers.  A value is its type code and   *)
(* its payload, the bytes Value.MarshalBinary gives.  The table's store    *)
(* maps keys to documents; the store of an index maps the record           *)
(* <encoded values><key> to the length of the encoded values, and is       *)
(* iterated in byte order.                                                 *)
(***************************************************************************)
EXTENDS Naturals, Sequences, SequencesExt, FiniteSets

CONSTANTS Schema,       \* the tables considered, see TypeOK
          Pk,           \* values written in the primary key field
          Field,        \* the fields that are indexed
          Written,      \* values written in these fields
          MaxDocs,      \* a bound on the documents the table is given
          MaxOps,       \* a bound on the statements of one transaction
          BatchSize     \* items an iterator reads at once (itBufSize)

VARIABLES schema,  \* the table's constraints and indexes
          docid,   \* the sequence that gives keys to tables with no primary key
          db,      \* the stores, as the current transaction sees them
          saved,   \* the stores, as committed
          tx,      \* "none", "open", or "dirty" after a statement failed half-way
          nops,    \* the statements the transaction has run
          scan,    \* the UPDATE or DELETE that is running
          torn     \* history: a dirty transaction was committed, or REINDEX
                   \* passed over a document

vars == <<schema, docid, db, saved, tx, nops, scan, torn>>

IntegerValue == 144
DoubleValue == 160
Missing == [t |-> 0, b |-> <<>>]
Null == [t |-> 128, b |-> <<>>]
Integer(n) == [t |-> IntegerValue, b |-> <<0, n>>]
Double(n) == [t |-> DoubleValue, b |-> <<1, n>>]
ArrayValueDelim == 31

Less(s, u) ==
    \/ IsStrictPrefix(s, u)
    \/ \E n \in 1..Len(s) : /\ n <= Len(u)
                            /\ SubSeq(s, 1, n - 1) = SubSeq(u, 1, n - 1)
                            /\ s[n] < u[n]

\* The records of a store from seek on, in the order an iterator gives them.
Ascend(st, seek) == SetToSortSeq({r \in DOMAIN st : ~Less(r, seek)}, Less)

Without(st, r) == [x \in DOMAIN st \ {r} |-> st[x]]

Put(st, r, v) == [x \in DOMAIN st \cup {r} |-> IF x = r THEN v ELSE st[x]]

Index == 1..Len(schema.index)

-----------------------------------------------------------------------------
(* Indexes. *)

EncodeValue(ix, v) == IF ix.typed THEN v.b ELSE <<v.t>> \o v.b

EncodeValueBuffer(ix, vs) ==
    FlattenSeq([p \in 1..Len(vs) |->
                   IF p < Len(vs) THEN Append(EncodeValue(ix, vs[p]), ArrayValueDelim)
                                  ELSE EncodeValue(ix, vs[p])])

\* The values of a document that an index holds; a field it lacks is NULL.
Values(ix, d) ==
    [p \in 1..Len(ix.paths) |->
        IF d.f[ix.paths[p]] = Missing THEN Null ELSE d.f[ix.paths[p]]]

\* A typed index refuses a value of another type.
WrongType(ix, vs) == ix.typed /\ \E p \in DOMAIN vs : vs[p].t # DoubleValue

\* Index.exists goes from seek to the first record that starts with it, or to
\* one shorter than seek; the rest of that record is taken for the key.
Exists(ix, st, vs) ==
    LET seek == EncodeValueBuffer(ix, vs)
        rs == Ascend(st, seek)
        stop == {n \in DOMAIN rs : Len(rs[n]) < Len(seek) \/ IsPrefix(seek, rs[n])}
        n == CHOOSE n \in stop : \A m \in stop : n <= m
    IN  IF stop = {} \/ ~IsPrefix(seek, rs[n])
        THEN [found |-> FALSE, key |-> <<>>]
        ELSE [found |-> TRUE, key |-> SubSeq(rs[n], Len(seek) + 1, Len(rs[n]))]

\* Variant: Set leaves the test of a unique index to Insert.
SetFailsTypeOnly(ix, st, vs) == WrongType(ix, vs)
SetFails(ix, st, vs) ==
    WrongType(ix, vs) \/ (ix.unique /\ Exists(ix, st, vs).found)

Set(ix, st, vs, k) ==
    LET e == EncodeValueBuffer(ix, vs) IN Put(st, e \o k, Len(e))

\* Index.Delete removes the first record at or after the encoded values, of
\* the same first type when the index is not typed, that ends with the key.
DeleteAt(ix, st, vs, k) ==
    SelectSeq(Ascend(st, EncodeValueBuffer(ix, vs)),
              LAMBDA r : /\ ix.typed \/ r[1] = vs[1].t
                         /\ SubSeq(r, st[r] + 1, Len(r)) = k)

-----------------------------------------------------------------------------
(* Keys and constraints. *)

\* binary.PutUvarint for numbers below 2^14.
Uvarint(n) == IF n < 128 THEN <<n>> ELSE <<128 + (n % 128), n \div 128>>

\* CastAs between the two types of numbers.
CastAs(v, t) == IF v.t = Missing.t THEN v ELSE [t |-> t, b |-> <<IF t = IntegerValue THEN 0 ELSE 1, v.b[2]>>]

\* The key of a new document, from the document as the user wrote it.
GenerateKey(d) ==
    CASE schema.pk = "docid" -> Uvarint(docid + 1)
      [] schema.pk = "integer" -> d.id.b
      [] schema.pk = "any" -> <<d.id.t>> \o d.id.b

\* ValidateDocument converts typed fields and untyped integers, then requires
\* the NOT NULL fields.
Convert(d) ==
    IF schema.pk = "docid" THEN d
    ELSE [d EXCEPT !.id = CastAs(@, IF schema.pk = "integer" THEN IntegerValue ELSE DoubleValue)]

LacksPk(d) == schema.pk # "docid" /\ d.id = Missing

BreaksNotNull(d) == \E f \in schema.notNull : d.f[f].t \in {Missing.t, Null.t}

-----------------------------------------------------------------------------
(* The operations of a table.  Each gives the stores it leaves, and whether *)
(* it failed: what it wrote before failing stays in the transaction.        *)

Done(s) == [s |-> s, err |-> FALSE]
Fail(s) == [s |-> s, err |-> TRUE]

\* Indexes are written in order; the first that fails stops the loop.
First(S) == IF S = {} THEN Len(schema.index) + 1
            ELSE CHOOSE i \in S : \A j \in S : i <= j

SetAll(s, d, k) ==
    LET vs(i) == Values(schema.index[i], d)
        bad == First({i \in Index : SetFails(schema.index[i], s.idx[i], vs(i))})
        t == [s EXCEPT !.idx = [i \in Index |->
                 IF i < bad THEN Set(schema.index[i], s.idx[i], vs(i), k) ELSE s.idx[i]]]
    IN  IF bad \in Index THEN Fail(t) ELSE Done(t)

DeleteAll(s, d, k) ==
    LET at(i) == DeleteAt(schema.index[i], s.idx[i], Values(schema.index[i], d), k)
        bad == First({i \in Index : at(i) = <<>>})
        t == [s EXCEPT !.idx = [i \in Index |->
                 IF i < bad THEN Without(s.idx[i], Head(at(i))) ELSE s.idx[i]]]
    IN  IF bad \in Index THEN Fail(t) ELSE Done(t)

\* Variant: the entries of the document replaced stay in the indexes.
ReplaceKeepsEntries(s, k, d) ==
    IF BreaksNotNull(Convert(d)) \/ k \notin DOMAIN s.store THEN Fail(s)
    ELSE SetAll([s EXCEPT !.store = Put(@, k, Convert(d))], Convert(d), k)

Replace(s, k, d) ==
    IF BreaksNotNull(Convert(d)) \/ k \notin DOMAIN s.store THEN Fail(s)
    ELSE LET r == DeleteAll(s, s.store[k], k)
         IN  IF r.err THEN r
             ELSE SetAll([r.s EXCEPT !.store = Put(@, k, Convert(d))], Convert(d), k)

Delete(s, k) ==
    IF k \notin DOMAIN s.store THEN Fail(s)
    ELSE LET r == DeleteAll(s, s.store[k], k)
         IN  IF r.err THEN r ELSE Done([r.s EXCEPT !.store = Without(@, k)])

\* ON CONFLICT DO NOTHING and DO REPLACE; key is that of the document in the
\* way, empty when a NOT NULL constraint is.
OnConflict(s, oc, k, d) ==
    CASE oc = "none" -> Fail(s)
      [] oc = "nothing" -> Done(s)
      [] oc = "replace" -> IF k = <<>> THEN Fail(s) ELSE Replace(s, k, d)

InsertWithConflictResolution(s, d, oc) ==
    LET fb == Convert(d)
        key == GenerateKey(d)
        dup(i) == Exists(schema.index[i], s.idx[i], Values(schema.index[i], fb))
        taken == First({i \in Index : schema.index[i].unique /\ dup(i).found})
    IN  CASE BreaksNotNull(fb) -> OnConflict(s, oc, <<>>, d)
          [] ~BreaksNotNull(fb) /\ LacksPk(d) -> Fail(s)
          [] OTHER ->
               IF key \in DOMAIN s.store THEN OnConflict(s, oc, key, d)
               ELSE IF taken \in Index THEN OnConflict(s, oc, dup(taken).key, d)
               ELSE SetAll([s EXCEPT !.store = Put(@, key, fb)], fb, key)

\* buildIndex: a document that lacks an indexed field is passed over, and the
\* first that Index.Set refuses ends it.
Lacks(ix, d) == \E f \in Range(ix.paths) : d.f[f] = Missing

BuildIndex(ix, s) ==
    LET vs(k) == Values(ix, s.store[k])
        add(b, k) ==
            IF b.err \/ Lacks(ix, s.store[k]) THEN b
            ELSE IF SetFails(ix, b.st, vs(k)) THEN [b EXCEPT !.err = TRUE]
            ELSE [b EXCEPT !.st = Set(ix, b.st, vs(k), k)]
    IN  FoldLeft(add, [st |-> <<>>, err |-> FALSE], Ascend(s.store, <<>>))

\* Catalog.ReIndex drops the store of the index and fills it from the table.
ReIndex(s, i) ==
    LET b == BuildIndex(schema.index[i], s)
    IN  [s |-> [s EXCEPT !.idx[i] = b.st], err |-> b.err]

-----------------------------------------------------------------------------
(* Statements.  A statement outside BEGIN ... COMMIT has a transaction of   *)
(* its own, committed when it succeeds and rolled back when it fails.       *)
(* Inside, a failure leaves what was written for the user to roll back.     *)

Idle == [on |-> FALSE]

Docs == [id : IF schema.pk = "docid" THEN {Missing} ELSE Pk \cup {Missing},
         f : [Field -> Written]]

\* What a finished statement leaves behind, when its last call leaves r.
Finish(r) ==
    /\ IF tx = "none"
       THEN /\ db' = IF r.err THEN saved ELSE r.s
            /\ saved' = db'
            /\ UNCHANGED tx
       ELSE /\ db' = r.s
            /\ tx' = IF r.err /\ r.s # db THEN "dirty" ELSE tx
            /\ UNCHANGED saved
    /\ nops' = IF tx = "none" THEN 0 ELSE nops + 1

Ready == ~scan.on /\ nops < MaxOps

Begin ==
    /\ tx = "none" /\ ~scan.on
    /\ tx' = "open"
    /\ nops' = 0
    /\ scan' = Idle
    /\ UNCHANGED <<schema, docid, db, saved, torn>>

\* COMMIT is not refused after a statement that failed.
Commit ==
    /\ ~scan.on /\ tx # "none"
    /\ saved' = db
    /\ torn' = (torn \/ tx = "dirty")
    /\ tx' = "none" /\ nops' = 0
    /\ scan' = Idle
    /\ UNCHANGED <<schema, docid, db>>

Rollback ==
    /\ ~scan.on /\ tx # "none"
    /\ db' = saved
    /\ tx' = "none" /\ nops' = 0
    /\ scan' = Idle
    /\ UNCHANGED <<schema, docid, saved, torn>>

\* INSERT of one document: stream.TableInsert, one call of Table.Insert.  The
\* sequence moves on unless the constraints refused the document.
InsertStmt ==
    /\ Ready
    /\ Cardinality(DOMAIN db.store) < MaxDocs /\ docid < MaxDocs
    /\ \E d \in Docs, oc \in {"none", "nothing", "replace"} :
         /\ Finish(InsertWithConflictResolution(db, d, oc))
         /\ docid' = IF schema.pk = "docid" /\ ~BreaksNotNull(Convert(d))
                     THEN docid + 1 ELSE docid
    /\ scan' = Idle
    /\ UNCHANGED <<schema, torn>>

ReIndexStmt ==
    /\ Ready
    /\ \E i \in Index :
         /\ Finish(ReIndex(db, i))
         /\ torn' = (torn \/ \E k \in DOMAIN db.store : Lacks(schema.index[i], db.store[k]))
    /\ scan' = Idle
    /\ UNCHANGED <<schema, docid>>

\* WHERE p <= max, for a number.
Matches(v, max) == v.t = DoubleValue /\ ~Less(max.b, v.b)


\* The next batch of an iterator, after the record last.
Batch(st, last) ==
    LET rs == SelectSeq(Ascend(st, last), LAMBDA r : r # last)
    IN  SubSeq(rs, 1, IF Len(rs) < BatchSize THEN Len(rs) ELSE BatchSize)

\* The store the statement scans: the table, or the index it was planned on.
Scanned(s, via) == IF via = 0 THEN s.store ELSE s.idx[via]

\* UPDATE t SET q = 3 - q WHERE p <= max, and DELETE FROM t WHERE p <= max,
\* over the table or over an index that starts with p.  The index may be one
\* that UPDATE writes: the record of a document then moves under the scan.
StartScan ==
    /\ Ready
    /\ \E kind \in {"update", "delete"}, p, q \in Field, via \in 0..Len(schema.index),
          max \in {v \in Written : v.t = DoubleValue} :
         /\ via # 0 => schema.index[via].paths[1] = p
         /\ kind = "delete" => q = p
         /\ scan' = [on |-> TRUE, kind |-> kind, p |-> p, q |-> q, max |-> max,
                     via |-> via, buf |-> Batch(Scanned(db, via), <<>>), last |-> <<>>,
                     moves |-> via # 0 /\ kind = "update" /\ q \in Range(schema.index[via].paths),
                     seen |-> <<>>,
                     want |-> {k \in DOMAIN db.store : Matches(db.store[k].f[p], max)}]
    /\ UNCHANGED <<schema, docid, db, saved, tx, nops, torn>>

\* 3 - q, in the two values an instance writes; NULL for what is not a number.
Flip(v) == IF v.t = DoubleValue THEN Double(3 - v.b[2]) ELSE Null

\* The key a record of the scanned store leads to, and whether it is in range.
KeyOf(r) == IF scan.via = 0 THEN r ELSE SubSeq(r, db.idx[scan.via][r] + 1, Len(r))

InRange(r) ==
    IF scan.via = 0 THEN Matches(db.store[r].f[scan.p], scan.max)
    ELSE LET ix == schema.index[scan.via]
         IN  /\ ix.typed \/ r[1] = DoubleValue
             /\ ~Less(EncodeValue(ix, scan.max), SubSeq(r, 1, Len(EncodeValue(ix, scan.max))))

\* One turn of the loop: Table.iterate or Index.iterate, the filter, and
\* TableReplace or TableDelete.  An item deleted since the batch was read is
\* passed over; a failure, or a record that leads to no document, ends the
\* statement.
ScanStep ==
    /\ scan.on /\ scan.buf # <<>>
    /\ LET r == Head(scan.buf)
           st == Scanned(db, scan.via)
           buf == IF Len(scan.buf) > 1 THEN Tail(scan.buf) ELSE <<>>
           hit == r \in DOMAIN st /\ InRange(r)
           k == KeyOf(r)
           d == [db.store[k] EXCEPT !.f[scan.q] = Flip(@)]
           res == IF k \notin DOMAIN db.store THEN Fail(db)
                  ELSE IF scan.kind = "update" THEN Replace(db, k, d) ELSE Delete(db, k)
       IN  /\ IF hit
              THEN IF res.err
                   THEN Finish(res) /\ scan' = Idle
                   ELSE /\ db' = res.s
                        /\ scan' = [scan EXCEPT !.seen = Append(@, k), !.last = r,
                                       !.buf = IF buf # <<>> THEN buf
                                               ELSE Batch(Scanned(db', scan.via), r)]
                        /\ UNCHANGED <<saved, tx, nops>>
              ELSE /\ scan' = [scan EXCEPT !.last = r,
                                  !.buf = IF buf # <<>> THEN buf ELSE Batch(st, r)]
                   /\ UNCHANGED <<db, saved, tx, nops>>
    /\ UNCHANGED <<schema, docid, torn>>

EndScan ==
    /\ scan.on /\ scan.buf = <<>>
    /\ Finish(Done(db))
    /\ scan' = Idle
    /\ UNCHANGED <<schema, docid, torn>>

Empty == [store |-> <<>>, idx |-> [i \in Index |-> <<>>]]

Init ==
    /\ schema \in Schema
    /\ docid = 0
    /\ db = Empty /\ saved = Empty
    /\ tx = "none" /\ nops = 0
    /\ scan = Idle
    /\ torn = FALSE

Next == Begin \/ Commit \/ Rollback \/ InsertStmt \/ ReIndexStmt
        \/ StartScan \/ ScanStep \/ EndScan

Spec == Init /\ [][Next]_vars

-----------------------------------------------------------------------------
(* Properties. *)

TypeOK ==
    /\ docid \in Nat
    /\ tx \in {"none", "open", "dirty"}
    /\ nops \in 0..MaxOps
    /\ torn \in BOOLEAN
    /\ \A s \in {db, saved} : /\ DOMAIN s.idx = Index
                              /\ \A k \in DOMAIN s.store : k # <<>>

\* An index holds exactly one record for each document, under the values the
\* document has now, and nothing else.
Agrees(s) ==
    \A i \in Index :
      LET e(k) == EncodeValueBuffer(schema.index[i], Values(schema.index[i], s.store[k]))
      IN  /\ DOMAIN s.idx[i] = {e(k) \o k : k \in DOMAIN s.store}
          /\ \A k \in DOMAIN s.store : s.idx[i][e(k) \o k] = Len(e(k))

\* What a transaction that is not dirty sees, and what is committed.
Clean == {saved} \cup {s \in {db} : tx # "dirty"}

\* "Indexes are automatically updated" (Table.Delete, Table.Replace): every
\* index agrees with the documents after every statement and between the
\* writes of a scan, except in a transaction whose statement failed half-way,
\* and once such a transaction was committed or REINDEX passed over a
\* document.
IndexAgrees == ~torn => \A s \in Clean : Agrees(s)

\* A unique index: no two documents have the same values, NULL included,
\* whatever the conflict action, the updates and the failures, with the same
\* exceptions.
UniqueHolds ==
    ~torn =>
      \A s \in Clean, i \in Index :
        schema.index[i].unique =>
          \A k, l \in DOMAIN s.store :
            Values(schema.index[i], s.store[k]) = Values(schema.index[i], s.store[l]) => k = l

=============================================================================
