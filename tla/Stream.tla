------------------------------- MODULE Stream -------------------------------
(***************************************************************************)
(* The operators of a stream and what iterating over it gives               *)
(* (internal/stream), over a table and its indexes                          *)
(* (internal/database/table.go and index.go).                               *)
(*                                                                          *)
(* A stream is the sequence of its operators.  Iterating gives the          *)
(* environments its last operator passes on, and how it ended: "ok", "err", *)
(* or "closed" when an operator returned ErrStreamClosed.                   *)
(*                                                                          *)
(* A table has constraints, documents in the order of their keys, and       *)
(* indexes; what an index holds is derived from the documents, which module *)
(* Table shows the writes of a table to keep true.                          *)
(***************************************************************************)
EXTENDS Expr

-----------------------------------------------------------------------------
(* Keys and index records.                                                  *)

\* Table.encodeValueToKey; a document with no primary key has a docid.
EncodeValueToKey(tbl, v) ==
    LET pk == GetPrimaryKey(tbl.fcs)
        type == (CHOOSE fc \in pk : TRUE).type
    IN  CASE pk = {} -> <<Num(CastAsInteger(v))>>
          [] pk # {} /\ type # AnyType -> MarshalBinary(CastAs(v, type))
          [] OTHER -> AppendValue(IF v.t = IntegerValue THEN CastAsDouble(v) ELSE v)

\* A pivot that has a type and no value.
Valueless(t) == Value(t, <<>>, <<NoValue>>, <<>>)
HasValue(v) == v.e # <<NoValue>> /\ v.t \notin {AnyType, NullValue}

\* indexValueEncoder.EncodeValue and Index.EncodeValueBuffer.
EncodeIndexValue(type, v) ==
    (IF type = AnyType THEN <<v.t>> ELSE <<>>) \o (IF HasValue(v) THEN MarshalBinary(v) ELSE <<>>)

EncodeValueBuffer(ix, vs) ==
    Joined([i \in DOMAIN vs |-> EncodeIndexValue(ix.types[i], vs[i])], ArrayValueDelim)

IndexedValues(ix, d) ==
    [i \in DOMAIN ix.paths |->
        LET v == GetValue(d, ix.paths[i]) IN IF v = Error THEN Null ELSE v]

\* The index of a name; a dropped one has no paths.
Index(paths, types, unique) == [paths |-> paths, types |-> types, unique |-> unique]
NoIndex == Index(<<>>, <<>>, FALSE)
Live(ix) == ix # NoIndex

\* The records of an index, in byte order: the values, and the document's place.
Records(tbl, ix) ==
    LET val(i) == EncodeValueBuffer(ix, IndexedValues(ix, tbl.docs[i].doc))
        rec(i) == [val |-> val(i), at |-> i, bytes |-> val(i) \o tbl.docs[i].key]
    IN  SetToSortSeq({rec(i) : i \in DOMAIN tbl.docs}, LAMBDA r, q : Less(r.bytes, q.bytes))

-----------------------------------------------------------------------------
(* Ranges: a lower and an upper bound, expressions for the first paths of   *)
(* the index or for the primary key; none is <<>>.                          *)

ScanRange(min, max, exclusive, exact) ==
    [min |-> min, max |-> max, exclusive |-> exclusive, exact |-> exact]

TypeAt(fcs, path) == IF At(fcs, path) = {} THEN AnyType ELSE fcs[Lowest(At(fcs, path))].type

\* Convert: a bound that is rounded up changes whether it is in the range.
RoundedUp(fcs, path, v) ==
    v.t = DoubleValue /\ TypeAt(fcs, path) = IntegerValue /\ Num(v) % One # 0

Exclusive(fcs, paths, r, min, max) ==
    LET up(vs) == ~r.exact /\ \E i \in DOMAIN vs : RoundedUp(fcs, paths[i], vs[i])
    IN  CASE up(max) -> r.min = <<>>
          [] ~up(max) /\ up(min) -> FALSE
          [] OTHER -> r.exclusive

ConvertBound(fcs, paths, r, vs) ==
    [i \in DOMAIN vs |-> ConvertValueAtPath(fcs, paths[i], vs[i], IF r.exact THEN "exact" ELSE "range")]

\* A bound must have the type of a typed index, or the range is dropped.
Fitted(types, r) ==
    LET fits(vs) == \A i \in DOMAIN vs : types[i] \in {AnyType, vs[i].t}
    IN  [r EXCEPT !.end = IF @ = "ok" /\ ~(fits(r.min) /\ fits(r.max)) THEN "dropped" ELSE @]

Converted(fcs, paths, r, min, max) ==
    [min |-> ConvertBound(fcs, paths, r, min), max |-> ConvertBound(fcs, paths, r, max),
     exact |-> r.exact, exclusive |-> Exclusive(fcs, paths, r, min, max),
     end |-> IF Error \in ToSet(min \o max) THEN "err" ELSE "ok"]

\* evalRange.
EvalRange(tbl, paths, types, r, env) ==
    Fitted(types, Converted(tbl.fcs, paths, r, EvalAll(r.min, env), EvalAll(r.max, env)))

\* The same for the primary key, whose encoded bound may be absent.
EvalValueRange(tbl, r, env) ==
    LET pk == CHOOSE fc \in GetPrimaryKey(tbl.fcs) : TRUE
    IN  EvalRange(tbl, <<pk.path>>, <<pk.type>>, r, env)

EncodedBound(tbl, v) == IF v.e = <<NoValue>> THEN <<>> ELSE EncodeValueToKey(tbl, v)

\* encode: a missing bound gets the first type of the other one.
Typed(vs, other) == IF vs = <<>> THEN <<Valueless(other[1].t)>> ELSE vs

\* IsInRange; min and max are the encodings of the bounds that were given.
IsInRange(r, min, max, val) ==
    IF r.exact THEN val = min
    ELSE /\ r.min = <<>> \/ Less(min, val) \/ (~r.exclusive /\ val = min)
         /\ r.max = <<>> \/ Less(val, max) \/ (~r.exclusive /\ val = max)

\* The records from a seek position, up to one that is out of the range and
\* beyond the encoding of the end of the range, when the end has a value.
SelectRange(recs, r, seek, encEnd) ==
    LET within(x) == IsInRange(r, seek, encEnd, x.val)
        from == SelectSeq(recs, LAMBDA x : ~Less(x.bytes, seek))
        stop == SelectInSeq(from, LAMBDA x : ~within(x) /\ encEnd # <<>> /\ Less(encEnd, x.val))
    IN  SelectSeq(IF stop = 0 THEN from ELSE SubSeq(from, 1, stop - 1), within)

-----------------------------------------------------------------------------
(* Operators: a kind, its expressions, its numbers (a path, names, a count, *)
(* an index), its ranges and its streams.                                   *)

Operator(k, es, x, rs, ss) == [k |-> k, es |-> es, x |-> x, rs |-> rs, ss |-> ss]
SeqScan == Operator("seqScan", <<>>, <<>>, <<>>, <<>>)
PkScan(rs) == Operator("pkScan", <<>>, <<>>, rs, <<>>)
IndexScan(i, rs) == Operator("indexScan", <<>>, <<i>>, rs, <<>>)
Expressions(es) == Operator("exprs", es, <<>>, <<>>, <<>>)
Concat(s1, s2) == Operator("concat", <<>>, <<>>, <<>>, <<s1, s2>>)
Filter(e) == Operator("filter", <<e>>, <<>>, <<>>, <<>>)
Map(e) == Operator("map", <<e>>, <<>>, <<>>, <<>>)
Take(n) == Operator("take", <<>>, <<n>>, <<>>, <<>>)
Skip(n) == Operator("skip", <<>>, <<n>>, <<>>, <<>>)
GroupBy(e) == Operator("groupBy", <<e>>, <<>>, <<>>, <<>>)
HashAggregate(es) == Operator("hashAggregate", es, <<>>, <<>>, <<>>)
Project(es) == Operator("project", es, <<>>, <<>>, <<>>)
Distinct == Operator("distinct", <<>>, <<>>, <<>>, <<>>)
Sort(e) == Operator("sort", <<e>>, <<>>, <<>>, <<>>)
SortReverse(e) == Operator("sortReverse", <<e>>, <<>>, <<>>, <<>>)
SetOp(p, e) == Operator("set", <<e>>, p, <<>>, <<>>)
Unset(f) == Operator("unset", <<>>, <<f>>, <<>>, <<>>)
IterRename(ns) == Operator("iterRename", <<>>, ns, <<>>, <<>>)

\* The rows passed on, and "ok", "err", or "closed" for ErrStreamClosed.
Result(rows, end) == [rows |-> rows, end |-> end]
Pass(env) == Result(<<env>>, "ok")
None == Result(<<>>, "ok")
Err == Result(<<>>, "err")

\* A callback applied to each row in turn, up to the first that fails.
EachRow(prev, F(_)) ==
    LET outs == [i \in DOMAIN prev.rows |-> F(prev.rows[i])]
        bad == SelectInSeq(outs, LAMBDA o : o.end # "ok")
        rows(n) == FlattenSeq([i \in 1..n |-> outs[i].rows])
    IN  IF bad = 0 THEN Result(rows(Len(outs)), prev.end) ELSE Result(rows(bad), outs[bad].end)

-----------------------------------------------------------------------------
(* The first operator of a stream.                                          *)

Rows(tbl, in, I) ==
    [i \in DOMAIN I |-> <<DocFrame(tbl.docs[I[i]].doc, tbl.docs[I[i]].pk)>> \o in]

Places(recs) == [i \in DOMAIN recs |-> recs[i].at]

\* The records of the ranges, one range after the other.
ScanAll(tbl, in, scans) ==
    Result(Rows(tbl, in, Places(FlattenSeq(scans))), "ok")

PkRecords(tbl) ==
    [i \in DOMAIN tbl.docs |-> [val |-> tbl.docs[i].key, bytes |-> tbl.docs[i].key, at |-> i]]

PkScanRange(tbl, r) ==
    SelectRange(PkRecords(tbl), r, EncodedBound(tbl, Typed(r.min, r.max)[1]),
                EncodedBound(tbl, Typed(r.max, r.min)[1]))

PkScanRanges(tbl, in, rngs) ==
    IF \E i \in DOMAIN rngs : rngs[i].end = "err" THEN Err
    ELSE LET ok == SelectSeq(rngs, LAMBDA r : r.end = "ok")
         IN  ScanAll(tbl, in, [i \in DOMAIN ok |-> PkScanRange(tbl, ok[i])])

IteratePkScan(tbl, in, rs) ==
    PkScanRanges(tbl, in, [i \in DOMAIN rs |-> EvalValueRange(tbl, rs[i], in)])

\* An untyped index is left at the first record of another type than the pivot.
IndexScanRange(tbl, ix, r) ==
    LET min == Typed(r.min, r.max)
        recs == SelectSeq(Records(tbl, ix), LAMBDA x :
                    ix.types[1] = AnyType => x.bytes[1] = min[1].t)
    IN  SelectRange(recs, r, EncodeValueBuffer(ix, min), EncodeValueBuffer(ix, Typed(r.max, r.min)))

\* When a range is dropped the index is not read at all.
IndexScanRanges(tbl, in, ix, rngs) ==
    CASE \E i \in DOMAIN rngs : rngs[i].end = "err" -> Err
      [] rngs = <<>> -> Result(Rows(tbl, in, Places(Records(tbl, ix))), "ok")
      [] \E i \in DOMAIN rngs : rngs[i].end = "dropped" -> None
      [] OTHER -> ScanAll(tbl, in, [i \in DOMAIN rngs |-> IndexScanRange(tbl, ix, rngs[i])])

IterateIndexScan(tbl, in, ix, rs) ==
    IF ~Live(ix) THEN Err
    ELSE IndexScanRanges(tbl, in, ix, [i \in DOMAIN rs |-> EvalRange(tbl, ix.paths, ix.types, rs[i], in)])

PassDocument(v, env) == IF v.t = DocumentValue THEN Pass(<<DocFrame(v, NoValue)>> \o env) ELSE Err

IterateExprs(es, in) == EachRow(Result(EvalAll(es, in), "ok"), LAMBDA v : PassDocument(v, in))

-----------------------------------------------------------------------------
(* Operators that work row by row.                                          *)

PassIf(v, env) == CASE v = Error -> Err [] v # Error /\ IsTruthy(v) -> Pass(env) [] OTHER -> None

FilterRow(op, env) == PassIf(Eval(op.es[1], env), env)

MapRow(op, env) == PassDocument(Eval(op.es[1], env), env)

PassGroup(v, e, env) ==
    IF v = Error THEN Err ELSE Pass(<<[EmptyFrame EXCEPT !.group = v, !.gname = String(e)]>> \o env)

GroupRow(op, env) == PassGroup(Eval(op.es[1], env), op.es[1], env)

\* A MaskDocument: the fields of the document for a wildcard, and one field
\* for another expression, which answers to its name and to its text.
ProjectedFields(e, f, env) ==
    IF e.k = "*"
    THEN [i \in DOMAIN f.doc.n |-> [n |-> f.doc.n[i], a |-> f.alias[i], v |-> f.doc.e[i]]]
    ELSE LET as == IF e.k = "named" THEN e.x[1] ELSE String(e)
             text == String(IF e.k = "named" THEN e.a[1] ELSE e)
         IN  <<[n |-> as, a |-> text, v |-> Eval(e, env)]>>

PassMask(fields, env) ==
    IF \E i \in DOMAIN fields : fields[i].v = Error THEN Err
    ELSE Pass(<<[EmptyFrame EXCEPT
                    !.doc = Document([i \in DOMAIN fields |-> fields[i].n], [i \in DOMAIN fields |-> fields[i].v]),
                    !.alias = [i \in DOMAIN fields |-> fields[i].a]]>> \o env)

ProjectRow(op, env) ==
    PassMask(FlattenSeq([i \in DOMAIN op.es |-> ProjectedFields(op.es[i], GetDocument(env), env)]), env)

\* SET leaves out a row in which the path leads through a missing field.
PassChanged(d, f, env) ==
    CASE d = ErrValueNotFound -> Err
      [] d = Error -> None
      [] OTHER -> Pass(<<DocFrame(d, f.key)>> \o env)

SetTo(path, v, f, env) == IF v = Error THEN Err ELSE PassChanged(Set(f.doc, path, v), f, env)
SetRow(op, env) == SetTo(op.x, Eval(op.es[1], env), GetDocument(env), env)

UnsetRow(op, env) ==
    LET f == GetDocument(env)
    IN  IF FieldAt(f.doc, op.x[1]) = {} THEN Pass(env)
        ELSE Pass(<<DocFrame(DeleteField(f.doc, op.x[1]), f.key)>> \o env)

IterRenameRow(op, env) ==
    LET f == GetDocument(env)
    IN  IF Len(f.doc.n) # Len(op.x) THEN Err
        ELSE Pass(<<DocFrame(Document(op.x, f.doc.e), NoValue)>> \o env)

-----------------------------------------------------------------------------
(* Aggregates: what an aggregator has after the values of a group.          *)

AddTo(sum, v) ==
    CASE ~IsNumber(v.t) -> sum
      [] sum = Null -> v
      [] sum.t = IntegerValue /\ v.t = IntegerValue -> Integer(Wrap(Num(sum) + Num(v)))
      [] OTHER -> Double(Num(CastAsDouble(sum)) + Num(CastAsDouble(v)))

\* The lesser (greater) of two values: by value when they can be compared, by
\* type otherwise.
Beats(op, v, best) ==
    IF Comparable(v, best) THEN Compare(op, v, best) ELSE Ordered(op, v.t < best.t, v.t = best.t)
Better(op, best, v) ==
    IF v.t # NullValue /\ (best = Null \/ Beats(op, v, best)) THEN v ELSE best

Aggregate(k, vs) ==
    CASE k \in {"count*", "count"} -> Integer(Len(SelectSeq(vs, LAMBDA v : k = "count*" \/ v # Null)))
      [] k = "min" -> FoldLeft(LAMBDA best, v : Better("<", best, v), Null, vs)
      [] k = "max" -> FoldLeft(LAMBDA best, v : Better(">", best, v), Null, vs)
      [] k = "sum" -> FoldLeft(AddTo, Null, vs)
      [] k = "avg" ->
           LET ns == SelectSeq(vs, LAMBDA v : IsNumber(v.t))
               sum == FoldLeft(LAMBDA x, v : x + Num(CastAsDouble(v)), 0, ns)
           IN  Double(IF ns = <<>> THEN 0 ELSE Quo(sum, Len(ns)))

\* Variant: a group ends where the key changes.
FirstsOfRuns(keys) == SetToSortSeq({i \in DOMAIN keys : i = 1 \/ keys[i - 1] # keys[i]}, <)

\* The first row of each group of rows with the same key.
Firsts(keys) == SetToSortSeq({i \in DOMAIN keys : \A j \in 1..(i - 1) : keys[j] # keys[i]}, <)

\* HashAggregate: the groups in the order they come, told apart by the encoding
\* of the group value, and one group for no rows.  An argument that cannot be
\* evaluated ends it.
GroupKey(env) == IF GetGroup(env) = EmptyFrame THEN AppendValue(Null) ELSE AppendValue(GetGroup(env).group)

IterateHashAggregate(op, prev, in) ==
    LET keys == [i \in DOMAIN prev.rows |-> GroupKey(prev.rows[i])]
        firsts == Firsts(keys)
        group(i) == SelectSeq(prev.rows, LAMBDA env : GroupKey(env) = keys[i])
        arg(agg, env) == IF agg.k = "count*" THEN Null ELSE Eval(agg.a[1], env)
        value(agg, rows) == Aggregate(agg.k, [j \in DOMAIN rows |-> arg(agg, rows[j])])
        bad == \E i \in DOMAIN prev.rows : \E j \in DOMAIN op.es : arg(op.es[j], prev.rows[i]) = Error
        names == [j \in DOMAIN op.es |-> String(op.es[j])]
        doc(rows, frame) ==
            Document((IF frame.gname = 0 THEN <<>> ELSE <<frame.gname>>) \o names,
                     (IF frame.gname = 0 THEN <<>> ELSE <<frame.group>>)
                       \o [j \in DOMAIN op.es |-> value(op.es[j], rows)])
        out(rows, frame) == <<DocFrame(doc(rows, frame), NoValue)>> \o in
    IN  IF bad THEN Err
        ELSE IF prev.end # "ok" THEN Result(<<>>, prev.end)
        ELSE IF prev.rows = <<>> THEN Pass(out(<<>>, EmptyFrame))
        ELSE Result([n \in DOMAIN firsts |->
                         out(group(firsts[n]), GetGroup(prev.rows[firsts[n]]))], "ok")

-----------------------------------------------------------------------------
(* Sort, Distinct, Skip and Take.                                           *)

\* The value a row is sorted by: a path is looked up in the documents of the
\* row's environments, the innermost first.
SortValue(e, env) ==
    LET found == SelectInSeq(env, LAMBDA f : f.doc # NoValue /\ FrameValue(f, e.x) # Error)
    IN  IF ~IsPath(e) THEN Eval(e, env) ELSE IF found = 0 THEN Null ELSE FrameValue(env[found], e.x)

\* Environment.Clone copies the documents, a projected one under its names.
Clone(env) == [i \in DOMAIN env |-> [env[i] EXCEPT !.alias = env[i].doc.n]]

\* Variant: the direction is ignored.
HeapOrderAscending(op, keys) ==
    SetToSortSeq(DOMAIN keys, LAMBDA i, j : Less(keys[i], keys[j]) \/ (keys[i] = keys[j] /\ i < j))

\* Rows that tie come out of the heap in some order; here as they came.
HeapOrder(op, keys) ==
    LET before(i, j) == IF op.k = "sort" THEN Less(keys[i], keys[j]) ELSE Less(keys[j], keys[i])
    IN  SetToSortSeq(DOMAIN keys, LAMBDA i, j : before(i, j) \/ (keys[i] = keys[j] /\ i < j))

Popped(rows, order) == [n \in DOMAIN order |-> Clone(rows[order[n]])]

IterateSort(op, prev) ==
    LET keys == [i \in DOMAIN prev.rows |-> AppendValue(SortValue(op.es[1], prev.rows[i]))]
    IN  IF prev.end # "ok" THEN Result(<<>>, prev.end)
        ELSE Result(Popped(prev.rows, HeapOrder(op, keys)), "ok")

\* Rows are the same when the values of their sorted fields are.
RowKey(env) ==
    LET d == GetDocument(env).doc
    IN  FlattenSeq([i \in DOMAIN d.n |-> AppendValue(GetByField(d, Fields(d)[i]))])

IterateDistinct(prev) ==
    LET keys == [i \in DOMAIN prev.rows |-> RowKey(prev.rows[i])]
        firsts == Firsts(keys)
    IN  Result([n \in DOMAIN firsts |-> prev.rows[firsts[n]]], prev.end)

IterateSkip(op, prev) == [prev EXCEPT !.rows = SubSeq(@, op.x[1] + 1, Len(@))]

\* Take answers the row after its last one with ErrStreamClosed, which a scan
\* with ranges keeps to itself when nothing between them collects the rows.
Swallows(s) ==
    /\ s[1].k \in {"pkScan", "indexScan"} /\ s[1].rs # <<>>
    /\ \A i \in DOMAIN s : s[i].k \notin {"sort", "sortReverse", "hashAggregate"}

\* Variant: the count is compared before it is raised.
IterateTakeOneMore(op, s, prev) ==
    IF Len(prev.rows) <= op.x[1] + 1 THEN prev
    ELSE Result(SubSeq(prev.rows, 1, op.x[1] + 1), IF Swallows(s) THEN "ok" ELSE "closed")

IterateTake(op, s, prev) ==
    IF Len(prev.rows) <= op.x[1] THEN prev
    ELSE Result(SubSeq(prev.rows, 1, op.x[1]), IF Swallows(s) THEN "ok" ELSE "closed")

-----------------------------------------------------------------------------
(* Stream.Iterate: the last operator iterates over what precedes it.        *)

RECURSIVE Iterate(_, _, _)
Iterate(s, tbl, in) ==
    LET op == Last(s)
        prev == Iterate(Front(s), tbl, in)
    IN  CASE s = <<>> -> None
          [] op.k = "seqScan" \/ (op.k = "pkScan" /\ op.rs = <<>>) ->
               Result(Rows(tbl, in, [i \in DOMAIN tbl.docs |-> i]), "ok")
          [] op.k = "pkScan" /\ op.rs # <<>> -> IteratePkScan(tbl, in, op.rs)
          [] op.k = "indexScan" -> IterateIndexScan(tbl, in, tbl.ix[op.x[1]], op.rs)
          [] op.k = "exprs" -> IterateExprs(op.es, in)
          [] op.k = "concat" ->
               LET r1 == Iterate(op.ss[1], tbl, in)
                   r2 == Iterate(op.ss[2], tbl, in)
               IN  IF r1.end # "ok" THEN r1 ELSE Result(r1.rows \o r2.rows, r2.end)
          [] op.k = "filter" -> EachRow(prev, LAMBDA env : FilterRow(op, env))
          [] op.k = "map" -> EachRow(prev, LAMBDA env : MapRow(op, env))
          [] op.k = "groupBy" -> EachRow(prev, LAMBDA env : GroupRow(op, env))
          [] op.k = "project" -> EachRow(prev, LAMBDA env : ProjectRow(op, env))
          [] op.k = "set" -> EachRow(prev, LAMBDA env : SetRow(op, env))
          [] op.k = "unset" -> EachRow(prev, LAMBDA env : UnsetRow(op, env))
          [] op.k = "iterRename" -> EachRow(prev, LAMBDA env : IterRenameRow(op, env))
          [] op.k = "hashAggregate" -> IterateHashAggregate(op, prev, in)
          [] op.k \in {"sort", "sortReverse"} -> IterateSort(op, prev)
          [] op.k = "distinct" -> IterateDistinct(prev)
          [] op.k = "skip" -> IterateSkip(op, prev)
          [] op.k = "take" -> IterateTake(op, s, prev)
          [] op.k = "write" -> prev

\* StreamStmtIterator.Iterate: what a client sees, and whether it sees an error.
\* by is the value the rows are ordered by, key the document they come from.
Seen(r, order) ==
    LET row(env) == [doc |-> GetDocument(env).doc,
                     key |-> Innermost(env, LAMBDA f : f.key # NoValue).key,
                     by |-> IF order = <<>> THEN Null ELSE SortValue(order[1], env)]
    IN  [rows |-> [i \in DOMAIN r.rows |-> row(r.rows[i])], err |-> r.end = "err"]

StatementResult(s, tbl, params, order) ==
    Seen(Iterate(s, tbl, <<[EmptyFrame EXCEPT !.params = params]>>), order)
=============================================================================
