------------------------------ MODULE Planner -------------------------------
(***************************************************************************)
(* The rules that turn the stream of a statement into the one that is run: *)
(* internal/planner/optimizer.go.                                          *)
(***************************************************************************)
EXTENDS Stream

Kinds(s, k) == {i \in DOMAIN s : s[i].k = k}
Splice(s, i, ops) == SubSeq(s, 1, i - 1) \o ops \o SubSeq(s, i + 1, Len(s))
EmptyStream == <<>>

\* SplitANDConditionRule goes backwards and ends at the first filter it splits:
\* removing an operator cuts its link to the one before.
RECURSIVE SplitANDExpr(_)
SplitANDExpr(e) ==
    IF e.k = "and" THEN SplitANDExpr(e.a[1]) \o SplitANDExpr(e.a[2]) ELSE <<e>>

SplitANDCondition(s) ==
    LET I == {i \in Kinds(s, "filter") : s[i].es[1].k = "and"}
        i == CHOOSE i \in I : \A j \in I : j <= i
        es == SplitANDExpr(s[i].es[1])
    IN  IF I = {} THEN s ELSE Splice(s, i, [n \in DOMAIN es |-> Filter(es[n])])

\* The expressions that can be computed without a document; one that fails
\* makes the planner panic, and is a literal error here.
RECURSIVE PrecalculateExpr(_)
PrecalculateExpr(e) ==
    LET args == [i \in DOMAIN e.a |->
                    IF e.k = "between" /\ i = 1 THEN e.a[i] ELSE PrecalculateExpr(e.a[i])]
        new == [e EXCEPT !.a = args]
    IN  CASE e.k = "list" -> new
          [] e.k = "kvpairs" -> IF \A i \in DOMAIN args : IsLiteral(args[i])
                                THEN Literal(Eval(new, <<>>)) ELSE new
          [] e.k \in {"and", "or"} \cup ArithmeticOps \cup ComparisonOps ->
               IF IsLiteral(LeftHand(new)) /\ IsLiteral(RightHand(new))
               THEN Literal(Eval(new, <<>>)) ELSE new
          [] OTHER -> e

Precalculate(s) ==
    [i \in DOMAIN s |->
        IF s[i].k \in {"filter", "project"}
        THEN [s[i] EXCEPT !.es = [j \in DOMAIN @ |-> PrecalculateExpr(@[j])]] ELSE s[i]]

Panicked(s) == \E i \in DOMAIN s : \E j \in DOMAIN s[i].es : s[i].es[j] = Literal(Error)

\* A constant condition is dropped when it is truthy; when it is not, or when it
\* looks into an empty array, there is no row at all.
IsFalsy(e) ==
    \/ IsLiteral(e) /\ ~IsTruthy(e.v)
    \/ e.k = "in" /\ IsLiteral(e.a[2]) /\ e.a[2].v.t = ArrayValue /\ e.a[2].v.e = <<>>

RemoveConstantFilters(s) == SelectSeq(s, LAMBDA op : ~(op.k = "filter" /\ IsLiteral(op.es[1])))
RemoveUnnecessaryFilterNodes(s) ==
    IF \E i \in Kinds(s, "filter") : IsFalsy(s[i].es[1]) THEN EmptyStream
    ELSE RemoveConstantFilters(s)

RemoveUnnecessaryProjection(s) == SelectSeq(s, LAMBDA op : op.es # <<Wildcard>> \/ op.k # "project")

\* RemoveUnnecessaryDistinctNode: each projected field is the primary key or has
\* a unique index, the first on its path.
IsProjectionUnique(tbl, es) ==
    LET unique(p) ==
            LET I == {i \in DOMAIN tbl.ix : Live(tbl.ix[i]) /\ tbl.ix[i].paths[1] = p}
            IN  \/ \E fc \in GetPrimaryKey(tbl.fcs) : fc.path = p
                \/ I # {} /\ tbl.ix[Lowest(I)].unique
    IN  \A i \in DOMAIN es : es[i].k = "pk" \/ (IsPath(es[i]) /\ unique(es[i].x))

RemoveUnnecessaryDistinctNode(s, tbl) ==
    LET redundant(i) == /\ s[i].k = "distinct" /\ i > 1 /\ s[i - 1].k = "project"
                        /\ IsProjectionUnique(tbl, s[i - 1].es)
        kept == SetToSortSeq({i \in DOMAIN s : ~redundant(i)}, <)
    IN  IF s[1].k # "seqScan" THEN s ELSE [n \in DOMAIN kept |-> s[kept[n]]]

-----------------------------------------------------------------------------
(* UseIndexBasedOnFilterNode.                                               *)

\* operatorCanUseIndex: which operand is the path, 0 for none.
PathSide(e) ==
    LET left == IsPath(LeftHand(e))
        right == IsPath(RightHand(e))
    IN  CASE Token(e) = "in" -> IF left /\ RightHand(e).k = "list" THEN 1 ELSE 0
          [] OTHER -> IF left /\ ~right THEN 1 ELSE IF right /\ ~left THEN 2 ELSE 0

IndexCompatible == {"=", ">", ">=", "<", "<=", "in"}
CanUseIndex(e) == IsOperator(e) /\ Token(e) \in IndexCompatible /\ PathSide(e) # 0
PathOf(e) == IF PathSide(e) = 1 THEN LeftHand(e).x ELSE RightHand(e).x
Operand(e) == IF PathSide(e) = 1 THEN RightHand(e) ELSE LeftHand(e)

\* Variant: every bound is inclusive.
BuildRangeInclusive(tok, bounds) ==
    CASE tok \in {"=", "in"} -> ScanRange(bounds, <<>>, FALSE, TRUE)
      [] tok \in {">", ">="} -> ScanRange(bounds, <<>>, FALSE, FALSE)
      [] tok \in {"<", "<="} -> ScanRange(<<>>, bounds, FALSE, FALSE)

\* A range for an operator over bounds, the last of which is the operator's.
BuildRange(tok, bounds) ==
    CASE tok \in {"=", "in"} -> ScanRange(bounds, <<>>, FALSE, TRUE)
      [] tok \in {">", ">="} -> ScanRange(bounds, <<>>, tok = ">", FALSE)
      [] tok \in {"<", "<="} -> ScanRange(<<>>, bounds, tok = "<", FALSE)

\* IndexRange.IsEqual and Append, which drops a range that is there already.
SameBound(a, b) == IF IsLiteral(a) /\ IsLiteral(b) THEN IsEqual(a.v, b.v) ELSE a = b
SameBounds(a, b) == Len(a) = Len(b) /\ \A i \in DOMAIN a : SameBound(a[i], b[i])
SameRange(r, q) == /\ r.exact = q.exact
                   /\ r.exclusive = q.exclusive
                   /\ SameBounds(r.min, q.min)
                   /\ SameBounds(r.max, q.max)
AppendRange(rs, r) == IF \E i \in DOMAIN rs : SameRange(rs[i], r) THEN rs ELSE Append(rs, r)

\* getRangesFromFilterNodes: a range for each element of the list of an IN,
\* whose place is held by the zero LiteralValue.
IndexRanges(es) ==
    LET bounds == [i \in DOMAIN es |-> IF Token(es[i]) = "in" THEN Literal(NoValue) ELSE Operand(es[i])]
        tok == Token(Last(es))
        ins == {i \in DOMAIN es : Token(es[i]) = "in"}
        pos == CHOOSE i \in ins : TRUE
        list == Operand(es[pos]).a
        ranges == [n \in DOMAIN list |-> BuildRange(tok, [bounds EXCEPT ![pos] = list[n]])]
    IN  IF ins = {} \/ list = <<>> THEN <<BuildRange(tok, bounds)>>
        ELSE FoldLeft(AppendRange, <<>>, ranges)

\* ValueRange.IsEqual is true of ranges whose bounds all differ, so Append
\* keeps equal ones.
SameValueRange(r, q) == /\ r.exact = q.exact
                        /\ r.exclusive = q.exclusive
                        /\ ~SameBounds(r.min, q.min)
                        /\ ~SameBounds(r.max, q.max)
AppendValueRange(rs, r) ==
    IF \E i \in DOMAIN rs : SameValueRange(rs[i], r) THEN rs ELSE Append(rs, r)

\* getRangesFromOp: a range for each element of the list of an IN.
PkRanges(e) ==
    LET operands == IF Token(e) = "in" THEN Operand(e).a ELSE <<Operand(e)>>
    IN  FoldLeft(LAMBDA rs, o : AppendValueRange(rs, BuildRange(Token(e), <<o>>)), <<>>, operands)

\* ValueRanges.Cost and IndexRanges.Cost, of ranges with one bound.
Cost(rs) == FoldLeft(LAMBDA c, r : c + (IF r.exact THEN 1 ELSE 100), 0, rs)

\* A scan, the filters it replaces, and what it is worth.
Candidate(filters, op, priority) ==
    [filters |-> filters, op |-> op, priority |-> priority, cost |-> Cost(op.rs)]

\* The filters that can use an index, the last of the stream first.
FilterNodes(s) ==
    Reverse(SetToSortSeq({i \in Kinds(s, "filter") : CanUseIndex(s[i].es[1])}, <))

PkCandidates(s, tbl) ==
    LET nodes == SelectSeq(FilterNodes(s), LAMBDA i :
                     \E fc \in GetPrimaryKey(tbl.fcs) : fc.path = PathOf(s[i].es[1]))
    IN  [n \in DOMAIN nodes |-> Candidate(<<nodes[n]>>, PkScan(PkRanges(s[nodes[n]].es[1])), 3)]

\* The filters on the first paths of an index, as far as there is one for each;
\* none when one that is followed by another is not an equality.
UsableFilters(s, ix) ==
    LET nodes == FilterNodes(s)
        found(p) == SelectInSeq(nodes, LAMBDA i : PathOf(s[i].es[1]) = p)
        n == Lowest({m \in 0..Len(ix.paths) : m = Len(ix.paths) \/ found(ix.paths[m + 1]) = 0})
        used == [i \in 1..n |-> nodes[found(ix.paths[i])]]
    IN  IF \A i \in 1..(n - 1) : Token(s[used[i]].es[1]) \in {"=", "in"} THEN used ELSE <<>>

IndexCandidate(s, tbl, i) ==
    LET used == UsableFilters(s, tbl.ix[i])
    IN  IF used = <<>> THEN <<>>
        ELSE <<Candidate(used, IndexScan(i, IndexRanges([n \in DOMAIN used |-> s[used[n]].es[1]])),
                         IF tbl.ix[i].unique THEN 2 ELSE 1)>>

\* More filters first, then a lower cost, then a higher priority.
Select(best, cd) ==
    LET n == Len(best.filters)
        m == Len(cd.filters)
    IN  IF \/ n < m
           \/ n = m /\ cd.cost < best.cost
           \/ n = m /\ cd.cost = best.cost /\ best.priority < cd.priority
        THEN cd ELSE best

ReplaceFilters(s, best) ==
    LET kept == SetToSortSeq({i \in 2..Len(s) : i \notin ToSet(best.filters)}, <)
    IN  <<best.op>> \o [n \in DOMAIN kept |-> s[kept[n]]]

UseBest(s, cds) == IF cds = <<>> THEN s ELSE ReplaceFilters(s, FoldLeft(Select, cds[1], cds))

UseIndex(s, tbl) ==
    IF s[1].k # "seqScan" THEN s
    ELSE UseBest(s, PkCandidates(s, tbl)
                      \o FlattenSeq([i \in DOMAIN tbl.ix |-> IndexCandidate(s, tbl, i)]))
=============================================================================
