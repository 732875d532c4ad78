------------------------------- MODULE Query --------------------------------
(***************************************************************************)
(* Statements from their parsed form to their result:                      *)
(* internal/query/statement (ToStream, Prepare, Run), planner.Optimize and *)
(* a prepared Statement of db.go.                                          *)
(*                                                                         *)
(* A statement is prepared once, one rule of the planner after the other,  *)
(* and run later, when other transactions have changed the documents of    *)
(* the table or dropped an index of it.                                    *)
(***************************************************************************)
EXTENDS Planner

CONSTANTS Schemas,        \* the tables statements are prepared for, empty
          Statements(_),  \* the statements on a table
          Contents(_),    \* the documents INSERT accepts in a table
          Params          \* the parameters a statement is run with

VARIABLES tbl,    \* the table
          stmt,   \* the statement
          plan,   \* its stream, as far as it is optimised
          pc,     \* how many rules have been applied
          res     \* what the statement returned, see RunStmt

queryVars == <<tbl, stmt, plan, pc, res>>

\* SelectStmt, UpdateStmt and DeleteStmt; what a statement has not is empty.
Stmt(k, where, proj) ==
    [k |-> k, where |-> where, proj |-> proj, group |-> <<>>, distinct |-> FALSE, order |-> <<>>,
     desc |-> FALSE, offset |-> <<>>, limit |-> <<>>, union |-> <<>>, from |-> TRUE, set |-> <<>>,
     unset |-> <<>>]

IsAggregate(e) == e.k = "named" /\ e.a[1].k \in Aggregators
Aggregates(q) == SelectSeq(q.proj, IsAggregate)
Plain(q) == q.group = <<>> /\ Aggregates(q) = <<>>

\* expr.Walk visits operators, named expressions and functions.
RECURSIVE Mentions(_)
Mentions(e) ==
    \/ e.k \in {"path", "*"}
    \/ /\ IsOperator(e) \/ e.k = "named" \/ e.k = "cast" \/ e.k \in Aggregators
       /\ \E i \in DOMAIN e.a : ~(e.k = "between" /\ i = 1) /\ Mentions(e.a[i])

\* A projection of a GROUP BY has aggregates and the grouping expression only;
\* a SELECT with no table has no path.
Refuse(q) ==
    \/ q.group # <<>> /\ \E i \in DOMAIN q.proj :
           ~IsAggregate(q.proj[i]) /\ (q.proj[i].k # "named" \/ q.proj[i].a[1] # q.group[1])
    \/ ~q.from /\ \E i \in DOMAIN q.proj : Mentions(q.proj[i])

Each(es, F(_)) == [i \in DOMAIN es |-> F(es[i])]
SortOp(q, e) == IF q.desc THEN SortReverse(e) ELSE Sort(e)

\* ToStream of the three statements.  OFFSET and LIMIT are numbers here: the
\* code evaluates them and casts them to integers.
SelectStream(q) ==
    LET aggs == Aggregates(q)
        from == <<SeqScan>> \o Each(q.where, Filter) \o Each(q.group, GroupBy)
                  \o (IF Plain(q) THEN <<>> ELSE <<HashAggregate(Each(aggs, LAMBDA e : e.a[1]))>>)
                  \o <<Project(q.proj)>>
    IN  (IF q.from THEN from
         ELSE <<Expressions(<<KVPairs(Each(q.proj, LAMBDA e : String(e.a[1])), q.proj)>>)>>)
        \o (IF q.distinct THEN <<Distinct>> ELSE <<>>)
        \o Each(q.order, LAMBDA e : SortOp(q, e)) \o Each(q.offset, Skip) \o Each(q.limit, Take)

UpdateStream(q) ==
    <<SeqScan>> \o Each(q.where, Filter)
      \o Each(q.set, LAMBDA a : SetOp(a.path, a.e)) \o Each(q.unset, Unset)

DeleteStream(q) ==
    <<SeqScan>> \o Each(q.where, Filter) \o Each(q.order, LAMBDA e : SortOp(q, e))
      \o Each(q.offset, Skip) \o Each(q.limit, Take)

\* The operator that writes the rows of an UPDATE or a DELETE to the table ends
\* the stream; module Table has what it does to a row.
WriteRows == Operator("write", <<>>, <<>>, <<>>, <<>>)

ToStream(q) ==
    CASE q.k = "select" /\ q.union = <<>> -> SelectStream(q)
      [] q.k = "select" /\ q.union # <<>> -> <<Concat(SelectStream(q), SelectStream(q.union[1]))>>
      [] q.k = "update" -> Append(UpdateStream(q), WriteRows)
      [] q.k = "delete" -> Append(DeleteStream(q), WriteRows)

-----------------------------------------------------------------------------
(* Prepare: Optimize applies the rules in turn, to both sides of a UNION,   *)
(* and stops when a rule leaves no operator.                                *)

IsConcat(s) == s # EmptyStream /\ s[1].k = "concat"
Rewrite(s, F(_)) ==
    LET G(r) == IF r = EmptyStream THEN r ELSE F(r)
    IN  IF IsConcat(s) THEN <<[s[1] EXCEPT !.ss = Each(@, G)]>> ELSE G(s)

Applied == pc' = pc + 1 /\ UNCHANGED <<tbl, stmt, res>>

SplitANDConditionRule == pc = 0 /\ plan' = Rewrite(plan, SplitANDCondition) /\ Applied
RemoveUnnecessaryProjectionRule ==
    pc = 1 /\ plan' = Rewrite(plan, RemoveUnnecessaryProjection) /\ Applied
RemoveUnnecessaryDistinctNodeRule ==
    pc = 2 /\ plan' = Rewrite(plan, LAMBDA s : RemoveUnnecessaryDistinctNode(s, tbl)) /\ Applied
RemoveUnnecessaryFilterNodesRule ==
    pc = 3 /\ plan' = Rewrite(plan, RemoveUnnecessaryFilterNodes) /\ Applied
UseIndexBasedOnFilterNodeRule ==
    pc = 4 /\ plan' = Rewrite(plan, LAMBDA s : UseIndex(s, tbl)) /\ Applied
PrecalculateExprRule == pc = 5 /\ plan' = Rewrite(plan, Precalculate) /\ Applied
Prepared == pc = 6

NoResult == <<>>
Ran == res # NoResult
Windowed(q) == q.offset # <<>> \/ q.limit # <<>>
Unwindowed(q) == [q EXCEPT !.offset = <<>>, !.limit = <<>>]

\* Between Prepare and Run.
OtherWrites ==
    /\ Prepared /\ ~Ran
    /\ \E docs \in Contents(tbl) : tbl' = [tbl EXCEPT !.docs = docs]
    /\ UNCHANGED <<stmt, plan, pc, res>>

DropIndex ==
    /\ Prepared /\ ~Ran
    /\ \E i \in DOMAIN tbl.ix : Live(tbl.ix[i]) /\ tbl' = [tbl EXCEPT !.ix[i] = NoIndex]
    /\ UNCHANGED <<stmt, plan, pc, res>>

\* Run: what the plan returns, got, and, to compare it with, what the stream
\* that was not optimised would return, want, and return without a window, all.
RunStmt ==
    LET streams == [got |-> plan, want |-> ToStream(stmt), all |-> ToStream(Unwindowed(stmt))]
    IN  /\ Prepared /\ ~Panicked(plan) /\ ~Ran
        /\ res' = [x \in DOMAIN streams |-> StatementResult(streams[x], tbl, Params, stmt.order)]
        /\ UNCHANGED <<tbl, stmt, plan, pc>>

QueryInit ==
    /\ res = NoResult
    /\ tbl \in Schemas
    /\ stmt \in {q \in Statements(tbl) : ~Refuse(q)}
    /\ plan = ToStream(stmt)
    /\ pc = 0

QueryNext ==
    \/ SplitANDConditionRule \/ RemoveUnnecessaryProjectionRule
    \/ RemoveUnnecessaryDistinctNodeRule \/ RemoveUnnecessaryFilterNodesRule
    \/ UseIndexBasedOnFilterNodeRule \/ PrecalculateExprRule
    \/ OtherWrites \/ RunStmt

-----------------------------------------------------------------------------
(* What a statement returns.                                                *)

Times(s, x) == Cardinality({i \in DOMAIN s : s[i] = x})
SameRows(s, u) == Len(s) = Len(u) /\ \A x \in ToSet(s) : Times(s, x) = Times(u, x)

\* The optimised stream of a statement, whenever it is run, returns what the
\* stream ToStream built would return on the same table: the same rows, in an
\* order that ORDER BY does not tell apart, and an error when that one does.
\* With LIMIT or OFFSET it returns as many of the rows there are without them.
SameResult ==
    /\ Prepared => ~Panicked(plan)
    /\ Ran => res.got.err = res.want.err
    /\ Ran /\ ~res.got.err =>
         LET got == res.got.rows
             want == res.want.rows
         IN  /\ Len(got) = Len(want)
             /\ \A i \in DOMAIN got : got[i].by = want[i].by
             /\ ~Windowed(stmt) => SameRows(got, want)
             /\ \A x \in ToSet(got) : Times(got, x) <= Times(res.all.rows, x)

\* The documents a condition selects.
Holds(v) == v # Error /\ IsTruthy(v)
Selected ==
    {i \in DOMAIN tbl.docs :
        \A n \in DOMAIN stmt.where :
            Holds(Eval(stmt.where[n], <<DocFrame(tbl.docs[i].doc, tbl.docs[i].pk),
                                        [EmptyFrame EXCEPT !.params = Params]>>))}

\* A SELECT, UPDATE or DELETE returns or writes the documents for which the
\* condition is truthy, each once, and with LIMIT and OFFSET as many of them as
\* are left after the offset, up to the limit.
Window(n, q) ==
    LET left == IF q.offset = <<>> THEN n ELSE IF q.offset[1] > n THEN 0 ELSE n - q.offset[1]
    IN  IF q.limit = <<>> \/ left < q.limit[1] THEN left ELSE q.limit[1]

RowsAreSelected ==
    Ran /\ Plain(stmt) /\ ~stmt.distinct /\ stmt.union = <<>> /\ stmt.from =>
        LET keys == [i \in DOMAIN res.got.rows |-> res.got.rows[i].key]
        IN  ~res.got.err => /\ IsInjective(keys)
                            /\ ToSet(keys) \subseteq {tbl.docs[i].pk : i \in Selected}
                            /\ Len(keys) = Window(Cardinality(Selected), stmt)

\* The order of values of any types: by type, then by value.
Before(v, w) == v.t < w.t \/ (v.t = w.t /\ v.t # NullValue /\ Compare("<", v, w))

\* The rows of a statement with ORDER BY come in the order of their values: of
\* all the rows there are, the n-th one returned, after those OFFSET skips, is
\* one of the n-th rank, for the scan, the index and the heap that SortOperator
\* puts between them.
OrderIsKept ==
    Ran /\ stmt.order # <<>> =>
        LET before(v, w) == IF stmt.desc THEN Before(w, v) ELSE Before(v, w)
            skipped == IF stmt.offset = <<>> THEN 0 ELSE stmt.offset[1]
            got == res.got.rows
            all == res.all.rows
        IN  \A n \in DOMAIN got :
                /\ Cardinality({i \in DOMAIN all : before(all[i].by, got[n].by)}) < skipped + n
                /\ Cardinality({i \in DOMAIN all : ~before(got[n].by, all[i].by)}) >= skipped + n

\* The groups of a GROUP BY part the selected documents: their values differ,
\* and the counts of the groups add up to the number of documents.  With no
\* GROUP BY there is one group.
GroupsPartition ==
    Ran /\ Aggregates(stmt) # <<>> /\ stmt.union = <<>> /\ stmt.limit = <<>> =>
        LET rows == [i \in DOMAIN res.got.rows |-> res.got.rows[i].doc]
            value(d) == GetByField(d, String(stmt.group[1]))
            count(d) == Num(GetByField(d, String(CountAll)))
        IN  ~res.got.err =>
              /\ stmt.group = <<>> => Len(rows) = 1
              /\ stmt.group # <<>> => \A i, j \in DOMAIN rows :
                     i # j => ~IsEqual(value(rows[i]), value(rows[j]))
              /\ FoldLeft(LAMBDA n, d : n + count(d), 0, rows) = Cardinality(Selected)
=============================================================================
