------------------------------- MODULE MCSql -------------------------------
(***************************************************************************)
(* Four questions about SQL in one run: part tells which one a behaviour   *)
(* is about, and the state of the others is idle.                          *)
(***************************************************************************)
EXTENDS Query, Schema, ValueLaws, ExprParser

CONSTANT Parts   \* the parts that are run

VARIABLE part

-----------------------------------------------------------------------------
(* Statements.                                                              *)

\* Fields a and b, and the primary key k.
a == Path(<<1>>)
b == Path(<<2>>)
k == Path(<<3>>)
Lit(i) == Literal(Integer(i))
Half == One \div 2

KeyField(type) == FieldConstraint(<<3>>, type, TRUE, FALSE, NoValue)
TableOf(constraints, ix) == [fcs |-> constraints, ix |-> ix, docs |-> <<>>]
IntegerA == FieldConstraint(<<1>>, IntegerValue, FALSE, FALSE, NoValue)

\* An untyped index; typed ones, one of them unique; a composite index; and a
\* table with docids and no index.
MCSchemas ==
    {TableOf(<<KeyField(IntegerValue)>>, <<Index(<<<<1>>>>, <<AnyType>>, FALSE)>>),
     TableOf(<<KeyField(IntegerValue), IntegerA>>,
             <<Index(<<<<2>>>>, <<AnyType>>, FALSE), Index(<<<<1>>>>, <<IntegerValue>>, TRUE)>>),
     TableOf(<<KeyField(IntegerValue), IntegerA>>,
             <<Index(<<<<1>>, <<2>>>>, <<IntegerValue, AnyType>>, FALSE)>>),
     TableOf(<<>>, <<>>)}

InsertAll(t, raw) ==
    [i \in DOMAIN raw |->
        [key |-> EncodeValueToKey(t, Integer(2 * i)), pk |-> Integer(2 * i),
         doc |-> ValidateDocument(t.fcs, Document(<<3, 1, 2>>, <<Integer(2 * i)>> \o raw[i]))]]

\* What INSERT and the indexes accept.
Accepted(t, docs) ==
    /\ \A i \in DOMAIN docs : docs[i].doc # Error
    /\ \A ix \in ToSet(t.ix) : Live(ix) =>
         /\ \A i \in DOMAIN docs : \A n \in DOMAIN ix.types :
                ix.types[n] \in {AnyType, IndexedValues(ix, docs[i].doc)[n].t}
         /\ ix.unique => \A i, j \in DOMAIN docs :
                i # j => IndexedValues(ix, docs[i].doc) # IndexedValues(ix, docs[j].doc)

RawA == {Integer(1), Integer(2), Null}
RawB == {Integer(1), Text(<<97>>)}
AllContents(t) ==
    {docs \in {InsertAll(t, raw) : raw \in BoundedSeq(RawA \X RawB, 2) \cup
                 {[i \in 1..3 |-> <<Integer(as[i]), Integer((i % 2) + 1)>>] :
                    as \in {<<1, 2, 3>>, <<3, 2, 1>>, <<2, 2, 1>>, <<2, 1, 2>>}}} :
        Accepted(t, docs)}
ContentsOf == [t \in MCSchemas |-> AllContents(t)]
MCContents(t) == LET e == [t EXCEPT !.docs = <<>>] IN IF e \in MCSchemas THEN ContentsOf[e] ELSE AllContents(t)

\* Conditions.
Untyped(t, e) == \E i \in DOMAIN t.ix : t.ix[i].paths = <<e.x>> /\ t.ix[i].types = <<AnyType>>
Composite(t) == \E i \in DOMAIN t.ix : Len(t.ix[i].paths) > 1

Comparisons(t) ==
    {Op(op, k, Literal(v)) : op \in CmpOps, v \in {Integer(4), Double(5 * Half)}}
      \cup (IF Composite(t) THEN {} ELSE
            {Op(op, a, Literal(v)) : op \in CmpOps \ (IF Untyped(t, a) THEN {">"} ELSE {}),
                                     v \in {Integer(2), Double(3 * Half)}}
              \cup {Op("=", a, PositionalParam(1)), Op("in", a, LiteralExprList(<<Lit(1), Lit(2), Lit(1)>>)),
                    Op("and", Op(">=", a, Lit(1)), Op("<", a, Lit(2)))})

OtherConditions ==
    {Op("=", b, Lit(1)), Op("and", Op("=", a, Lit(1)), Op("=", b, Lit(1))),
     Op("and", Op("and", Op(">", k, Lit(2)), Op("=", a, Lit(1))), Op("=", b, Lit(2))),
     Op("or", Op("=", k, Lit(2)), Op("=", b, Lit(1))),
     Op("and", Op("in", k, LiteralExprList(<<Lit(2), Lit(6)>>)), Literal(Bool(TRUE))),
     Op("and", Op("=", k, Literal(Text(<<97>>))), Op("<=", k, Lit(4))),
     Not(Op("=", b, Lit(1))), Op("is", a, Literal(Null)),
     Op("in", k, Literal(Array(<<>>))), Op("<", k, PositionalParam(1)),
     Between(k, Lit(2), PositionalParam(1)), Op("=", Lit(2), k),
     Op("=", Op("+", Lit(1), Lit(1)), Op("-", k, a)), Literal(Integer(0)), Literal(Integer(1)),
     Op("notin", a, LiteralExprList(<<Lit(1)>>)), Op("like", b, Literal(Text(<<37>>)))}

Named(e) == NamedExpr(e, String(e))
All(where) == Stmt("select", where, <<Wildcard>>)
Set1 == [path |-> <<2>>, e |-> Op("+", b, Lit(1))]

\* Statements of other shapes over a condition.
Shapes(where) ==
    {Stmt("select", where, <<NamedExpr(a, 9), Named(b)>>),
     [Stmt("select", where, <<Named(b)>>) EXCEPT !.distinct = TRUE],
     [All(where) EXCEPT !.order = <<b>>], [All(where) EXCEPT !.limit = <<1>>],
     [Stmt("select", where, <<Named(b)>>) EXCEPT !.order = <<a>>, !.desc = TRUE, !.offset = <<1>>, !.limit = <<1>>],
     [All(where) EXCEPT !.order = <<a>>, !.desc = TRUE],
     [Stmt("select", where, <<Named(b), Named(CountAll), Named(Aggregator("sum", k))>>) EXCEPT !.group = <<b>>],
     [Stmt("select", where, <<Named(a), Named(CountAll)>>) EXCEPT !.group = <<a>>, !.order = <<a>>],
     Stmt("select", where, <<Named(CountAll), Named(Aggregator("min", a)), Named(Aggregator("max", b)),
                             Named(Aggregator("avg", k)), Named(Aggregator("count", a))>>),
     [Stmt("update", where, <<>>) EXCEPT !.set = <<Set1>>],
     [Stmt("update", where, <<>>) EXCEPT !.unset = <<2>>],
     [Stmt("delete", where, <<>>) EXCEPT !.order = <<a>>, !.limit = <<1>>],
     [All(where) EXCEPT !.union = <<All(<<Op("=", k, Lit(4))>>)>>]}

MCStatements(t) ==
    {All(<<e>>) : e \in Comparisons(t) \cup OtherConditions}
      \cup UNION {Shapes(w) : w \in {<<>>, <<Op("and", Op(">=", k, Lit(3)), Op("=", b, Lit(1)))>>}
                      \cup (IF Composite(t) THEN {} ELSE {<<Op("=", a, Lit(2))>>})}
      \cup {[Stmt("select", <<>>, <<Named(Op("+", Lit(1), Lit(1)))>>) EXCEPT !.from = FALSE]}

MCParams == <<Integer(2)>>

\* The statement and the schema of an open lower bound on an untyped index.
UntypedSchemas == {t \in MCSchemas : Untyped(t, a)}
OpenBound(t) == {All(<<Op(">", a, Lit(1))>>)}

-----------------------------------------------------------------------------
(* Constraints.                                                             *)

Typed1(path, type) == FieldConstraint(path, type, FALSE, FALSE, NoValue)

MCGiven ==
    {<<FieldConstraint(<<1>>, IntegerValue, TRUE, FALSE, NoValue), Typed1(<<2, 3>>, IntegerValue)>>,
     <<FieldConstraint(<<2, 3>>, DoubleValue, FALSE, TRUE, NoValue), Typed1(<<2, 4>>, TextValue)>>,
     <<FieldConstraint(<<1>>, TextValue, FALSE, FALSE, Integer(1)), Typed1(<<2, -1>>, IntegerValue)>>,
     <<Typed1(<<2>>, DocumentValue), Typed1(<<2, 3>>, IntegerValue)>>,
     <<Typed1(<<2>>, TextValue), Typed1(<<2, 3>>, IntegerValue)>>,
     <<Typed1(<<1>>, TextValue), Typed1(<<1>>, IntegerValue)>>,
     <<FieldConstraint(<<1>>, AnyType, FALSE, TRUE, Integer(2))>>}

MCAdded ==
    {Typed1(<<1>>, IntegerValue), Typed1(<<2>>, DocumentValue),
     FieldConstraint(<<2>>, TextValue, FALSE, TRUE, Integer(1)),
     FieldConstraint(<<2>>, DocumentValue, FALSE, TRUE, NoValue),
     FieldConstraint(<<5>>, IntegerValue, FALSE, TRUE, Text(<<49>>))}

Nested == {Document(<<3>>, <<Integer(1)>>), Document(<<3, 4>>, <<Text(<<49>>), Double(Half)>>),
           Array(<<Text(<<50>>)>>), Integer(1)}

MCInput ==
    {Document(<<1>>, <<v>>) : v \in {Integer(1), Double(Half), Text(<<49>>), Text(<<97>>), Null}}
      \cup {Document(<<1, 2>>, <<Integer(1), v>>) : v \in Nested}
      \cup {Document(<<2>>, <<v>>) : v \in Nested}
      \cup {Document(<<1, 2, 5>>, <<Integer(1), Document(<<3>>, <<Integer(1)>>), Integer(0)>>)}

MCChange ==
    {[path |-> <<1>>, v |-> Null], [path |-> <<1>>, v |-> Double(3 * Half)],
     [path |-> <<2, 3>>, v |-> Text(<<49>>)], [path |-> <<2, -1>>, v |-> Text(<<49>>)],
     [path |-> <<5>>, v |-> Integer(1)]}

-----------------------------------------------------------------------------
(* Values.                                                                  *)

Words == {<<>>, <<1>>, <<1, 2>>, <<2>>}
Scalars ==
    {Null} \cup {Bool(v) : v \in BOOLEAN} \cup {Integer(i) : i \in MinInt..MaxInt}
      \cup {Double(Half * i) : i \in {-3, -1, 0, 1, 2, 3}} \cup {NegativeZero}
      \cup {Text(s) : s \in Words} \cup {Blob(s) : s \in Words}
Elements == {Null, Bool(TRUE), Integer(-1), Integer(1), Double(Half), Text(<<>>), Text(<<1>>), Text(<<1, 2>>)}
MCSamples ==
    Scalars \cup {Array(es) : es \in BoundedSeq(Elements, 2)}
      \cup {Array(<<Array(es)>>) : es \in BoundedSeq({Integer(1)}, 2)}
      \cup {Document(ns, <<v, w>>) : ns \in {<<1, 2>>, <<1, 3>>},
                 v \in {Integer(1), Integer(-1), Text(<<1>>)}, w \in {Integer(1), Text(<<>>), Text(<<1>>)}}
      \cup {Document(<<>>, <<>>), Document(<<1>>, <<Integer(1)>>), Document(<<2>>, <<Text(<<1>>)>>),
            Document(<<1, 2, 3>>, <<Integer(1), Integer(1), Null>>)}

-----------------------------------------------------------------------------
(* Expressions: chains of operators, with a BETWEEN, parentheses or a NOT.  *)

Tokens == {"or", "and", "=", "<", "+", "*", "||", "is"}
Chains(n) == {FlattenSeq([i \in DOMAIN ops |-> <<"x", ops[i]>>]) \o <<"x">> : ops \in BoundedSeq(Tokens, n)}
MCTexts ==
    Chains(3)
      \cup {<<"x", "between">> \o m \o <<"and">> \o c :
               m \in {<<"x">>, <<"x", "+", "x">>, <<"x", "=", "x">>}, c \in Chains(2)}
      \cup {<<"x", op, "x", "between", "x", "and">> \o c : op \in Tokens, c \in Chains(1)}
      \cup {<<"x", op, "(">> \o c \o <<")", last, "x">> : op \in Tokens, last \in Tokens, c \in Chains(1)}
      \cup {<<"x", op, "not">> \o c : op \in Tokens \ {"is"}, c \in Chains(1)}

-----------------------------------------------------------------------------

SqlInit ==
    /\ part \in Parts
    /\ IF part = "query" THEN QueryInit
       ELSE tbl = TableOf(<<>>, <<>>) /\ stmt = All(<<>>) /\ plan = EmptyStream /\ pc = -1 /\ res = NoResult
    /\ SchemaInit
    /\ IF part = "values" THEN LawsInit ELSE x = NoValue /\ y = Null
    /\ IF part = "parser" THEN ParseInit ELSE text = <<>> /\ tree = NotParsed

SqlNext ==
    \/ part = "query" /\ QueryNext /\ UNCHANGED <<part, schemaVars, valueVars, parseVars>>
    \/ part = "schema" /\ SchemaNext /\ UNCHANGED <<part, queryVars, valueVars, parseVars>>
    \/ part = "values" /\ Choose /\ UNCHANGED <<part, queryVars, schemaVars, parseVars>>
    \/ part = "parser" /\ ParseExpr /\ UNCHANGED <<part, queryVars, schemaVars, valueVars>>

DDLNext ==
    \/ SqlNext
    \/ part = "query" /\ DropIndex /\ UNCHANGED <<part, schemaVars, valueVars, parseVars>>

sqlVars == <<part, queryVars, schemaVars, valueVars, parseVars>>
SqlSpec == SqlInit /\ [][SqlNext]_sqlVars
DDLSpec == SqlInit /\ [][DDLNext]_sqlVars
=============================================================================
