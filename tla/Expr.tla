-------------------------------- MODULE Expr --------------------------------
(***************************************************************************)
(* Expressions and their evaluation: internal/expr, and the environments of *)
(* internal/environment.                                                    *)
(*                                                                          *)
(* An expression is its kind, its operands, the value of a literal, and the *)
(* path, name, type or position it carries.  A field name is a number.      *)
(***************************************************************************)
EXTENDS Constraints, Glob

Expr(k, a, v, x) == [k |-> k, a |-> a, v |-> v, x |-> x]
Literal(v) == Expr("literal", <<>>, v, <<>>)
Path(p) == Expr("path", <<>>, NoValue, p)
PositionalParam(n) == Expr("param", <<>>, NoValue, <<n>>)
Op(k, a, b) == Expr(k, <<a, b>>, NoValue, <<>>)
Between(x, a, b) == Expr("between", <<x, a, b>>, NoValue, <<>>)
Not(e) == Expr("not", <<e>>, NoValue, <<>>)
Parentheses(e) == Expr("paren", <<e>>, NoValue, <<>>)
LiteralExprList(es) == Expr("list", es, NoValue, <<>>)
KVPairs(ns, es) == Expr("kvpairs", es, NoValue, ns)
Wildcard == Expr("*", <<>>, NoValue, <<>>)
Cast(e, t) == Expr("cast", <<e>>, NoValue, <<t>>)
PKFunc == Expr("pk", <<>>, NoValue, <<>>)
CountAll == Expr("count*", <<>>, NoValue, <<>>)
Aggregator(k, e) == Expr(k, <<e>>, NoValue, <<>>)
NamedExpr(e, n) == Expr("named", <<e>>, NoValue, <<n>>)

IsLiteral(e) == e.k = "literal"
IsPath(e) == e.k = "path"
ArithmeticOps == {"+", "-", "*", "/", "%", "&", "|", "^"}
CmpOps == {"=", "!=", ">", ">=", "<", "<="}
\* IsComparisonOperator: IS is built with the token IN.
ComparisonOps == CmpOps \cup {"in", "notin", "is", "isnot", "between", "like", "notlike"}
Aggregators == {"count*", "count", "min", "max", "sum", "avg"}

\* expr.Operator and the token of an operator: IS is built with the token IN.
IsOperator(e) == e.k \in ArithmeticOps \cup ComparisonOps \cup {"and", "or", "||"}
Token(e) == IF e.k = "is" THEN "in" ELSE e.k
LeftHand(e) == IF e.k = "between" THEN e.a[2] ELSE e.a[1]
RightHand(e) == IF e.k = "between" THEN e.a[3] ELSE e.a[2]

\* The name an expression has by its String method, which a field can have: a
\* path of one fragment, or an aggregate of such a path.  An instance has at
\* most one other expression in a projection.
Unnamed == 99
String(e) ==
    CASE e.k = "path" /\ Len(e.x) = 1 -> e.x[1]
      [] e.k = "count*" -> 20
      [] e.k \in Aggregators \ {"count*"} ->
           e.a[1].x[1] + (CASE e.k = "count" -> 30 [] e.k = "min" -> 40 [] e.k = "max" -> 50
                            [] e.k = "sum" -> 60 [] e.k = "avg" -> 70)
      [] OTHER -> Unnamed

-----------------------------------------------------------------------------
(* Environments: frames, the innermost first.  A frame has a document, the  *)
(* other name each field answers to (MaskDocument), the document's key, the *)
(* parameters, and the variables GroupBy sets.                              *)

EmptyFrame == [doc |-> NoValue, alias |-> <<>>, key |-> NoValue, params |-> <<>>,
               group |-> NoValue, gname |-> 0]
DocFrame(d, key) == [EmptyFrame EXCEPT !.doc = d, !.alias = d.n, !.key = key]

\* The innermost frame that passes a test, or the empty one.
Innermost(env, Test(_)) ==
    LET I == SelectInSeq(env, Test) IN IF I = 0 THEN EmptyFrame ELSE env[I]

GetDocument(env) == Innermost(env, LAMBDA f : f.doc # NoValue)
GetGroup(env) == Innermost(env, LAMBDA f : f.group # NoValue)
GetParamByIndex(env, n) ==
    LET ps == Innermost(env, LAMBDA f : f.params # <<>>).params
    IN  IF n > Len(ps) THEN Error ELSE ps[n]

\* The value at a path of the document of a frame; a projected field is found
\* by its name or by its expression.
FrameValue(f, p) ==
    LET i == SelectInSeq([j \in DOMAIN f.doc.n |-> p[1] \in {f.doc.n[j], f.alias[j]}], LAMBDA b : b)
    IN  CASE i = 0 -> Error
          [] i # 0 /\ Len(p) = 1 -> f.doc.e[i]
          [] OTHER -> GetValue(f.doc.e[i], Tail(p))

-----------------------------------------------------------------------------
(* Evaluation.  Error stands for any error.                                 *)

Negate(v) == CASE v = Bool(TRUE) -> Bool(FALSE) [] v = Bool(FALSE) -> Bool(TRUE) [] OTHER -> v

\* The comparisons are NULL when an operand is.
CmpOp(k, a, b) ==
    CASE NullValue \in {a.t, b.t} -> Null
      [] k = "!=" -> Bool(~IsEqual(a, b))
      [] OTHER -> Bool(Compare(k, a, b))

In(a, b) ==
    CASE NullValue \in {a.t, b.t} -> Null
      [] b.t # ArrayValue -> Bool(FALSE)
      [] OTHER -> Bool(ArrayContains(b, a))

LikeOp(a, b) ==
    IF a.t = TextValue /\ b.t = TextValue THEN Bool(MatchLike(b.b, a.b)) ELSE Null

\* The operators that evaluate both operands.
Apply(k, a, b) ==
    CASE k \in CmpOps -> CmpOp(k, a, b)
      [] k \in ArithmeticOps -> CalculateValues(a, b, k)
      [] k = "in" -> In(a, b)
      [] k = "notin" -> Negate(In(a, b))
      [] k = "is" -> Bool(IsEqual(a, b))
      [] k = "isnot" -> Bool(~IsEqual(a, b))
      [] k = "like" -> LikeOp(a, b)
      [] k = "notlike" -> Negate(LikeOp(a, b))
      [] k = "||" -> IF a.t = TextValue /\ b.t = TextValue THEN Text(a.b \o b.b) ELSE Null

RECURSIVE Eval(_, _)
EvalAll(es, env) == [i \in DOMAIN es |-> Eval(es[i], env)]

\* AND and OR evaluate their second operand only when the first does not
\* decide.
EvalAnd(e, env) ==
    LET a == Eval(e.a[1], env) IN
    IF a = Error THEN Error ELSE IF ~IsTruthy(a) THEN Bool(FALSE)
    ELSE LET b == Eval(e.a[2], env) IN IF b = Error THEN Error ELSE Bool(IsTruthy(b))

EvalOr(e, env) ==
    LET a == Eval(e.a[1], env) IN
    IF a = Error THEN Error ELSE IF IsTruthy(a) THEN Bool(TRUE)
    ELSE LET b == Eval(e.a[2], env) IN IF b = Error THEN Error ELSE Bool(IsTruthy(b))

\* A path that leads nowhere is NULL; with no document it is an error.
EvalPath(p, env) ==
    LET f == GetDocument(env) IN
    IF f.doc = NoValue THEN Error
    ELSE LET v == FrameValue(f, p) IN IF v = Error THEN Null ELSE v

Eval(e, env) ==
    CASE e.k = "literal" -> e.v
      [] e.k = "path" -> EvalPath(e.x, env)
      [] e.k = "param" -> GetParamByIndex(env, e.x[1])
      [] e.k = "and" -> EvalAnd(e, env)
      [] e.k = "or" -> EvalOr(e, env)
      [] e.k = "pk" -> LET key == GetDocument(env).key IN IF key = NoValue THEN Null ELSE key
      \* an aggregate is a field of the document HashAggregate made
      [] e.k \in Aggregators -> IF GetDocument(env).doc = NoValue THEN Error
                                ELSE FrameValue(GetDocument(env), <<String(e)>>)
      [] e.k = "*" -> Error
      [] OTHER ->
           LET vs == EvalAll(e.a, env) IN
           IF \E i \in DOMAIN vs : vs[i] = Error THEN Error
           ELSE CASE e.k \in {"paren", "named"} -> vs[1]
                  [] e.k = "not" -> Bool(~IsTruthy(vs[1]))
                  [] e.k = "cast" -> CastAs(vs[1], e.x[1])
                  [] e.k = "list" -> Array(vs)
                  [] e.k = "kvpairs" -> Document(e.x, vs)
                  [] e.k = "between" ->
                       IF NullValue \in {vs[2].t, vs[3].t} THEN Null
                       ELSE Bool(Compare(">=", vs[1], vs[2]) /\ Compare("<=", vs[1], vs[3]))
                  [] OTHER -> Apply(e.k, vs[1], vs[2])
=============================================================================
