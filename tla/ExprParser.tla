----------------------------- MODULE ExprParser -----------------------------
(***************************************************************************)
(* How the parser builds the tree of an expression:                        *)
(* internal/sql/parser/expr.go and the precedences of scanner/token.go.    *)
(*                                                                         *)
(* The text is a sequence of tokens: "x" for an operand, which stands for  *)
(* its position, operators, NOT and parentheses.                           *)
(***************************************************************************)
EXTENDS Expr

CONSTANT Texts   \* the texts that are parsed

VARIABLES text,  \* the tokens
          tree   \* what they are parsed to

parseVars == <<text, tree>>

NotParsed == Literal(NoValue)
ParseError == Literal(Error)

\* Token.Precedence; a token that is not listed has none.
Precedence(tok) ==
    CASE tok = "or" -> 1
      [] tok = "and" -> 2
      [] tok \in {"=", "!=", "is", "in", "like", "between"} -> 3
      [] tok \in {"<", "<=", ">", ">="} -> 4
      [] tok \in {"|", "^", "&"} -> 5
      [] tok \in {"+", "-"} -> 6
      [] tok \in {"*", "/", "%"} -> 7
      [] tok = "||" -> 8
      [] OTHER -> 0

\* The precedence of a node is that of the token it was built with.
NodePrecedence(e) == Precedence(IF e.k = "notlike" THEN "like" ELSE Token(e))

\* A parser's position is the rest of the text; where an operand stands is told
\* by how much is left.
Parsed(e, ts) == [e |-> e, ts |-> ts]
Operand1(ts) == Literal(Integer(Len(ts)))

\* parseOperator: the operator, the precedence it is placed by, the first bound
\* of a BETWEEN, and the rest; none when the next token is not an operator or
\* has a precedence below min.
Oper(k, prec, bound, ts) == [k |-> k, prec |-> prec, bound |-> bound, ts |-> ts]
NoOper(ts) == Oper("none", 0, NotParsed, ts)

New(op, lhs, rhs) == IF op.k = "between" THEN Between(lhs, op.bound, rhs) ELSE Op(op.k, lhs, rhs)
SetRightHand(e, r) == [e EXCEPT !.a[Len(e.a)] = r]

\* Variant: an operator of the same precedence is passed too.
RECURSIVE InsertRightPastEqual(_, _, _)
InsertRightPastEqual(e, op, rhs) ==
    IF ~IsOperator(e) \/ NodePrecedence(e) > op.prec THEN New(op, e, rhs)
    ELSE SetRightHand(e, InsertRightPastEqual(RightHand(e), op, rhs))

\* The new operator goes as deep to the right as the operators there bind less
\* than it does.
RECURSIVE InsertRight(_, _, _)
InsertRight(e, op, rhs) ==
    IF ~IsOperator(e) \/ NodePrecedence(e) >= op.prec THEN New(op, e, rhs)
    ELSE SetRightHand(e, InsertRight(RightHand(e), op, rhs))

RECURSIVE ParseExprWithMinPrecedence(_, _)

ParseUnaryExpr(ts) ==
    LET in == ParseExprWithMinPrecedence(Tail(ts), 0)
    IN  CASE ts = <<>> -> Parsed(ParseError, ts)
          [] ts # <<>> /\ ts[1] = "x" -> Parsed(Operand1(ts), Tail(ts))
          [] ts # <<>> /\ ts[1] = "(" ->
               IF in.e # ParseError /\ in.ts # <<>> /\ in.ts[1] = ")"
               THEN Parsed(Parentheses(in.e), Tail(in.ts))
               ELSE Parsed(ParseError, in.ts)
          [] ts # <<>> /\ ts[1] = "not" ->
               Parsed(IF in.e = ParseError THEN ParseError ELSE Not(in.e), in.ts)
          [] OTHER -> Parsed(ParseError, ts)

ParseOperator(ts, min) ==
    LET tok == ts[1]
        next == IF Len(ts) > 1 THEN ts[2] ELSE ""
        bound == ParseExprWithMinPrecedence(Tail(ts), Precedence(tok))
        rest == SubSeq(ts, 3, Len(ts))
    IN  CASE ts = <<>> -> NoOper(ts)
          [] ts # <<>> /\ tok = "not" ->
               CASE next = "in" -> Oper("notin", Precedence("not"), NotParsed, rest)
                 [] next = "like" -> Oper("notlike", Precedence("not"), NotParsed, rest)
                 [] OTHER -> Oper("error", 0, NotParsed, ts)
          [] ts # <<>> /\ tok # "not" /\ (Precedence(tok) = 0 \/ Precedence(tok) < min) -> NoOper(ts)
          [] ts # <<>> /\ tok = "is" /\ next = "not" -> Oper("isnot", Precedence("is"), NotParsed, rest)
          [] ts # <<>> /\ tok = "between" ->
               IF bound.e # ParseError /\ bound.ts # <<>> /\ bound.ts[1] = "and"
               THEN Oper("between", Precedence("between"), bound.e, Tail(bound.ts))
               ELSE Oper("error", 0, NotParsed, ts)
          [] OTHER -> Oper(tok, Precedence(tok), NotParsed, Tail(ts))

RECURSIVE ParseOperators(_, _, _)
ParseOperators(e, ts, min) ==
    LET op == ParseOperator(ts, min)
        rhs == ParseUnaryExpr(op.ts)
    IN  CASE op.k = "none" -> Parsed(e, ts)
          [] op.k = "error" \/ rhs.e = ParseError -> Parsed(ParseError, ts)
          [] OTHER -> ParseOperators(InsertRight(e, op, rhs.e), rhs.ts, min)

ParseExprWithMinPrecedence(ts, min) ==
    LET first == ParseUnaryExpr(ts)
    IN  IF first.e = ParseError THEN first ELSE ParseOperators(first.e, first.ts, min)

\* Text that is left over belongs to the statement around the expression.
ParseInit == text \in Texts /\ tree = NotParsed

ParseExpr ==
    /\ tree = NotParsed
    /\ tree' = ParseExprWithMinPrecedence(text, 0).e
    /\ UNCHANGED text

-----------------------------------------------------------------------------
(* The grammar: an expression is split at the operator that binds least, the *)
(* last of several; a NOT reaches to the end of what it stands in.          *)

\* The tokens that are inside neither parentheses nor a BETWEEN.
Depth(ts, i) ==
    Cardinality({j \in 1..i : ts[j] \in {"(", "between"}})
      - Cardinality({j \in 1..i : ts[j] = ")"})
      - Cardinality({j \in 1..(i - 1) : ts[j] = "and" /\ \E m \in 1..(j - 1) :
                        ts[m] = "between" /\ \A n \in (m + 1)..(j - 1) : ts[n] # "and"})
Splits(ts) ==
    {i \in DOMAIN ts : /\ Precedence(ts[i]) > 0
                       /\ Depth(ts, i) = (IF ts[i] = "between" THEN 1 ELSE 0)
                       /\ ~\E j \in 1..(i - 1) : ts[j] = "not" /\ Depth(ts, j) = 0}

RECURSIVE Grammar(_, _)
Grammar(ts, after) ==
    LET I == Splits(ts)
        low == {i \in I : \A j \in I : Precedence(ts[i]) <= Precedence(ts[j])}
        i == CHOOSE i \in low : \A j \in low : j <= i
        n == Len(ts)
        end == Lowest({j \in i..n : ts[j] = "and"})
        left == Grammar(SubSeq(ts, 1, i - 1), after + n - i + 1)
    IN  CASE n = 1 -> Literal(Integer(after + 1))
          [] n > 1 /\ ts[1] = "not" -> Not(Grammar(Tail(ts), after))
          [] n > 1 /\ ts[1] # "not" /\ I = {} -> Parentheses(Grammar(SubSeq(ts, 2, n - 1), after + 1))
          [] n > 1 /\ ts[1] # "not" /\ I # {} /\ ts[i] = "between" ->
               Between(left, Grammar(SubSeq(ts, i + 1, end - 1), after + n - end + 1),
                       Grammar(SubSeq(ts, end + 1, n), after))
          [] OTHER -> Op(ts[i], left, Grammar(SubSeq(ts, i + 1, n), after))

\* The tree of an expression is the one its operators' precedences give,
\* operators of one precedence grouping to the left, whatever the order in
\* which the parser met them and rebuilt the right edge of the tree.
ParsesAsGrammar == tree # NotParsed => tree = Grammar(text, 0)
=============================================================================
