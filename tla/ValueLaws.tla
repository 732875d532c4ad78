----------------------------- MODULE ValueLaws -----------------------------
(***************************************************************************)
(* What the rest of the code relies on when it compares, encodes and       *)
(* computes with values: two values x and y are chosen and the laws relate *)
(* them, and every third one.                                              *)
(***************************************************************************)
EXTENDS Values

CONSTANT Samples   \* the values that are tried

VARIABLES x, y

valueVars == <<x, y>>

LawsInit == x \in Samples /\ y = NoValue
Choose == y = NoValue /\ y' \in Samples /\ UNCHANGED x

-----------------------------------------------------------------------------

\* An integer and a double in the same place of two values are encoded with
\* their types, and documents are encoded in the order their fields have.
RECURSIVE SameShape(_, _)
SameShape(v, w) ==
    /\ IsNumber(v.t) /\ IsNumber(w.t) => v.t = w.t
    /\ v.t = w.t /\ v.t = DocumentValue => v.n = w.n /\ v.n = Fields(v)
    /\ \A i \in DOMAIN v.e : i \in DOMAIN w.e => SameShape(v.e[i], w.e[i])

\* Documents in the same place of two values have as many fields.
RECURSIVE SameLengths(_, _)
SameLengths(v, w) ==
    /\ v.t = w.t /\ v.t = DocumentValue => Len(v.n) = Len(w.n)
    /\ \A i \in DOMAIN v.e : i \in DOMAIN w.e => SameLengths(v.e[i], w.e[i])

\* The encodings of two values of one type are ordered as the values are, and
\* equal only for equal values.  Index scans, ranges, primary keys and unique
\* checks compare bytes (Index.iterate, PkScan, Index.Exists) where the filters
\* they replace compare values, so every one of them rests on this.  Left out
\* is -0.0, which is encoded below every other double.
EncodingKeepsOrder ==
    (x.t = y.t /\ SameShape(x, y) /\ NegativeZero \notin {x, y}) =>
        /\ Less(AppendValue(x), AppendValue(y)) = Compare("<", x, y)
        /\ (AppendValue(x) = AppendValue(y)) = IsEqual(x, y)

\* Of two values that can be compared exactly one of <, = and > holds, and >=
\* and <= follow from them: what Sort, MIN and MAX, ranges and the bounds of
\* BETWEEN need of document/compare.go, whose answers for arrays and documents
\* are put together element by element.  And <= is transitive, but only among
\* documents of as many fields: a longer one is compared up to the end of the
\* shorter, so {a: 1, b: 2} <= {a: 1} <= {a: 1, b: 1}.
OrderIsTotal ==
    (Comparable(x, y) /\ y # Null) =>
        /\ Cardinality({op \in {"<", "=", ">"} : Compare(op, x, y)}) = 1
        /\ Compare("<=", x, y) = (Compare("<", x, y) \/ Compare("=", x, y))
        /\ Compare("<=", x, y) = Compare(">=", y, x)
        /\ Compare("<=", x, y) =>
             \A z \in Samples :
                 SameLengths(x, y) /\ SameLengths(y, z) /\ SameLengths(x, z)
                   /\ Compare("<=", y, z) => Compare("<=", x, z)

\* The value an integer or a double stands for, in twelfths.
Amount(v) == Num(CastAsDouble(v))

\* A sum, difference or product of integers is exact: an integer when it fits
\* in 64 bits and a double of the same amount when it does not.  The code tells
\* the two apart after the fact, from the sign and the quotient of a result
\* that has wrapped around.  Left out is the difference x - MinInt, whose
\* operand has no opposite.
ArithmeticIsExact ==
    (x.t = IntegerValue /\ y.t = IntegerValue) =>
        \A op \in {"+", "-", "*"} :
            LET exact == CASE op = "+" -> Num(x) + Num(y)
                           [] op = "-" -> Num(x) - Num(y)
                           [] op = "*" -> Num(x) * Num(y)
                r == CalculateValues(x, y, op)
            IN  ~(op = "-" /\ Num(y) = MinInt) =>
                    /\ Amount(r) = ToDouble(exact)
                    /\ (r.t = IntegerValue) = (exact \in MinInt..MaxInt)
=============================================================================
