------------------------------- MODULE Values -------------------------------
(***************************************************************************)
(* Values: document/value.go, compare.go, cast.go, value_encoding.go and   *)
(* internal/binarysort.                                                    *)
(*                                                                         *)
(* A value is a type code, the scalar it holds (a number, or the characters *)
(* of a text), and for arrays and documents the elements and the field     *)
(* names.  A double is counted in twelfths, so that the sums, products and *)
(* quotients of the halves an instance starts from are exact.  A byte      *)
(* string is a sequence of numbers: what is encoded in eight bytes in the  *)
(* code is one number here.                                                *)
(***************************************************************************)
EXTENDS Integers, Sequences, SequencesExt, FiniteSets

LOCAL INSTANCE Bitwise

CONSTANT MaxInt   \* math.MaxInt64

MinInt == -MaxInt - 1
One == 12

AnyType == 0
NullValue == 128
BoolValue == 129
IntegerValue == 144
DoubleValue == 160
TextValue == 192
BlobValue == 208
ArrayValue == 224
DocumentValue == 240

Value(t, b, e, n) == [t |-> t, b |-> b, e |-> e, n |-> n]
Null == Value(NullValue, <<>>, <<>>, <<>>)
Bool(x) == Value(BoolValue, <<IF x THEN 1 ELSE 0>>, <<>>, <<>>)
Integer(i) == Value(IntegerValue, <<i>>, <<>>, <<>>)
Double(d) == Value(DoubleValue, <<d>>, <<>>, <<>>)
\* -0.0, which only its encoding tells from 0.0; the casts and the arithmetic
\* of an instance never make one.
NegativeZero == Value(DoubleValue, <<0, 1>>, <<>>, <<>>)
Text(s) == Value(TextValue, s, <<>>, <<>>)
Blob(s) == Value(BlobValue, s, <<>>, <<>>)
Array(es) == Value(ArrayValue, <<>>, es, <<>>)
Document(ns, es) == Value(DocumentValue, <<>>, es, ns)

\* The zero Value of Go: no type and no value.
NoValue == Value(AnyType, <<>>, <<>>, <<>>)
\* An error returned in place of a value.
Error == Value(-1, <<>>, <<>>, <<>>)

IsNumber(t) == t \in {IntegerValue, DoubleValue}

Num(v) == v.b[1]

Lowest(I) == CHOOSE i \in I : \A j \in I : i <= j

\* The lexicographic order of byte strings, bytes.Compare(s, u) < 0.
Less(s, u) ==
    \/ IsStrictPrefix(s, u)
    \/ \E n \in 1..Len(s) : /\ n <= Len(u)
                            /\ SubSeq(s, 1, n - 1) = SubSeq(u, 1, n - 1)
                            /\ s[n] < u[n]

\* The order of the field names of a document (sort.Strings).
Fields(v) == SortSeq(v.n, LAMBDA x, y : x < y)
GetByField(v, n) ==
    LET I == {i \in DOMAIN v.n : v.n[i] = n}
    IN  IF I = {} THEN Error ELSE v.e[Lowest(I)]

-----------------------------------------------------------------------------
(* Truth and casts. *)

IsZeroValue(v) ==
    CASE v.t \in {BoolValue, IntegerValue, DoubleValue} -> Num(v) = 0
      [] v.t = TextValue -> v.b = <<>>
      [] v.t \in {ArrayValue, DocumentValue} -> v.e = <<>>
      [] OTHER -> FALSE

\* An empty array held in memory makes the code return an error; an instance
\* has none in a condition.
IsTruthy(v) == v.t # NullValue /\ ~IsZeroValue(v)

\* float64(i), and int64(f), which cuts off the decimals.
ToDouble(i) == One * i
ToInteger(d) == IF d >= 0 THEN d \div One ELSE -((-d) \div One)

\* The characters of a number (strconv), for numbers of one digit, a sign and
\* a half; parsing is the inverse.
Minus == 45
Point == 46
Digit(i) == <<48 + i>>
Format(d) ==
    LET a == IF d < 0 THEN -d ELSE d
    IN  (IF d < 0 THEN <<Minus>> ELSE <<>>) \o Digit(a \div One)
          \o (IF a % One = 0 THEN <<>> ELSE <<Point, 48 + 5>>)
Numerals == {d \in (One * MinInt)..(One * MaxInt) : d % (One \div 2) = 0}
Parse(s) == {d \in Numerals : Format(d) = s}

TrueText == <<116>>
FalseText == <<102>>

CastAsBool(v) ==
    CASE v.t = BoolValue -> v
      [] v.t = IntegerValue -> Bool(Num(v) # 0)
      [] v.t = TextValue ->
           CASE v.b \in {TrueText, Format(One)} -> Bool(TRUE)
             [] v.b \in {FalseText, Format(0)} -> Bool(FALSE)
             [] OTHER -> Error
      [] OTHER -> Error

CastAsInteger(v) ==
    CASE v.t = IntegerValue -> v
      [] v.t = BoolValue -> Integer(Num(v))
      [] v.t = DoubleValue -> Integer(ToInteger(Num(v)))
      [] v.t = TextValue /\ Parse(v.b) # {} -> Integer(ToInteger(CHOOSE d \in Parse(v.b) : TRUE))
      [] OTHER -> Error

CastAsDouble(v) ==
    CASE v.t = DoubleValue -> v
      [] v.t = IntegerValue -> Double(ToDouble(Num(v)))
      [] v.t = TextValue /\ Parse(v.b) # {} -> Double(CHOOSE d \in Parse(v.b) : TRUE)
      [] OTHER -> Error

\* Scalars only: the JSON form of what is not a text.
CastAsText(v) ==
    CASE v.t = TextValue -> v
      [] v.t = BoolValue -> Text(IF Num(v) = 1 THEN TrueText ELSE FalseText)
      [] v.t = IntegerValue -> Text(Format(ToDouble(Num(v))))
      [] v.t = DoubleValue -> Text(Format(Num(v)))
      [] OTHER -> Error

\* The texts of an instance are not base64, nor a JSON array or document.
CastAs(v, t) ==
    CASE v.t \in {t, NullValue, -1} -> v
      [] OTHER ->
           CASE t = BoolValue -> CastAsBool(v)
             [] t = IntegerValue -> CastAsInteger(v)
             [] t = DoubleValue -> CastAsDouble(v)
             [] t = TextValue -> CastAsText(v)
             [] OTHER -> Error

-----------------------------------------------------------------------------
(* Comparison. *)

Ops == {"=", ">", ">=", "<", "<="}

\* An operator applied to an order: lt and eq say how the operands compare.
Ordered(op, lt, eq) ==
    CASE op = "=" -> eq
      [] op = ">" -> ~lt /\ ~eq
      [] op = ">=" -> ~lt
      [] op = "<" -> lt
      [] op = "<=" -> lt \/ eq

CompareNumbers(op, l, r) ==
    LET a == Num(CastAsDouble(l))
        b == Num(CastAsDouble(r))
    IN  Ordered(op, a < b, a = b)

Comparable(l, r) == l.t = r.t \/ (IsNumber(l.t) /\ IsNumber(r.t))

RECURSIVE Compare(_, _, _)

\* Variant: elements that cannot be compared are passed over.
CompareComparable(op, ls, rs) ==
    LET n == IF Len(ls) < Len(rs) THEN Len(ls) ELSE Len(rs)
        differ == {i \in 1..n : Comparable(ls[i], rs[i]) /\ ~Compare("=", ls[i], rs[i])}
    IN  IF differ = {} THEN Ordered(op, Len(ls) < Len(rs), Len(ls) = Len(rs))
        ELSE Compare(op, ls[Lowest(differ)], rs[Lowest(differ)])

\* The first position where two lists of elements differ decides; elements of
\* types that cannot be compared are ordered by type.
CompareElements(op, ls, rs) ==
    LET n == IF Len(ls) < Len(rs) THEN Len(ls) ELSE Len(rs)
        differ == {i \in 1..n : ~(Comparable(ls[i], rs[i]) /\ Compare("=", ls[i], rs[i]))}
        i == Lowest(differ)
    IN  CASE differ = {} -> Ordered(op, Len(ls) < Len(rs), Len(ls) = Len(rs))
          [] op = "=" -> FALSE
          [] Comparable(ls[i], rs[i]) -> Compare(op, ls[i], rs[i])
          [] OTHER -> Ordered(op, ls[i].t < rs[i].t, FALSE)

\* Documents are compared by their sorted fields, a name before its value, up
\* to the end of the shorter one: its missing fields count for nothing, unless
\* it has no field at all.
CompareDocuments(op, l, r) ==
    LET n == IF Len(l.n) < Len(r.n) THEN Len(l.n) ELSE Len(r.n)
        Flat(v) == FlattenSeq([i \in 1..n |->
                       <<Integer(Fields(v)[i]), GetByField(v, Fields(v)[i])>>])
    IN  IF n = 0 THEN Ordered(op, Len(l.n) < Len(r.n), Len(l.n) = Len(r.n))
        ELSE CompareElements(op, Flat(l), Flat(r))

Compare(op, l, r) ==
    CASE NullValue \in {l.t, r.t} -> op \in {"=", ">=", "<="} /\ l.t = r.t
      [] IsNumber(l.t) /\ IsNumber(r.t) -> CompareNumbers(op, l, r)
      [] l.t = r.t /\ l.t \in {BoolValue, TextValue, BlobValue} ->
           Ordered(op, Less(l.b, r.b), l.b = r.b)
      [] l.t = r.t /\ l.t = ArrayValue -> CompareElements(op, l.e, r.e)
      [] l.t = r.t /\ l.t = DocumentValue -> CompareDocuments(op, l, r)
      [] OTHER -> FALSE

IsEqual(l, r) == Compare("=", l, r)

ArrayContains(a, v) == \E i \in DOMAIN a.e : IsEqual(a.e[i], v)

-----------------------------------------------------------------------------
(* Arithmetic.  Sums and products of integers that overflow become doubles. *)

Wrap(x) == ((x - MinInt) % (2 * MaxInt + 2)) + MinInt

\* Division and remainder of Go: the quotient is cut off towards zero.
Quo(x, y) ==
    LET q == (IF x < 0 THEN -x ELSE x) \div (IF y < 0 THEN -y ELSE y)
    IN  IF (x < 0) = (y < 0) THEN q ELSE -q
Rem(x, y) == x - y * Quo(x, y)

\* Bits(xa, xb, op) works on the two's complement of both integers.
Bits(xa, xb, op) ==
    LET u(x) == x % (2 * MaxInt + 2)
    IN  Integer(Wrap(CASE op = "&" -> u(xa) & u(xb)
                       [] op = "|" -> u(xa) | u(xb)
                       [] op = "^" -> u(xa) ^^ u(xb)))

\* Variant: the overflow is not looked for.
AddIntegersWrapped(xa, xb) == Integer(Wrap(xa + xb))

AddIntegers(xa, xb) ==
    LET xr == Wrap(xa + xb)
    IN  IF (xr > xa) # (xb > 0) THEN Double(ToDouble(xa) + ToDouble(xb)) ELSE Integer(xr)

MulIntegers(xa, xb) ==
    LET xr == Wrap(xa * xb)
    IN  CASE 0 \in {xa, xb} -> Integer(0)
          [] /\ 0 \notin {xa, xb}
             /\ (xr < 0) = ((xa < 0) # (xb < 0))
             /\ Wrap(Quo(xr, xb)) = xa -> Integer(xr)
          [] OTHER -> Double(ToDouble(xa) * xb)

CalculateIntegers(xa, xb, op) ==
    CASE op = "+" -> AddIntegers(xa, xb)
      [] op = "-" -> AddIntegers(xa, Wrap(-xb))
      [] op = "*" -> MulIntegers(xa, xb)
      [] op \in {"/", "%"} /\ xb = 0 -> Null
      [] op = "/" -> Integer(Wrap(Quo(xa, xb)))
      [] op = "%" -> Integer(Rem(xa, xb))
      [] OTHER -> Bits(xa, xb, op)

CalculateFloats(da, db, op) ==
    CASE op = "+" -> Double(da + db)
      [] op = "-" -> Double(da - db)
      [] op = "*" -> Double(Quo(da * db, One))
      [] op \in {"/", "%"} /\ db = 0 -> Null
      [] op = "/" -> Double(Quo(da * One, db))
      [] op = "%" -> Double(Rem(da, db))
      [] OTHER -> Bits(ToInteger(da), ToInteger(db), op)

CalculateValues(l, r, op) ==
    CASE ~(IsNumber(l.t) /\ IsNumber(r.t)) -> Null
      [] DoubleValue \in {l.t, r.t} ->
           CalculateFloats(Num(CastAsDouble(l)), Num(CastAsDouble(r)), op)
      [] OTHER -> CalculateIntegers(Num(l), Num(r), op)

-----------------------------------------------------------------------------
(* Encodings that keep the order. *)

\* binarysort.  A word of eight bytes is one number here, with Word values for
\* integers; the sign of a double is the bit SignBit of its word and the rest is
\* its magnitude.  The sign of an integer is moved out of the way by an offset,
\* a double has its sign bit turned over, all its bits when it is below zero:
\* -0.0 is not, and loses the only bit it has.
Word == 2 * MaxInt + 2
SignBit == 2 ^ 20

\* Variant: the sign bit is left where it is.
AppendInt64Plain(i) == <<i % Word>>

AppendInt64(i) == <<((i % Word) + MaxInt + 1) % Word>>
Float64bits(v) == IF Num(v) < 0 \/ v = NegativeZero THEN SignBit - Num(v) ELSE Num(v)
AppendFloat64(v) ==
    <<IF Num(v) >= 0 THEN (Float64bits(v) + SignBit) % (2 * SignBit)
      ELSE 2 * SignBit - 1 - Float64bits(v)>>

\* Texts and blobs inside another encoding are in a base64 whose alphabet keeps
\* the order and lies above every separator.
AppendBase64(s) == [i \in DOMAIN s |-> s[i] + 45]

ArrayValueDelim == 31
ArrayEnd == 30
DocumentValueDelim == 28
DocumentEnd == 29

Joined(ss, delim) ==
    FlattenSeq([i \in DOMAIN ss |-> IF i < Len(ss) THEN Append(ss[i], delim) ELSE ss[i]])

\* ValueEncoder.Encode: the type, then the value.
RECURSIVE AppendValue(_)
AppendArray(v) ==
    Append(Joined([i \in DOMAIN v.e |-> AppendValue(v.e[i])], ArrayValueDelim), ArrayEnd)
AppendDocument(v) ==
    Append(Joined([i \in DOMAIN v.e |->
              AppendBase64(<<v.n[i]>>) \o <<DocumentValueDelim>> \o AppendValue(v.e[i])],
              DocumentValueDelim), DocumentEnd)
AppendValue(v) ==
    <<v.t>> \o
    CASE v.t = NullValue -> <<>>
      [] v.t = ArrayValue -> AppendArray(v)
      [] v.t = DocumentValue -> AppendDocument(v)
      [] v.t \in {TextValue, BlobValue} -> AppendBase64(v.b)
      [] v.t = BoolValue -> v.b
      [] v.t = IntegerValue -> AppendInt64(Num(v))
      [] v.t = DoubleValue -> AppendFloat64(v)

\* Value.MarshalBinary: the value without its type; a text as it is.
MarshalBinary(v) ==
    CASE v.t = ArrayValue -> AppendArray(v)
      [] v.t = DocumentValue -> AppendDocument(v)
      [] v.t = IntegerValue -> AppendInt64(Num(v))
      [] v.t = DoubleValue -> AppendFloat64(v)
      [] OTHER -> v.b
=============================================================================
