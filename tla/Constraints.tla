---------------------------- MODULE Constraints ----------------------------
(***************************************************************************)
(* The field constraints of a table (internal/database/constraint.go): how *)
(* CREATE TABLE and ALTER TABLE ADD FIELD build the list, and how INSERT   *)
(* and UPDATE convert and validate a document with it.                     *)
(***************************************************************************)
EXTENDS Documents

\* A constraint; def is NoValue when there is no DEFAULT.  by holds the paths
\* an inferred constraint comes from.
FieldConstraint(path, type, pk, notNull, def) ==
    [path |-> path, type |-> type, pk |-> pk, notNull |-> notNull, def |-> def,
     inferred |-> FALSE, by |-> {}]

Inferred(path, n) ==
    [path |-> SubSeq(path, 1, n), type |-> IF path[n + 1] > 0 THEN DocumentValue ELSE ArrayValue,
     pk |-> FALSE, notNull |-> FALSE, def |-> NoValue, inferred |-> TRUE, by |-> {path}]

At(fcs, path) == {i \in DOMAIN fcs : fcs[i].path = path}

GetPrimaryKey(fcs) ==
    LET I == {i \in DOMAIN fcs : fcs[i].pk}
    IN  IF I = {} THEN {} ELSE {fcs[Lowest(I)]}

\* FieldConstraints.Add gives the new list, or Refused for an error.  The list
\* is searched for the same path or another primary key, whichever is first.
Refused == <<FieldConstraint(<<>>, -1, FALSE, FALSE, NoValue)>>

Stops(fcs, new) == {i \in DOMAIN fcs : fcs[i].path = new.path \/ (fcs[i].pk /\ new.pk)}

\* What Add leaves in the list it was given: an inferred constraint takes over
\* what a declared one has besides its type, before the two are compared.  The
\* copies of the list made by TableInfo.Clone share it.
Touched(fcs, new) ==
    LET n == Lowest(Stops(fcs, new))
    IN  IF Stops(fcs, new) # {} /\ fcs[n].path = new.path /\ fcs[n].inferred /\ ~new.inferred
        THEN [fcs EXCEPT ![n].def = new.def, ![n].notNull = new.notNull, ![n].pk = new.pk]
        ELSE fcs

Add(fcs, new) ==
    LET stop == Stops(fcs, new)
        n == Lowest(stop)
        castable == \/ new.def = NoValue \/ new.type = AnyType
                    \/ CastAs(new.def, new.type) # Error
    IN  IF fcs = Refused THEN Refused
        ELSE IF stop = {} THEN (IF castable THEN Append(fcs, new) ELSE Refused)
        ELSE CASE \/ fcs[n].path # new.path
                  \/ ~fcs[n].inferred /\ ~new.inferred
                  \/ fcs[n].type # new.type -> Refused
               [] OTHER -> IF ~new.inferred THEN [fcs EXCEPT ![n] = new]
                           ELSE IF fcs[n].inferred THEN [fcs EXCEPT ![n].by = @ \cup new.by]
                           ELSE fcs

AddAll(fcs, news) == FoldLeft(Add, fcs, news)

\* FieldConstraints.Infer: each path is preceded by its strict prefixes.
Infer(fcs) ==
    AddAll(<<>>, FlattenSeq([i \in DOMAIN fcs |->
        Append([n \in 1..(Len(fcs[i].path) - 1) |-> Inferred(fcs[i].path, n)], fcs[i])]))

-----------------------------------------------------------------------------
(* Conversion.  fn names the ConversionFunc: "cast" is CastConversion, and  *)
(* the others are those of the ranges of a scan.                            *)

\* The conversions of ValueRange and IndexRange: a number only, and a double
\* only to the integer it is equal to, or for a bound to the one above it.
ConvertRange(fn, v, t) ==
    CASE v.t = IntegerValue /\ t = DoubleValue -> CastAsDouble(v)
      [] v.t = DoubleValue /\ t = IntegerValue ->
           CASE Num(v) % One = 0 -> CastAsInteger(v)
             [] Num(v) % One # 0 /\ fn = "exact" -> v
             [] OTHER -> Integer((Num(v) + One - 1) \div One)
      [] OTHER -> v

Conversion(fn, v, t) == IF fn = "cast" THEN CastAs(v, t) ELSE ConvertRange(fn, v, t)

\* Variant: an integer without a constraint stays one.
ConvertScalarKept(fcs, path, v, fn) ==
    IF At(fcs, path) # {} /\ fcs[Lowest(At(fcs, path))].type # AnyType
    THEN Conversion(fn, v, fcs[Lowest(At(fcs, path))].type) ELSE v

\* An integer is kept as an integer only where a constraint says so.
ConvertScalarAtPath(fcs, path, v, fn) ==
    IF At(fcs, path) # {} /\ fcs[Lowest(At(fcs, path))].type # AnyType
    THEN Conversion(fn, v, fcs[Lowest(At(fcs, path))].type)
    ELSE IF v.t = IntegerValue THEN CastAsDouble(v) ELSE v

\* FieldBuffer.Apply converts a field before it goes into it; ValueBuffer.Apply
\* goes into an element that is a document or an array without converting it.
RECURSIVE ConvertInside(_, _, _, _)
ConvertInside(fcs, path, v, fn) ==
    LET at(i) == Append(path, IF v.t = DocumentValue THEN v.n[i] ELSE -i)
        deep(i) == v.t = ArrayValue /\ v.e[i].t \in {ArrayValue, DocumentValue}
        es == [i \in DOMAIN v.e |->
                  ConvertInside(fcs, at(i),
                      IF deep(i) THEN v.e[i] ELSE ConvertScalarAtPath(fcs, at(i), v.e[i], fn), fn)]
    IN  IF v.t \notin {ArrayValue, DocumentValue} THEN v
        ELSE IF \E i \in DOMAIN es : es[i] = Error THEN Error
        ELSE [v EXCEPT !.e = es]

ConvertValueAtPath(fcs, path, v, fn) ==
    IF v.t \in {ArrayValue, DocumentValue} THEN ConvertInside(fcs, path, v, fn)
    ELSE ConvertScalarAtPath(fcs, path, v, fn)

ConvertDocument(fcs, d) == IF IsError(d) THEN Error ELSE ConvertInside(fcs, <<>>, d, "cast")

\* The default of a constraint goes where the document has no value.
Default(d, fc) ==
    IF IsError(d) \/ fc.def = NoValue \/ GetValue(d, fc.path) # Error THEN d
    ELSE Set(d, fc.path, fc.def)

RequireNotNull(fcs, d) ==
    IF /\ d # Error
       /\ \A i \in DOMAIN fcs : fcs[i].notNull => GetValue(d, fcs[i].path).t \notin {Error.t, NullValue}
    THEN d ELSE Error

\* Variant: the defaults come after the conversion.
DefaultsAfterConversion(fcs, d) == FoldLeft(Default, ConvertDocument(fcs, d), fcs)

\* FieldConstraints.ValidateDocument: defaults, conversion, NOT NULL.
ValidateDocument(fcs, d) == RequireNotNull(fcs, ConvertDocument(fcs, FoldLeft(Default, d, fcs)))
=============================================================================
