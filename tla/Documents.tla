----------------------------- MODULE Documents -----------------------------
(***************************************************************************)
(* Paths into documents and arrays, and the changes made at a path:        *)
(* document/document.go and document/array.go.                             *)
(*                                                                         *)
(* A path is a sequence of fragments: the number of a field name, or -i    *)
(* for the i-th element of an array.                                       *)
(***************************************************************************)
EXTENDS Values

\* Error stands for ErrFieldNotFound here; an index beyond the end of an array
\* is another error for the functions that change a document.
ErrValueNotFound == Value(-2, <<>>, <<>>, <<>>)
IsError(v) == v.t < 0

\* PathFragment.FieldName and ArrayIndex: a fragment of one kind has the zero
\* value of the other, the empty name or the first element.
FieldName(f) == IF f > 0 THEN f ELSE 0
ArrayIndex(f) == IF f < 0 THEN -f ELSE 1

\* Path.GetValueFromDocument, GetValueFromArray and getValueFromValue.
RECURSIVE GetValue(_, _)
GetValue(v, p) ==
    LET w == CASE v.t = DocumentValue /\ p[1] > 0 -> GetByField(v, p[1])
               [] v.t = ArrayValue /\ p[1] < 0 /\ -p[1] <= Len(v.e) -> v.e[-p[1]]
               [] OTHER -> Error
    IN  CASE p = <<>> -> Error
          [] Len(p) = 1 -> w
          [] OTHER -> IF w = Error THEN Error ELSE GetValue(w, Tail(p))

\* FieldBuffer.Add, Replace and setFieldValue.
AddField(v, f, w) == Document(Append(v.n, f), Append(v.e, w))

FieldAt(v, f) == {i \in DOMAIN v.n : v.n[i] = f}
FirstAt(v, f) == CHOOSE i \in FieldAt(v, f) : \A j \in FieldAt(v, f) : i <= j

SetFieldValue(v, f, w) ==
    IF FieldAt(v, f) = {} THEN AddField(v, f, w)
    ELSE [v EXCEPT !.e[FirstAt(v, f)] = w]

\* A value that is neither a document nor an array is left as it is.
RECURSIVE SetValueAtPath(_, _, _)
SetValueAtPath(v, p, w) ==
    LET f == FieldName(p[1])
        i == ArrayIndex(p[1])
        old == IF v.t = DocumentValue THEN GetByField(v, f) ELSE v.e[i]
        new == IF Len(p) = 1 THEN w
               ELSE IF old = Error THEN Error ELSE SetValueAtPath(old, Tail(p), w)
    IN  IF v.t \notin {ArrayValue, DocumentValue} THEN v
        ELSE IF v.t = ArrayValue /\ i > Len(v.e) THEN ErrValueNotFound
        ELSE IF IsError(new) THEN new
        ELSE IF v.t = DocumentValue THEN SetFieldValue(v, f, new) ELSE [v EXCEPT !.e[i] = new]

\* FieldBuffer.Set: the value of a longer path whose first field is missing
\* goes under that first field.
Set(v, p, w) ==
    CASE Len(p) = 1 -> SetFieldValue(v, FieldName(p[1]), w)
      [] Len(p) > 1 /\ FieldAt(v, p[1]) # {} ->
           LET i == FirstAt(v, p[1])
               new == SetValueAtPath(v.e[i], Tail(p), w)
           IN  IF IsError(new) THEN new ELSE [v EXCEPT !.e[i] = new]
      [] OTHER -> AddField(v, FieldName(p[1]), w)

\* FieldBuffer.Delete of a field of the document itself.
DeleteField(v, f) ==
    IF FieldAt(v, f) = {} THEN Error
    ELSE Document(RemoveAt(v.n, FirstAt(v, f)), RemoveAt(v.e, FirstAt(v, f)))
=============================================================================
