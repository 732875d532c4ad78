------------------------------- MODULE Schema -------------------------------
(***************************************************************************)
(* The life of a table's constraints: CREATE TABLE (parser/create.go and   *)
(* catalog.CreateTable), ALTER TABLE ADD FIELD, and the documents INSERT   *)
(* and UPDATE store under them.                                            *)
(***************************************************************************)
EXTENDS Constraints

CONSTANTS Given,     \* lists of constraints CREATE TABLE is given
          Added,     \* constraints ALTER TABLE adds
          Input,     \* documents INSERT is given
          Change,    \* what UPDATE sets: a path and a value
          MaxStored  \* a bound on the documents stored

VARIABLES fcs,     \* the constraints of the table
          table,   \* "none", "created", or "altered"
          stored   \* the documents, each with its source and the constraints it met

schemaVars == <<fcs, table, stored>>

SchemaInit == fcs = <<>> /\ table = "none" /\ stored = {}

\* The parser adds the constraints one by one, the catalog infers those of the
\* documents and arrays around them.
CreateTable ==
    /\ table = "none"
    /\ \E given \in Given :
         \E list \in {AddAll(<<>>, given)} \ {Refused} :
            \E all \in {Infer(list)} \ {Refused} : fcs' = all
    /\ table' = "created"
    /\ UNCHANGED stored

\* The documents stored before are left as they are, and nothing is inferred.
\* When the constraint is refused, or the transaction is rolled back, the table
\* has its old list again, with what Add has changed in it.
AddFieldConstraint ==
    /\ table # "none"
    /\ \E fc \in Added :
         \/ /\ \E all \in {Add(fcs, fc)} \ {Refused} : fcs' = all
            /\ table' = "altered"
         \/ /\ fcs' = Touched(fcs, fc)
            /\ UNCHANGED table
    /\ UNCHANGED stored

\* A document is stored in place of the old ones.
Store(old, d) ==
    \E new \in {ValidateDocument(fcs, d)} \ {Error} :
        stored' = (stored \ old) \cup {[doc |-> new, given |-> d, under |-> fcs]}

InsertDocument ==
    /\ table # "none" /\ Cardinality(stored) < MaxStored
    /\ \E d \in Input : Store({}, d)
    /\ UNCHANGED <<fcs, table>>

\* A row of an UPDATE, from SetOperator to Table.Replace.
UpdateDocument ==
    /\ \E x \in stored : \E c \in Change :
         \E d \in {Set(x.doc, c.path, c.v)} : ~IsError(d) /\ Store({x}, d)
    /\ UNCHANGED <<fcs, table>>

SchemaNext == CreateTable \/ AddFieldConstraint \/ InsertDocument \/ UpdateDocument

-----------------------------------------------------------------------------

\* A constraint has its own path; there is one primary key; and what CREATE
\* TABLE made has a constraint of the right type for every document and array a
\* path goes through, which is what lets an index on the path trust its type.
ListIsSound ==
    /\ \A i, j \in DOMAIN fcs : i # j => fcs[i].path # fcs[j].path
    /\ Cardinality({i \in DOMAIN fcs : fcs[i].pk}) <= 1
    /\ table = "created" =>
         \A i \in DOMAIN fcs : \A n \in 1..(Len(fcs[i].path) - 1) :
             \E j \in DOMAIN fcs : /\ fcs[j].path = SubSeq(fcs[i].path, 1, n)
                                   /\ fcs[j].type = Inferred(fcs[i].path, n).type

\* A value at a typed path has the type or is NULL, a NOT NULL one is there.
Meets(d, fc) ==
    LET v == GetValue(d, fc.path)
    IN  /\ v # Error => fc.type = AnyType \/ v.t \in {fc.type, NullValue}
        /\ fc.notNull => v.t \notin {Error.t, NullValue}

RECURSIVE IntegerPaths(_, _)
IntegerPaths(v, path) ==
    IF v.t = IntegerValue THEN {path}
    ELSE UNION {IntegerPaths(v.e[i], Append(path, IF v.t = DocumentValue THEN v.n[i] ELSE -i)) :
                   i \in DOMAIN v.e}

\* A default fills in for a missing value; a value that was given, NULL too, is
\* kept, in the type of its constraint.
DefaultsOnlyFill(x, fc) ==
    LET v == GetValue(x.given, fc.path)
    IN  fc.def # NoValue /\ v # Error /\ v.t \notin {ArrayValue, DocumentValue} =>
            GetValue(x.doc, fc.path) = ConvertScalarAtPath(x.under, fc.path, v, "cast")

\* The constraints are a sound list, and a stored document meets those it was
\* stored under: an integer is found only where one of them says so, and none
\* of its defaults has replaced a value that was given.
Conforms ==
    /\ ListIsSound
    /\ \A x \in stored :
        /\ \A i \in DOMAIN x.under : Meets(x.doc, x.under[i]) /\ DefaultsOnlyFill(x, x.under[i])
        /\ \A p \in IntegerPaths(x.doc, <<>>) : \E i \in At(x.under, p) : x.under[i].type = IntegerValue

\* Writing a stored document again, as an UPDATE of another field does, changes
\* none of its values.
Settled == \A x \in stored : ValidateDocument(x.under, x.doc) = x.doc
=============================================================================
