--------------------------- MODULE Catalog_proofs ---------------------------
(***************************************************************************)
(* The catalog, for any finite set of names, any length of a transaction    *)
(* and any Cache of the store sequence, until the catalog is marred: the    *)
(* cache and the rows of __genji_catalog agree, the schema is closed,       *)
(* stores are never shared, and every sequence has its row.                 *)
(***************************************************************************)
EXTENDS Catalog, CatalogCalls_proofs

(* What an entry of the catalog refers to is a name.                        *)
LEMMA Refers ==
    ASSUME NEW c \in Caches, NEW n \in Name
    PROVE  /\ IsIn(c, "table", n) => c[n].docid = None \/ c[n].docid \in Name
           /\ IsIn(c, "table", n) => c[n].store # 0
           /\ IsIn(c, "index", n) => c[n].tbl \in Name
  BY Zenon DEF Caches, Rel, AnyRelation, IsIn, Name

(* What catalogCache.Add, Replace and Delete leave in the map under the     *)
(* name they are given, and under the others.                               *)
LEMMA WithAt ==
    ASSUME NEW c \in Caches, NEW n \in Name, NEW o, NEW d, d = With(c, n, o)
    PROVE  d[n] = o /\ \A m \in Name : m # n => d[m] = c[m]
  BY Zenon DEF Caches, With

(* A sequence that is new may be added to a closed schema, with its row.    *)
LEMMA ClosedAddSequence ==
    ASSUME NEW c \in Caches, NEW S, NEW Q, Closed(c, S, Q), NEW n \in Name, c[n] = None,
           NEW o, o # None, o.type = "sequence", NEW d, d = With(c, n, o)
    PROVE  Closed(d, S, Q \cup {n})
  <1>1. d[n] = o /\ \A m \in Name : m # n => d[m] = c[m]
    BY WithAt
  <1>2. \A m \in Name : IsIn(c, "sequence", m) => IsIn(d, "sequence", m)
    BY Zenon, <1>1 DEF IsIn
  <1>3. \A m \in Name : IsIn(c, "table", m) <=> IsIn(d, "table", m)
    BY Zenon, <1>1 DEF IsIn
  <1>4. \A m \in Name : IsIn(d, "table", m) \/ IsIn(d, "index", m) => m # n
    BY Zenon, <1>1 DEF IsIn
  <1>5. ASSUME NEW m \in Name, IsIn(d, "table", m)
        PROVE  /\ d[m].store \in S /\ d[m].tbl = m
               /\ d[m].docid # None =>
                    /\ IsIn(d, "sequence", d[m].docid)
                    /\ \A k \in Name : k # m /\ IsIn(d, "table", k) => d[k].docid # d[m].docid
    <2>1. IsIn(c, "table", m) /\ d[m] = c[m]
      BY Zenon, <1>1, <1>3, <1>4, <1>5
    <2>2. \A k \in Name : IsIn(d, "table", k) => IsIn(c, "table", k) /\ d[k] = c[k]
      BY Zenon, <1>1, <1>3, <1>4
    <2> QED
      BY <1>2, <2>1, <2>2, Refers DEF Closed
  <1>6. ASSUME NEW m \in Name, IsIn(d, "index", m)
        PROVE  IsIn(d, "table", d[m].tbl)
    <2>1. IsIn(c, "index", m) /\ d[m] = c[m]
      BY Zenon, <1>1, <1>4, <1>6 DEF IsIn
    <2> QED
      BY Zenon, <1>3, <2>1, Refers DEF Closed
  <1>7. ASSUME NEW m \in Name
        PROVE  IsIn(d, "sequence", m) <=> m \in Q \cup {n}
    BY <1>1 DEF Closed, IsIn
  <1> QED
    BY Zenon, <1>5, <1>6, <1>7 DEF Closed

(* So may a table that has its store and a docid sequence of its own.       *)
LEMMA ClosedAddTable ==
    ASSUME NEW c \in Caches, NEW S, NEW Q, Closed(c, S, Q), NEW t \in Name, c[t] = None,
           NEW o, o # None, o.type = "table", o.tbl = t, NEW P, S \subseteq P, o.store \in P,
           o.docid # None =>
              /\ IsIn(c, "sequence", o.docid) /\ o.docid \in Name
              /\ \A m \in Name : IsIn(c, "table", m) => c[m].docid # o.docid,
           NEW d, d = With(c, t, o)
    PROVE  Closed(d, P, Q)
  <1>1. d[t] = o /\ \A m \in Name : m # t => d[m] = c[m]
    BY WithAt
  <1>2. \A m \in Name : IsIn(c, "sequence", m) <=> IsIn(d, "sequence", m)
    BY Zenon, <1>1 DEF IsIn
  <1>3. \A m \in Name : IsIn(d, "table", m) <=> IsIn(c, "table", m) \/ m = t
    BY Zenon, <1>1 DEF IsIn
  <1>4. \A m \in Name : IsIn(c, "table", m) => m # t /\ d[m] = c[m]
    BY Zenon, <1>1 DEF IsIn
  <1>5. ASSUME NEW m \in Name, IsIn(d, "table", m)
        PROVE  /\ d[m].store \in P /\ d[m].tbl = m
               /\ d[m].docid # None =>
                    /\ IsIn(d, "sequence", d[m].docid)
                    /\ \A k \in Name : k # m /\ IsIn(d, "table", k) => d[k].docid # d[m].docid
    <2>1. CASE m = t
      BY Zenon, <1>1, <1>2, <1>3, <1>4, <2>1
    <2>2. CASE m # t
      <3>1. IsIn(c, "table", m) /\ d[m] = c[m]
        BY Zenon, <1>3, <1>4, <1>5, <2>2
      <3>2. d[m].store \in P /\ d[m].tbl = m
        BY Zenon, <3>1 DEF Closed
      <3>3. ASSUME d[m].docid # None
            PROVE  IsIn(d, "sequence", d[m].docid)
        BY Zenon, <1>2, <3>1, <3>3, Refers DEF Closed
      <3>4. ASSUME d[m].docid # None, NEW k \in Name, k # m, IsIn(d, "table", k)
            PROVE  d[k].docid # d[m].docid
        <4>1. CASE k = t
          BY Zenon, <1>1, <3>1, <3>4, <4>1
        <4>2. CASE k # t
          BY <1>3, <1>4, <3>1, <3>4, <4>2 DEF Closed
        <4> QED
          BY Zenon, <4>1, <4>2
      <3> QED
        BY Zenon, <3>2, <3>3, <3>4
    <2> QED
      BY Zenon, <2>1, <2>2
  <1>6. ASSUME NEW m \in Name, IsIn(d, "index", m)
        PROVE  IsIn(d, "table", d[m].tbl)
    <2>1. IsIn(c, "index", m) /\ d[m] = c[m]
      BY Zenon, <1>1, <1>6 DEF IsIn
    <2> QED
      BY Zenon, <1>3, <2>1, Refers DEF Closed
  <1>7. ASSUME NEW m \in Name
        PROVE  IsIn(d, "sequence", m) <=> m \in Q
    BY Zenon, <1>2 DEF Closed
  <1> QED
    BY Zenon, <1>5, <1>6, <1>7 DEF Closed

(* So may an index of a table.                                              *)
LEMMA ClosedAddIndex ==
    ASSUME NEW c \in Caches, NEW S, NEW Q, Closed(c, S, Q), NEW n \in Name, c[n] = None,
           NEW o, o # None, o.type = "index", o.tbl \in Name, IsIn(c, "table", o.tbl),
           NEW P, S \subseteq P, NEW d, d = With(c, n, o)
    PROVE  Closed(d, P, Q)
  <1>1. d[n] = o /\ \A m \in Name : m # n => d[m] = c[m]
    BY WithAt
  <1>2. \A m \in Name : IsIn(c, "sequence", m) <=> IsIn(d, "sequence", m)
    BY Zenon, <1>1 DEF IsIn
  <1>3. \A m \in Name : IsIn(d, "table", m) <=> IsIn(c, "table", m)
    BY Zenon, <1>1 DEF IsIn
  <1>4. \A m \in Name : IsIn(d, "table", m) => d[m] = c[m]
    BY Zenon, <1>1 DEF IsIn
  <1>5. ASSUME NEW m \in Name, IsIn(d, "table", m)
        PROVE  /\ d[m].store \in P /\ d[m].tbl = m
               /\ d[m].docid # None =>
                    /\ IsIn(d, "sequence", d[m].docid)
                    /\ \A k \in Name : k # m /\ IsIn(d, "table", k) => d[k].docid # d[m].docid
    BY <1>2, <1>3, <1>4, <1>5, Refers DEF Closed
  <1>6. ASSUME NEW m \in Name, IsIn(d, "index", m)
        PROVE  IsIn(d, "table", d[m].tbl)
    <2>1. CASE m = n
      BY Zenon, <1>1, <1>3, <2>1
    <2>2. CASE m # n
      <3>1. IsIn(c, "index", m) /\ d[m] = c[m]
        BY Zenon, <1>1, <1>6, <2>2 DEF IsIn
      <3> QED
        BY Zenon, <1>3, <3>1, Refers DEF Closed
    <2> QED
      BY Zenon, <2>1, <2>2
  <1>7. ASSUME NEW m \in Name
        PROVE  IsIn(d, "sequence", m) <=> m \in Q
    BY Zenon, <1>2 DEF Closed
  <1> QED
    BY Zenon, <1>5, <1>6, <1>7 DEF Closed

(* Indexes may go from a closed schema, and sequences no table uses, with   *)
(* their rows.                                                              *)
LEMMA ClosedDrop ==
    ASSUME NEW c \in Caches, NEW S, NEW Q, Closed(c, S, Q), NEW d,
           NEW ns \in SUBSET Name, \A n \in ns : d[n] = None,
           \A m \in Name \ ns : d[m] = c[m],
           \A n \in ns : ~IsIn(c, "table", n),
           \A n \in ns, m \in Name : IsIn(c, "table", m) /\ c[m].docid # None => c[m].docid # n,
           NEW R, \A n \in Name : n \in R <=> n \in Q /\ n \notin ns
    PROVE  Closed(d, S, R)
  <1>2. \A m \in Name : IsIn(d, "sequence", m) <=> IsIn(c, "sequence", m) /\ m \notin ns
    BY Zenon DEF IsIn
  <1>3. \A m \in Name : IsIn(d, "table", m) <=> IsIn(c, "table", m)
    BY Zenon DEF IsIn
  <1>4. \A m \in Name : IsIn(d, "table", m) => d[m] = c[m]
    BY Zenon DEF IsIn
  <1>5. ASSUME NEW m \in Name, IsIn(d, "table", m)
        PROVE  /\ d[m].store \in S /\ d[m].tbl = m
               /\ d[m].docid # None =>
                    /\ IsIn(d, "sequence", d[m].docid)
                    /\ \A k \in Name : k # m /\ IsIn(d, "table", k) => d[k].docid # d[m].docid
    <2>1. IsIn(c, "table", m) /\ d[m] = c[m]
      BY Zenon, <1>3, <1>4, <1>5
    <2>2. d[m].docid # None => IsIn(d, "sequence", d[m].docid)
      BY <1>2, <2>1, Refers DEF Closed
    <2> QED
      BY <1>3, <1>4, <2>1, <2>2 DEF Closed
  <1>6. ASSUME NEW m \in Name, IsIn(d, "index", m)
        PROVE  IsIn(d, "table", d[m].tbl)
    <2>1. IsIn(c, "index", m) /\ d[m] = c[m]
      BY Zenon, <1>6 DEF IsIn
    <2> QED
      BY Zenon, <1>3, <2>1, Refers DEF Closed
  <1>7. ASSUME NEW m \in Name
        PROVE  IsIn(d, "sequence", m) <=> m \in R
    BY Zenon, <1>2 DEF Closed
  <1> QED
    BY Zenon, <1>5, <1>6, <1>7 DEF Closed

(* A table may go with its indexes and its store, which no other table has. *)
(* Its docid sequence is then used by no table.                             *)
LEMMA ClosedDropTable ==
    ASSUME NEW c \in Caches, NEW S, NEW Q, Closed(c, S, Q), Apart(c),
           NEW t \in Name, IsIn(c, "table", t),
           NEW ns, ns = {n \in Name : IsIn(c, "index", n) /\ c[n].tbl = t},
           NEW d, d = With(Without(c, ns), t, None),
           NEW P, \A st \in S : st # c[t].store => st \in P
    PROVE  /\ Closed(d, P, Q)
           /\ \A m \in Name : IsIn(d, "table", m) /\ c[t].docid # None => d[m].docid # c[t].docid
  <1>1. /\ d[t] = None /\ \A n \in ns : d[n] = None
        /\ \A m \in Name : m \notin ns /\ m # t => d[m] = c[m]
    BY Zenon DEF With, Without
  <1>2. \A m \in Name : IsIn(d, "sequence", m) <=> IsIn(c, "sequence", m)
    BY Zenon, <1>1 DEF IsIn
  <1>3. \A m \in Name : IsIn(d, "table", m) <=> IsIn(c, "table", m) /\ m # t
    BY Zenon, <1>1 DEF IsIn
  <1>4. \A m \in Name : IsIn(d, "table", m) => d[m] = c[m]
    BY Zenon, <1>1 DEF IsIn
  <1>5. ASSUME NEW m \in Name, IsIn(d, "table", m)
        PROVE  /\ d[m].store \in P /\ d[m].tbl = m
               /\ d[m].docid # None =>
                    /\ IsIn(d, "sequence", d[m].docid)
                    /\ \A k \in Name : k # m /\ IsIn(d, "table", k) => d[k].docid # d[m].docid
    <2>1. IsIn(c, "table", m) /\ d[m] = c[m] /\ m # t
      BY Zenon, <1>3, <1>4, <1>5
    <2>2. d[m].docid # None => IsIn(d, "sequence", d[m].docid)
      BY Zenon, <1>2, <2>1, Refers DEF Closed
    <2>3. c[m].store # c[t].store
      BY Zenon, <2>1, Refers DEF Apart, IsIn
    <2> QED
      BY <1>3, <1>4, <2>1, <2>2, <2>3 DEF Closed
  <1>6. ASSUME NEW m \in Name, IsIn(d, "index", m)
        PROVE  IsIn(d, "table", d[m].tbl)
    <2>1. m # t /\ m \notin ns
      BY Zenon, <1>1, <1>6 DEF IsIn
    <2>2. IsIn(c, "index", m) /\ d[m] = c[m]
      BY Zenon, <1>1, <1>6, <2>1 DEF IsIn
    <2>3. c[m].tbl # t
      BY Zenon, <2>1, <2>2
    <2> QED
      BY Zenon, <1>3, <2>2, <2>3, Refers DEF Closed
  <1>7. ASSUME NEW m \in Name
        PROVE  IsIn(d, "sequence", m) <=> m \in Q
    BY Zenon, <1>2 DEF Closed
  <1>8. Closed(d, P, Q)
    BY Zenon, <1>5, <1>6, <1>7 DEF Closed
  <1>9. ASSUME NEW m \in Name, IsIn(d, "table", m), c[t].docid # None
        PROVE  d[m].docid # c[t].docid
    BY <1>3, <1>4, <1>9 DEF Closed
  <1> QED
    BY Zenon, <1>8, <1>9

(* A table without indexes may get another name.                            *)
LEMMA ClosedRename ==
    ASSUME NEW c \in Caches, NEW S, NEW Q, Closed(c, S, Q),
           NEW old \in Name, IsIn(c, "table", old),
           \A n \in Name : ~(IsIn(c, "index", n) /\ c[n].tbl = old),
           NEW new \in Name, new # old, c[new] = None,
           NEW o, o # None, SameTable(o, c[old]), o.tbl = new,
           NEW d, d = With(With(c, old, None), new, o)
    PROVE  Closed(d, S, Q)
  <1>1. /\ d[old] = None /\ d[new] = o
        /\ \A m \in Name : m # old /\ m # new => d[m] = c[m]
    BY Zenon DEF With, Caches
  <1>0. o.type = "table" /\ o.store = c[old].store /\ o.docid = c[old].docid
    BY Zenon DEF SameTable
  <1>2. \A m \in Name : IsIn(d, "sequence", m) <=> IsIn(c, "sequence", m)
    BY Zenon, <1>0, <1>1 DEF IsIn
  <1>3. \A m \in Name : IsIn(d, "table", m) <=> m = new \/ (IsIn(c, "table", m) /\ m # old)
    BY Zenon, <1>0, <1>1 DEF IsIn
  <1>4. \A m \in Name : IsIn(d, "table", m) /\ m # new => d[m] = c[m] /\ IsIn(c, "table", m) /\ m # old
    BY Zenon, <1>1 DEF IsIn
  <1>5. ASSUME NEW m \in Name, IsIn(d, "table", m)
        PROVE  /\ d[m].store \in S /\ d[m].tbl = m
               /\ d[m].docid # None =>
                    /\ IsIn(d, "sequence", d[m].docid)
                    /\ \A k \in Name : k # m /\ IsIn(d, "table", k) => d[k].docid # d[m].docid
    <2>1. CASE m = new
      <3>1. d[m].store = c[old].store /\ d[m].docid = c[old].docid /\ d[m].tbl = m
        BY Zenon, <1>0, <1>1, <2>1
      <3>2. d[m].docid # None => IsIn(d, "sequence", d[m].docid)
        BY Zenon, <1>2, <3>1, Refers DEF Closed
      <3>3. ASSUME d[m].docid # None, NEW k \in Name, k # m, IsIn(d, "table", k)
            PROVE  d[k].docid # d[m].docid
        BY <1>4, <2>1, <3>1, <3>3 DEF Closed
      <3> QED
        BY Zenon, <3>1, <3>2, <3>3 DEF Closed
    <2>2. CASE m # new
      <3>1. IsIn(c, "table", m) /\ d[m] = c[m] /\ m # old
        BY Zenon, <1>4, <1>5, <2>2
      <3>2. d[m].docid # None => IsIn(d, "sequence", d[m].docid)
        BY Zenon, <1>2, <3>1, Refers DEF Closed
      <3>3. ASSUME d[m].docid # None, NEW k \in Name, k # m, IsIn(d, "table", k)
            PROVE  d[k].docid # d[m].docid
        <4>1. CASE k = new
          BY <1>0, <1>1, <3>1, <3>3, <4>1 DEF Closed
        <4>2. CASE k # new
          BY <1>4, <3>1, <3>3, <4>2 DEF Closed
        <4> QED
          BY Zenon, <4>1, <4>2
      <3> QED
        BY Zenon, <3>1, <3>2, <3>3 DEF Closed
    <2> QED
      BY Zenon, <2>1, <2>2
  <1>6. ASSUME NEW m \in Name, IsIn(d, "index", m)
        PROVE  IsIn(d, "table", d[m].tbl)
    <2>1. m # old /\ m # new
      BY Zenon, <1>0, <1>1, <1>6 DEF IsIn
    <2>2. IsIn(c, "index", m) /\ d[m] = c[m]
      BY Zenon, <1>1, <1>6, <2>1 DEF IsIn
    <2>3. c[m].tbl # old
      BY Zenon, <2>2
    <2> QED
      BY Zenon, <1>3, <2>2, <2>3, Refers DEF Closed
  <1>7. ASSUME NEW m \in Name
        PROVE  IsIn(d, "sequence", m) <=> m \in Q
    BY Zenon, <1>2 DEF Closed
  <1> QED
    BY Zenon, <1>5, <1>6, <1>7 DEF Closed

(* A table may get another field.                                           *)
LEMMA ClosedReplace ==
    ASSUME NEW c \in Caches, NEW S, NEW Q, Closed(c, S, Q),
           NEW t \in Name, IsIn(c, "table", t),
           NEW o, o # None, SameTable(o, c[t]), o.tbl = c[t].tbl,
           NEW d, d = With(c, t, o)
    PROVE  Closed(d, S, Q)
  <1>1. d[t] = o /\ \A m \in Name : m # t => d[m] = c[m]
    BY WithAt
  <1>0. o.type = "table" /\ o.store = c[t].store /\ o.docid = c[t].docid
    BY Zenon DEF SameTable
  <1>2. \A m \in Name : \A tp : IsIn(d, tp, m) <=> IsIn(c, tp, m)
    BY Zenon, <1>0, <1>1 DEF IsIn
  <1>3. \A m \in Name : IsIn(d, "table", m) =>
            d[m].store = c[m].store /\ d[m].docid = c[m].docid /\ d[m].tbl = c[m].tbl
    BY Zenon, <1>0, <1>1
  <1>4. \A m \in Name : IsIn(d, "index", m) => d[m].tbl = c[m].tbl
    BY Zenon, <1>0, <1>1
  <1>5. ASSUME NEW m \in Name, IsIn(d, "table", m)
        PROVE  /\ d[m].store \in S /\ d[m].tbl = m
               /\ d[m].docid # None =>
                    /\ IsIn(d, "sequence", d[m].docid)
                    /\ \A k \in Name : k # m /\ IsIn(d, "table", k) => d[k].docid # d[m].docid
    BY <1>2, <1>3, <1>5, Refers DEF Closed
  <1>6. ASSUME NEW m \in Name, IsIn(d, "index", m)
        PROVE  IsIn(d, "table", d[m].tbl)
    BY Zenon, <1>2, <1>4, <1>6, Refers DEF Closed
  <1>7. ASSUME NEW m \in Name
        PROVE  IsIn(d, "sequence", m) <=> m \in Q
    BY Zenon, <1>2 DEF Closed
  <1> QED
    BY Zenon, <1>5, <1>6, <1>7 DEF Closed

(* Stores that no table has may come and go.                                *)
LEMMA ClosedStores ==
    ASSUME NEW c, NEW S, NEW Q, Closed(c, S, Q), NEW P,
           \A n \in Name : IsIn(c, "table", n) => c[n].store \in P
    PROVE  Closed(c, P, Q)
  BY Zenon DEF Closed

-----------------------------------------------------------------------------
(* The statements.  Each keeps Sound, and Whole unless it fails.            *)
Keeps(x, r, base, late) ==
    Sound(r, base, late) /\ (Whole(x) /\ r.res = "ok" => Whole(r))

(* IF NOT EXISTS forgives AlreadyExistsError, and nothing else.             *)
LEMMA IfNotExistsIs ==
    ASSUME NEW base, NEW late, NEW x, Sound(x, base, late), NEW b,
           NEW r, r = IfNotExists(x, b)
    PROVE  /\ Sound(r, base, late) /\ Left(x, r)
           /\ r.res = "ok" => x.res \in {"ok", "exists"}
  <1>1. Left(x, r) /\ (r.res = "ok" => x.res \in {"ok", "exists"})
    BY Zenon DEF IfNotExists, Left, Sound, States
  <1> QED
    BY Zenon, <1>1, LeftSound

(* What is Whole depends on the catalog and the engine only.                *)
LEMMA WholeSame ==
    ASSUME NEW x, NEW y, Whole(x), y.cache = x.cache, y.rows = x.rows,
           y.stores = x.stores, y.seqRows = x.seqRows
    PROVE  Whole(y)
  BY Zenon DEF Whole

(* CREATE SEQUENCE.                                                         *)
LEMMA CreateSequenceKeeps ==
    ASSUME Ground, NEW base, NEW late, NEW x, Sound(x, base, late),
           x.res = "ok", NEW n \in Name, NEW b, NEW r, r = CreateSequenceStmt(x, n, b)
    PROVE  Keeps(x, r, base, late)
  <1> DEFINE y == CreateSequence(x, n, None)
             o == SequenceOf(None)
  <1>1. /\ Sound(y, base, late)
        /\ y.res = "ok" =>
               /\ x.res = "ok" /\ x.cache[n] = None
               /\ y.cache = With(x.cache, n, o)
               /\ y.rows = With(x.rows, n, o)
               /\ y.stores = x.stores
               /\ y.seqRows = x.seqRows \cup {n}
        /\ x.res = "ok" /\ x.cache = x.rows /\ y.res = "exists" => Left(x, y)
    <2>1. None \in TableName \cup {None}
      BY Zenon
    <2> QED
      BY <2>1, CreateSequenceIs
  <1>2. r = IfNotExists(y, b)
    BY Zenon DEF CreateSequenceStmt
  <1>0. o # None /\ o.type = "sequence" /\ x.cache \in Caches
    <2>1. o \in AnyRelation
      BY DEF SequenceOf, Relation, AnyRelation, Lists
    <2>2. o.type = "sequence" /\ x.cache \in Caches
      BY Zenon DEF SequenceOf, Relation, Sound, States
    <2> HIDE DEF o
    <2> QED
      BY Zenon, <2>1, <2>2 DEF Ground, CatalogAssumptions
  <1> HIDE DEF y, o
  <1>3. Sound(r, base, late) /\ Left(y, r) /\ (r.res = "ok" => y.res \in {"ok", "exists"})
    BY Zenon, <1>1, <1>2, IfNotExistsIs
  <1>4. ASSUME Whole(x), y.res = "ok"
        PROVE  Whole(y)
    <2>1. y.cache = y.rows
      BY Zenon, <1>1, <1>4 DEF Whole
    <2>2. Closed(y.cache, x.stores, x.seqRows \cup {n})
      BY Zenon, <1>0, <1>1, <1>4, ClosedAddSequence DEF Whole
    <2> QED
      BY Zenon, <1>1, <1>4, <2>1, <2>2 DEF Whole
  <1>5. ASSUME Whole(x), y.res = "exists"
        PROVE  Whole(y)
    BY Zenon, <1>1, <1>5, LeftSound DEF Whole
  <1>6. Whole(y) => Whole(r)
    BY Zenon, <1>1, <1>3, LeftSound
  <1> QED
    BY Zenon, <1>3, <1>4, <1>5, <1>6 DEF Keeps

(* A new index keeps the schema closed.                                     *)
LEMMA CreateIndexKeeps ==
    ASSUME Ground, NEW base, NEW late, NEW x, Sound(x, base, late),
           x.res = "ok", NEW n \in Name, NEW t \in TableName, NEW owned \in BOOLEAN,
           NEW build, NEW r, r = CreateIndex(x, n, t, owned, build)
    PROVE  /\ Keeps(x, r, base, late)
           /\ Whole(x) /\ r.res = "exists" => Whole(r)
           /\ r.res = "ok" => Is(x, "table", t) /\ Is(r, "index", n)
  <1> DEFINE o == Relation("index", t, x.cur + 1, None, owned, TypesFrom(x, t))
  <1>1. /\ Sound(r, base, late)
        /\ r.res = "ok" =>
               /\ Is(x, "table", t) /\ x.cache[n] = None
               /\ r.cache = With(x.cache, n, o)
               /\ r.rows = With(x.rows, n, o)
               /\ x.stores \subseteq r.stores
               /\ r.seqRows = x.seqRows
        /\ x.cache = x.rows /\ r.res = "exists" =>
               /\ r.cache = x.cache /\ r.rows = x.rows
               /\ r.stores = x.stores /\ r.seqRows = x.seqRows
    BY CreateIndexIs
  <1>2. x \in States /\ x.cur + 1 \in Nat
    BY DEF Sound, States
  <1>3. o # None /\ o.type = "index" /\ o.tbl = t /\ t \in Name /\ x.cache \in Caches
    <2>1. TypesFrom(x, t) \in Lists
      BY DEF TypesFrom, Lists
    <2> QED
      BY <1>2, <2>1 DEF Ground, CatalogAssumptions, Relation, AnyRelation, States, Name
  <1> HIDE DEF o
  <1>4. r.res = "ok" => Is(r, "index", n)
    BY <1>1, <1>3, WithAt DEF Is
  <1>5. ASSUME Whole(x), r.res = "ok"
        PROVE  Whole(r)
    <2>1. r.cache = r.rows
      BY Zenon, <1>1, <1>5 DEF Whole
    <2>2. IsIn(x.cache, "table", t)
      BY Zenon, <1>1, <1>5 DEF Is, IsIn
    <2>3. Closed(r.cache, r.stores, x.seqRows)
      BY <1>1, <1>3, <1>5, <2>2, ClosedAddIndex DEF Whole
    <2> QED
      BY Zenon, <1>1, <1>5, <2>1, <2>3 DEF Whole
  <1>6. ASSUME Whole(x), r.res = "exists"
        PROVE  Whole(r)
    BY Zenon, <1>1, <1>6, WholeSame DEF Whole
  <1> QED
    BY Zenon, <1>1, <1>4, <1>5, <1>6 DEF Keeps

(* REINDEX of an index keeps the stores of the tables.                      *)
LEMMA ReIndexKeeps ==
    ASSUME Ground, NEW base, NEW late, NEW x, Sound(x, base, late),
           NEW n \in Name, NEW build, NEW r, r = ReIndex(x, n, build)
    PROVE  Keeps(x, r, base, late)
  <1>1. /\ Sound(r, base, late)
        /\ r.res = "ok" =>
               /\ x.res = "ok" /\ Is(x, "index", n)
               /\ r.cache = x.cache /\ r.rows = x.rows /\ r.seqRows = x.seqRows
               /\ x.stores \ {x.cache[n].store} \subseteq r.stores
        /\ r.res = "exists" => x.res = "exists"
    BY ReIndexIs
  <1>2. ASSUME Whole(x), r.res = "ok"
        PROVE  Whole(r)
    <2>1. x.cache \in Caches /\ Apart(x.cache) /\ Closed(x.cache, x.stores, x.seqRows)
      BY Zenon, <1>2 DEF Sound, States, Whole
    <2>2. ASSUME NEW m \in Name, IsIn(x.cache, "table", m)
          PROVE  x.cache[m].store \in r.stores
      <3>1. x.cache[m].store \in x.stores
        BY Zenon, <2>1, <2>2 DEF Closed
      <3>2. m # n /\ x.cache[n] # None /\ x.cache[m] # None
        BY Zenon, <1>1, <1>2, <2>2 DEF Is, IsIn
      <3>3. x.cache[m].store # x.cache[n].store
        BY Zenon, <2>1, <2>2, <3>2, Refers DEF Apart
      <3> QED
        BY Zenon, <1>1, <1>2, <3>1, <3>3
    <2>3. Closed(x.cache, r.stores, x.seqRows)
      BY Zenon, <2>1, <2>2, ClosedStores
    <2> QED
      BY Zenon, <1>1, <1>2, <2>3 DEF Whole
  <1> QED
    BY Zenon, <1>1, <1>2 DEF Keeps

(* CREATE INDEX: CreateIndexStmt builds the index, then reindexes it.       *)
LEMMA CreateIndexStmtKeeps ==
    ASSUME Ground, NEW base, NEW late, NEW x, Sound(x, base, late),
           x.res = "ok", NEW n \in Name, NEW t \in TableName, NEW b, NEW build,
           NEW r, r = CreateIndexStmt(x, n, t, b, build)
    PROVE  Keeps(x, r, base, late)
  <1> DEFINE y == CreateIndex(x, n, t, FALSE, build)
             u == ReIndex(y, n, build)
             z == Then(y, u)
  <1>1. /\ Keeps(x, y, base, late)
        /\ Whole(x) /\ y.res = "exists" => Whole(y)
    <2>1. ASSUME NEW owned \in BOOLEAN, NEW v, v = CreateIndex(x, n, t, owned, build)
          PROVE  /\ Keeps(x, v, base, late)
                 /\ Whole(x) /\ v.res = "exists" => Whole(v)
      BY <2>1, CreateIndexKeeps
    <2> QED
      BY Zenon, <2>1
  <1>2. r = IfNotExists(z, b)
    BY Zenon DEF CreateIndexStmt
  <1> HIDE DEF y
  <1>3. Sound(y, base, late)
    BY Zenon, <1>1 DEF Keeps
  <1>4. Keeps(y, u, base, late) /\ (u.res = "exists" => y.res = "exists")
    BY <1>3, ReIndexKeeps, ReIndexIs
  <1> HIDE DEF u
  <1>5. /\ Sound(z, base, late)
        /\ Whole(x) /\ z.res \in {"ok", "exists"} => Whole(z)
    <2>1. CASE y.res = "ok"
      <3>1. z = u
        BY Zenon, <2>1 DEF Then
      <3>2. u.res # "exists"
        BY Zenon, <1>4, <2>1
      <3> QED
        BY Zenon, <1>1, <1>4, <2>1, <3>1, <3>2 DEF Keeps
    <2>2. CASE y.res # "ok"
      <3>1. z = y
        BY Zenon, <2>2 DEF Then
      <3> QED
        BY Zenon, <1>1, <2>2, <3>1 DEF Keeps
    <2> QED
      BY Zenon, <2>1, <2>2
  <1> HIDE DEF z
  <1>6. Sound(r, base, late) /\ Left(z, r) /\ (r.res = "ok" => z.res \in {"ok", "exists"})
    BY Zenon, <1>2, <1>5, IfNotExistsIs
  <1>7. Whole(z) => Whole(r)
    BY Zenon, <1>5, <1>6, LeftSound
  <1> QED
    BY Zenon, <1>5, <1>6, <1>7 DEF Keeps

(* generateUnusedName gives a name that is not in the cache.                *)
LEMMA GeneratesUnused ==
    ASSUME Ground, NEW x, NEW t \in TableName, NEW kind \in {"seq", "idx"},
           Unused(x, t, kind) # {}, NEW g, g = GenerateUnusedName(x, t, kind)
    PROVE  g \in Generated /\ g \in Name /\ x.cache[g] = None /\ g # t
  <1> DEFINE U == Unused(x, t, kind)
             i == CHOOSE i \in U : \A j \in U : i <= j
  <1>1. U \subseteq 0 .. MaxDup /\ U \in SUBSET Nat
    BY DEF Unused, Ground, CatalogAssumptions
  <1>2. \E k \in U : \A j \in U : k <= j
    <2> HIDE DEF U
    <2>1. U # {}
      BY Zenon DEF U
    <2> QED
      BY Zenon, <1>1, <2>1 DEF Ground, Least
  <1>3. i \in U
    BY Zenon, <1>2
  <1>4. g = <<t, kind, i>>
    BY Zenon DEF GenerateUnusedName
  <1> HIDE DEF i
  <1>5. i \in 0 .. MaxDup /\ x.cache[<<t, kind, i>>] = None
    BY Zenon, <1>3 DEF Unused
  <1>6. g \in Generated
    BY <1>4, <1>5 DEF Generated
  <1>7. g[1] = t
    BY <1>4
  <1> QED
    BY Zenon, <1>4, <1>5, <1>6, <1>7 DEF Name, Ground, CatalogAssumptions

(* docid is a sequence in c that no table uses, or there is none.           *)
Own(c, docid) ==
    docid # None =>
        /\ IsIn(c, "sequence", docid)
        /\ \A m \in Name : IsIn(c, "table", m) => c[m].docid # docid

(* Catalog.CreateTable with a docid sequence that no other table uses.      *)
LEMMA CreateTableKeeps ==
    ASSUME Ground, NEW base, NEW late, NEW x, Sound(x, base, late),
           x.res = "ok", NEW t \in TableName, NEW docid \in Generated \cup {None},
           NEW list \in Lists, NEW r, r = CreateTable(x, t, docid, list)
    PROVE  /\ Sound(r, base, late)
           /\ Whole(x) /\ Own(x.cache, docid) =>
                  (r.res \in {"ok", "exists"} \/ Is(r, "table", t) => Whole(r))
           /\ \A g \in Name : g # t /\ x.cache[g] = None => r.cache[g] = None
  <1> DEFINE o == TableOf(t, x.cur + 1, docid, list)
  <1>1. /\ Sound(r, base, late)
        /\ r.res = "ok" =>
               /\ x.cache[t] = None
               /\ r.cache = With(x.cache, t, o)
               /\ r.rows = With(x.rows, t, o)
               /\ r.stores = x.stores \cup {x.cur + 1}
               /\ r.seqRows = x.seqRows
        /\ r.res # "ok" =>
               /\ r.cache = x.cache
               /\ r.seqRows = x.seqRows
               /\ x.rows[t] # None => r.rows = x.rows /\ r.stores = x.stores
        /\ x.cache = x.rows /\ r.res = "exists" => r.rows = x.rows /\ r.stores = x.stores
    BY CreateTableIs
  <1>2. x \in States /\ x.cur + 1 \in Nat /\ t \in Name /\ x.cache \in Caches
    BY DEF Sound, States, Name
  <1>3. /\ o \in AnyRelation
        /\ o.type = "table" /\ o.tbl = t /\ o.store = x.cur + 1 /\ o.docid = docid
    BY <1>2 DEF TableOf, Relation, AnyRelation
  <1>4. o # None /\ (docid # None => docid \in Name)
    BY Zenon, <1>3 DEF Ground, CatalogAssumptions, Name
  <1> HIDE DEF o
  <1>5. ASSUME Whole(x), Own(x.cache, docid), r.res = "ok"
        PROVE  Whole(r)
    <2>1. r.cache = r.rows
      BY Zenon, <1>1, <1>5 DEF Whole
    <2>2. x.stores \subseteq r.stores /\ o.store \in r.stores
      BY Zenon, <1>1, <1>3, <1>5
    <2>3. Closed(x.cache, x.stores, x.seqRows) /\ x.cache[t] = None /\ r.cache = With(x.cache, t, o)
      BY Zenon, <1>1, <1>5 DEF Whole
    <2>4. o.docid # None =>
              /\ IsIn(x.cache, "sequence", o.docid) /\ o.docid \in Name
              /\ \A m \in Name : IsIn(x.cache, "table", m) => x.cache[m].docid # o.docid
      BY Zenon, <1>3, <1>4, <1>5 DEF Own
    <2>5. Closed(r.cache, r.stores, x.seqRows)
      BY Zenon, <1>2, <1>3, <1>4, <2>2, <2>3, <2>4, ClosedAddTable
    <2> QED
      BY Zenon, <1>1, <1>5, <2>1, <2>5 DEF Whole
  <1>6. ASSUME Whole(x), r.res = "exists"
        PROVE  Whole(r)
    BY Zenon, <1>1, <1>6, WholeSame DEF Whole
  <1>7. ASSUME Whole(x), r.res # "ok", Is(r, "table", t)
        PROVE  Whole(r)
    <2>1. x.rows[t] # None
      BY Zenon, <1>1, <1>7 DEF Whole, Is
    <2> QED
      BY Zenon, <1>1, <1>7, <2>1, WholeSame
  <1>8. ASSUME NEW g \in Name, g # t, x.cache[g] = None
        PROVE  r.cache[g] = None
    BY <1>1, <1>2, <1>8, WithAt
  <1> QED
    BY Zenon, <1>1, <1>5, <1>6, <1>7, <1>8

(* The docid sequence of CREATE TABLE: it belongs to no other table.        *)
LEMMA DocidKeeps ==
    ASSUME Ground, NEW base, NEW late, NEW x, Sound(x, base, late),
           x.res = "ok", NEW t \in TableName, NEW docid \in Generated, x.cache[docid] = None,
           NEW y, y = CreateSequence(x, docid, t)
    PROVE  /\ Keeps(x, y, base, late)
           /\ y.res = "ok" =>
                  /\ y.cache = With(x.cache, docid, SequenceOf(t))
                  /\ Whole(x) => Own(y.cache, docid)
  <1> DEFINE o == SequenceOf(t)
  <1>0. docid \in Name /\ t \in TableName \cup {None} /\ docid = docid
    BY Zenon DEF Name
  <1>1. /\ Sound(y, base, late)
        /\ y.res = "ok" =>
               /\ y.cache = With(x.cache, docid, o)
               /\ y.rows = With(x.rows, docid, o)
               /\ y.stores = x.stores
               /\ y.seqRows = x.seqRows \cup {docid}
    BY <1>0, CreateSequenceIs
  <1>2. o \in AnyRelation /\ o.type = "sequence" /\ x.cache \in Caches
    BY DEF SequenceOf, Relation, AnyRelation, Lists, Sound, States
  <1>3. o # None
    BY Zenon, <1>2 DEF Ground, CatalogAssumptions
  <1> HIDE DEF o
  <1>4. ASSUME y.res = "ok"
        PROVE  /\ y.cache[docid] = o /\ IsIn(y.cache, "sequence", docid)
               /\ \A m \in Name : m # docid => y.cache[m] = x.cache[m]
    BY <1>0, <1>1, <1>2, <1>3, <1>4, WithAt DEF IsIn
  <1>5. ASSUME Whole(x), y.res = "ok"
        PROVE  Whole(y)
    <2>1. y.cache = y.rows
      BY Zenon, <1>1, <1>5 DEF Whole
    <2>2. Closed(y.cache, x.stores, x.seqRows \cup {docid})
      BY Zenon, <1>0, <1>1, <1>2, <1>3, <1>5, ClosedAddSequence DEF Whole
    <2> QED
      BY Zenon, <1>1, <1>5, <2>1, <2>2 DEF Whole
  <1>6. ASSUME Whole(x), y.res = "ok", NEW m \in Name, IsIn(y.cache, "table", m),
               docid # None, y.cache[m].docid = docid
        PROVE  FALSE
    <2>1. m # docid /\ IsIn(x.cache, "table", m) /\ x.cache[m].docid = docid
      BY Zenon, <1>2, <1>4, <1>6 DEF IsIn
    <2>2. IsIn(x.cache, "sequence", docid)
      BY Zenon, <1>6, <2>1 DEF Whole, Closed
    <2> QED
      BY Zenon, <1>6, <2>2 DEF IsIn
  <1> QED
    BY Zenon, <1>1, <1>4, <1>5, <1>6 DEF Keeps, Own, o

(* CREATE TABLE.  The error of CreateTable is lost when a unique index is   *)
(* made afterwards; that index is refused unless the table exists, and then *)
(* CreateTable changed nothing.                                             *)
LEMMA CreateTableStmtKeeps ==
    ASSUME Ground, NEW base, NEW late, NEW x, Sound(x, base, late),
           x.res = "ok", NEW t \in TableName, NEW pk \in BOOLEAN, NEW unique \in BOOLEAN,
           pk \/ Unused(x, t, "seq") # {}, unique => Unused(x, t, "idx") # {},
           NEW list \in Lists, NEW b, NEW build,
           NEW r, r = CreateTableStmt(x, t, pk, unique, list, b, build)
    PROVE  Keeps(x, r, base, late)
  <1> DEFINE docid == IF pk THEN None ELSE GenerateUnusedName(x, t, "seq")
             y == IF pk THEN x ELSE CreateSequence(x, docid, t)
             z == CreateTable(y, t, docid, list)
             w == [z EXCEPT !.res = "ok"]
             g == GenerateUnusedName(w, t, "idx")
             onNew == IF z.res = "ok" THEN "empty" ELSE build
  <1>1. r = IF y.res = "ok" /\ unique /\ ~(b /\ z.res = "exists")
            THEN CreateIndex(w, g, t, TRUE, onNew)
            ELSE Then(y, IfNotExists(z, b))
    BY Zenon DEF CreateTableStmt
  <1>2. /\ docid \in Generated \cup {None}
        /\ Keeps(x, y, base, late)
        /\ y.res = "ok" =>
              /\ Whole(x) => Own(y.cache, docid)
              /\ \A i \in 0 .. MaxDup : x.cache[<<t, "idx", i>>] = None => y.cache[<<t, "idx", i>>] = None
    <2>1. CASE pk
      BY Zenon, <2>1 DEF Keeps, Own
    <2>2. CASE ~pk
      <3>1. Unused(x, t, "seq") # {} /\ docid = GenerateUnusedName(x, t, "seq")
        BY Zenon, <2>2
      <3>2. PICK j : docid = <<t, "seq", j>>
        BY Zenon, <3>1 DEF GenerateUnusedName
      <3>3. y = CreateSequence(x, docid, t)
        BY Zenon, <2>2
      <3> HIDE DEF docid, y
      <3>4. docid \in Generated /\ docid \in Name /\ x.cache[docid] = None
        BY Zenon, <3>1, GeneratesUnused
      <3>5. /\ Keeps(x, y, base, late)
            /\ y.res = "ok" =>
                  /\ y.cache = With(x.cache, docid, SequenceOf(t))
                  /\ Whole(x) => Own(y.cache, docid)
        BY <3>3, <3>4, DocidKeeps
      <3>6. ASSUME y.res = "ok", NEW i \in 0 .. MaxDup, x.cache[<<t, "idx", i>>] = None
            PROVE  y.cache[<<t, "idx", i>>] = None
        <4>1. <<t, "idx", i>> # docid
          BY Zenon, <3>2
        <4>2. <<t, "idx", i>> \in Name
          BY Zenon DEF Name, Generated
        <4>3. x.cache \in Caches
          BY Zenon DEF Sound, States
        <4> DEFINE n == <<t, "idx", i>>
        <4> HIDE DEF n
        <4>4. y.cache[n] = x.cache[n]
          BY <3>4, <3>5, <3>6, <4>1, <4>2, <4>3, WithAt DEF n
        <4> QED
          BY Zenon, <3>6, <4>4 DEF n
      <3> QED
        BY Zenon, <3>4, <3>5, <3>6
    <2> QED
      BY Zenon, <2>1, <2>2
  <1> HIDE DEF docid, y
  <1>3. Sound(y, base, late)
    BY Zenon, <1>2 DEF Keeps
  <1>4. CASE y.res # "ok"
    <2>1. r = y
      BY Zenon, <1>1, <1>4 DEF Then
    <2> QED
      BY Zenon, <1>2, <2>1
  <1>5. CASE y.res = "ok"
    <2>1. /\ Sound(z, base, late)
          /\ Whole(y) /\ Own(y.cache, docid) =>
                 (z.res \in {"ok", "exists"} \/ Is(z, "table", t) => Whole(z))
          /\ \A n \in Name : n # t /\ y.cache[n] = None => z.cache[n] = None
      BY <1>2, <1>3, <1>5, CreateTableKeeps
    <2>2. Whole(x) => Whole(y) /\ Own(y.cache, docid)
      BY Zenon, <1>2, <1>5 DEF Keeps
    <2> HIDE DEF z
    <2>3. CASE ~(unique /\ ~(b /\ z.res = "exists"))
      <3>1. r = IfNotExists(z, b)
        BY Zenon, <1>1, <1>5, <2>3 DEF Then
      <3>2. Sound(r, base, late) /\ Left(z, r) /\ (r.res = "ok" => z.res \in {"ok", "exists"})
        BY Zenon, <2>1, <3>1, IfNotExistsIs
      <3>3. Whole(z) => Whole(r)
        BY Zenon, <2>1, <3>2, LeftSound
      <3> QED
        BY Zenon, <2>1, <2>2, <3>2, <3>3 DEF Keeps
    <2>4. CASE unique /\ ~(b /\ z.res = "exists")
      <3>1. r = CreateIndex(w, g, t, TRUE, onNew)
        BY Zenon, <1>1, <1>5, <2>4
      <3>2. Left(z, w) /\ w.res = "ok"
        BY Zenon, <2>1 DEF Left, Sound, States
      <3> HIDE DEF w
      <3>3. Sound(w, base, late) /\ (Whole(z) => Whole(w))
        BY Zenon, <2>1, <3>2, LeftSound
      <3>4. Unused(w, t, "idx") # {}
        <4>1. PICK i \in 0 .. MaxDup : x.cache[<<t, "idx", i>>] = None
          BY Zenon, <2>4 DEF Unused
        <4> DEFINE n == <<t, "idx", i>>
        <4>2. n \in Generated /\ n[1] = t
          BY Zenon DEF Generated
        <4>3. y.cache[n] = None
          BY Zenon, <1>2, <1>5, <4>1
        <4> HIDE DEF n
        <4>4. n # t /\ n \in Name
          BY Zenon, <4>2 DEF Ground, CatalogAssumptions, Name
        <4>5. w.cache[n] = None
          BY Zenon, <2>1, <3>2, <4>3, <4>4 DEF Left
        <4> QED
          BY Zenon, <4>5 DEF Unused, n
      <3>5. g \in Name
        BY Zenon, <3>4, GeneratesUnused
      <3> HIDE DEF g, onNew
      <3>6. ASSUME NEW owned \in BOOLEAN, NEW v, v = CreateIndex(w, g, t, owned, onNew)
            PROVE  Keeps(w, v, base, late) /\ (v.res = "ok" => Is(w, "table", t))
        BY Zenon, <3>2, <3>3, <3>5, <3>6, CreateIndexKeeps
      <3>7. Keeps(w, r, base, late) /\ (r.res = "ok" => Is(w, "table", t))
        BY Zenon, <3>1, <3>6
      <3>8. Is(w, "table", t) => Is(z, "table", t)
        BY Zenon, <3>2 DEF Is, Left
      <3> QED
        BY Zenon, <2>1, <2>2, <3>3, <3>7, <3>8 DEF Keeps
    <2> QED
      BY Zenon, <2>3, <2>4
  <1> QED
    BY Zenon, <1>4, <1>5

(* DROP TABLE: the docid sequence goes with the table.                      *)
LEMMA DropTableStmtKeeps ==
    ASSUME Ground, NEW base, NEW late, NEW x, Sound(x, base, late),
           NEW t \in TableName, NEW r, r = DropTableStmt(x, t)
    PROVE  Keeps(x, r, base, late)
  <1> DEFINE y == Check(x, GetTable(x, t), "error")
             u == DropTable(y, t)
             z == Then(y, u)
             docid == x.cache[t].docid
             v == DropSequence(z, docid)
  <1>1. /\ Left(x, y)
        /\ y.res = "ok" => y = x /\ IsIn(x.cache, "table", t) /\ x.cache[t].store \in x.stores
    BY Zenon DEF Check, Left, Sound, States, GetTable, Is, IsIn
  <1>2. Sound(y, base, late)
    BY Zenon, <1>1, LeftSound
  <1>3. r = Then(z, IF docid = None THEN z ELSE v)
    BY Zenon DEF DropTableStmt
  <1> HIDE DEF y
  <1>4. CASE y.res # "ok"
    <2>1. r = y
      BY Zenon, <1>3, <1>4 DEF Then
    <2> QED
      BY Zenon, <1>2, <1>4, <2>1 DEF Keeps
  <1>5. CASE y.res = "ok"
    <2>1. y = x /\ IsIn(x.cache, "table", t) /\ x.cache[t].store \in x.stores /\ z = u /\ t \in Name
      BY Zenon, <1>1, <1>5 DEF Then, Name
    <2> DEFINE ns == TableIndexes(x, t)
    <2>2. /\ Sound(z, base, late)
          /\ z.res = "ok" =>
                 /\ z.cache = With(Without(x.cache, ns), t, None)
                 /\ z.rows = With(Without(x.rows, ns), t, None)
                 /\ z.stores = x.stores \ {x.cache[t].store}
                 /\ z.seqRows = x.seqRows
      BY <2>1, DropTableIs
    <2>3. ns = {n \in Name : IsIn(x.cache, "index", n) /\ x.cache[n].tbl = t}
      BY Zenon DEF TableIndexes, Is, IsIn
    <2>4. x.cache \in Caches /\ Apart(x.cache) /\ (docid # None => docid \in Name)
      BY Zenon, <2>1, Refers DEF Sound, States
    <2> HIDE DEF ns, u, z
    <2>5. ASSUME Whole(x), z.res = "ok"
          PROVE  /\ Whole(z)
                 /\ \A m \in Name : IsIn(z.cache, "table", m) /\ docid # None => z.cache[m].docid # docid
      <3>1. z.cache = z.rows
        BY Zenon, <2>2, <2>5 DEF Whole
      <3>2. Closed(x.cache, x.stores, x.seqRows)
        BY Zenon, <2>5 DEF Whole
      <3>3. \A st \in x.stores : st # x.cache[t].store => st \in z.stores
        BY Zenon, <2>2, <2>5
      <3>4. /\ Closed(z.cache, z.stores, x.seqRows)
            /\ \A m \in Name : IsIn(z.cache, "table", m) /\ docid # None => z.cache[m].docid # docid
        BY <2>1, <2>2, <2>3, <2>4, <2>5, <3>2, <3>3, ClosedDropTable
      <3> QED
        BY Zenon, <2>2, <2>5, <3>1, <3>4 DEF Whole
    <2>6. CASE z.res # "ok" \/ docid = None
      <3>1. r = z
        BY Zenon, <1>3, <2>6 DEF Then
      <3> QED
        BY Zenon, <2>2, <2>5, <3>1 DEF Keeps
    <2>7. CASE z.res = "ok" /\ docid # None
      <3>1. r = v
        BY Zenon, <1>3, <2>7 DEF Then
      <3> HIDE DEF docid
      <3>2. /\ Sound(r, base, late)
            /\ r.res = "ok" =>
                   /\ z.res = "ok" /\ Is(z, "sequence", docid)
                   /\ r.cache = With(z.cache, docid, None)
                   /\ r.rows = With(z.rows, docid, None)
                   /\ r.stores = z.stores
                   /\ r.seqRows = z.seqRows \ {docid}
        BY <2>2, <2>4, <2>7, <3>1, DropSequenceIs
      <3>3. ASSUME Whole(x), r.res = "ok"
            PROVE  Whole(r)
        <4>1. r.cache = r.rows
          BY Zenon, <2>5, <2>7, <3>2, <3>3 DEF Whole
        <4>2. z.cache \in Caches /\ Closed(z.cache, z.stores, z.seqRows)
          BY Zenon, <2>2, <2>5, <2>7, <3>3 DEF Sound, States, Whole
        <4>3. r.cache[docid] = None /\ \A m \in Name \ {docid} : r.cache[m] = z.cache[m]
          BY <2>4, <2>7, <3>2, <3>3, <4>2, WithAt
        <4>4. ~IsIn(z.cache, "table", docid)
          BY Zenon, <3>2, <3>3 DEF Is, IsIn
        <4>5. \A m \in Name : IsIn(z.cache, "table", m) => z.cache[m].docid # docid
          BY Zenon, <2>5, <2>7, <3>3
        <4>6. {docid} \in SUBSET Name
          BY Zenon, <2>4, <2>7
        <4>7. Closed(r.cache, z.stores, r.seqRows)
          <5>1. \A n \in Name : n \in r.seqRows <=> n \in z.seqRows /\ n \notin {docid}
            BY Zenon, <3>2, <3>3
          <5> DEFINE ks == {docid}
          <5>2. /\ \A k \in ks : r.cache[k] = None
                /\ \A k \in ks : ~IsIn(z.cache, "table", k)
                /\ \A m \in Name \ ks : r.cache[m] = z.cache[m]
            BY Zenon, <4>3, <4>4
          <5>3. \A k \in ks, m \in Name :
                    IsIn(z.cache, "table", m) /\ z.cache[m].docid # None => z.cache[m].docid # k
            BY Zenon, <4>5
          <5>4. ks \in SUBSET Name /\ \A n \in Name : n \in r.seqRows <=> n \in z.seqRows /\ n \notin ks
            BY Zenon, <4>6, <5>1
          <5> HIDE DEF ks
          <5> DEFINE zc == z.cache
                     rc == r.cache
          <5>5. Closed(rc, z.stores, r.seqRows)
            <6>1. /\ zc \in Caches /\ Closed(zc, z.stores, z.seqRows)
                  /\ \A k \in ks : rc[k] = None
                  /\ \A k \in ks : ~IsIn(zc, "table", k)
                  /\ \A m \in Name \ ks : rc[m] = zc[m]
                  /\ \A k \in ks, m \in Name :
                        IsIn(zc, "table", m) /\ zc[m].docid # None => zc[m].docid # k
              BY Zenon, <4>2, <5>2, <5>3
            <6> HIDE DEF zc, rc
            <6> QED
              BY Zenon, <5>4, <6>1, ClosedDrop
          <5> QED
            BY Zenon, <5>5
        <4> QED
          BY Zenon, <3>2, <3>3, <4>1, <4>7 DEF Whole
      <3> QED
        BY Zenon, <3>2, <3>3 DEF Keeps
    <2> QED
      BY Zenon, <2>6, <2>7
  <1> QED
    BY Zenon, <1>4, <1>5

(* DROP INDEX.                                                              *)
LEMMA DropIndexKeeps ==
    ASSUME Ground, NEW base, NEW late, NEW x, Sound(x, base, late),
           NEW n \in Name, NEW r, r = DropIndex(x, n)
    PROVE  Keeps(x, r, base, late)
  <1>1. /\ Sound(r, base, late)
        /\ r.res = "ok" =>
               /\ x.res = "ok" /\ Is(x, "index", n)
               /\ r.cache = With(x.cache, n, None)
               /\ r.rows = With(x.rows, n, None)
               /\ r.stores = x.stores
               /\ r.seqRows = x.seqRows
    BY DropIndexIs
  <1>2. ASSUME Whole(x), r.res = "ok"
        PROVE  Whole(r)
    <2>1. r.cache = r.rows
      BY Zenon, <1>1, <1>2 DEF Whole
    <2>2. x.cache \in Caches /\ Closed(x.cache, x.stores, x.seqRows)
      BY Zenon, <1>2 DEF Sound, States, Whole
    <2>3. r.cache[n] = None /\ \A m \in Name \ {n} : r.cache[m] = x.cache[m]
      BY <1>1, <1>2, <2>2, WithAt
    <2>4. ~IsIn(x.cache, "table", n) /\ ~IsIn(x.cache, "sequence", n) /\ x.cache[n] # None
      BY Zenon, <1>1, <1>2 DEF Is, IsIn
    <2> DEFINE ks == {n}
    <2>5. /\ \A k \in ks : r.cache[k] = None
          /\ \A k \in ks : ~IsIn(x.cache, "table", k)
          /\ \A m \in Name \ ks : r.cache[m] = x.cache[m]
      BY Zenon, <2>3, <2>4
    <2>6. \A k \in ks, m \in Name :
              IsIn(x.cache, "table", m) /\ x.cache[m].docid # None => x.cache[m].docid # k
      BY <2>2, <2>4 DEF Closed
    <2>7. /\ ks \in SUBSET Name
          /\ \A k \in Name : k \in x.seqRows <=> k \in x.seqRows /\ k \notin ks
      BY Zenon, <2>2, <2>4 DEF Closed
    <2> HIDE DEF ks
    <2>8. Closed(r.cache, x.stores, x.seqRows)
      BY Zenon, <2>2, <2>5, <2>6, <2>7, ClosedDrop
    <2> QED
      BY Zenon, <1>1, <1>2, <2>1, <2>8 DEF Whole
  <1> QED
    BY Zenon, <1>1, <1>2 DEF Keeps

(* ALTER TABLE ... ADD FIELD.                                               *)
LEMMA AddFieldKeeps ==
    ASSUME Ground, NEW base, NEW late, NEW x, Sound(x, base, late),
           NEW t \in TableName, NEW on, NEW r, r = AddFieldConstraint(x, t, on)
    PROVE  Keeps(x, r, base, late)
  <1>1. /\ Sound(r, base, late)
        /\ r.res = "ok" =>
               /\ x.res = "ok" /\ Is(x, "table", t)
               /\ \E o : /\ SameTable(o, x.cache[t]) /\ o.tbl = x.cache[t].tbl
                         /\ r.cache = With(x.cache, t, o)
                         /\ r.rows = With(x.rows, t, o)
               /\ r.stores = x.stores
               /\ r.seqRows = x.seqRows
    BY AddFieldIs
  <1>2. ASSUME Whole(x), r.res = "ok"
        PROVE  Whole(r)
    <2>1. PICK o : /\ SameTable(o, x.cache[t]) /\ o.tbl = x.cache[t].tbl
                   /\ r.cache = With(x.cache, t, o)
                   /\ r.rows = With(x.rows, t, o)
      BY Zenon, <1>1, <1>2
    <2>2. r.cache = r.rows
      BY Zenon, <1>2, <2>1 DEF Whole
    <2>3. /\ x.cache \in Caches /\ Closed(x.cache, x.stores, x.seqRows)
          /\ t \in Name /\ IsIn(x.cache, "table", t)
      BY Zenon, <1>1, <1>2 DEF Sound, States, Whole, Name, Is, IsIn
    <2>4. o # None
      BY Zenon, <2>1 DEF SameTable, Rel, Ground, CatalogAssumptions
    <2>5. Closed(r.cache, x.stores, x.seqRows)
      BY Zenon, <2>1, <2>3, <2>4, ClosedReplace
    <2> QED
      BY Zenon, <1>1, <1>2, <2>2, <2>5 DEF Whole
  <1> QED
    BY Zenon, <1>1, <1>2 DEF Keeps

(* ALTER TABLE ... RENAME of a table without indexes.                       *)
LEMMA RenameKeeps ==
    ASSUME Ground, NEW base, NEW late, NEW x, Sound(x, base, late),
           NEW old \in Name, NEW new \in TableName, new # old, TableIndexes(x, old) = {},
           NEW r, r = RenameTable(x, old, new)
    PROVE  Keeps(x, r, base, late)
  <1>1. /\ Sound(r, base, late)
        /\ r.res = "ok" =>
               /\ x.res = "ok" /\ Is(x, "table", old) /\ x.cache[new] = None
               /\ \E o : /\ SameTable(o, x.cache[old]) /\ o.tbl = new
                         /\ r.cache = With(With(x.cache, old, None), new, o)
                         /\ r.rows = With(With(x.rows, old, None), new, o)
               /\ r.stores = x.stores
               /\ r.seqRows = x.seqRows
    BY RenameIs
  <1>2. ASSUME Whole(x), r.res = "ok"
        PROVE  Whole(r)
    <2>1. PICK o : /\ SameTable(o, x.cache[old]) /\ o.tbl = new
                   /\ r.cache = With(With(x.cache, old, None), new, o)
                   /\ r.rows = With(With(x.rows, old, None), new, o)
      BY Zenon, <1>1, <1>2
    <2>2. r.cache = r.rows
      BY Zenon, <1>2, <2>1 DEF Whole
    <2>3. /\ x.cache \in Caches /\ Closed(x.cache, x.stores, x.seqRows)
          /\ new \in Name /\ IsIn(x.cache, "table", old) /\ x.cache[new] = None
      BY Zenon, <1>1, <1>2 DEF Sound, States, Whole, Name, Is, IsIn
    <2>4. o # None
      BY Zenon, <2>1 DEF SameTable, Rel, Ground, CatalogAssumptions
    <2>5. \A n \in Name : ~(IsIn(x.cache, "index", n) /\ x.cache[n].tbl = old)
      BY Zenon DEF TableIndexes, Is, IsIn
    <2>6. Closed(r.cache, x.stores, x.seqRows)
      BY Zenon, <2>1, <2>3, <2>4, <2>5, ClosedRename
    <2> QED
      BY Zenon, <1>1, <1>2, <2>2, <2>6 DEF Whole
  <1> QED
    BY Zenon, <1>1, <1>2 DEF Keeps

(* REINDEX.                                                                 *)
LEMMA ReIndexStmtKeeps ==
    ASSUME Ground, NEW base, NEW late, NEW x, Sound(x, base, late),
           NEW ns \in SUBSET Name, NEW build, NEW r, r = ReIndexStmt(x, ns, build)
    PROVE  Keeps(x, r, base, late)
  <1>1. /\ Sound(r, base, late)
        /\ r.res = "ok" =>
               /\ r.cache = x.cache /\ r.rows = x.rows /\ r.seqRows = x.seqRows
               /\ \A st \in x.stores :
                     (\A n \in Name : Is(x, "index", n) => x.cache[n].store # st)
                        => st \in r.stores
    BY ReIndexesIs
  <1>2. ASSUME Whole(x), r.res = "ok"
        PROVE  Whole(r)
    <2>1. x.cache \in Caches /\ Apart(x.cache) /\ Closed(x.cache, x.stores, x.seqRows)
      BY Zenon, <1>2 DEF Sound, States, Whole
    <2>2. ASSUME NEW m \in Name, IsIn(x.cache, "table", m)
          PROVE  x.cache[m].store \in r.stores
      <3>1. x.cache[m].store \in x.stores /\ x.cache[m].store # 0
        BY Zenon, <2>1, <2>2, Refers DEF Closed
      <3>2. \A n \in Name : Is(x, "index", n) => x.cache[n].store # x.cache[m].store
        BY Zenon, <2>1, <2>2, <3>1 DEF Apart, Is, IsIn
      <3> QED
        BY Zenon, <1>1, <1>2, <3>1, <3>2
    <2>3. Closed(x.cache, r.stores, x.seqRows)
      BY Zenon, <2>1, <2>2, ClosedStores
    <2> QED
      BY Zenon, <1>1, <1>2, <2>3 DEF Whole
  <1> QED
    BY Zenon, <1>1, <1>2 DEF Keeps

(* INSERT.                                                                  *)
LEMMA InsertKeeps ==
    ASSUME Ground, NEW base, NEW late, NEW x, Sound(x, base, late),
           NEW t \in TableName, NEW r, r = InsertStmt(x, t)
    PROVE  Keeps(x, r, base, late)
  <1>1. /\ Sound(r, base, late)
        /\ r.cache = x.cache /\ r.rows = x.rows /\ r.seqRows = x.seqRows
        /\ x.stores \subseteq r.stores
    BY InsertIs
  <1>2. ASSUME Whole(x)
        PROVE  Whole(r)
    <2>1. Closed(x.cache, x.stores, x.seqRows)
      BY Zenon, <1>2 DEF Whole
    <2>2. \A n \in Name : IsIn(x.cache, "table", n) => x.cache[n].store \in r.stores
      BY Zenon, <1>1, <2>1 DEF Closed
    <2>3. Closed(x.cache, r.stores, x.seqRows)
      BY Zenon, <2>1, <2>2, ClosedStores
    <2> QED
      BY Zenon, <1>1, <1>2, <2>3 DEF Whole
  <1> QED
    BY Zenon, <1>1, <1>2 DEF Keeps

-----------------------------------------------------------------------------
(* What the engine holds.                                                   *)
Saves == [rows : Caches, stores : SUBSET (Nat \ {0}), seqRows : SUBSET Name, lease : Nat]

(* x is what a transaction works on that began with d in the engine.  What  *)
(* was committed is closed, and unless a rollback took back a lease, names  *)
(* above the lease are not in it: a process that loads it may use them.     *)
Good(x, d, late) ==
    /\ Sound(x, d, late)
    /\ x.res = "ok" /\ x.cur <= MaxStore
    /\ d \in Saves
    /\ \A st \in d.stores : st <= MaxStore
    /\ Closed(d.rows, d.stores, d.seqRows)
    /\ Apart(d.rows)
    /\ late \/ Bounded(d.rows, d.lease)

(* The inductive invariant of the catalog.                                  *)
IInv ==
    /\ Good(s, saved, behind)
    /\ ~failed => Whole(s)
    /\ {open, failed, behind} \subseteq BOOLEAN
    /\ ~open => s.hooks = <<>> /\ saved = Durable(s) /\ ~failed

(* Between transactions it is enough to look at one side: the catalog is    *)
(* whole, its stores have names that were generated, and the lease covers   *)
(* them.                                                                    *)
LEMMA AtRest ==
    ASSUME Ground, NEW late, NEW y \in States, y.hooks = <<>>, y.res = "ok",
           Whole(y), Apart(y.cache), Bounded(y.cache, y.cur), y.cur <= MaxStore,
           \A st \in y.stores : st <= MaxStore,
           late \/ Leased(y), y.cur = 0 => y.lease = 0
    PROVE  Good(y, Durable(y), late)
  <1> DEFINE d == Durable(y)
  <1>1. /\ d.rows = y.rows /\ d.stores = y.stores /\ d.seqRows = y.seqRows /\ d.lease = y.lease
        /\ d \in Saves
    BY Zenon DEF Durable, Saves, States
  <1>2. y.cache = y.rows /\ Closed(y.cache, y.stores, y.seqRows)
    BY Zenon DEF Whole
  <1> HIDE DEF d
  <1>3. Undoes(y.hooks, y.cache, d.rows)
    <2> DEFINE g == [i \in 0 .. 0 |-> y.cache]
    <2>1. Len(y.hooks) = 0 /\ 0 .. 0 = {0} /\ 1 .. 0 = {}
      OBVIOUS
    <2>2. g \in [0 .. 0 -> Caches] /\ g[0] = d.rows /\ g[0] = y.cache
      BY Zenon, <1>1, <1>2, <2>1 DEF States
    <2> HIDE DEF g
    <2> QED
      BY Zenon, <2>1, <2>2 DEF Undoes
  <1>4. Sound(y, d, late)
    BY Zenon, <1>1, <1>2, <1>3 DEF Sound
  <1>5. late \/ Bounded(d.rows, d.lease)
    <2>1. ASSUME ~late
          PROVE  Bounded(y.cache, y.lease)
      <3>1. y.cur \in Nat /\ y.lease \in Nat /\ y.cached \in 0 .. SeqCache /\ SeqCache \in Nat
        BY Zenon DEF States, Ground, CatalogAssumptions
      <3>2. y.cur <= y.lease
        <4>1. CASE y.cur = 0
          BY <3>1, <4>1
        <4>2. CASE y.cur # 0
          BY <2>1, <3>1, <4>2 DEF Leased
        <4> QED
          BY Zenon, <4>1, <4>2
      <3>3. \A n \in Name : y.cache[n] # None => y.cache[n].store \in Nat
        BY Zenon DEF States, Caches, Rel, AnyRelation
      <3> QED
        BY <3>1, <3>2, <3>3 DEF Bounded
    <2> QED
      BY Zenon, <1>1, <1>2, <2>1
  <1> QED
    BY Zenon, <1>1, <1>2, <1>4, <1>5 DEF Good, d

(* A new database.                                                          *)
LEMMA InitInv ==
    ASSUME Ground, Init
    PROVE  IInv
  <1>1. /\ s.cache = [n \in Name |-> None] /\ s.rows = s.cache /\ s.hooks = <<>>
        /\ s.stores = {} /\ s.seqRows = {} /\ s.res = "ok"
        /\ s.lease = 0 /\ s.cur = 0 /\ s.cached = 0
    BY Zenon DEF Init
  <1>2. s \in States
    <2>1. s.cache \in Caches /\ 0 \in 0 .. SeqCache
      BY <1>1 DEF Caches, Ground, CatalogAssumptions
    <2>2. s = [cache |-> s.cache, hooks |-> s.hooks, rows |-> s.rows, stores |-> s.stores,
               seqRows |-> s.seqRows, lease |-> s.lease, cur |-> s.cur,
               cached |-> s.cached, res |-> s.res]
      BY Zenon DEF Init
    <2>3. /\ s.hooks \in Seq(Hook) /\ s.stores \in SUBSET (Nat \ {0}) /\ s.seqRows \in SUBSET Name
          /\ s.rows \in Caches /\ s.lease \in Nat /\ s.cur \in Nat /\ s.cached \in 0 .. SeqCache
          /\ s.res \in {"ok", "exists", "error"}
      BY <1>1, <2>1
    <2> QED
      BY Zenon, <2>1, <2>2, <2>3 DEF States
  <1>3. \A n \in Name : s.cache[n] = None
    BY Zenon, <1>1
  <1>4. Whole(s)
    BY Zenon, <1>1, <1>3 DEF Whole, Closed, IsIn
  <1>5. Apart(s.cache) /\ Bounded(s.cache, s.cur)
    BY Zenon, <1>3 DEF Apart, Bounded
  <1>6. s.cur <= MaxStore /\ Leased(s)
    BY <1>1 DEF Leased, Ground, CatalogAssumptions
  <1>7. Good(s, Durable(s), FALSE)
    BY Zenon, <1>1, <1>2, <1>4, <1>5, <1>6, AtRest
  <1>8. saved = Durable(s) /\ open = FALSE /\ failed = FALSE /\ behind = FALSE
    BY Zenon DEF Init
  <1> QED
    BY Zenon, <1>1, <1>4, <1>7, <1>8 DEF IInv

(* Transaction.Rollback leaves the catalog as it was before the             *)
(* transaction; only the store sequence is ahead of its lease if one was    *)
(* taken back.                                                              *)
LEMMA RolledRests ==
    ASSUME Ground, IInv, NEW x, Sound(x, saved, behind), x.cur <= MaxStore,
           NEW y, y = [Rolled(x) EXCEPT !.res = "ok"],
           NEW late, late \/ (~behind /\ y.lease = x.lease)
    PROVE  Good(y, Durable(y), late) /\ Whole(y) /\ y.hooks = <<>>
  <1>1. x \in States /\ Undoes(x.hooks, x.cache, saved.rows) /\ saved \in Saves
    BY Zenon DEF Sound, IInv, Good
  <1>2. RunHooks(x) = saved.rows
    BY Zenon, <1>1, HooksUndo
  <1>3. y = [cache |-> saved.rows, hooks |-> <<>>, rows |-> saved.rows, stores |-> saved.stores,
             seqRows |-> saved.seqRows, lease |-> saved.lease, cur |-> x.cur,
             cached |-> x.cached, res |-> "ok"]
    BY Zenon, <1>1, <1>2 DEF Rolled, States
  <1>4. /\ y.cache = saved.rows /\ y.hooks = <<>> /\ y.rows = saved.rows
        /\ y.stores = saved.stores /\ y.seqRows = saved.seqRows /\ y.lease = saved.lease
        /\ y.cur = x.cur /\ y.cached = x.cached /\ y.res = "ok"
    BY <1>3
  <1>5. y \in States
    <2>1. /\ saved.rows \in Caches /\ <<>> \in Seq(Hook) /\ saved.stores \in SUBSET (Nat \ {0})
          /\ saved.seqRows \in SUBSET Name /\ saved.lease \in Nat
          /\ x.cur \in Nat /\ x.cached \in 0 .. SeqCache /\ "ok" \in {"ok", "exists", "error"}
      BY <1>1 DEF Saves, States
    <2>2. /\ y.cache \in Caches /\ y.hooks \in Seq(Hook) /\ y.rows \in Caches
          /\ y.stores \in SUBSET (Nat \ {0}) /\ y.seqRows \in SUBSET Name /\ y.lease \in Nat
          /\ y.cur \in Nat /\ y.cached \in 0 .. SeqCache /\ y.res \in {"ok", "exists", "error"}
      BY Zenon, <1>4, <2>1
    <2>3. y = [cache |-> y.cache, hooks |-> y.hooks, rows |-> y.rows, stores |-> y.stores,
               seqRows |-> y.seqRows, lease |-> y.lease, cur |-> y.cur,
               cached |-> y.cached, res |-> y.res]
      BY Zenon, <1>3
    <2> QED
      BY Zenon, <2>2, <2>3 DEF States
  <1>6. Whole(y) /\ Apart(y.cache) /\ Bounded(y.cache, y.cur) /\ y.cur <= MaxStore
    BY Zenon, <1>4 DEF Whole, IInv, Good, Sound
  <1>7. (\A st \in y.stores : st <= MaxStore) /\ (y.cur = 0 => y.lease = 0)
    BY Zenon, <1>4 DEF IInv, Good, Sound
  <1>8. late \/ Leased(y)
    <2>1. ASSUME ~late
          PROVE  Leased(y)
      <3>1. Leased(x) /\ y.lease = x.lease
        <4>1. ~behind /\ y.lease = x.lease
          BY Zenon, <2>1
        <4>2. behind \/ Leased(x)
          BY Zenon DEF Sound
        <4> QED
          BY Zenon, <4>1, <4>2
      <3> QED
        BY Zenon, <1>4, <3>1 DEF Leased
    <2> QED
      BY Zenon, <2>1
  <1> QED
    BY Zenon, <1>4, <1>5, <1>6, <1>7, <1>8, AtRest

(* Transaction.Commit of what is whole.                                     *)
LEMMA CommittedRests ==
    ASSUME Ground, NEW d, NEW late, NEW x, Sound(x, d, late), Whole(x),
           x.res = "ok", x.cur <= MaxStore, NEW y, y = Committed(x)
    PROVE  Good(y, Durable(y), late) /\ Whole(y) /\ y.hooks = <<>> /\ y.lease = x.lease
  <1>1. x \in States
    BY Zenon DEF Sound
  <1>2. /\ y.cache = x.cache /\ y.hooks = <<>> /\ y.rows = x.rows
        /\ y.stores = x.stores /\ y.seqRows = x.seqRows /\ y.lease = x.lease
        /\ y.cur = x.cur /\ y.cached = x.cached /\ y.res = "ok"
        /\ y \in States
    <2>1. y = [x EXCEPT !.hooks = <<>>] /\ <<>> \in Seq(Hook)
      BY DEF Committed
    <2> QED
      BY Zenon, <1>1, <2>1 DEF States
  <1>3. Whole(y) /\ Apart(y.cache) /\ Bounded(y.cache, y.cur) /\ y.cur <= MaxStore
    BY Zenon, <1>2 DEF Whole, Sound
  <1>4. \A st \in y.stores : st <= MaxStore
    <2>1. \A st \in x.stores : st \in Nat /\ (st <= x.cur \/ st <= MaxStore)
      BY Zenon, <1>1 DEF Sound, States
    <2>2. x.cur \in Nat /\ MaxStore \in Nat
      BY Zenon, <1>1 DEF States, Ground, CatalogAssumptions
    <2> QED
      BY <1>2, <2>1, <2>2
  <1>5. (late \/ Leased(y)) /\ (y.cur = 0 => y.lease = 0)
    BY Zenon, <1>2 DEF Sound, Leased
  <1> QED
    BY Zenon, <1>2, <1>3, <1>4, <1>5, AtRest

(* Query.Run of a statement, in an explicit transaction or in its own.      *)
LEMMA RunInv ==
    ASSUME Ground, IInv, NEW x, Keeps(s, x, saved, behind), Run(x)
    PROVE  IInv'
  <1>1. /\ Sound(x, saved, behind) /\ x \in States /\ x.cur <= MaxStore
        /\ ~failed /\ x.res = "ok" => Whole(x)
        /\ behind \in BOOLEAN /\ open \in BOOLEAN /\ failed \in BOOLEAN
    BY Zenon DEF Keeps, Sound, IInv, Run
  <1>2. CASE open
    <2>1. /\ s' = [x EXCEPT !.res = "ok"] /\ failed' = (failed \/ x.res # "ok")
          /\ saved' = saved /\ open' = open /\ behind' = behind
      BY Zenon, <1>2 DEF Run
    <2>2. Left(x, s') /\ s'.res = "ok" /\ s'.cur <= MaxStore
      BY Zenon, <1>1, <2>1 DEF Left, States
    <2>3. Sound(s', saved, behind) /\ (Whole(x) => Whole(s'))
      BY Zenon, <1>1, <2>2, LeftSound
    <2>4. Good(s', saved, behind)
      BY Zenon, <2>2, <2>3 DEF Good, IInv
    <2>5. ~failed' => Whole(s')
      BY Zenon, <1>1, <2>1, <2>3
    <2>6. {open', failed', behind'} \subseteq BOOLEAN
      BY Zenon, <1>1, <2>1
    <2> QED
      BY Zenon, <1>2, <2>1, <2>4, <2>5, <2>6 DEF IInv
  <1>3. CASE ~open
    <2>1. /\ s' = [(IF x.res = "ok" THEN Committed(x) ELSE Rolled(x)) EXCEPT !.res = "ok"]
          /\ saved' = Durable(s') /\ behind' = (behind \/ s'.lease # x.lease)
          /\ open' = open /\ failed' = failed /\ ~failed
      BY Zenon, <1>3 DEF Run, IInv
    <2>2. Good(s', Durable(s'), behind') /\ Whole(s') /\ s'.hooks = <<>>
      <3>1. CASE x.res = "ok"
        <4>1. Committed(x) = [Committed(x) EXCEPT !.res = "ok"]
          BY Zenon, <1>1, <3>1 DEF Committed, States
        <4>2. s' = Committed(x)
          BY Zenon, <2>1, <3>1, <4>1
        <4>3. Good(s', Durable(s'), behind) /\ Whole(s') /\ s'.hooks = <<>> /\ s'.lease = x.lease
          BY <1>1, <2>1, <3>1, <4>2, CommittedRests
        <4>4. behind' = behind
          BY Zenon, <1>1, <2>1, <4>3
        <4> QED
          BY Zenon, <4>3, <4>4
      <3>2. CASE x.res # "ok"
        <4>1. s' = [Rolled(x) EXCEPT !.res = "ok"]
          BY Zenon, <2>1, <3>2
        <4>2. behind' \/ (~behind /\ s'.lease = x.lease)
          BY Zenon, <1>1, <2>1
        <4> QED
          BY Zenon, <1>1, <4>1, <4>2, RolledRests
      <3> QED
        BY Zenon, <3>1, <3>2
    <2>3. {open', failed', behind'} \subseteq BOOLEAN
      BY Zenon, <1>1, <2>1
    <2> QED
      BY Zenon, <2>1, <2>2, <2>3 DEF IInv
  <1> QED
    BY Zenon, <1>1, <1>2, <1>3

(* What is read back from a row differs in its fields only.                 *)
LEMMA FromRowsIs ==
    ASSUME Ground, NEW c \in Caches, NEW d, d = FromRows(c)
    PROVE  /\ d \in Caches
           /\ \A n \in Name : (d[n] = None <=> c[n] = None)
           /\ \A n \in Name : c[n] # None =>
                 /\ d[n].type = c[n].type /\ d[n].tbl = c[n].tbl
                 /\ d[n].store = c[n].store /\ d[n].docid = c[n].docid
  <1> DEFINE keep(n) == c[n].type = "index" \/ c[n].fields = "none"
             l(n) == IF keep(n) THEN "none" ELSE "flat"
  <1>1. ASSUME NEW n \in Name, c[n] # None
        PROVE  /\ d[n] \in Rel /\ d[n].type = c[n].type /\ d[n].tbl = c[n].tbl
               /\ d[n].store = c[n].store /\ d[n].docid = c[n].docid
    <2>1. d[n] = [c[n] EXCEPT !.fields = l(n)]
      BY Zenon, <1>1 DEF FromRows, FromDocument
    <2>2. l(n) \in Lists /\ c[n] \in Rel
      BY Zenon, <1>1 DEF Lists, Caches
    <2> HIDE DEF l
    <2> QED
      BY <2>1, <2>2 DEF Rel, AnyRelation
  <1>2. \A n \in Name : c[n] = None => d[n] = None
    BY Zenon DEF FromRows
  <1>3. \A n \in Name : c[n] # None => d[n] # None
    <2>1. None \notin AnyRelation
      BY Zenon DEF Ground, CatalogAssumptions
    <2> QED
      BY Zenon, <1>1, <2>1 DEF Rel
  <1>4. d \in Caches
    <2>1. d = [n \in Name |-> d[n]]
      BY Zenon DEF FromRows
    <2>2. \A n \in Name : d[n] \in Rel \cup {None}
      BY Zenon, <1>1, <1>2
    <2> QED
      BY Zenon, <2>1, <2>2 DEF Caches
  <1> QED
    BY Zenon, <1>1, <1>2, <1>3, <1>4

(* So a catalog that is closed is closed when it is read back.              *)
LEMMA FromRowsKeeps ==
    ASSUME Ground, NEW c \in Caches, NEW S, NEW Q, Closed(c, S, Q), Apart(c),
           NEW b, Bounded(c, b), NEW d, d = FromRows(c)
    PROVE  d \in Caches /\ Closed(d, S, Q) /\ Apart(d) /\ Bounded(d, b)
  <1>1. /\ d \in Caches
        /\ \A n \in Name : (d[n] = None <=> c[n] = None)
        /\ \A n \in Name : c[n] # None =>
              /\ d[n].type = c[n].type /\ d[n].tbl = c[n].tbl
              /\ d[n].store = c[n].store /\ d[n].docid = c[n].docid
    BY Zenon, FromRowsIs
  <1>2. \A m \in Name : \A tp : IsIn(d, tp, m) <=> IsIn(c, tp, m)
    BY Zenon, <1>1 DEF IsIn
  <1>3. \A m \in Name : IsIn(d, "table", m) =>
            d[m].store = c[m].store /\ d[m].docid = c[m].docid /\ d[m].tbl = c[m].tbl
    BY Zenon, <1>1 DEF IsIn
  <1>4. \A m \in Name : IsIn(d, "index", m) => d[m].tbl = c[m].tbl
    BY Zenon, <1>1 DEF IsIn
  <1>5. ASSUME NEW m \in Name, IsIn(d, "table", m)
        PROVE  /\ d[m].store \in S /\ d[m].tbl = m
               /\ d[m].docid # None =>
                    /\ IsIn(d, "sequence", d[m].docid)
                    /\ \A k \in Name : k # m /\ IsIn(d, "table", k) => d[k].docid # d[m].docid
    BY <1>2, <1>3, <1>5, Refers DEF Closed
  <1>6. ASSUME NEW m \in Name, IsIn(d, "index", m)
        PROVE  IsIn(d, "table", d[m].tbl)
    BY Zenon, <1>2, <1>4, <1>6, Refers DEF Closed
  <1>7. ASSUME NEW m \in Name
        PROVE  IsIn(d, "sequence", m) <=> m \in Q
    BY Zenon, <1>2 DEF Closed
  <1>8. Closed(d, S, Q)
    BY Zenon, <1>5, <1>6, <1>7 DEF Closed
  <1>9. Apart(d) /\ Bounded(d, b)
    <2>1. \A n \in Name : d[n] # None => c[n] # None /\ d[n].store = c[n].store
      BY Zenon, <1>1
    <2>2. Bounded(d, b)
      BY Zenon, <2>1 DEF Bounded
    <2>3. ASSUME NEW m \in Name, NEW n \in Name, m # n, d[m] # None, d[n] # None,
                 d[m].store # 0
          PROVE  d[m].store # d[n].store
      <3>1. c[m] # None /\ c[n] # None /\ d[m].store = c[m].store /\ d[n].store = c[n].store
        BY Zenon, <2>1, <2>3
      <3> QED
        BY Zenon, <2>3, <3>1 DEF Apart
    <2> QED
      BY Zenon, <2>2, <2>3 DEF Apart
  <1> QED
    BY Zenon, <1>1, <1>8, <1>9

(* Catalog.Load by a new process, of a closed catalog whose store names are *)
(* below the lease.                                                         *)
LEMMA LoadInv ==
    ASSUME Ground, NEW d \in Saves, \A st \in d.stores : st <= MaxStore,
           Closed(d.rows, d.stores, d.seqRows), Apart(d.rows),
           Bounded(d.rows, d.lease), d.lease <= MaxStore, Load(d)
    PROVE  IInv'
  <1> DEFINE c == FromRows(d.rows)
  <1>1. /\ s'.cache = c /\ s'.hooks = <<>> /\ s'.rows = c /\ s'.stores = d.stores
        /\ s'.seqRows = d.seqRows /\ s'.lease = d.lease /\ s'.cur = d.lease
        /\ s'.cached = (IF d.lease = 0 THEN 0 ELSE SeqCache) /\ s'.res = "ok"
    BY Zenon DEF Load
  <1>9. c \in Caches /\ Closed(c, d.stores, d.seqRows) /\ Apart(c) /\ Bounded(c, d.lease)
    <2>1. d.rows \in Caches
      BY Zenon DEF Saves
    <2> QED
      BY Zenon, <2>1, FromRowsKeeps
  <1> HIDE DEF c
  <1>2. s' \in States
    <2>1. /\ d.stores \in SUBSET (Nat \ {0}) /\ d.seqRows \in SUBSET Name
          /\ d.lease \in Nat /\ SeqCache \in Nat
      BY Zenon DEF Saves, Ground, CatalogAssumptions
    <2>2. /\ s'.cache \in Caches /\ s'.hooks \in Seq(Hook) /\ s'.rows \in Caches
          /\ s'.stores \in SUBSET (Nat \ {0}) /\ s'.seqRows \in SUBSET Name /\ s'.lease \in Nat
          /\ s'.cur \in Nat /\ s'.cached \in 0 .. SeqCache /\ s'.res \in {"ok", "exists", "error"}
      BY <1>1, <1>9, <2>1
    <2>3. s' = [cache |-> s'.cache, hooks |-> s'.hooks, rows |-> s'.rows, stores |-> s'.stores,
                seqRows |-> s'.seqRows, lease |-> s'.lease, cur |-> s'.cur,
                cached |-> s'.cached, res |-> s'.res]
      BY Zenon DEF Load
    <2> QED
      BY Zenon, <2>2, <2>3 DEF States
  <1>3. Whole(s') /\ Apart(s'.cache) /\ Bounded(s'.cache, s'.cur) /\ s'.cur <= MaxStore
    BY Zenon, <1>1, <1>9 DEF Whole
  <1>4. Leased(s') /\ (s'.cur = 0 => s'.lease = 0)
    <2>1. d.lease \in Nat /\ SeqCache \in Nat
      BY Zenon DEF Saves, Ground, CatalogAssumptions
    <2> QED
      BY <1>1, <2>1 DEF Leased
  <1>5. \A st \in s'.stores : st <= MaxStore
    BY Zenon, <1>1
  <1>6. Good(s', Durable(s'), FALSE)
    BY Zenon, <1>1, <1>2, <1>3, <1>4, <1>5, AtRest
  <1>8. saved' = Durable(s') /\ open' = FALSE /\ failed' = FALSE /\ behind' = FALSE
    BY Zenon DEF Load
  <1> QED
    BY Zenon, <1>1, <1>3, <1>6, <1>8 DEF IInv

(* Every step keeps the invariant unless it mars the catalog.               *)
LEMMA NextInv ==
    ASSUME Ground, NewLists \subseteq Lists, IInv, CatalogNext, ~marred'
    PROVE  IInv'
  <1>1. /\ Sound(s, saved, behind) /\ s \in States /\ s.res = "ok" /\ s.cur <= MaxStore
        /\ {open, failed, behind} \subseteq BOOLEAN
    BY Zenon DEF IInv, Good, Sound
  <1>2. CASE RunCreateTable
    <2>1. PICK t \in TableName, pk \in BOOLEAN, unique \in BOOLEAN, list \in Lists :
              /\ pk \/ Unused(s, t, "seq") # {}
              /\ unique => Unused(s, t, "idx") # {}
              /\ \E b, build : Run(CreateTableStmt(s, t, pk, unique, list, b, build))
      BY <1>2 DEF RunCreateTable
    <2>2. PICK b, build : Run(CreateTableStmt(s, t, pk, unique, list, b, build))
      BY Zenon, <2>1
    <2>3. Keeps(s, CreateTableStmt(s, t, pk, unique, list, b, build), saved, behind)
      BY Zenon, <1>1, <2>1, CreateTableStmtKeeps
    <2> QED
      BY Zenon, <2>2, <2>3, RunInv
  <1>3. CASE RunCreateIndex
    <2>1. PICK n \in IndexName, t \in TableName, b \in BOOLEAN, build \in Built :
              Run(CreateIndexStmt(s, n, t, b, build))
      BY <1>3 DEF RunCreateIndex
    <2>2. Keeps(s, CreateIndexStmt(s, n, t, b, build), saved, behind)
      BY Zenon, <1>1, CreateIndexStmtKeeps DEF Name
    <2> QED
      BY Zenon, <2>1, <2>2, RunInv
  <1>4. CASE RunCreateSequence
    <2>1. PICK n \in IndexName, b \in BOOLEAN : Run(CreateSequenceStmt(s, n, b))
      BY <1>4 DEF RunCreateSequence
    <2>2. Keeps(s, CreateSequenceStmt(s, n, b), saved, behind)
      BY Zenon, <1>1, CreateSequenceKeeps DEF Name
    <2> QED
      BY Zenon, <2>1, <2>2, RunInv
  <1>5. CASE RunDropTable
    <2>1. PICK t \in TableName : Run(DropTableStmt(s, t))
      BY Zenon, <1>5 DEF RunDropTable
    <2>2. Keeps(s, DropTableStmt(s, t), saved, behind)
      BY Zenon, <1>1, DropTableStmtKeeps
    <2> QED
      BY Zenon, <2>1, <2>2, RunInv
  <1>6. CASE RunDropIndex
    <2>1. PICK n \in Name : Run(DropIndex(s, n))
      BY Zenon, <1>6 DEF RunDropIndex, Typed, Name
    <2>2. Keeps(s, DropIndex(s, n), saved, behind)
      BY Zenon, <1>1, DropIndexKeeps
    <2> QED
      BY Zenon, <2>1, <2>2, RunInv
  <1>7. CASE RunRename
    <2>1. PICK old \in Name :
              /\ TableIndexes(s, old) = {}
              /\ \E x \in {RenameTable(s, old, new) : new \in TableName \ {old}} : Run(x)
      BY Zenon, <1>7 DEF RunRename, Typed, Name
    <2>2. PICK new \in TableName \ {old} : Run(RenameTable(s, old, new))
      BY Zenon, <2>1
    <2>3. Keeps(s, RenameTable(s, old, new), saved, behind)
      BY Zenon, <1>1, <2>1, RenameKeeps
    <2> QED
      BY Zenon, <2>2, <2>3, RunInv
  <1>8. CASE RunAddField
    <2>1. PICK t \in TableName, on \in {"new", "inferred", "conflict"} : Run(AddFieldConstraint(s, t, on))
      BY Zenon, <1>8 DEF RunAddField
    <2>2. Keeps(s, AddFieldConstraint(s, t, on), saved, behind)
      BY Zenon, <1>1, AddFieldKeeps
    <2> QED
      BY Zenon, <2>1, <2>2, RunInv
  <1>9. CASE RunReIndex
    <2>1. PICK ns, build : ns \in SUBSET Name /\ Run(ReIndexStmt(s, ns, build))
      BY Zenon, <1>9 DEF RunReIndex, Typed, Name, TableIndexes
    <2>2. Keeps(s, ReIndexStmt(s, ns, build), saved, behind)
      BY Zenon, <1>1, <2>1, ReIndexStmtKeeps
    <2> QED
      BY Zenon, <2>1, <2>2, RunInv
  <1>10. CASE RunInsert
    <2>1. PICK t \in TableName : Run(InsertStmt(s, t))
      BY Zenon, <1>10 DEF RunInsert
    <2>2. Keeps(s, InsertStmt(s, t), saved, behind)
      BY Zenon, <1>1, InsertKeeps
    <2> QED
      BY Zenon, <2>1, <2>2, RunInv
  <1>11. CASE Begin
    <2>1. /\ s' = s /\ saved' = saved /\ behind' = behind
          /\ open' = TRUE /\ failed' = FALSE /\ ~open
      BY Zenon, <1>11 DEF Begin
    <2>2. Whole(s) /\ Good(s, saved, behind)
      BY Zenon, <2>1 DEF IInv
    <2> QED
      BY Zenon, <1>1, <2>1, <2>2 DEF IInv
  <1>12. CASE Commit
    <2>1. /\ s' = Committed(s) /\ saved' = Durable(s') /\ ~failed
          /\ open' = FALSE /\ failed' = FALSE
          /\ behind' = (behind \/ s'.lease # s.lease)
      BY Zenon, <1>12 DEF Commit, End
    <2>2. Good(s', Durable(s'), behind) /\ Whole(s') /\ s'.hooks = <<>> /\ s'.lease = s.lease
      BY <1>1, <2>1, CommittedRests DEF IInv
    <2>3. behind' = behind
      BY Zenon, <1>1, <2>1, <2>2
    <2> QED
      BY Zenon, <1>1, <2>1, <2>2, <2>3 DEF IInv
  <1>13. CASE Rollback
    <2>1. /\ s' = Rolled(s) /\ saved' = Durable(s')
          /\ open' = FALSE /\ failed' = FALSE
          /\ behind' = (behind \/ s'.lease # s.lease)
      BY Zenon, <1>13 DEF Rollback, End
    <2>2. Rolled(s) = [Rolled(s) EXCEPT !.res = "ok"]
      BY Zenon, <1>1 DEF Rolled, States
    <2>3. behind' \/ (~behind /\ s'.lease = s.lease)
      BY Zenon, <1>1, <2>1
    <2>4. Good(s', Durable(s'), behind') /\ Whole(s') /\ s'.hooks = <<>>
      BY Zenon, <1>1, <2>1, <2>2, <2>3, RolledRests
    <2>5. behind' \in BOOLEAN
      BY Zenon, <2>1
    <2> QED
      BY Zenon, <2>1, <2>4, <2>5 DEF IInv
  <1>14. CASE Crash
    <2>1. saved.lease <= MaxStore /\ Load(saved) /\ ~behind
      BY Zenon, <1>14 DEF Crash
    <2>2. /\ saved \in Saves /\ \A st \in saved.stores : st <= MaxStore
          /\ Closed(saved.rows, saved.stores, saved.seqRows) /\ Apart(saved.rows)
          /\ Bounded(saved.rows, saved.lease)
      BY Zenon, <2>1 DEF IInv, Good
    <2> QED
      BY Zenon, <2>1, <2>2, LoadInv
  <1>15. CASE CloseAndReopen
    <2> DEFINE l == IF s.cur = 0 THEN saved.lease ELSE s.cur
               d == [saved EXCEPT !.lease = l]
    <2>1. Load(d)
      BY Zenon, <1>15 DEF CloseAndReopen
    <2>2. /\ saved \in Saves /\ \A st \in saved.stores : st <= MaxStore
          /\ Closed(saved.rows, saved.stores, saved.seqRows) /\ Apart(saved.rows)
          /\ Bounded(saved.rows, s.cur) /\ (s.cur = 0 => saved.lease = 0)
      BY Zenon DEF IInv, Good, Sound
    <2>3. l = s.cur /\ l \in Nat /\ l <= MaxStore
      BY Zenon, <1>1, <2>2 DEF States
    <2> HIDE DEF l
    <2>4. /\ d \in Saves /\ d.rows = saved.rows /\ d.stores = saved.stores
          /\ d.seqRows = saved.seqRows /\ d.lease = l
      BY Zenon, <2>2, <2>3 DEF Saves
    <2> HIDE DEF d
    <2> QED
      BY Zenon, <2>1, <2>2, <2>3, <2>4, LoadInv
  <1> QED
    BY Zenon, <1>2, <1>3, <1>4, <1>5, <1>6, <1>7, <1>8, <1>9, <1>10, <1>11, <1>12, <1>13, <1>14,
       <1>15 DEF CatalogNext

-----------------------------------------------------------------------------
(* A catalog that is not marred has the invariant.                          *)
Kept == marred \in BOOLEAN /\ (~marred => IInv)

(* That holds at the start and after every step, stuttering ones included.  *)
LEMMA Inductive ==
    ASSUME Ground, NewLists \subseteq Lists
    PROVE  (Init => Kept) /\ (Kept /\ [CatalogNext]_vars => Kept')
  <1>1. Kept /\ [CatalogNext]_vars => Kept'
    <2> SUFFICES ASSUME Kept, [CatalogNext]_vars
                 PROVE  Kept'
      BY Zenon
    <2>1. CASE CatalogNext
      <3>1. marred' \in BOOLEAN /\ (marred => marred')
        BY Zenon, <2>1 DEF CatalogNext, RunRename, Commit, Crash, Kept
      <3>2. ~marred' => IInv'
        BY Zenon, <2>1, <3>1, NextInv DEF Kept
      <3> QED
        BY Zenon, <3>1, <3>2 DEF Kept
    <2>2. CASE UNCHANGED vars
      BY Zenon, <2>2 DEF vars, IInv, Kept
    <2> QED
      BY Zenon, <2>1, <2>2
  <1>2. Init => marred = FALSE
    BY Zenon DEF Init
  <1> QED
    BY Zenon, <1>1, <1>2, InitInv DEF Kept

(* Names of stores stay within the bound, so the invariant has the types.   *)
LEMMA Typing ==
    ASSUME CatalogAssumptions, IInv, marred \in BOOLEAN
    PROVE  TypeOK
  <1>1. s \in States /\ Bounded(s.cache, s.cur) /\ Bounded(s.rows, s.cur) /\ s.cur <= MaxStore
        /\ \A st \in s.stores : st <= s.cur \/ st <= MaxStore
    BY Zenon DEF IInv, Good, Sound
  <1>2. s.cur \in Nat /\ MaxStore \in Nat
    BY Zenon, <1>1 DEF States, CatalogAssumptions
  <1>3. \A c \in Caches : Bounded(c, s.cur) => c \in [Name -> Relations \cup {None}]
    <2> SUFFICES ASSUME NEW c \in Caches, Bounded(c, s.cur), NEW n \in Name
                 PROVE  c[n] \in Relations \cup {None}
      BY Zenon DEF Caches
    <2>1. c[n] # None => c[n] \in AnyRelation /\ c[n].store \in Nat /\ c[n].store <= s.cur
      BY DEF Caches, Rel, AnyRelation, Bounded
    <2>2. c[n] # None => c[n].store <= MaxStore
      BY <1>1, <1>2, <2>1
    <2> QED
      BY Zenon, <2>1, <2>2 DEF Relations
  <1>4. s.cache \in [Name -> Relations \cup {None}] /\ s.rows \in [Name -> Relations \cup {None}]
    BY Zenon, <1>1, <1>3 DEF States
  <1>5. s.stores \subseteq 1 .. MaxStore
    BY <1>1, <1>2 DEF States
  <1>6. s.cur \in 0 .. MaxStore /\ s.cached \in 0 .. SeqCache /\ s.seqRows \subseteq Name
    BY <1>1, <1>2 DEF States
  <1>7. {open, failed, behind, marred} \subseteq BOOLEAN /\ (~open => s.hooks = <<>> /\ saved = Durable(s))
    BY Zenon DEF IInv
  <1> QED
    BY Zenon, <1>4, <1>5, <1>6, <1>7 DEF TypeOK

(* A schema that is closed after every call is closed in the words of       *)
(* SchemaClosed.                                                            *)
LEMMA Closure ==
    ASSUME IInv
    PROVE  SchemaClosed
  <1>1. \A tp, n : Is(s, tp, n) <=> IsIn(s.cache, tp, n)
    BY Zenon DEF Is, IsIn
  <1> QED
    BY Zenon, <1>1 DEF IInv, Whole, Closed, SchemaClosed

-----------------------------------------------------------------------------
finite == INSTANCE FiniteSetTheorems

(* Names are finitely many, so the map of a table's indexes can be listed,  *)
(* and generateUnusedName finds its least number.                           *)
LEMMA FiniteNames ==
    ASSUME CatalogAssumptions
    PROVE  Ground
  <1>1. Least
    <2> SUFFICES ASSUME NEW U \in SUBSET Nat, U # {}
                 PROVE  \E k \in U : \A j \in U : k <= j
      BY Zenon DEF Least
    <2>1. PICK k \in U : \A j \in U : ~(<<j, k>> \in finite!OpToRel(<, Nat))
      BY Zenon, finite!NatLessThanWellFounded, finite!WFMin
    <2>2. \A j \in U : ~(j < k)
      BY Zenon, <2>1 DEF finite!OpToRel
    <2>3. \A j \in U : k <= j
      BY <2>2
    <2> QED
      BY Zenon, <2>3
  <1>2. Cardinality({}) = 0
    <2>1. finite!Cardinality({}) = 0
      BY Zenon, finite!FS_EmptySet
    <2> QED
      BY Zenon, <2>1 DEF Cardinality, finite!Cardinality
  <1>3. ASSUME NEW ns \in SUBSET Name
        PROVE  /\ Cardinality(ns) \in Nat
               /\ \E q \in [1 .. Cardinality(ns) -> ns] :
                     \A n \in ns : \E i \in 1 .. Cardinality(ns) : q[i] = n
    <2>1. finite!IsFiniteSet(Name)
      BY Zenon DEF CatalogAssumptions, IsFiniteSet, finite!IsFiniteSet
    <2>2. finite!IsFiniteSet(ns)
      BY Zenon, <2>1, finite!FS_Subset
    <2>3. Cardinality(ns) = finite!Cardinality(ns)
      BY Zenon DEF Cardinality, finite!Cardinality
    <2> DEFINE N == finite!Cardinality(ns)
    <2>4. N \in Nat /\ finite!ExistsBijection(1 .. N, ns)
      BY Zenon, <2>2, finite!FS_CardinalityType
    <2>5. \E q \in [1 .. N -> ns] : \A n \in ns : \E i \in 1 .. N : q[i] = n
      <3> HIDE DEF N
      <3> QED
        BY Zenon, <2>4 DEF finite!ExistsBijection, finite!Bijection, finite!Surjection
    <2> QED
      BY Zenon, <2>3, <2>4, <2>5
  <1> QED
    BY Zenon, <1>1, <1>2, <1>3 DEF Ground, Listed

(* So it holds throughout, for any names, bounds and Cache.                 *)
THEOREM Invariance ==
    ASSUME CatalogAssumptions, NewLists \subseteq Lists
    PROVE  Spec => []Kept
  <1>1. (Init => Kept) /\ (Kept /\ [CatalogNext]_vars => Kept')
    BY Zenon, FiniteNames, Inductive
  <1> QED
    BY <1>1, PTL DEF Spec

(* Types; after a statement of its own, a commit or a rollback nothing is   *)
(* left to undo and the engine holds what was committed.                    *)
THEOREM CatalogTyped ==
    ASSUME CatalogAssumptions, NewLists \subseteq Lists
    PROVE  Spec => [](~marred => TypeOK)
  <1>1. Kept => (~marred => TypeOK)
    BY Zenon, Typing DEF Kept
  <1> QED
    BY <1>1, Invariance, PTL

(* The cache and the rows of __genji_catalog say the same after a           *)
(* statement, a commit, the hooks of a rollback and Load, unless a          *)
(* statement failed in the open transaction or the catalog is marred.       *)
THEOREM CatalogAgrees ==
    ASSUME CatalogAssumptions, NewLists \subseteq Lists
    PROVE  Spec => []CacheAgrees
  <1>1. Kept => CacheAgrees
    BY Zenon DEF Kept, IInv, Whole, CacheAgrees
  <1> QED
    BY <1>1, Invariance, PTL

(* Every table has its store and its docid sequence and every index its     *)
(* table, unless a statement failed in the open transaction or the catalog  *)
(* is marred.                                                               *)
THEOREM CatalogIsClosed ==
    ASSUME CatalogAssumptions, NewLists \subseteq Lists
    PROVE  Spec => []SchemaClosed
  <1>1. Kept => SchemaClosed
    BY Zenon, Closure DEF Kept, SchemaClosed
  <1> QED
    BY <1>1, Invariance, PTL

(* No two tables or indexes have the same store, whatever fails or is       *)
(* rolled back and wherever the process stops, until the catalog is marred. *)
THEOREM StoresAreApart ==
    ASSUME CatalogAssumptions, NewLists \subseteq Lists
    PROVE  Spec => []StoresDistinct
  <1>1. Kept => StoresDistinct
    BY Zenon DEF Kept, IInv, Good, Sound, Apart, StoresDistinct
  <1> QED
    BY <1>1, Invariance, PTL

(* What is committed has a row for each sequence and no other, until the    *)
(* catalog is marred.                                                       *)
THEOREM SequencesAreStored ==
    ASSUME CatalogAssumptions, NewLists \subseteq Lists
    PROVE  Spec => []SequencesHaveRows
  <1>1. Kept => SequencesHaveRows
    BY Zenon DEF Kept, IInv, Good, Closed, IsIn, SequencesHaveRows
  <1> QED
    BY <1>1, Invariance, PTL
=============================================================================
