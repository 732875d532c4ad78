------------------------ MODULE CatalogCalls_proofs ------------------------
(***************************************************************************)
(* What each call of the catalog does, whether it succeeds or fails on the  *)
(* way: how it changes the cache, the rows of __genji_catalog, the stores,  *)
(* the store sequence and the hooks that undo it.  Catalog_proofs builds    *)
(* the statements and the transactions of these.                            *)
(***************************************************************************)
EXTENDS CatalogCalls, TLAPS

(* What the loops need of numbers and finite sets: a set of numbers has a   *)
(* least one, and a set of names can be listed.  FiniteNames proves this,   *)
(* at the end, from theorems of the library, which would weigh on every     *)
(* step if the module extended them.                                        *)
Least == \A U \in SUBSET Nat : U # {} => \E k \in U : \A j \in U : k <= j

Listed ==
    /\ Cardinality({}) = 0
    /\ \A ns \in SUBSET Name :
          /\ Cardinality(ns) \in Nat
          /\ \E q \in [1 .. Cardinality(ns) -> ns] :
                \A n \in ns : \E i \in 1 .. Cardinality(ns) : q[i] = n

Ground == CatalogAssumptions /\ Least /\ Listed

(* Tables and indexes have a store and name a table.                        *)
Rel == {r \in AnyRelation : r.type # "sequence" => r.store # 0 /\ r.tbl \in TableName}

Caches == [Name -> Rel \cup {None}]

Hook == [name : Name, old : Rel \cup {None}]

States == [cache : Caches, hooks : Seq(Hook), rows : Caches,
           stores : SUBSET (Nat \ {0}), seqRows : SUBSET Name,
           lease : Nat, cur : Nat, cached : 0 .. SeqCache,
           res : {"ok", "exists", "error"}]

IsIn(c, tp, n) == c[n] # None /\ c[n].type = tp

(* The stores of the relations in c are names up to b.                      *)
Bounded(c, b) == \A n \in Name : c[n] # None => c[n].store <= b

(* Two relations in c do not share a store.                                 *)
Apart(c) ==
    \A m, n \in Name :
        m # n /\ c[m] # None /\ c[n] # None /\ c[m].store # 0 => c[m].store # c[n].store

(* The hooks lead back, one by one, from the cache c to base.               *)
Undoes(hs, c, base) ==
    \E g \in [0 .. Len(hs) -> Caches] :
        /\ g[0] = base
        /\ g[Len(hs)] = c
        /\ \A i \in 1 .. Len(hs) : g[i - 1] = [g[i] EXCEPT ![hs[i].name] = hs[i].old]

(* The lease of the store sequence covers the values it has left in memory. *)
Leased(x) == x.cur # 0 => x.cur + SeqCache <= x.lease + x.cached

(* What every call keeps, whether it fails or not; base is what the engine  *)
(* held before the transaction, and late says that a rollback took back a   *)
(* lease.                                                                   *)
Sound(x, base, late) ==
    /\ x \in States
    /\ Undoes(x.hooks, x.cache, base.rows)
    /\ Bounded(base.rows, x.cur)
    /\ x.cur = 0 => x.lease = 0 /\ base.lease = 0
    /\ Bounded(x.cache, x.cur)
    /\ Bounded(x.rows, x.cur)
    /\ Apart(x.cache)
    /\ \A st \in x.stores : st <= x.cur \/ st <= MaxStore
    /\ late \/ Leased(x)

(* A closed schema: see SchemaClosed and SequencesHaveRows.  A docid        *)
(* sequence belongs to one table.                                           *)
Closed(c, stores, seqRows) ==
    \A n \in Name :
        /\ IsIn(c, "table", n) =>
              /\ c[n].store \in stores
              /\ c[n].tbl = n
              /\ c[n].docid # None =>
                    /\ IsIn(c, "sequence", c[n].docid)
                    /\ \A m \in Name :
                          m # n /\ IsIn(c, "table", m) => c[m].docid # c[n].docid
        /\ IsIn(c, "index", n) => IsIn(c, "table", c[n].tbl)
        /\ IsIn(c, "sequence", n) <=> n \in seqRows

(* What the statements keep that do not fail.                               *)
Whole(x) == x.cache = x.rows /\ Closed(x.cache, x.stores, x.seqRows)

(* y is x, but for the result of the call.                                  *)
Left(x, y) ==
    /\ y \in States
    /\ y.cache = x.cache /\ y.hooks = x.hooks /\ y.rows = x.rows
    /\ y.stores = x.stores /\ y.seqRows = x.seqRows
    /\ y.lease = x.lease /\ y.cur = x.cur /\ y.cached = x.cached

With(c, n, o) == [c EXCEPT ![n] = o]

Pushed(hs, n, c) == Append(hs, [name |-> n, old |-> c[n]])

(* y is x with o in the cache under n, and the hook that undoes it.         *)
CacheSet(x, y, n, o) ==
    /\ y.cache = With(x.cache, n, o)
    /\ y.hooks = Pushed(x.hooks, n, x.cache)
    /\ y.rows = x.rows
    /\ y.stores = x.stores /\ y.seqRows = x.seqRows
    /\ y.lease = x.lease /\ y.cur = x.cur /\ y.cached = x.cached

(* y is x with other rows, other stores or other rows of __genji_sequence.  *)
RowsSet(x, y, rows) ==
    /\ y.rows = rows
    /\ y.cache = x.cache /\ y.hooks = x.hooks
    /\ y.stores = x.stores /\ y.seqRows = x.seqRows
    /\ y.lease = x.lease /\ y.cur = x.cur /\ y.cached = x.cached

StoresSet(x, y, stores) ==
    /\ y.stores = stores
    /\ y.cache = x.cache /\ y.hooks = x.hooks
    /\ y.rows = x.rows /\ y.seqRows = x.seqRows
    /\ y.lease = x.lease /\ y.cur = x.cur /\ y.cached = x.cached

SeqRowsSet(x, y, seqRows) ==
    /\ y.seqRows = seqRows
    /\ y.cache = x.cache /\ y.hooks = x.hooks
    /\ y.rows = x.rows /\ y.stores = x.stores
    /\ y.lease = x.lease /\ y.cur = x.cur /\ y.cached = x.cached

(* The call has failed with err, unless a call before it had failed.        *)
Fails(x, y, err) == Left(x, y) /\ y.res = (IF x.res = "ok" THEN err ELSE x.res)

Succeeds(y) == y \in States /\ y.res = "ok"

(* o may be put in the cache under n.                                       *)
Fits(x, n, o) ==
    /\ o \in Rel
    /\ o.store <= x.cur
    /\ o.store # 0 =>
          \A m \in Name : m # n /\ x.cache[m] # None => x.cache[m].store # o.store

-----------------------------------------------------------------------------
(* Sound states are typed.                                                  *)
LEMMA SoundTyped ==
    ASSUME NEW base, NEW late, NEW x, Sound(x, base, late)
    PROVE  x \in States
  BY Zenon DEF Sound

(* A call that fails changes the result only, which keeps Sound and Whole.  *)
LEMMA LeftSound ==
    ASSUME NEW base, NEW late, NEW x, Sound(x, base, late), NEW y, Left(x, y)
    PROVE  Sound(y, base, late) /\ (Whole(x) => Whole(y))
  BY Zenon DEF Sound, Left, Leased, Whole

(* The hook that catalogCache pushes undoes its change of the cache.        *)
LEMMA HookUndoes ==
    ASSUME NEW base, NEW hs \in Seq(Hook), NEW c \in Caches, Undoes(hs, c, base),
           NEW n \in Name, NEW o \in Rel \cup {None}
    PROVE  Undoes(Pushed(hs, n, c), With(c, n, o), base)
  <1> DEFINE h  == [name |-> n, old |-> c[n]]
             hp == Pushed(hs, n, c)
             d  == With(c, n, o)
             N  == Len(hs)
  <1>1. PICK g \in [0 .. N -> Caches] :
              /\ g[0] = base
              /\ g[N] = c
              /\ \A i \in 1 .. N : g[i - 1] = [g[i] EXCEPT ![hs[i].name] = hs[i].old]
    BY Zenon DEF Undoes
  <1>2. /\ N \in Nat /\ Len(hp) = N + 1 /\ hp[N + 1] = h
        /\ \A i \in 1 .. N : hp[i] = hs[i]
    BY DEF Hook, Caches, Pushed
  <1>3. d \in Caches /\ c = [d EXCEPT ![h.name] = h.old]
    BY Zenon DEF Caches, With
  <1> DEFINE gp == [i \in 0 .. N + 1 |-> IF i = N + 1 THEN d ELSE g[i]]
  <1>4. /\ gp \in [0 .. N + 1 -> Caches]
        /\ gp[0] = base /\ gp[N + 1] = d /\ gp[N] = c
        /\ \A i \in 0 .. N : gp[i] = g[i]
    BY <1>1, <1>2, <1>3
  <1> HIDE DEF gp, N, h, hp, d
  <1>5. ASSUME NEW i \in 1 .. N + 1
        PROVE  gp[i - 1] = [gp[i] EXCEPT ![hp[i].name] = hp[i].old]
    <2>1. CASE i = N + 1
      <3>1. i - 1 = N
        BY <1>2, <2>1
      <3> QED
        BY Zenon, <1>2, <1>3, <1>4, <2>1, <3>1
    <2>2. CASE i # N + 1
      <3>1. i \in 1 .. N /\ i \in 0 .. N /\ i - 1 \in 0 .. N
        BY <1>2, <2>2
      <3> QED
        BY Zenon, <1>1, <1>2, <1>4, <3>1
    <2> QED
      BY Zenon, <2>1, <2>2
  <1>6. /\ gp \in [0 .. Len(hp) -> Caches]
        /\ gp[0] = base /\ gp[Len(hp)] = d
        /\ \A i \in 1 .. Len(hp) : gp[i - 1] = [gp[i] EXCEPT ![hp[i].name] = hp[i].old]
    BY Zenon, <1>2, <1>4, <1>5
  <1> QED
    BY Zenon, <1>6 DEF Undoes, hp, d

(* Putting in the cache what fits, or taking something out, is sound.       *)
LEMMA CacheSetSound ==
    ASSUME Ground,
           NEW base, NEW late, NEW x, Sound(x, base, late), NEW n \in Name,
           NEW o, o = None \/ Fits(x, n, o), NEW y, y \in States, CacheSet(x, y, n, o)
    PROVE  Sound(y, base, late)
  <1>1. x \in States /\ o \in Rel \cup {None}
    BY Zenon DEF Sound, Fits
  <1>2. Undoes(y.hooks, y.cache, base.rows)
    <2>1. x.hooks \in Seq(Hook) /\ x.cache \in Caches /\ Undoes(x.hooks, x.cache, base.rows)
      BY Zenon, <1>1 DEF States, Sound
    <2> QED
      BY Zenon, <1>1, <2>1, HookUndoes DEF CacheSet
  <1>3. /\ y.cache \in Caches /\ x.cache \in Caches /\ y.cache[n] = o
        /\ \A m \in Name : m # n => y.cache[m] = x.cache[m]
    BY Zenon, <1>1 DEF CacheSet, States, Caches, With
  <1>4. Bounded(y.cache, y.cur) /\ Bounded(y.rows, y.cur)
    BY Zenon, <1>3 DEF Bounded, Sound, Fits, CacheSet
  <1>5. Apart(y.cache)
    BY <1>3 DEF Apart, Sound, Fits
  <1>6. late \/ Leased(y)
    BY Zenon DEF Leased, Sound, CacheSet
  <1> QED
    BY Zenon, <1>2, <1>4, <1>5, <1>6 DEF Sound, CacheSet

(* Other rows whose stores have names already generated are sound.          *)
LEMMA RowsSetSound ==
    ASSUME NEW base, NEW late, NEW x, Sound(x, base, late), NEW y, y \in States,
           NEW n \in Name, NEW o, o = None \/ o.store <= x.cur,
           RowsSet(x, y, With(x.rows, n, o))
    PROVE  Sound(y, base, late)
  <1>1. /\ y.rows[n] = o
        /\ \A m \in Name : m # n => y.rows[m] = x.rows[m]
    BY Zenon DEF RowsSet, With, Sound, States, Caches
  <1>2. Bounded(y.rows, y.cur)
    BY Zenon, <1>1 DEF Bounded, Sound, RowsSet
  <1> QED
    BY Zenon, <1>2 DEF Sound, RowsSet, Leased

(* So are other stores, if their names have been generated.                 *)
LEMMA StoresSetSound ==
    ASSUME NEW base, NEW late, NEW x, Sound(x, base, late), NEW y, y \in States,
           NEW stores, StoresSet(x, y, stores),
           \A st \in stores : st \in x.stores \/ st <= x.cur
    PROVE  Sound(y, base, late)
  BY Zenon DEF Sound, StoresSet, Leased

(* So are other rows of __genji_sequence.                                   *)
LEMMA SeqRowsSetSound ==
    ASSUME NEW base, NEW late, NEW x, Sound(x, base, late), NEW y, y \in States,
           NEW seqRows, SeqRowsSet(x, y, seqRows)
    PROVE  Sound(y, base, late)
  BY Zenon DEF Sound, SeqRowsSet, Leased

-----------------------------------------------------------------------------
(* What the calls on the cache do: catalogCache.Add, Replace and Delete.    *)
LEMMA SetCacheIs ==
    ASSUME NEW x \in States, NEW n \in Name, NEW o,
           x.res = "ok" => o \in Rel \cup {None}
    PROVE  /\ x.res = "ok" => /\ Succeeds(SetCache(x, n, o))
                             /\ CacheSet(x, SetCache(x, n, o), n, o)
           /\ x.res # "ok" => SetCache(x, n, o) = x
  <1>1. CASE x.res = "ok"
    <2> DEFINE y == SetCache(x, n, o)
    <2>1. y = [x EXCEPT !.cache[n] = o, !.hooks = Append(@, [name |-> n, old |-> x.cache[n]])]
      BY Zenon, <1>1 DEF SetCache, Then
    <2>2. /\ y.cache = With(x.cache, n, o)
          /\ y.hooks = Pushed(x.hooks, n, x.cache)
          /\ y.rows = x.rows /\ y.stores = x.stores /\ y.seqRows = x.seqRows
          /\ y.lease = x.lease /\ y.cur = x.cur /\ y.cached = x.cached /\ y.res = x.res
      BY Zenon, <2>1 DEF States, With, Pushed
    <2>3. With(x.cache, n, o) \in Caches /\ Pushed(x.hooks, n, x.cache) \in Seq(Hook)
      BY <1>1 DEF States, With, Pushed, Caches, Hook
    <2>4. y \in States
      BY Zenon, <1>1, <2>1, <2>2, <2>3 DEF States
    <2> QED
      BY Zenon, <1>1, <2>2, <2>4 DEF CacheSet, Succeeds
  <1> QED
    BY Zenon, <1>1 DEF SetCache, Then

(* catalogCache.Add.                                                        *)
LEMMA CacheAddIs ==
    ASSUME NEW x \in States, NEW n \in Name, NEW o, x.res = "ok" => o \in Rel
    PROVE  /\ x.res = "ok" /\ x.cache[n] = None =>
                  Succeeds(CacheAdd(x, n, o)) /\ CacheSet(x, CacheAdd(x, n, o), n, o)
           /\ ~(x.res = "ok" /\ x.cache[n] = None) => Fails(x, CacheAdd(x, n, o), "exists")
  <1> DEFINE y == Check(x, x.cache[n] = None, "exists")
  <1>1. y \in States /\ (y.res = "ok" => o \in Rel \cup {None})
    BY Zenon DEF Check, States
  <1>2. CASE x.res = "ok" /\ x.cache[n] = None
    BY Zenon, <1>1, <1>2, SetCacheIs DEF CacheAdd, Check
  <1>3. CASE ~(x.res = "ok" /\ x.cache[n] = None)
    <2>1. y.res # "ok" /\ Fails(x, y, "exists")
      BY Zenon, <1>3 DEF Check, States, Fails, Left
    <2>2. CacheAdd(x, n, o) = y
      BY Zenon, <1>1, <2>1, SetCacheIs DEF CacheAdd
    <2> QED
      BY Zenon, <1>3, <2>1, <2>2
  <1> QED
    BY Zenon, <1>2, <1>3

(* catalogCache.Delete.                                                     *)
LEMMA CacheDeleteIs ==
    ASSUME NEW x \in States, NEW n \in Name, NEW tp
    PROVE  /\ x.res = "ok" /\ Is(x, tp, n) =>
                  Succeeds(CacheDelete(x, tp, n)) /\ CacheSet(x, CacheDelete(x, tp, n), n, None)
           /\ ~(x.res = "ok" /\ Is(x, tp, n)) => Fails(x, CacheDelete(x, tp, n), "error")
  <1> DEFINE y == Check(x, Is(x, tp, n), "error")
  <1>1. y \in States
    BY Zenon DEF Check, States
  <1>2. CASE x.res = "ok" /\ Is(x, tp, n)
    BY Zenon, <1>1, <1>2, SetCacheIs DEF CacheDelete, Check
  <1>3. CASE ~(x.res = "ok" /\ Is(x, tp, n))
    <2>1. y.res # "ok" /\ Fails(x, y, "error")
      BY Zenon, <1>3 DEF Check, States, Fails, Left
    <2>2. CacheDelete(x, tp, n) = y
      BY Zenon, <1>1, <2>1, SetCacheIs DEF CacheDelete
    <2> QED
      BY Zenon, <1>3, <2>1, <2>2
  <1> QED
    BY Zenon, <1>2, <1>3

(* catalogCache.Replace.                                                    *)
LEMMA CacheReplaceIs ==
    ASSUME NEW x \in States, NEW n \in Name, NEW o, x.res = "ok" => o \in Rel
    PROVE  /\ x.res = "ok" /\ Is(x, o.type, n) =>
                  Succeeds(CacheReplace(x, n, o)) /\ CacheSet(x, CacheReplace(x, n, o), n, o)
           /\ ~(x.res = "ok" /\ Is(x, o.type, n)) => Fails(x, CacheReplace(x, n, o), "error")
  <1> DEFINE y == Check(x, Is(x, o.type, n), "error")
  <1>1. y \in States /\ (y.res = "ok" => o \in Rel \cup {None})
    BY Zenon DEF Check, States
  <1>2. CASE x.res = "ok" /\ Is(x, o.type, n)
    BY Zenon, <1>1, <1>2, SetCacheIs DEF CacheReplace, Check
  <1>3. CASE ~(x.res = "ok" /\ Is(x, o.type, n))
    <2>1. y.res # "ok" /\ Fails(x, y, "error")
      BY Zenon, <1>3 DEF Check, States, Fails, Left
    <2>2. CacheReplace(x, n, o) = y
      BY Zenon, <1>1, <2>1, SetCacheIs DEF CacheReplace
    <2> QED
      BY Zenon, <1>3, <2>1, <2>2
  <1> QED
    BY Zenon, <1>2, <1>3

-----------------------------------------------------------------------------
(* What the calls on __genji_catalog do: CatalogTable.Insert, Replace and   *)
(* Delete.                                                                  *)
LEMMA SetRowIs ==
    ASSUME NEW x \in States, NEW n \in Name, NEW o,
           x.res = "ok" => o \in Rel \cup {None}
    PROVE  /\ x.res = "ok" => /\ Succeeds(SetRow(x, n, o))
                             /\ RowsSet(x, SetRow(x, n, o), With(x.rows, n, o))
           /\ x.res # "ok" => SetRow(x, n, o) = x
  <1>1. CASE x.res = "ok"
    <2> DEFINE y == SetRow(x, n, o)
    <2>1. y = [x EXCEPT !.rows[n] = o]
      BY Zenon, <1>1 DEF SetRow, Then
    <2>2. RowsSet(x, y, With(x.rows, n, o)) /\ y.res = x.res
      BY Zenon, <2>1 DEF States, With, RowsSet
    <2>3. With(x.rows, n, o) \in Caches
      BY Zenon, <1>1 DEF States, With, Caches
    <2>4. y \in States
      BY Zenon, <1>1, <2>1, <2>2, <2>3 DEF States, RowsSet
    <2> QED
      BY Zenon, <1>1, <2>2, <2>4 DEF Succeeds
  <1> QED
    BY Zenon, <1>1 DEF SetRow, Then

(* CatalogTable.Insert.                                                     *)
LEMMA RowInsertIs ==
    ASSUME NEW x \in States, NEW n \in Name, NEW o, x.res = "ok" => o \in Rel
    PROVE  /\ x.res = "ok" /\ x.rows[n] = None =>
                  /\ Succeeds(RowInsert(x, n, o))
                  /\ RowsSet(x, RowInsert(x, n, o), With(x.rows, n, o))
           /\ ~(x.res = "ok" /\ x.rows[n] = None) => Fails(x, RowInsert(x, n, o), "exists")
  <1> DEFINE y == Check(x, x.rows[n] = None, "exists")
  <1>1. y \in States /\ (y.res = "ok" => o \in Rel \cup {None})
    BY Zenon DEF Check, States
  <1>2. CASE x.res = "ok" /\ x.rows[n] = None
    BY Zenon, <1>1, <1>2, SetRowIs DEF RowInsert, Check
  <1>3. CASE ~(x.res = "ok" /\ x.rows[n] = None)
    <2>1. y.res # "ok" /\ Fails(x, y, "exists")
      BY Zenon, <1>3 DEF Check, States, Fails, Left
    <2>2. RowInsert(x, n, o) = y
      BY Zenon, <1>1, <2>1, SetRowIs DEF RowInsert
    <2> QED
      BY Zenon, <1>3, <2>1, <2>2
  <1> QED
    BY Zenon, <1>2, <1>3

(* CatalogTable.Replace.                                                    *)
LEMMA RowReplaceIs ==
    ASSUME NEW x \in States, NEW n \in Name, NEW o, x.res = "ok" => o \in Rel
    PROVE  /\ x.res = "ok" /\ x.rows[n] # None =>
                  /\ Succeeds(RowReplace(x, n, o))
                  /\ RowsSet(x, RowReplace(x, n, o), With(x.rows, n, o))
           /\ ~(x.res = "ok" /\ x.rows[n] # None) => Fails(x, RowReplace(x, n, o), "error")
  <1> DEFINE y == Check(x, x.rows[n] # None, "error")
  <1>1. y \in States /\ (y.res = "ok" => o \in Rel \cup {None})
    BY Zenon DEF Check, States
  <1>2. CASE x.res = "ok" /\ x.rows[n] # None
    BY Zenon, <1>1, <1>2, SetRowIs DEF RowReplace, Check
  <1>3. CASE ~(x.res = "ok" /\ x.rows[n] # None)
    <2>1. y.res # "ok" /\ Fails(x, y, "error")
      BY Zenon, <1>3 DEF Check, States, Fails, Left
    <2>2. RowReplace(x, n, o) = y
      BY Zenon, <1>1, <2>1, SetRowIs DEF RowReplace
    <2> QED
      BY Zenon, <1>3, <2>1, <2>2
  <1> QED
    BY Zenon, <1>2, <1>3

(* CatalogTable.Delete.                                                     *)
LEMMA RowDeleteIs ==
    ASSUME NEW x \in States, NEW n \in Name
    PROVE  /\ x.res = "ok" /\ x.rows[n] # None =>
                  /\ Succeeds(RowDelete(x, n))
                  /\ RowsSet(x, RowDelete(x, n), With(x.rows, n, None))
           /\ ~(x.res = "ok" /\ x.rows[n] # None) => Fails(x, RowDelete(x, n), "error")
  <1> DEFINE y == Check(x, x.rows[n] # None, "error")
  <1>1. y \in States
    BY Zenon DEF Check, States
  <1>2. CASE x.res = "ok" /\ x.rows[n] # None
    BY Zenon, <1>1, <1>2, SetRowIs DEF RowDelete, Check
  <1>3. CASE ~(x.res = "ok" /\ x.rows[n] # None)
    <2>1. y.res # "ok" /\ Fails(x, y, "error")
      BY Zenon, <1>3 DEF Check, States, Fails, Left
    <2>2. RowDelete(x, n) = y
      BY Zenon, <1>1, <2>1, SetRowIs DEF RowDelete
    <2> QED
      BY Zenon, <1>3, <2>1, <2>2
  <1> QED
    BY Zenon, <1>2, <1>3

(* Transaction.CreateStore.                                                 *)
LEMMA CreateStoreIs ==
    ASSUME NEW x \in States, NEW st, x.res = "ok" => st \in Nat \ {0}
    PROVE  /\ x.res = "ok" /\ st \notin x.stores =>
                  /\ Succeeds(CreateStore(x, st))
                  /\ StoresSet(x, CreateStore(x, st), x.stores \cup {st})
           /\ ~(x.res = "ok" /\ st \notin x.stores) => Fails(x, CreateStore(x, st), "error")
  <1>1. CASE x.res = "ok" /\ st \notin x.stores
    <2>1. CreateStore(x, st) = [x EXCEPT !.stores = @ \cup {st}]
      BY Zenon, <1>1 DEF CreateStore, Then, Check
    <2> QED
      BY <1>1, <2>1 DEF States, StoresSet, Succeeds
  <1>2. CASE ~(x.res = "ok" /\ st \notin x.stores)
    BY Zenon, <1>2 DEF CreateStore, Then, Check, States, Fails, Left
  <1> QED
    BY Zenon, <1>1, <1>2

(* Transaction.DropStore.                                                   *)
LEMMA DropStoreIs ==
    ASSUME NEW x \in States, NEW st
    PROVE  /\ x.res = "ok" /\ st \in x.stores =>
                  /\ Succeeds(DropStore(x, st))
                  /\ StoresSet(x, DropStore(x, st), x.stores \ {st})
           /\ ~(x.res = "ok" /\ st \in x.stores) => Fails(x, DropStore(x, st), "error")
  <1>1. CASE x.res = "ok" /\ st \in x.stores
    <2>1. DropStore(x, st) = [x EXCEPT !.stores = @ \ {st}]
      BY Zenon, <1>1 DEF DropStore, Then, Check
    <2> QED
      BY Zenon, <1>1, <2>1 DEF States, StoresSet, Succeeds
  <1>2. CASE ~(x.res = "ok" /\ st \in x.stores)
    BY Zenon, <1>2 DEF DropStore, Then, Check, States, Fails, Left
  <1> QED
    BY Zenon, <1>1, <1>2

(* Catalog.generateStoreName gives a name above all names in the catalog,   *)
(* which its lease covers.                                                  *)
LEMMA GenerateStoreNameIs ==
    ASSUME Ground, NEW base, NEW late, NEW x, Sound(x, base, late)
    PROVE  /\ Sound(GenerateStoreName(x), base, late)
           /\ x.res # "ok" => GenerateStoreName(x) = x
           /\ x.res = "ok" =>
                  /\ Succeeds(GenerateStoreName(x))
                  /\ GenerateStoreName(x).cur = x.cur + 1
                  /\ GenerateStoreName(x).cache = x.cache
                  /\ GenerateStoreName(x).rows = x.rows
                  /\ GenerateStoreName(x).stores = x.stores
                  /\ GenerateStoreName(x).seqRows = x.seqRows
  <1> DEFINE y == GenerateStoreName(x)
  <1>1. CASE x.res # "ok"
    BY Zenon, <1>1 DEF GenerateStoreName, Then
  <1>2. CASE x.res = "ok"
    <2>1. x \in States /\ SeqCache \in Nat /\ SeqCache # 0
      BY Zenon DEF Sound, Ground, CatalogAssumptions
    <2>2. /\ y \in States /\ y.res = "ok"
          /\ y.cur = x.cur + 1
          /\ y.cache = x.cache /\ y.hooks = x.hooks /\ y.rows = x.rows
          /\ y.stores = x.stores /\ y.seqRows = x.seqRows
          /\ \/ x.cur # 0 /\ y.cached = x.cached + 1 /\ y.lease = x.lease
             \/ y.cached = 1 /\ y.lease = x.cur + 1 + SeqCache - 1
      <3>1. CASE x.cur # 0 /\ x.cached + 1 <= SeqCache
        <4>1. y = [x EXCEPT !.cur = x.cur + 1, !.cached = @ + 1]
          BY Zenon, <1>2, <3>1 DEF GenerateStoreName, Then
        <4>2. x.cur + 1 \in Nat /\ x.cached + 1 \in 0 .. SeqCache
          BY <2>1, <3>1 DEF States
        <4> QED
          BY Zenon, <1>2, <2>1, <3>1, <4>1, <4>2 DEF States
      <3>2. CASE ~(x.cur # 0 /\ x.cached + 1 <= SeqCache)
        <4>1. y = [x EXCEPT !.cur = x.cur + 1, !.cached = 1,
                            !.lease = x.cur + 1 + SeqCache - 1]
          BY Zenon, <1>2, <3>2 DEF GenerateStoreName, Then
        <4>2. /\ x.cur + 1 \in Nat /\ 1 \in 0 .. SeqCache
              /\ x.cur + 1 + SeqCache - 1 \in Nat
          BY <2>1 DEF States
        <4> QED
          BY Zenon, <1>2, <2>1, <4>1, <4>2 DEF States
      <3> QED
        BY Zenon, <3>1, <3>2
    <2>3. /\ x.cur \in Nat /\ x.lease \in Nat /\ x.cached \in Nat
          /\ y.cur \in Nat /\ y.lease \in Nat /\ y.cached \in Nat
      BY <2>1, <2>2 DEF States
    <2> HIDE DEF y
    <2>4. late \/ Leased(y)
      BY <2>1, <2>2, <2>3 DEF Leased, Sound
    <2>5. \A c \in Caches : Bounded(c, x.cur) => Bounded(c, y.cur)
      BY <2>2, <2>3 DEF Bounded, Caches, Rel, AnyRelation
    <2>6. \A st \in y.stores : st <= y.cur \/ st <= MaxStore
      BY <2>1, <2>2, <2>3 DEF Sound, States
    <2>7. base.rows \in Caches
      <3>1. Len(x.hooks) \in Nat
        BY <2>1 DEF States
      <3> QED
        BY <3>1 DEF Sound, Undoes
    <2>8. Bounded(base.rows, y.cur) /\ y.cur # 0
      BY <2>2, <2>3, <2>5, <2>7 DEF Sound
    <2>9. Sound(y, base, late)
      BY Zenon, <2>1, <2>2, <2>4, <2>5, <2>6, <2>8 DEF Sound, States
    <2> QED
      BY Zenon, <1>2, <2>2, <2>9 DEF Succeeds, y
  <1> QED
    BY Zenon, <1>1, <1>2

-----------------------------------------------------------------------------
(* Each of these calls is sound, whether it fails or not.                   *)
LEMMA CallsSound ==
    ASSUME Ground, NEW base, NEW late, NEW x, Sound(x, base, late),
           NEW n \in Name, NEW o
    PROVE  /\ (x.res = "ok" => Fits(x, n, o)) =>
                  /\ Sound(CacheAdd(x, n, o), base, late)
                  /\ Sound(CacheReplace(x, n, o), base, late)
           /\ \A tp : Sound(CacheDelete(x, tp, n), base, late)
           /\ (x.res = "ok" => o \in Rel /\ o.store <= x.cur) =>
                  /\ Sound(RowInsert(x, n, o), base, late)
                  /\ Sound(RowReplace(x, n, o), base, late)
           /\ Sound(RowDelete(x, n), base, late)
           /\ \A st : (x.res = "ok" => st \in Nat \ {0} /\ st <= x.cur)
                         => Sound(CreateStore(x, st), base, late)
           /\ \A st : Sound(DropStore(x, st), base, late)
  <1>1. x \in States
    BY Zenon DEF Sound
  <1>2. \A y, err : Fails(x, y, err) => Sound(y, base, late)
    BY Zenon, LeftSound DEF Fails
  <1>3. ASSUME x.res = "ok" => Fits(x, n, o)
        PROVE  Sound(CacheAdd(x, n, o), base, late)
    <2>1. x.res = "ok" => o \in Rel
      BY Zenon, <1>3 DEF Fits
    <2>2. CASE x.res = "ok" /\ x.cache[n] = None
      BY Zenon, <1>1, <1>3, <2>1, <2>2, CacheAddIs, CacheSetSound DEF Succeeds
    <2> QED
      BY Zenon, <1>1, <1>2, <2>1, <2>2, CacheAddIs
  <1>4. ASSUME x.res = "ok" => Fits(x, n, o)
        PROVE  Sound(CacheReplace(x, n, o), base, late)
    <2>1. x.res = "ok" => o \in Rel
      BY Zenon, <1>4 DEF Fits
    <2>2. CASE x.res = "ok" /\ Is(x, o.type, n)
      BY Zenon, <1>1, <1>4, <2>1, <2>2, CacheReplaceIs, CacheSetSound DEF Succeeds
    <2> QED
      BY Zenon, <1>1, <1>2, <2>1, <2>2, CacheReplaceIs
  <1>5. ASSUME NEW tp
        PROVE  Sound(CacheDelete(x, tp, n), base, late)
    <2>1. CASE x.res = "ok" /\ Is(x, tp, n)
      BY Zenon, <1>1, <2>1, CacheDeleteIs, CacheSetSound DEF Succeeds
    <2> QED
      BY Zenon, <1>1, <1>2, <2>1, CacheDeleteIs
  <1>6. ASSUME x.res = "ok" => o \in Rel /\ o.store <= x.cur
        PROVE  Sound(RowInsert(x, n, o), base, late)
    <2>1. CASE x.res = "ok" /\ x.rows[n] = None
      BY Zenon, <1>1, <1>6, <2>1, RowInsertIs, RowsSetSound DEF Succeeds
    <2> QED
      BY Zenon, <1>1, <1>2, <1>6, <2>1, RowInsertIs
  <1>7. ASSUME x.res = "ok" => o \in Rel /\ o.store <= x.cur
        PROVE  Sound(RowReplace(x, n, o), base, late)
    <2>1. CASE x.res = "ok" /\ x.rows[n] # None
      BY Zenon, <1>1, <1>7, <2>1, RowReplaceIs, RowsSetSound DEF Succeeds
    <2> QED
      BY Zenon, <1>1, <1>2, <1>7, <2>1, RowReplaceIs
  <1>8. Sound(RowDelete(x, n), base, late)
    <2>1. CASE x.res = "ok" /\ x.rows[n] # None
      BY Zenon, <1>1, <2>1, RowDeleteIs, RowsSetSound DEF Succeeds
    <2> QED
      BY Zenon, <1>1, <1>2, <2>1, RowDeleteIs
  <1>9. ASSUME NEW st, x.res = "ok" => st \in Nat \ {0} /\ st <= x.cur
        PROVE  Sound(CreateStore(x, st), base, late)
    <2>1. CASE x.res = "ok" /\ st \notin x.stores
      <3> DEFINE y == CreateStore(x, st)
                 S == x.stores \cup {st}
      <3>1. y \in States /\ StoresSet(x, y, S)
        BY Zenon, <1>1, <1>9, <2>1, CreateStoreIs DEF Succeeds
      <3>2. \A q \in S : q \in x.stores \/ q <= x.cur
        BY Zenon, <1>9, <2>1
      <3> HIDE DEF y, S
      <3>3. Sound(y, base, late)
        BY Zenon, <3>1, <3>2, StoresSetSound
      <3> QED
        BY Zenon, <3>3 DEF y
    <2> QED
      BY Zenon, <1>1, <1>2, <1>9, <2>1, CreateStoreIs
  <1>10. ASSUME NEW st
         PROVE  Sound(DropStore(x, st), base, late)
    <2>1. CASE x.res = "ok" /\ st \in x.stores
      <3> DEFINE y == DropStore(x, st)
                 S == x.stores \ {st}
      <3>1. y \in States /\ StoresSet(x, y, S)
        BY Zenon, <1>1, <2>1, DropStoreIs DEF Succeeds
      <3>2. \A q \in S : q \in x.stores
        BY Zenon
      <3> HIDE DEF y, S
      <3>3. Sound(y, base, late)
        BY Zenon, <3>1, <3>2, StoresSetSound
      <3> QED
        BY Zenon, <3>3 DEF y
    <2> QED
      BY Zenon, <1>1, <1>2, <2>1, DropStoreIs
  <1> QED
    BY Zenon, <1>3, <1>4, <1>5, <1>6, <1>7, <1>8, <1>9, <1>10

-----------------------------------------------------------------------------
(* The relation of a sequence, which may belong to a table.                 *)
SequenceOf(owner) == Relation("sequence", owner, 0, None, FALSE, "none")

(* Catalog.CreateSequence, with the row that Sequence.Init inserts.         *)
LEMMA CreateSequenceIs ==
    ASSUME Ground, NEW base, NEW late, NEW x, Sound(x, base, late),
           NEW n \in Name, NEW owner \in TableName \cup {None},
           NEW r, r = CreateSequence(x, n, owner),
           NEW o, o = SequenceOf(owner)
    PROVE  /\ Sound(r, base, late)
           /\ r.res = "ok" =>
                  /\ x.res = "ok" /\ x.cache[n] = None
                  /\ r.cache = With(x.cache, n, o)
                  /\ r.rows = With(x.rows, n, o)
                  /\ r.stores = x.stores
                  /\ r.seqRows = x.seqRows \cup {n}
           /\ x.res = "ok" /\ x.cache = x.rows /\ r.res = "exists" => Left(x, r)
  <1> DEFINE a == CacheAdd(x, n, o)
             b == RowInsert(a, n, o)
             y == Check(b, n \notin x.seqRows, "error")
  <1>1. x \in States /\ o \in Rel /\ o.store = 0 /\ Fits(x, n, o)
    BY DEF Sound, SequenceOf, Relation, Rel, AnyRelation, Lists, Fits, States
  <1>2. Sound(a, base, late) /\ a \in States
    BY Zenon, <1>1, CallsSound, SoundTyped
  <1>3. o.store <= a.cur
    <2>1. a.cur \in Nat
      BY Zenon, <1>2 DEF States
    <2>2. \A i \in Nat : 0 <= i
      OBVIOUS
    <2> QED
      BY Zenon, <1>1, <2>1, <2>2
  <1>4. Sound(b, base, late) /\ b \in States
    <2> HIDE DEF a
    <2>1. Sound(RowInsert(a, n, o), base, late)
      BY Zenon, <1>1, <1>2, <1>3, CallsSound
    <2> QED
      BY Zenon, <2>1 DEF Sound
  <1>5. y \in States /\ Left(b, y) /\ Sound(y, base, late)
        /\ (y.res = "ok" => b.res = "ok" /\ y = b)
        /\ (y.res = "exists" => b.res = "exists")
    <2>1. y \in States /\ Left(b, y)
      BY Zenon, <1>4 DEF Check, States, Left
    <2>2. /\ y.res = "ok" => b.res = "ok" /\ y = b
          /\ y.res = "exists" => b.res = "exists"
      BY Zenon, <1>4 DEF Check, States
    <2> QED
      BY Zenon, <1>4, <2>1, <2>2, LeftSound
  <1>6. r = Then(y, [y EXCEPT !.seqRows = @ \cup {n}])
    BY Zenon DEF CreateSequence, SequenceOf
  <1> HIDE DEF y
  <1>7. CASE y.res = "ok"
    <2>1. r \in States /\ r.res = "ok" /\ SeqRowsSet(y, r, y.seqRows \cup {n})
      <3>1. r = [y EXCEPT !.seqRows = @ \cup {n}]
        BY Zenon, <1>6, <1>7 DEF Then
      <3>2. y.seqRows \cup {n} \in SUBSET Name
        BY Zenon, <1>5 DEF States
      <3> QED
        BY Zenon, <1>5, <1>7, <3>1, <3>2 DEF States, SeqRowsSet
    <2>2. Sound(r, base, late)
      BY Zenon, <1>5, <2>1, SeqRowsSetSound
    <2>3. b.res = "ok" /\ y = b
      BY Zenon, <1>5, <1>7
    <2>4. a.res = "ok" /\ RowsSet(a, b, With(a.rows, n, o))
      BY <1>1, <1>2, <2>3, RowInsertIs DEF Fails
    <2>5. x.res = "ok" /\ x.cache[n] = None /\ CacheSet(x, a, n, o)
      BY Zenon, <1>1, <2>4, CacheAddIs DEF Fails
    <2> QED
      BY Zenon, <2>1, <2>2, <2>3, <2>4, <2>5 DEF SeqRowsSet, RowsSet, CacheSet
  <1>8. CASE y.res # "ok"
    <2>1. r = y
      BY Zenon, <1>6, <1>8 DEF Then
    <2>2. ASSUME x.res = "ok", x.cache = x.rows, y.res = "exists"
          PROVE  Left(x, y)
      <3>1. b.res = "exists"
        BY Zenon, <1>5, <2>2
      <3>2. CASE x.cache[n] = None
        <4>1. a.res = "ok" /\ CacheSet(x, a, n, o)
          BY Zenon, <1>1, <2>2, <3>2, CacheAddIs DEF Succeeds
        <4>2. a.rows[n] = None
          BY Zenon, <2>2, <3>2, <4>1 DEF CacheSet
        <4>3. b.res = "ok"
          BY Zenon, <1>1, <1>2, <4>1, <4>2, RowInsertIs DEF Succeeds
        <4> QED
          BY Zenon, <3>1, <4>3
      <3>3. CASE x.cache[n] # None
        <4>1. Fails(x, a, "exists")
          BY Zenon, <1>1, <3>3, CacheAddIs
        <4>2. a.res = "exists" /\ Left(x, a)
          BY Zenon, <2>2, <4>1 DEF Fails
        <4>3. Left(a, b)
          BY Zenon, <1>1, <1>2, <4>2, RowInsertIs DEF Fails
        <4> QED
          BY <1>5, <4>2, <4>3 DEF Left
      <3> QED
        BY Zenon, <3>2, <3>3
    <2> QED
      BY Zenon, <1>5, <1>8, <2>1, <2>2
  <1> QED
    BY Zenon, <1>7, <1>8

(* Catalog.DropSequence, with the row that Sequence.Drop deletes.           *)
LEMMA DropSequenceIs ==
    ASSUME Ground, NEW base, NEW late, NEW x, Sound(x, base, late),
           NEW n \in Name, NEW r, r = DropSequence(x, n)
    PROVE  /\ Sound(r, base, late)
           /\ r.res = "ok" =>
                  /\ x.res = "ok" /\ Is(x, "sequence", n)
                  /\ r.cache = With(x.cache, n, None)
                  /\ r.rows = With(x.rows, n, None)
                  /\ r.stores = x.stores
                  /\ r.seqRows = x.seqRows \ {n}
  <1> DEFINE a == CacheDelete(x, "sequence", n)
             y == Check(a, n \in x.seqRows, "error")
             z == Then(y, [y EXCEPT !.seqRows = @ \ {n}])
  <1>1. x \in States
    BY Zenon DEF Sound
  <1>2. Sound(a, base, late) /\ a \in States
    BY Zenon, CallsSound, SoundTyped
  <1>3. y \in States /\ Left(a, y) /\ (y.res = "ok" => a.res = "ok")
    BY Zenon, <1>2 DEF Check, States, Left
  <1>4. Sound(y, base, late)
    BY Zenon, <1>2, <1>3, LeftSound
  <1>5. r = RowDelete(z, n)
    BY Zenon DEF DropSequence
  <1> HIDE DEF y, a
  <1>6. CASE y.res = "ok"
    <2>1. z \in States /\ z.res = "ok" /\ SeqRowsSet(y, z, y.seqRows \ {n})
      <3>1. z = [y EXCEPT !.seqRows = @ \ {n}]
        BY Zenon, <1>6 DEF Then
      <3>2. y.seqRows \ {n} \in SUBSET Name
        BY Zenon, <1>3 DEF States
      <3> HIDE DEF z
      <3> QED
        BY Zenon, <1>3, <1>6, <3>1, <3>2 DEF States, SeqRowsSet
    <2> HIDE DEF z
    <2>2. Sound(z, base, late)
      BY Zenon, <1>4, <2>1, SeqRowsSetSound
    <2>3. Sound(r, base, late)
      BY Zenon, <1>5, <2>2, CallsSound
    <2>4. r.res = "ok" => RowsSet(z, r, With(z.rows, n, None))
      BY Zenon, <1>5, <2>1, RowDeleteIs DEF Fails
    <2>5. x.res = "ok" /\ Is(x, "sequence", n) /\ CacheSet(x, a, n, None)
      BY Zenon, <1>1, <1>3, <1>6, CacheDeleteIs DEF Fails, a
    <2> QED
      BY Zenon, <1>3, <2>1, <2>3, <2>4, <2>5 DEF SeqRowsSet, RowsSet, CacheSet, Left
  <1>7. CASE y.res # "ok"
    <2>1. z = y
      BY Zenon, <1>7 DEF Then
    <2>2. Fails(y, r, "error")
      BY Zenon, <1>3, <1>5, <1>7, <2>1, RowDeleteIs
    <2>3. r.res # "ok" /\ Left(y, r)
      BY Zenon, <1>7, <2>2 DEF Fails
    <2> QED
      BY Zenon, <1>4, <2>3, LeftSound
  <1> QED
    BY Zenon, <1>6, <1>7

(* The relation of a new table.                                             *)
TableOf(t, store, docid, list) == Relation("table", t, store, docid, FALSE, list)

(* Catalog.CreateTable.  The store has a new name.  A call that fails does  *)
(* not change the cache, and changes the rows only when the name was free.  *)
LEMMA CreateTableIs ==
    ASSUME Ground, NEW base, NEW late, NEW x, Sound(x, base, late),
           x.res = "ok", NEW t \in TableName, NEW docid \in Generated \cup {None},
           NEW list \in Lists, NEW r, r = CreateTable(x, t, docid, list),
           NEW o, o = TableOf(t, x.cur + 1, docid, list)
    PROVE  /\ Sound(r, base, late)
           /\ r.res = "ok" =>
                  /\ x.cache[t] = None
                  /\ r.cache = With(x.cache, t, o)
                  /\ r.rows = With(x.rows, t, o)
                  /\ r.stores = x.stores \cup {x.cur + 1}
                  /\ r.seqRows = x.seqRows
           /\ r.res # "ok" =>
                  /\ r.cache = x.cache
                  /\ r.seqRows = x.seqRows
                  /\ x.rows[t] # None => r.rows = x.rows /\ r.stores = x.stores
           /\ x.cache = x.rows /\ r.res = "exists" => r.rows = x.rows /\ r.stores = x.stores
  <1> DEFINE c == Check(Check(x, ~GetTable(x, t), "exists"), ~Is(x, "table", t), "error")
             y == GenerateStoreName(c)
             p == Relation("table", t, y.cur, docid, FALSE, list)
             d == RowInsert(y, t, p)
             e == CreateStore(d, p.store)
  <1>1. x \in States /\ t \in Name
    BY Zenon DEF Sound, Name
  <1>2. c \in States /\ Left(x, c)
    BY Zenon, <1>1 DEF Check, States, Left
  <1>3. Sound(c, base, late)
    BY Zenon, <1>2, LeftSound
  <1>4. r = CacheAdd(e, t, p)
    BY Zenon DEF CreateTable
  <1> HIDE DEF c
  <1>5. CASE c.res # "ok"
    <2>1. y = c
      BY Zenon, <1>3, <1>5, GenerateStoreNameIs
    <2> HIDE DEF y, p
    <2>2. Left(y, d) /\ d.res # "ok" /\ d \in States
      BY <1>1, <1>2, <1>5, <2>1, RowInsertIs DEF Fails, Left
    <2>3. Left(d, e) /\ e.res # "ok" /\ e \in States
      BY Zenon, <2>2, CreateStoreIs DEF Fails, Left
    <2>4. Left(e, r) /\ r.res # "ok"
      BY <1>1, <1>4, <2>3, CacheAddIs DEF Fails
    <2>5. Left(x, r)
      BY <1>2, <2>1, <2>2, <2>3, <2>4 DEF Left
    <2> QED
      BY Zenon, <2>4, <2>5, LeftSound DEF Left
  <1>6. CASE c.res = "ok"
    <2>1. /\ Sound(y, base, late) /\ y \in States /\ y.res = "ok"
          /\ y.cur = x.cur + 1
          /\ y.cache = x.cache /\ y.rows = x.rows
          /\ y.stores = x.stores /\ y.seqRows = x.seqRows
      BY <1>2, <1>3, <1>6, GenerateStoreNameIs DEF Left, Succeeds
    <2>2. x.cur \in Nat /\ x.cur + 1 \in Nat \ {0} /\ x.cur + 1 <= x.cur + 1
      BY <1>1 DEF States
    <2>3. p = o /\ o \in Rel /\ o.store = x.cur + 1
      BY <2>1, <2>2 DEF TableOf, Relation, Rel, AnyRelation
    <2>4. \A m \in Name : x.cache[m] # None => x.cache[m].store # x.cur + 1
      <3>1. \A m \in Name : x.cache[m] # None => x.cache[m].store \in Nat /\ x.cache[m].store <= x.cur
        BY Zenon, <1>1 DEF Sound, Bounded, States, Caches, Rel, AnyRelation
      <3> QED
        BY <2>2, <3>1
    <2> HIDE DEF y, p
    <2>5. Sound(d, base, late) /\ d \in States
      <3>1. p \in Rel /\ p.store <= y.cur
        BY Zenon, <2>1, <2>2, <2>3
      <3> QED
        BY Zenon, <1>1, <2>1, <3>1, CallsSound, SoundTyped
    <2>6. \/ d.res = "ok" /\ x.rows[t] = None /\ RowsSet(y, d, With(x.rows, t, o))
          \/ d.res = "exists" /\ x.rows[t] # None /\ Left(y, d)
      <3>1. CASE x.rows[t] = None
        BY Zenon, <1>1, <2>1, <2>3, <3>1, RowInsertIs DEF Succeeds
      <3>2. CASE x.rows[t] # None
        <4>1. Fails(y, d, "exists")
          BY Zenon, <1>1, <2>1, <2>3, <3>2, RowInsertIs
        <4> QED
          BY Zenon, <2>1, <3>2, <4>1 DEF Fails
      <3> QED
        BY Zenon, <3>1, <3>2
    <2>7. d.cache = x.cache /\ d.stores = x.stores /\ d.seqRows = x.seqRows /\ d.cur = x.cur + 1
      BY Zenon, <2>1, <2>6 DEF RowsSet, Left
    <2> HIDE DEF d
    <2>8. Sound(e, base, late) /\ e \in States
      <3>1. p.store \in Nat \ {0} /\ p.store <= d.cur
        BY Zenon, <2>2, <2>3, <2>7
      <3> QED
        BY Zenon, <1>1, <2>5, <3>1, CallsSound, SoundTyped
    <2>9. \/ d.res = "ok" /\ e.res = "ok" /\ StoresSet(d, e, x.stores \cup {x.cur + 1})
          \/ d.res = "ok" /\ e.res = "error" /\ Left(d, e)
          \/ d.res = "exists" /\ e.res = "exists" /\ Left(d, e)
      BY Zenon, <2>2, <2>3, <2>5, <2>6, <2>7, CreateStoreIs DEF Fails, Succeeds
    <2>10. e.cache = x.cache /\ e.rows = d.rows /\ e.seqRows = x.seqRows /\ e.cur = x.cur + 1
      BY Zenon, <2>7, <2>9 DEF StoresSet, Left
    <2> HIDE DEF e
    <2>11. Fits(e, t, p)
      BY Zenon, <2>2, <2>3, <2>4, <2>10 DEF Fits
    <2>12. Sound(r, base, late)
      BY Zenon, <1>1, <1>4, <2>8, <2>11, CallsSound
    <2>13. \/ e.res = "ok" /\ r.res = "ok" /\ x.cache[t] = None /\ CacheSet(e, r, t, o)
           \/ e.res = "ok" /\ r.res = "exists" /\ x.cache[t] # None /\ Left(e, r)
           \/ e.res # "ok" /\ r.res = e.res /\ Left(e, r)
      <3>1. CASE e.res = "ok" /\ x.cache[t] = None
        BY Zenon, <1>1, <1>4, <2>3, <2>8, <2>10, <3>1, CacheAddIs DEF Succeeds
      <3>2. CASE ~(e.res = "ok" /\ x.cache[t] = None)
        <4>1. Fails(e, r, "exists")
          BY Zenon, <1>1, <1>4, <2>3, <2>8, <2>10, <3>2, CacheAddIs
        <4> QED
          BY Zenon, <3>2, <4>1 DEF Fails
      <3> QED
        BY Zenon, <3>1, <3>2
    <2>14. r.res = "ok" =>
              /\ x.cache[t] = None
              /\ r.cache = With(x.cache, t, o)
              /\ r.rows = With(x.rows, t, o)
              /\ r.stores = x.stores \cup {x.cur + 1}
              /\ r.seqRows = x.seqRows
      BY Zenon, <2>6, <2>9, <2>10, <2>13 DEF CacheSet, StoresSet, RowsSet
    <2>15. r.res # "ok" => Left(e, r)
      BY Zenon, <2>13
    <2>16. x.rows[t] # None => e.rows = x.rows /\ e.stores = x.stores /\ e.res = "exists"
      BY Zenon, <2>1, <2>6, <2>7, <2>9, <2>10 DEF Left
    <2>17. x.cache = x.rows /\ r.res = "exists" => x.rows[t] # None
      BY Zenon, <2>6, <2>9, <2>13
    <2> QED
      BY Zenon, <2>10, <2>12, <2>14, <2>15, <2>16, <2>17 DEF Left
  <1> QED
    BY Zenon, <1>5, <1>6

(* Catalog.buildIndex adds the store of the index, if anything.             *)
LEMMA BuildIndexIs ==
    ASSUME NEW base, NEW late, NEW x, Sound(x, base, late),
           NEW st, x.res = "ok" => st \in Nat \ {0} /\ st <= x.cur, NEW build,
           NEW r, r = BuildIndex(x, st, build)
    PROVE  /\ Sound(r, base, late)
           /\ StoresSet(x, r, r.stores) /\ x.stores \subseteq r.stores
           /\ r.res = "ok" => x.res = "ok"
           /\ r.res = "exists" => x.res = "exists"
           /\ x.res # "ok" => r.stores = x.stores
  <1> DEFINE y == Then(x, IF build = "empty" THEN x ELSE [x EXCEPT !.stores = @ \cup {st}])
  <1>1. x \in States
    BY Zenon DEF Sound
  <1>2. Sound(y, base, late) /\ StoresSet(x, y, y.stores) /\ x.stores \subseteq y.stores
        /\ y.res = x.res /\ (x.res # "ok" => y = x)
    <2>1. CASE x.res = "ok" /\ build # "empty"
      <3> DEFINE S == x.stores \cup {st}
      <3>1. y = [x EXCEPT !.stores = S]
        BY Zenon, <2>1 DEF Then
      <3>2. S \in SUBSET (Nat \ {0}) /\ \A q \in S : q \in x.stores \/ q <= x.cur
        BY Zenon, <1>1, <2>1 DEF States
      <3>3. x.stores \subseteq S
        BY Zenon
      <3> HIDE DEF S, y
      <3>4. y \in States /\ StoresSet(x, y, S) /\ y.res = x.res
        BY Zenon, <1>1, <3>1, <3>2 DEF States, StoresSet
      <3>5. Sound(y, base, late)
        BY Zenon, <3>2, <3>4, StoresSetSound
      <3> QED
        BY Zenon, <2>1, <3>3, <3>4, <3>5 DEF StoresSet
    <2>2. CASE ~(x.res = "ok" /\ build # "empty")
      <3>1. y = x
        BY Zenon, <2>2 DEF Then
      <3> QED
        BY Zenon, <3>1 DEF StoresSet
    <2> QED
      BY Zenon, <2>1, <2>2
  <1>3. r = Check(y, build # "duplicate", "error")
    BY Zenon DEF BuildIndex
  <1> HIDE DEF y
  <1>4. Left(y, r) /\ (r.res = "ok" => y.res = "ok") /\ (r.res = "exists" => y.res = "exists")
    BY Zenon, <1>2, <1>3 DEF Check, Left, Sound, States
  <1>5. Sound(r, base, late)
    BY Zenon, <1>2, <1>4, LeftSound
  <1> QED
    BY Zenon, <1>2, <1>4, <1>5 DEF Left, StoresSet

(* Catalog.CreateIndex.  The store has a new name; with a name that is      *)
(* taken nothing changes.                                                   *)
LEMMA CreateIndexIs ==
    ASSUME Ground, NEW base, NEW late, NEW x, Sound(x, base, late),
           x.res = "ok", NEW n \in Name, NEW t \in TableName, NEW owned \in BOOLEAN,
           NEW build, NEW r, r = CreateIndex(x, n, t, owned, build),
           NEW o, o = Relation("index", t, x.cur + 1, None, owned, TypesFrom(x, t))
    PROVE  /\ Sound(r, base, late)
           /\ r.res = "ok" =>
                  /\ Is(x, "table", t) /\ x.cache[n] = None
                  /\ r.cache = With(x.cache, n, o)
                  /\ r.rows = With(x.rows, n, o)
                  /\ x.stores \subseteq r.stores
                  /\ r.seqRows = x.seqRows
           /\ x.cache = x.rows /\ r.res = "exists" =>
                  /\ r.cache = x.cache /\ r.rows = x.rows
                  /\ r.stores = x.stores /\ r.seqRows = x.seqRows
  <1> DEFINE c == Check(x, Is(x, "table", t), "error")
             y == GenerateStoreName(c)
             p == Relation("index", t, y.cur, None, owned, TypesFrom(x, t))
             d == CacheAdd(y, n, p)
             e == RowInsert(d, n, p)
             w == Check(e, GetTable(e, t), "error")
  <1>1. x \in States /\ t \in Name
    BY Zenon DEF Sound, Name
  <1>2. /\ c \in States /\ Left(x, c)
        /\ c.res = "ok" => Is(x, "table", t)
        /\ c.res \in {"ok", "error"}
    BY Zenon, <1>1 DEF Check, States, Left
  <1>3. Sound(c, base, late)
    BY Zenon, <1>2, LeftSound
  <1>4. r = BuildIndex(w, p.store, build)
    BY Zenon DEF CreateIndex
  <1> HIDE DEF c
  <1>5. CASE c.res # "ok"
    <2>1. y = c
      BY Zenon, <1>3, <1>5, GenerateStoreNameIs
    <2>0. c.res = "error"
      BY Zenon, <1>2, <1>5
    <2> HIDE DEF y, p
    <2>2. Left(y, d) /\ d.res = "error" /\ d \in States
      <3>1. Fails(y, d, "exists")
        BY Zenon, <1>2, <2>0, <2>1, CacheAddIs
      <3> QED
        BY Zenon, <2>0, <2>1, <3>1 DEF Fails, Left
    <2>3. Left(d, e) /\ e.res = "error" /\ e \in States
      <3>1. Fails(d, e, "exists")
        BY Zenon, <2>2, RowInsertIs
      <3> QED
        BY Zenon, <2>2, <3>1 DEF Fails, Left
    <2>4. w = e
      BY Zenon, <2>3 DEF Check
    <2> HIDE DEF d, e, w
    <2>5. Left(x, w) /\ w.res = "error"
      BY Zenon, <1>2, <2>1, <2>2, <2>3, <2>4 DEF Left
    <2>6. Sound(w, base, late)
      BY Zenon, <2>5, LeftSound
    <2>8. w.res # "ok" /\ w.res # "exists"
      BY Zenon, <2>5
    <2> DEFINE st == p.store
    <2> HIDE DEF st
    <2>9. r = BuildIndex(w, st, build)
      BY Zenon, <1>4 DEF st
    <2>7. Sound(r, base, late) /\ r.res # "ok" /\ r.res # "exists"
      <3>1. w.res = "ok" => st \in Nat \ {0} /\ st <= w.cur
        BY Zenon, <2>8
      <3>2. /\ Sound(r, base, late)
            /\ r.res = "ok" => w.res = "ok"
            /\ r.res = "exists" => w.res = "exists"
        BY <2>6, <2>9, <3>1, BuildIndexIs
      <3> QED
        BY Zenon, <2>8, <3>2
    <2> QED
      BY Zenon, <2>7
  <1>6. CASE c.res = "ok"
    <2>1. /\ Sound(y, base, late) /\ y \in States /\ y.res = "ok"
          /\ y.cur = x.cur + 1
          /\ y.cache = x.cache /\ y.rows = x.rows
          /\ y.stores = x.stores /\ y.seqRows = x.seqRows
      BY <1>2, <1>3, <1>6, GenerateStoreNameIs DEF Left, Succeeds
    <2>2. x.cur \in Nat /\ x.cur + 1 \in Nat \ {0} /\ x.cur + 1 <= x.cur + 1
      BY <1>1 DEF States
    <2>0. TypesFrom(x, t) \in Lists
      BY DEF TypesFrom, Lists
    <2>3. p = o /\ o \in Rel /\ o.store = x.cur + 1
      BY <2>0, <2>1, <2>2 DEF Relation, Rel, AnyRelation
    <2>4. \A m \in Name : x.cache[m] # None => x.cache[m].store # x.cur + 1
      <3>1. \A m \in Name : x.cache[m] # None => x.cache[m].store \in Nat /\ x.cache[m].store <= x.cur
        BY Zenon, <1>1 DEF Sound, Bounded, States, Caches, Rel, AnyRelation
      <3> QED
        BY <2>2, <3>1
    <2> HIDE DEF y, p
    <2>5. Fits(y, n, p)
      BY Zenon, <2>1, <2>2, <2>3, <2>4 DEF Fits
    <2>6. Sound(d, base, late) /\ d \in States
      BY Zenon, <2>1, <2>5, CallsSound, SoundTyped
    <2>7. \/ d.res = "ok" /\ x.cache[n] = None /\ CacheSet(y, d, n, o)
          \/ d.res = "exists" /\ x.cache[n] # None /\ Left(y, d)
      <3>1. CASE x.cache[n] = None
        BY Zenon, <2>1, <2>3, <3>1, CacheAddIs DEF Succeeds
      <3>2. CASE x.cache[n] # None
        <4>1. Fails(y, d, "exists")
          BY Zenon, <2>1, <2>3, <3>2, CacheAddIs
        <4> QED
          BY Zenon, <2>1, <3>2, <4>1 DEF Fails
      <3> QED
        BY Zenon, <3>1, <3>2
    <2>8. d.rows = x.rows /\ d.stores = x.stores /\ d.seqRows = x.seqRows /\ d.cur = x.cur + 1
      BY Zenon, <2>1, <2>7 DEF CacheSet, Left
    <2> HIDE DEF d
    <2>9. Sound(e, base, late) /\ e \in States
      <3>1. p \in Rel /\ p.store <= d.cur
        BY Zenon, <2>2, <2>3, <2>8
      <3> QED
        BY Zenon, <2>6, <3>1, CallsSound, SoundTyped
    <2>10. \/ d.res = "ok" /\ e.res = "ok" /\ x.rows[n] = None /\ RowsSet(d, e, With(x.rows, n, o))
           \/ d.res = "ok" /\ e.res = "exists" /\ x.rows[n] # None /\ Left(d, e)
           \/ d.res = "exists" /\ e.res = "exists" /\ Left(d, e)
      <3>1. CASE d.res = "ok" /\ x.rows[n] = None
        BY Zenon, <2>3, <2>6, <2>8, <3>1, RowInsertIs DEF Succeeds
      <3>2. CASE ~(d.res = "ok" /\ x.rows[n] = None)
        <4>1. Fails(d, e, "exists")
          BY Zenon, <2>3, <2>6, <2>8, <3>2, RowInsertIs
        <4> QED
          BY Zenon, <2>7, <3>2, <4>1 DEF Fails
      <3> QED
        BY Zenon, <3>1, <3>2
    <2>11. e.cache = d.cache /\ e.stores = x.stores /\ e.seqRows = x.seqRows /\ e.cur = x.cur + 1
      BY Zenon, <2>8, <2>10 DEF RowsSet, Left
    <2> HIDE DEF e
    <2>12. /\ Left(e, w) /\ (w.res = "ok" => e.res = "ok")
           /\ (w.res = "exists" => e.res = "exists")
      BY Zenon, <2>9 DEF Check, Left, States
    <2>13. Sound(w, base, late)
      BY Zenon, <2>9, <2>12, LeftSound
    <2>14. p.store \in Nat \ {0} /\ p.store <= w.cur
      BY Zenon, <2>2, <2>3, <2>11, <2>12 DEF Left
    <2> HIDE DEF w
    <2>15. /\ Sound(r, base, late)
           /\ StoresSet(w, r, r.stores) /\ w.stores \subseteq r.stores
           /\ r.res = "ok" => w.res = "ok"
           /\ r.res = "exists" => w.res = "exists"
      BY <1>4, <2>13, <2>14, BuildIndexIs
    <2>16. r.res = "ok" =>
              /\ Is(x, "table", t) /\ x.cache[n] = None
              /\ r.cache = With(x.cache, n, o)
              /\ r.rows = With(x.rows, n, o)
              /\ x.stores \subseteq r.stores
              /\ r.seqRows = x.seqRows
      BY Zenon, <1>2, <1>6, <2>1, <2>7, <2>10, <2>11, <2>12, <2>15
      DEF CacheSet, RowsSet, Left, StoresSet
    <2>17. ASSUME x.cache = x.rows, r.res = "exists"
           PROVE  /\ r.cache = x.cache /\ r.rows = x.rows
                  /\ r.stores = x.stores /\ r.seqRows = x.seqRows
      <3>1. w.res = "exists" /\ e.res = "exists"
        BY Zenon, <2>12, <2>15, <2>17
      <3>2. Left(y, d) /\ Left(d, e)
        BY Zenon, <2>7, <2>10, <2>17, <3>1
      <3>3. r.stores = w.stores
        BY <2>13, <2>14, <1>4, <3>1, BuildIndexIs
      <3> QED
        BY Zenon, <2>1, <2>12, <2>15, <3>2, <3>3 DEF Left, StoresSet
    <2> QED
      BY Zenon, <2>15, <2>16, <2>17
  <1> QED
    BY Zenon, <1>5, <1>6

(* Catalog.ReIndex changes the stores only, and of those only the one of    *)
(* the index may go.                                                        *)
LEMMA ReIndexIs ==
    ASSUME Ground, NEW base, NEW late, NEW x, Sound(x, base, late),
           NEW n \in Name, NEW build, NEW r, r = ReIndex(x, n, build)
    PROVE  /\ Sound(r, base, late)
           /\ r.res = "ok" =>
                  /\ x.res = "ok" /\ Is(x, "index", n)
                  /\ r.cache = x.cache /\ r.rows = x.rows /\ r.seqRows = x.seqRows
                  /\ x.stores \ {x.cache[n].store} \subseteq r.stores
           /\ r.res = "exists" => x.res = "exists"
  <1> DEFINE y  == Check(x, Is(x, "index", n), "error")
             z  == Then(y, Check(y, GetTable(y, x.cache[n].tbl), "error"))
             st == x.cache[n].store
             S  == z.stores \ {st}
             w  == [z EXCEPT !.stores = S]
  <1>1. x \in States
    BY Zenon DEF Sound
  <1>2. /\ Left(x, z)
        /\ z.res = "ok" => x.res = "ok" /\ Is(x, "index", n)
        /\ z.res = "exists" => x.res = "exists"
    BY Zenon, <1>1 DEF Left, Check, Then, States
  <1>3. Sound(z, base, late) /\ z \in States
    BY Zenon, <1>2, LeftSound DEF Left
  <1>4. r = Then(z, BuildIndex(w, st, build))
    BY Zenon DEF ReIndex
  <1> HIDE DEF y, z
  <1>5. CASE z.res # "ok"
    <2>1. r = z
      BY Zenon, <1>4, <1>5 DEF Then
    <2>2. Sound(r, base, late)
      BY Zenon, <1>3, <2>1
    <2>3. r.res # "ok" /\ (r.res = "exists" => x.res = "exists")
      BY <1>2, <1>5, <2>1
    <2> QED
      BY Zenon, <2>2, <2>3
  <1>6. CASE z.res = "ok"
    <2>1. r = BuildIndex(w, st, build)
      BY Zenon, <1>4, <1>6 DEF Then
    <2>2. S \in SUBSET (Nat \ {0}) /\ \A q \in S : q \in z.stores \/ q <= z.cur
      BY Zenon, <1>3 DEF States
    <2> HIDE DEF S
    <2>3. w \in States /\ StoresSet(z, w, S) /\ w.res = "ok"
      BY Zenon, <1>3, <1>6, <2>2 DEF States, StoresSet
    <2> HIDE DEF w
    <2>4. Sound(w, base, late)
      BY Zenon, <1>3, <2>2, <2>3, StoresSetSound
    <2>5. st \in Nat \ {0} /\ st <= w.cur
      <3>1. x.cache[n] \in Rel /\ x.cache[n] # None /\ x.cache[n].type = "index"
        BY Zenon, <1>1, <1>2, <1>6 DEF Is, States, Caches
      <3>2. st \in Nat \ {0}
        BY Zenon, <3>1 DEF Rel, AnyRelation
      <3>3. st <= x.cur
        BY Zenon, <3>1 DEF Sound, Bounded
      <3> QED
        BY Zenon, <1>2, <2>3, <3>2, <3>3 DEF Left, StoresSet
    <2> HIDE DEF st
    <2>6. /\ Sound(r, base, late)
          /\ StoresSet(w, r, r.stores) /\ w.stores \subseteq r.stores
          /\ r.res = "ok" => w.res = "ok"
          /\ r.res = "exists" => w.res = "exists"
      BY <2>1, <2>4, <2>5, BuildIndexIs
    <2>7. S = x.stores \ {st}
      BY Zenon, <1>2 DEF Left, S
    <2> QED
      BY Zenon, <1>2, <1>6, <2>3, <2>6, <2>7 DEF StoresSet, Left, st
  <1> QED
    BY Zenon, <1>5, <1>6

-----------------------------------------------------------------------------
(* Induction up to a number, over a set of the numbers reached.             *)
LEMMA ReachesAll ==
    ASSUME Ground, NEW N \in Nat, NEW T, 0 \in T,
           \A i \in 0 .. N : i \in T /\ i < N => i + 1 \in T
    PROVE  \A i \in 0 .. N : i \in T
  <1> DEFINE Missed == {i \in 0 .. N : i \notin T}
  <1>1. ASSUME Missed # {}
        PROVE  FALSE
    <2>1. Missed \in SUBSET Nat
      OBVIOUS
    <2> HIDE DEF Missed
    <2>2. PICK x \in Missed : \A y \in Missed : x <= y
      BY Zenon, <1>1, <2>1 DEF Ground, Least
    <2>3. \A y \in Missed : ~(y < x)
      BY <2>1, <2>2
    <2>4. x \in 0 .. N /\ x \notin T /\ x # 0 /\ x - 1 \in 0 .. N /\ x - 1 < N
      BY DEF Missed
    <2>5. x - 1 \in T
      BY <2>3, <2>4 DEF Missed
    <2>6. x - 1 + 1 = x
      BY <2>4
    <2> QED
      BY Zenon, <2>4, <2>5, <2>6
  <1> QED
    BY Zenon, <1>1

(* The loops over the indexes of a table and over the hooks are functions   *)
(* of the number of rounds: f[i] is what round i leaves.                    *)
IsFold(f, N, x, F) == f = [i \in 0 .. N |-> IF i = 0 THEN x ELSE F[i][f[i - 1]]]

(* If round i of the loop in Catalog.DropTable, ReIndex or Rollback leaves  *)
(* something in S[i] whenever it starts from something in S[i - 1], the     *)
(* loop has a result after each round, and that is in S[i].                 *)
LEMMA FoldExists ==
    ASSUME Ground, NEW N \in Nat, NEW S, NEW x, x \in S[0], NEW F,
           \A i \in 1 .. N : \A y \in S[i - 1] : F[i][y] \in S[i]
    PROVE  \E f : IsFold(f, N, x, F) /\ \A i \in 0 .. N : f[i] \in S[i]
  <1> DEFINE Known(f, k) == \A i \in 0 .. k : f[i] \in S[i]
             T == {k \in 0 .. N : \E f : IsFold(f, k, x, F) /\ Known(f, k)}
  <1>1. 0 \in T
    <2> DEFINE f == [i \in 0 .. 0 |-> x]
    <2>1. 0 .. 0 = {0}
      OBVIOUS
    <2>2. IsFold(f, 0, x, F) /\ Known(f, 0)
      BY Zenon, <2>1 DEF IsFold
    <2> QED
      BY <2>2
  <1>2. ASSUME NEW i \in 0 .. N, i \in T, i < N
        PROVE  i + 1 \in T
    <2>1. PICK f : IsFold(f, i, x, F) /\ Known(f, i)
      BY Zenon, <1>2
    <2>2. \A j \in 0 .. i : f[j] = IF j = 0 THEN x ELSE F[j][f[j - 1]]
      BY Zenon, <2>1 DEF IsFold
    <2> DEFINE g == [j \in 0 .. i + 1 |-> IF j = i + 1 THEN F[i + 1][f[i]] ELSE f[j]]
    <2>3. /\ \A j \in 0 .. i : g[j] = f[j]
          /\ g[i + 1] = F[i + 1][f[i]]
          /\ g = [j \in 0 .. i + 1 |-> g[j]]
      OBVIOUS
    <2> HIDE DEF g
    <2>4. ASSUME NEW j \in 0 .. i + 1
          PROVE  g[j] = (IF j = 0 THEN x ELSE F[j][g[j - 1]]) /\ g[j] \in S[j]
      <3>1. CASE j = i + 1
        <4>1. i \in 0 .. i /\ j - 1 = i /\ j # 0 /\ i + 1 \in 1 .. N /\ i + 1 - 1 = i
          BY <1>2, <3>1
        <4>2. F[i + 1][f[i]] \in S[i + 1]
          <5>1. f[i] \in S[i + 1 - 1]
            BY Zenon, <2>1, <4>1
          <5> QED
            BY <4>1, <5>1
        <4> QED
          BY Zenon, <2>3, <3>1, <4>1, <4>2
      <3>2. CASE j # i + 1
        <4>1. j \in 0 .. i /\ (j # 0 => j - 1 \in 0 .. i)
          BY <3>2
        <4> QED
          BY Zenon, <2>1, <2>2, <2>3, <4>1
      <3> QED
        BY Zenon, <3>1, <3>2
    <2>5. IsFold(g, i + 1, x, F) /\ Known(g, i + 1)
      BY Zenon, <2>3, <2>4 DEF IsFold
    <2> QED
      BY <1>2, <2>5
  <1> HIDE DEF T
  <1>3. \A i \in 0 .. N : i \in T
    BY Zenon, <1>1, <1>2, ReachesAll
  <1>4. N \in T
    BY <1>3
  <1> QED
    BY Zenon, <1>4 DEF T

(* What is known of each round is known of the last.                        *)
LEMMA FoldKnown ==
    ASSUME Ground, NEW N \in Nat, NEW S, NEW f, f[0] \in S[0],
           \A i \in 1 .. N : f[i - 1] \in S[i - 1] => f[i] \in S[i]
    PROVE  f[N] \in S[N]
  <1> DEFINE T == {i \in 0 .. N : f[i] \in S[i]}
  <1>1. 0 \in T
    OBVIOUS
  <1>2. ASSUME NEW i \in 0 .. N, i \in T, i < N
        PROVE  i + 1 \in T
    <2>1. i + 1 \in 1 .. N /\ i + 1 - 1 = i /\ i + 1 \in 0 .. N
      BY <1>2
    <2>2. f[i + 1] \in S[i + 1]
      BY <1>2, <2>1
    <2> QED
      BY Zenon, <2>1, <2>2
  <1> HIDE DEF T
  <1>3. \A i \in 0 .. N : i \in T
    BY Zenon, <1>1, <1>2, ReachesAll
  <1>4. N \in T
    BY <1>3
  <1> QED
    BY Zenon, <1>4 DEF T

(* Names are finitely many, and the order of a map lists a set of them.     *)
LEMMA MapOrderLists ==
    ASSUME Ground, NEW ns \in SUBSET Name
    PROVE  /\ Cardinality(ns) \in Nat
           /\ MapOrder(ns) \in [1 .. Cardinality(ns) -> ns]
           /\ ns = {MapOrder(ns)[i] : i \in 1 .. Cardinality(ns)}
  <1> DEFINE N == Cardinality(ns)
             q == MapOrder(ns)
  <1>1. N \in Nat /\ \E p \in [1 .. N -> ns] : \A n \in ns : \E i \in 1 .. N : p[i] = n
    BY Zenon DEF Ground, Listed
  <1>2. q \in [1 .. N -> ns] /\ \A n \in ns : \E i \in 1 .. N : q[i] = n
    BY Zenon, <1>1 DEF MapOrder
  <1> HIDE DEF N, q
  <1>3. ns = {q[i] : i \in 1 .. N}
    BY Zenon, <1>2
  <1> QED
    BY Zenon, <1>1, <1>2, <1>3 DEF N, q

(* Catalog.dropIndex of an index of the cache.                              *)
LEMMA DropOneIndexIs ==
    ASSUME Ground, NEW base, NEW late, NEW x, Sound(x, base, late),
           NEW n \in Name, NEW r, r = DropOneIndex(x, n)
    PROVE  /\ Sound(r, base, late)
           /\ r.res = "ok" =>
                  /\ x.res = "ok" /\ Is(x, "index", n)
                  /\ r.cache = With(x.cache, n, None)
                  /\ r.rows = With(x.rows, n, None)
                  /\ r.stores = x.stores
                  /\ r.seqRows = x.seqRows
  <1> DEFINE a == CacheDelete(x, "index", n)
  <1>1. x \in States
    BY Zenon DEF Sound
  <1>2. Sound(a, base, late) /\ a \in States
    BY Zenon, CallsSound, SoundTyped
  <1>3. r = RowDelete(a, n)
    BY Zenon DEF DropOneIndex, DropIndexRow
  <1>4. a.res = "ok" => x.res = "ok" /\ Is(x, "index", n) /\ CacheSet(x, a, n, None)
    BY Zenon, <1>1, CacheDeleteIs DEF Fails
  <1> HIDE DEF a
  <1>5. Sound(r, base, late)
    BY Zenon, <1>2, <1>3, CallsSound
  <1>6. r.res = "ok" => a.res = "ok" /\ RowsSet(a, r, With(a.rows, n, None))
    BY Zenon, <1>2, <1>3, RowDeleteIs DEF Fails
  <1> QED
    BY Zenon, <1>4, <1>5, <1>6 DEF CacheSet, RowsSet

(* c without the names in ns.                                               *)
Without(c, ns) == [n \in Name |-> IF n \in ns THEN None ELSE c[n]]

(* Catalog.DropTable drops the indexes of the table one after the other.    *)
LEMMA DropIndexesIs ==
    ASSUME Ground, NEW base, NEW late, NEW x, Sound(x, base, late),
           NEW ns \in SUBSET Name, NEW r, r = DropIndexes(x, ns)
    PROVE  /\ Sound(r, base, late)
           /\ r.res = "ok" =>
                  /\ x.res = "ok"
                  /\ r.cache = Without(x.cache, ns)
                  /\ r.rows = Without(x.rows, ns)
                  /\ r.stores = x.stores
                  /\ r.seqRows = x.seqRows
  <1> DEFINE N == Cardinality(ns)
             q == MapOrder(ns)
             A(i) == {q[j] : j \in 1 .. i}
             S == [i \in 0 .. N |->
                     {y \in States :
                        /\ Sound(y, base, late)
                        /\ y.res = "ok" =>
                              /\ x.res = "ok"
                              /\ y.cache = Without(x.cache, A(i))
                              /\ y.rows = Without(x.rows, A(i))
                              /\ y.stores = x.stores
                              /\ y.seqRows = x.seqRows}]
             F == [i \in 1 .. N |-> [y \in States |-> DropOneIndex(y, q[i])]]
             after == CHOOSE f : f = [i \in 0 .. N |->
                                        IF i = 0 THEN x ELSE DropOneIndex(f[i - 1], q[i])]
  <1>1. N \in Nat /\ q \in [1 .. N -> ns] /\ ns = A(N)
    BY Zenon, MapOrderLists
  <1>2. r = after[N]
    BY Zenon DEF DropIndexes
  <1> HIDE DEF N, q
  <1>3. x \in S[0]
    <2>1. A(0) = {} /\ x \in States
      BY DEF Sound
    <2>2. x.cache = Without(x.cache, {}) /\ x.rows = Without(x.rows, {})
      BY Zenon, <2>1 DEF Without, States, Caches
    <2>3. 0 \in 0 .. N
      BY <1>1
    <2> QED
      BY Zenon, <2>1, <2>2, <2>3
  <1>4. ASSUME NEW i \in 1 .. N, NEW y \in S[i - 1]
        PROVE  F[i][y] \in S[i]
    <2>1. i - 1 \in 0 .. N /\ i \in 0 .. N /\ i \in Nat
      BY <1>1
    <2>2. /\ y \in States /\ Sound(y, base, late)
          /\ y.res = "ok" =>
                /\ x.res = "ok"
                /\ y.cache = Without(x.cache, A(i - 1))
                /\ y.rows = Without(x.rows, A(i - 1))
                /\ y.stores = x.stores
                /\ y.seqRows = x.seqRows
      BY Zenon, <2>1
    <2>3. F[i][y] = DropOneIndex(y, q[i]) /\ q[i] \in Name
      BY Zenon, <1>1, <2>2
    <2>4. A(i) = A(i - 1) \cup {q[i]}
      <3>1. 1 .. i = (1 .. (i - 1)) \cup {i}
        BY <2>1
      <3> QED
        BY Zenon, <3>1
    <2> DEFINE z == DropOneIndex(y, q[i])
               m == q[i]
               B == A(i - 1)
    <2>5. z = DropOneIndex(y, m) /\ m \in Name /\ A(i) = B \cup {m}
      BY Zenon, <2>3, <2>4
    <2> HIDE DEF z, m, A, B
    <2>6. /\ Sound(z, base, late) /\ z \in States
          /\ z.res = "ok" =>
                /\ y.res = "ok"
                /\ z.cache = With(y.cache, m, None)
                /\ z.rows = With(y.rows, m, None)
                /\ z.stores = y.stores
                /\ z.seqRows = y.seqRows
      <3>1. /\ Sound(z, base, late)
            /\ z.res = "ok" =>
                  /\ y.res = "ok" /\ Is(y, "index", m)
                  /\ z.cache = With(y.cache, m, None)
                  /\ z.rows = With(y.rows, m, None)
                  /\ z.stores = y.stores
                  /\ z.seqRows = y.seqRows
        BY <2>2, <2>5, DropOneIndexIs
      <3> QED
        BY Zenon, <3>1 DEF Sound
    <2>7. \A c : With(Without(c, B), m, None) = Without(c, B \cup {m})
      BY Zenon, <2>5 DEF With, Without
    <2>8. z \in S[i]
      BY Zenon, <2>1, <2>2, <2>5, <2>6, <2>7 DEF B
    <2> QED
      BY Zenon, <2>3, <2>8 DEF z
  <1> HIDE DEF S
  <1>5. PICK f : IsFold(f, N, x, F) /\ \A i \in 0 .. N : f[i] \in S[i]
    <2> HIDE DEF F
    <2> QED
      BY Zenon, <1>1, <1>3, <1>4, FoldExists
  <1>6. f = [i \in 0 .. N |-> IF i = 0 THEN x ELSE DropOneIndex(f[i - 1], q[i])]
    <2>1. ASSUME NEW i \in 0 .. N, i # 0
          PROVE  F[i][f[i - 1]] = DropOneIndex(f[i - 1], q[i])
      <3>1. i \in 1 .. N /\ i - 1 \in 0 .. N
        BY <1>1, <2>1
      <3>2. f[i - 1] \in States
        BY Zenon, <1>5, <3>1 DEF S
      <3> QED
        BY Zenon, <3>1, <3>2
    <2> HIDE DEF F
    <2> QED
      BY Zenon, <1>5, <2>1 DEF IsFold
  <1>7. after = [i \in 0 .. N |-> IF i = 0 THEN x ELSE DropOneIndex(after[i - 1], q[i])]
    BY Zenon, <1>6
  <1> HIDE DEF after
  <1>8. after[N] \in S[N]
    <2>1. after[0] \in S[0]
      <3>1. 0 \in 0 .. N
        BY <1>1
      <3> QED
        BY Zenon, <1>3, <1>7, <3>1
    <2>2. ASSUME NEW i \in 1 .. N, after[i - 1] \in S[i - 1]
          PROVE  after[i] \in S[i]
      <3>1. i \in 0 .. N /\ i # 0 /\ i - 1 \in 0 .. N
        BY <1>1
      <3>2. after[i] = DropOneIndex(after[i - 1], q[i])
        BY Zenon, <1>7, <3>1
      <3>3. after[i - 1] \in States
        BY Zenon, <2>2, <3>1 DEF S
      <3>4. F[i][after[i - 1]] = DropOneIndex(after[i - 1], q[i])
        BY Zenon, <3>3
      <3> QED
        BY Zenon, <1>4, <2>2, <3>2, <3>4
    <2> HIDE DEF F
    <2> QED
      BY Zenon, <1>1, <2>1, <2>2, FoldKnown
  <1>9. N \in 0 .. N
    BY <1>1
  <1> HIDE DEF F, A
  <1> QED
    BY Zenon, <1>1, <1>2, <1>8, <1>9 DEF S

(* REINDEX rebuilds one index after the other.  Only stores of the indexes  *)
(* it rebuilds may go.                                                      *)
LEMMA ReIndexesIs ==
    ASSUME Ground, NEW base, NEW late, NEW x, Sound(x, base, late),
           NEW ns \in SUBSET Name, NEW build, NEW r, r = ReIndexStmt(x, ns, build)
    PROVE  /\ Sound(r, base, late)
           /\ r.res = "ok" =>
                  /\ x.res = "ok"
                  /\ r.cache = x.cache /\ r.rows = x.rows /\ r.seqRows = x.seqRows
                  /\ \A st \in x.stores :
                        (\A n \in Name : Is(x, "index", n) => x.cache[n].store # st)
                           => st \in r.stores
  <1> DEFINE N == Cardinality(ns)
             q == MapOrder(ns)
             K == {y \in States :
                        /\ Sound(y, base, late)
                        /\ y.res = "ok" =>
                              /\ x.res = "ok"
                              /\ y.cache = x.cache /\ y.rows = x.rows /\ y.seqRows = x.seqRows
                              /\ \A st \in x.stores :
                                    (\A n \in Name : Is(x, "index", n) => x.cache[n].store # st)
                                       => st \in y.stores}
             S == [i \in 0 .. N |-> K]
             F == [i \in 1 .. N |-> [y \in States |-> ReIndex(y, q[i], build)]]
             after == CHOOSE f : f = [i \in 0 .. N |->
                                        IF i = 0 THEN x ELSE ReIndex(f[i - 1], q[i], build)]
  <1>1. N \in Nat /\ q \in [1 .. N -> ns]
    BY Zenon, MapOrderLists
  <1>2. r = after[N]
    BY Zenon DEF ReIndexStmt
  <1> HIDE DEF N, q
  <1>3. x \in K
    BY Zenon DEF Sound
  <1>4. ASSUME NEW i \in 1 .. N, NEW y \in K
        PROVE  ReIndex(y, q[i], build) \in K
    <2> DEFINE z == ReIndex(y, q[i], build)
               m == q[i]
    <2>1. z = ReIndex(y, m, build) /\ m \in Name /\ Sound(y, base, late)
      BY Zenon, <1>1
    <2> HIDE DEF z, m
    <2>2. /\ Sound(z, base, late)
          /\ z.res = "ok" =>
                /\ y.res = "ok" /\ Is(y, "index", m)
                /\ z.cache = y.cache /\ z.rows = y.rows /\ z.seqRows = y.seqRows
                /\ y.stores \ {y.cache[m].store} \subseteq z.stores
      BY <2>1, ReIndexIs
    <2>3. z \in States
      BY Zenon, <2>2 DEF Sound
    <2>4. z.res = "ok" => Is(x, "index", m) /\ y.cache[m].store = x.cache[m].store
      BY Zenon, <2>2 DEF Is
    <2>5. z \in K
      BY Zenon, <2>1, <2>2, <2>3, <2>4
    <2> QED
      BY Zenon, <2>5 DEF z
  <1> HIDE DEF K
  <1>5. /\ x \in S[0]
        /\ \A i \in 1 .. N : \A y \in S[i - 1] : F[i][y] \in S[i]
    <2>1. K \subseteq States
      BY Zenon DEF K
    <2>2. \A i \in 1 .. N : i \in 0 .. N /\ i - 1 \in 0 .. N
      BY <1>1
    <2>3. 0 \in 0 .. N
      BY <1>1
    <2> QED
      BY Zenon, <1>3, <1>4, <2>1, <2>2, <2>3
  <1>6. PICK f : IsFold(f, N, x, F) /\ \A i \in 0 .. N : f[i] \in S[i]
    <2> HIDE DEF F, S
    <2> QED
      BY Zenon, <1>1, <1>5, FoldExists
  <1>7. f = [i \in 0 .. N |-> IF i = 0 THEN x ELSE ReIndex(f[i - 1], q[i], build)]
    <2>1. ASSUME NEW i \in 0 .. N, i # 0
          PROVE  F[i][f[i - 1]] = ReIndex(f[i - 1], q[i], build)
      <3>1. i \in 1 .. N /\ i - 1 \in 0 .. N
        BY <1>1, <2>1
      <3>2. f[i - 1] \in States
        BY Zenon, <1>6, <3>1 DEF K
      <3> QED
        BY Zenon, <3>1, <3>2
    <2> HIDE DEF F
    <2> QED
      BY Zenon, <1>6, <2>1 DEF IsFold
  <1>8. after = [i \in 0 .. N |-> IF i = 0 THEN x ELSE ReIndex(after[i - 1], q[i], build)]
    BY Zenon, <1>7
  <1> HIDE DEF after
  <1>9. after[N] \in S[N]
    <2>1. after[0] \in S[0]
      <3>1. 0 \in 0 .. N
        BY <1>1
      <3> QED
        BY Zenon, <1>5, <1>8, <3>1
    <2>2. ASSUME NEW i \in 1 .. N, after[i - 1] \in S[i - 1]
          PROVE  after[i] \in S[i]
      <3>1. i \in 0 .. N /\ i # 0 /\ i - 1 \in 0 .. N
        BY <1>1
      <3>2. after[i] = ReIndex(after[i - 1], q[i], build)
        BY Zenon, <1>8, <3>1
      <3> QED
        BY Zenon, <1>4, <2>2, <3>1, <3>2
    <2> HIDE DEF S
    <2> QED
      BY Zenon, <1>1, <2>1, <2>2, FoldKnown
  <1>10. after[N] \in K
    BY <1>1, <1>9
  <1> QED
    BY Zenon, <1>2, <1>10 DEF K

(* The hooks, run from the last to the first, put back the cache as it was. *)
LEMMA HooksUndo ==
    ASSUME Ground, NEW base, NEW x \in States, Undoes(x.hooks, x.cache, base)
    PROVE  RunHooks(x) = base
  <1> DEFINE N == Len(x.hooks)
             Put(c, i) == [c EXCEPT ![x.hooks[N + 1 - i].name] = x.hooks[N + 1 - i].old]
             F == [i \in 1 .. N |-> [c \in Caches |-> Put(c, i)]]
             after == CHOOSE f : f = [i \in 0 .. N |->
                                        IF i = 0 THEN x.cache ELSE Put(f[i - 1], i)]
  <1>1. N \in Nat
    BY DEF States
  <1>2. RunHooks(x) = after[N]
    BY Zenon DEF RunHooks
  <1>3. PICK g \in [0 .. N -> Caches] :
              /\ g[0] = base
              /\ g[N] = x.cache
              /\ \A i \in 1 .. N : g[i - 1] = [g[i] EXCEPT ![x.hooks[i].name] = x.hooks[i].old]
    BY Zenon DEF Undoes
  <1> DEFINE S == [i \in 0 .. N |-> {g[N - i]}]
  <1>4. ASSUME NEW i \in 1 .. N
        PROVE  /\ i \in 0 .. N /\ i - 1 \in 0 .. N /\ i # 0
               /\ g[N - (i - 1)] \in Caches /\ g[N - i] = Put(g[N - (i - 1)], i)
    <2> DEFINE k == N + 1 - i
    <2>1. k \in 1 .. N /\ N - (i - 1) = k /\ N - i = k - 1 /\ k \in 0 .. N
      BY <1>1
    <2>2. i \in 0 .. N /\ i - 1 \in 0 .. N /\ i # 0
      BY <1>1
    <2> HIDE DEF N, k
    <2>3. g[k - 1] = [g[k] EXCEPT ![x.hooks[k].name] = x.hooks[k].old] /\ g[k] \in Caches
      BY Zenon, <1>3, <2>1
    <2>4. \A c : Put(c, i) = [c EXCEPT ![x.hooks[k].name] = x.hooks[k].old]
      BY Zenon DEF k
    <2> HIDE DEF Put
    <2> QED
      BY Zenon, <2>1, <2>2, <2>3, <2>4
  <1>5. 0 \in 0 .. N /\ N \in 0 .. N /\ N - 0 = N /\ N - N = 0
    BY <1>1
  <1> HIDE DEF N, Put
  <1>6. x.cache \in S[0]
    BY Zenon, <1>3, <1>5
  <1>7. PICK f : IsFold(f, N, x.cache, F) /\ \A i \in 0 .. N : f[i] \in S[i]
    <2>1. \A i \in 1 .. N : \A y \in S[i - 1] : F[i][y] \in S[i]
      BY Zenon, <1>4
    <2> HIDE DEF F, S
    <2> QED
      BY Zenon, <1>1, <1>6, <2>1, FoldExists
  <1>8. f = [i \in 0 .. N |-> IF i = 0 THEN x.cache ELSE Put(f[i - 1], i)]
    <2>1. ASSUME NEW i \in 0 .. N, i # 0
          PROVE  F[i][f[i - 1]] = Put(f[i - 1], i)
      <3>1. i \in 1 .. N
        BY <1>1, <2>1
      <3>2. f[i - 1] \in Caches
        BY Zenon, <1>4, <1>7, <3>1
      <3> QED
        BY Zenon, <3>1, <3>2
    <2> HIDE DEF F
    <2> QED
      BY Zenon, <1>7, <2>1 DEF IsFold
  <1>9. after = [i \in 0 .. N |-> IF i = 0 THEN x.cache ELSE Put(after[i - 1], i)]
    BY Zenon, <1>8
  <1> HIDE DEF after
  <1>10. after[N] \in S[N]
    <2>1. after[0] \in S[0]
      BY Zenon, <1>5, <1>6, <1>9
    <2>2. ASSUME NEW i \in 1 .. N, after[i - 1] \in S[i - 1]
          PROVE  after[i] \in S[i]
      <3>1. after[i] = Put(after[i - 1], i)
        BY Zenon, <1>4, <1>9
      <3> QED
        BY Zenon, <1>4, <2>2, <3>1
    <2> HIDE DEF S
    <2> QED
      BY Zenon, <1>1, <2>1, <2>2, FoldKnown
  <1> QED
    BY Zenon, <1>2, <1>3, <1>5, <1>10

-----------------------------------------------------------------------------
(* Catalog.DropTable: the table goes with its indexes and its store.        *)
LEMMA DropTableIs ==
    ASSUME Ground, NEW base, NEW late, NEW x, Sound(x, base, late),
           NEW t \in TableName, NEW r, r = DropTable(x, t),
           NEW ns, ns = TableIndexes(x, t)
    PROVE  /\ Sound(r, base, late)
           /\ r.res = "ok" =>
                  /\ x.res = "ok" /\ (t \notin ns => Is(x, "table", t))
                  /\ r.cache = With(Without(x.cache, ns), t, None)
                  /\ r.rows = With(Without(x.rows, ns), t, None)
                  /\ r.stores = x.stores \ {x.cache[t].store}
                  /\ r.seqRows = x.seqRows
  <1> DEFINE y == DropIndexes(x, ns)
             a == CacheDelete(y, "table", t)
             b == RowDelete(a, t)
             st == x.cache[t].store
  <1>1. ns \in SUBSET Name /\ t \in Name
    BY Zenon DEF TableIndexes, Name
  <1>2. /\ Sound(y, base, late)
        /\ y.res = "ok" =>
              /\ x.res = "ok"
              /\ y.cache = Without(x.cache, ns)
              /\ y.rows = Without(x.rows, ns)
              /\ y.stores = x.stores
              /\ y.seqRows = x.seqRows
    BY <1>1, DropIndexesIs
  <1>3. r = DropStore(b, st)
    BY Zenon DEF DropTable
  <1> HIDE DEF y, st
  <1>4. Sound(a, base, late) /\ a \in States /\ y \in States
    BY Zenon, <1>1, <1>2, CallsSound, SoundTyped
  <1>5. a.res = "ok" => y.res = "ok" /\ Is(y, "table", t) /\ CacheSet(y, a, t, None)
    BY Zenon, <1>1, <1>4, CacheDeleteIs DEF Fails
  <1> HIDE DEF a
  <1>6. Sound(b, base, late) /\ b \in States
    BY Zenon, <1>1, <1>4, CallsSound, SoundTyped
  <1>7. b.res = "ok" => a.res = "ok" /\ RowsSet(a, b, With(a.rows, t, None))
    BY Zenon, <1>1, <1>4, RowDeleteIs DEF Fails
  <1> HIDE DEF b
  <1>8. Sound(r, base, late)
    BY Zenon, <1>1, <1>3, <1>6, CallsSound
  <1>9. r.res = "ok" => b.res = "ok" /\ StoresSet(b, r, b.stores \ {st})
    BY Zenon, <1>3, <1>6, DropStoreIs DEF Fails
  <1>10. r.res = "ok" => x.res = "ok" /\ (t \notin ns => Is(x, "table", t))
    BY Zenon, <1>1, <1>2, <1>5, <1>7, <1>9 DEF Is, Without
  <1>11. r.res = "ok" => /\ r.cache = With(Without(x.cache, ns), t, None)
                         /\ r.rows = With(Without(x.rows, ns), t, None)
    BY Zenon, <1>2, <1>5, <1>7, <1>9 DEF CacheSet, RowsSet, StoresSet
  <1>12. r.res = "ok" => r.stores = x.stores \ {st} /\ r.seqRows = x.seqRows
    BY Zenon, <1>2, <1>5, <1>7, <1>9 DEF CacheSet, RowsSet, StoresSet
  <1> QED
    BY Zenon, <1>8, <1>10, <1>11, <1>12 DEF st

(* Catalog.DropIndex.                                                       *)
LEMMA DropIndexIs ==
    ASSUME Ground, NEW base, NEW late, NEW x, Sound(x, base, late),
           NEW n \in Name, NEW r, r = DropIndex(x, n)
    PROVE  /\ Sound(r, base, late)
           /\ r.res = "ok" =>
                  /\ x.res = "ok" /\ Is(x, "index", n)
                  /\ r.cache = With(x.cache, n, None)
                  /\ r.rows = With(x.rows, n, None)
                  /\ r.stores = x.stores
                  /\ r.seqRows = x.seqRows
  <1> DEFINE y == Check(x, Is(x, "index", n) /\ ~x.cache[n].owned, "error")
  <1>1. Left(x, y) /\ (y.res = "ok" => x.res = "ok" /\ y = x)
    BY Zenon DEF Check, Left, Sound, States
  <1>2. Sound(y, base, late)
    BY Zenon, <1>1, LeftSound
  <1>3. r = DropOneIndex(y, n)
    BY Zenon DEF DropIndex
  <1> HIDE DEF y
  <1>4. /\ Sound(r, base, late)
        /\ r.res = "ok" =>
               /\ y.res = "ok" /\ Is(y, "index", n)
               /\ r.cache = With(y.cache, n, None)
               /\ r.rows = With(y.rows, n, None)
               /\ r.stores = y.stores
               /\ r.seqRows = y.seqRows
    BY <1>2, <1>3, DropOneIndexIs
  <1> QED
    BY Zenon, <1>1, <1>4

(* o is a table with the store and the docid sequence of p.                 *)
SameTable(o, p) ==
    o \in Rel /\ o.type = "table" /\ o.store = p.store /\ o.docid = p.docid

(* Catalog.AddFieldConstraint.                                              *)
LEMMA AddFieldIs ==
    ASSUME Ground, NEW base, NEW late, NEW x, Sound(x, base, late),
           NEW t \in TableName, NEW on, NEW r, r = AddFieldConstraint(x, t, on)
    PROVE  /\ Sound(r, base, late)
           /\ r.res = "ok" =>
                  /\ x.res = "ok" /\ Is(x, "table", t)
                  /\ \E o : /\ SameTable(o, x.cache[t]) /\ o.tbl = x.cache[t].tbl
                            /\ r.cache = With(x.cache, t, o)
                            /\ r.rows = With(x.rows, t, o)
                  /\ r.stores = x.stores
                  /\ r.seqRows = x.seqRows
  <1> DEFINE y == Check(x, Is(x, "table", t) /\ on # "conflict", "error")
             f == x.cache[t].fields
             g == IF on = "inferred" \/ f = "none" THEN "flat" ELSE f
             o == [x.cache[t] EXCEPT !.fields = g]
             a == CacheReplace(y, t, o)
  <1>1. x \in States /\ t \in Name
    BY Zenon DEF Sound, Name
  <1>2. /\ Left(x, y)
        /\ y.res = "ok" => x.res = "ok" /\ Is(x, "table", t) /\ y = x
    BY Zenon, <1>1 DEF Check, Left, States
  <1>3. Sound(y, base, late) /\ y \in States
    BY Zenon, <1>2, LeftSound DEF Left
  <1>4. r = Then(y, RowReplace(a, t, o))
    BY Zenon DEF AddFieldConstraint
  <1>5. CASE y.res # "ok"
    <2> HIDE DEF y
    <2> QED
      BY Zenon, <1>3, <1>4, <1>5 DEF Then
  <1>6. CASE y.res = "ok"
    <2>1. y = x /\ x.res = "ok" /\ Is(x, "table", t)
      BY Zenon, <1>2, <1>6
    <2>2. x.cache[t] \in Rel /\ x.cache[t] # None
      BY Zenon, <1>1, <2>1 DEF Is, States, Caches
    <2>0. g \in Lists
      BY Zenon, <2>2 DEF Rel, AnyRelation, Lists
    <2>3. SameTable(o, x.cache[t]) /\ o.tbl = x.cache[t].tbl
      <3> HIDE DEF g
      <3> QED
        BY <2>0, <2>1, <2>2 DEF Is, Rel, AnyRelation, SameTable
    <2> HIDE DEF y, o
    <2>4. Fits(x, t, o)
      <3>1. x.cache[t].store <= x.cur
        BY Zenon, <1>1, <2>2 DEF Sound, Bounded
      <3>2. x.cache[t].store # 0 =>
              \A m \in Name : m # t /\ x.cache[m] # None => x.cache[m].store # x.cache[t].store
        BY Zenon, <1>1, <2>2 DEF Sound, Apart
      <3> QED
        BY Zenon, <2>3, <3>1, <3>2 DEF Fits, SameTable
    <2>5. Sound(a, base, late) /\ a \in States
      BY Zenon, <1>1, <2>1, <2>4, CallsSound, SoundTyped
    <2>6. a.res = "ok" /\ CacheSet(x, a, t, o)
      BY Zenon, <1>1, <2>1, <2>3, CacheReplaceIs DEF SameTable, Succeeds
    <2> HIDE DEF a
    <2>7. r = RowReplace(a, t, o)
      BY Zenon, <1>4, <1>6 DEF Then
    <2>8. o \in Rel /\ o.store <= a.cur
      BY Zenon, <2>4, <2>6 DEF Fits, CacheSet
    <2>9. Sound(r, base, late)
      BY Zenon, <1>1, <2>5, <2>7, <2>8, CallsSound
    <2>10. r.res = "ok" => RowsSet(a, r, With(a.rows, t, o))
      BY <1>1, <2>5, <2>7, <2>8, RowReplaceIs DEF Fails
    <2>11. r.res = "ok" => /\ r.cache = With(x.cache, t, o) /\ r.rows = With(x.rows, t, o)
                           /\ r.stores = x.stores /\ r.seqRows = x.seqRows
      BY Zenon, <2>6, <2>10 DEF CacheSet, RowsSet
    <2> QED
      BY Zenon, <2>1, <2>3, <2>9, <2>11
  <1> QED
    BY Zenon, <1>5, <1>6

(* Table.Insert may make the stores of the table's indexes.                 *)
LEMMA InsertIs ==
    ASSUME Ground, NEW base, NEW late, NEW x, Sound(x, base, late),
           NEW t \in TableName, NEW r, r = InsertStmt(x, t)
    PROVE  /\ Sound(r, base, late)
           /\ r.cache = x.cache /\ r.rows = x.rows /\ r.seqRows = x.seqRows
           /\ x.stores \subseteq r.stores
           /\ r.res = "ok" => x.res = "ok"
  <1> DEFINE y == Check(x, GetTable(x, t), "error")
             I == {x.cache[n].store : n \in TableIndexes(x, t)}
             S == y.stores \cup I
  <1>1. Left(x, y) /\ (y.res = "ok" => x.res = "ok")
    BY Zenon DEF Check, Left, Sound, States
  <1>2. Sound(y, base, late) /\ y \in States
    BY Zenon, <1>1, LeftSound DEF Left
  <1>3. r = Then(y, [y EXCEPT !.stores = S])
    BY Zenon DEF InsertStmt
  <1>4. \A st \in I : st \in Nat \ {0} /\ st <= x.cur
    <2>1. ASSUME NEW n \in TableIndexes(x, t)
          PROVE  x.cache[n].store \in Nat \ {0} /\ x.cache[n].store <= x.cur
      <3>1. n \in Name /\ x.cache[n] \in Rel /\ x.cache[n] # None /\ x.cache[n].type = "index"
        BY Zenon DEF TableIndexes, Is, Sound, States, Caches
      <3>2. x.cache[n].store \in Nat \ {0}
        BY Zenon, <3>1 DEF Rel, AnyRelation
      <3> QED
        BY Zenon, <3>1, <3>2 DEF Sound, Bounded
    <2> QED
      BY Zenon, <2>1
  <1> HIDE DEF y, I
  <1>5. S \in SUBSET (Nat \ {0}) /\ y.stores \subseteq S
        /\ \A st \in S : st \in y.stores \/ st <= y.cur
    BY Zenon, <1>1, <1>2, <1>4 DEF Left, States
  <1> HIDE DEF S
  <1>6. CASE y.res # "ok"
    BY Zenon, <1>1, <1>2, <1>3, <1>6 DEF Then, Left
  <1>7. CASE y.res = "ok"
    <2>1. r \in States /\ StoresSet(y, r, S) /\ r.res = y.res
      BY Zenon, <1>2, <1>3, <1>5, <1>7 DEF Then, States, StoresSet
    <2>2. Sound(r, base, late)
      BY Zenon, <1>2, <1>5, <2>1, StoresSetSound
    <2> QED
      BY Zenon, <1>1, <1>5, <2>1, <2>2 DEF StoresSet, Left
  <1> QED
    BY Zenon, <1>6, <1>7

(* There is nothing to do for a table without indexes.                      *)
LEMMA MoveNone ==
    ASSUME Ground, NEW x, NEW new
    PROVE  MoveIndexes(x, {}, new) = x
  <1> DEFINE q == MapOrder({})
             after == CHOOSE f : f = [i \in 0 .. 0 |->
                                        IF i = 0 THEN x ELSE MoveIndex(f[i - 1], q[i], new)]
  <1>1. Cardinality({}) = 0
    BY Zenon DEF Ground, Listed
  <1>2. MoveIndexes(x, {}, new) = after[0]
    BY Zenon, <1>1 DEF MoveIndexes
  <1> HIDE DEF q
  <1>3. 0 .. 0 = {0}
    OBVIOUS
  <1>4. \E f : f = [i \in 0 .. 0 |-> IF i = 0 THEN x ELSE MoveIndex(f[i - 1], q[i], new)]
    <2> DEFINE g == [i \in 0 .. 0 |-> x]
    <2>1. g = [i \in 0 .. 0 |-> IF i = 0 THEN x ELSE MoveIndex(g[i - 1], q[i], new)]
      BY Zenon, <1>3
    <2> QED
      BY Zenon, <2>1
  <1>5. after = [i \in 0 .. 0 |-> IF i = 0 THEN x ELSE MoveIndex(after[i - 1], q[i], new)]
    BY Zenon, <1>4
  <1> HIDE DEF after
  <1>6. after[0] = x
    BY Zenon, <1>3, <1>5
  <1> QED
    BY Zenon, <1>2, <1>6

(* Catalog.RenameTable of a table without indexes.                          *)
LEMMA RenameIs ==
    ASSUME Ground, NEW base, NEW late, NEW x, Sound(x, base, late),
           NEW old \in Name, NEW new \in TableName, new # old, TableIndexes(x, old) = {},
           NEW r, r = RenameTable(x, old, new)
    PROVE  /\ Sound(r, base, late)
           /\ r.res = "ok" =>
                  /\ x.res = "ok" /\ Is(x, "table", old) /\ x.cache[new] = None
                  /\ \E o : /\ SameTable(o, x.cache[old]) /\ o.tbl = new
                            /\ r.cache = With(With(x.cache, old, None), new, o)
                            /\ r.rows = With(With(x.rows, old, None), new, o)
                  /\ r.stores = x.stores
                  /\ r.seqRows = x.seqRows
  <1> DEFINE e == RowDelete(x, old)
             y == CacheDelete(e, "table", old)
             o == [x.cache[old] EXCEPT !.tbl = new]
             a == RowInsert(y, new, o)
             z == CacheAdd(a, new, o)
  <1>1. x \in States /\ new \in Name
    BY Zenon DEF Sound, Name
  <1>2. Sound(e, base, late) /\ e \in States
    BY Zenon, CallsSound, SoundTyped
  <1>3. e.res = "ok" => x.res = "ok" /\ RowsSet(x, e, With(x.rows, old, None))
    BY Zenon, <1>1, RowDeleteIs DEF Fails
  <1> HIDE DEF e
  <1>4. Sound(y, base, late) /\ y \in States
    BY Zenon, <1>2, CallsSound, SoundTyped
  <1>5. y.res = "ok" => e.res = "ok" /\ Is(e, "table", old) /\ CacheSet(e, y, old, None)
    BY Zenon, <1>2, CacheDeleteIs DEF Fails
  <1>6. r = Then(y, Then(z, MoveIndexes(z, TableIndexes(z, old), new)))
    BY Zenon DEF RenameTable, e
  <1> HIDE DEF y
  <1>7. CASE y.res # "ok"
    BY Zenon, <1>4, <1>6, <1>7 DEF Then
  <1>8. CASE y.res = "ok"
    <2>1. /\ x.res = "ok" /\ Is(x, "table", old)
          /\ y.cache = With(x.cache, old, None)
          /\ y.rows = With(x.rows, old, None)
          /\ y.stores = x.stores /\ y.seqRows = x.seqRows /\ y.cur = x.cur
      BY Zenon, <1>3, <1>5, <1>8 DEF CacheSet, RowsSet, Is
    <2>2. x.cache[old] \in Rel /\ x.cache[old] # None
      BY Zenon, <1>1, <2>1 DEF Is, States, Caches
    <2>3. SameTable(o, x.cache[old]) /\ o.tbl = new
      BY Zenon, <2>1, <2>2 DEF Is, Rel, AnyRelation, SameTable
    <2> HIDE DEF o
    <2>4. \A m \in Name : m # old => y.cache[m] = x.cache[m]
      BY Zenon, <1>1, <2>1 DEF With, States, Caches
    <2>5. y.cache[old] = None
      BY Zenon, <1>1, <2>1 DEF With, States, Caches
    <2>6. Fits(y, new, o)
      <3>1. x.cache[old].store <= x.cur
        BY Zenon, <2>2 DEF Sound, Bounded
      <3>2. x.cache[old].store # 0 =>
              \A m \in Name : m # old /\ x.cache[m] # None => x.cache[m].store # x.cache[old].store
        BY Zenon, <1>1, <2>2 DEF Sound, Apart
      <3> QED
        BY Zenon, <2>1, <2>3, <2>4, <2>5, <3>1, <3>2 DEF Fits, SameTable
    <2>7. Sound(a, base, late) /\ a \in States
      BY Zenon, <1>1, <1>4, <2>6, CallsSound, SoundTyped DEF Fits
    <2>8. a.cache = y.cache /\ a.cur = y.cur
          /\ (a.res = "ok" => RowsSet(y, a, With(y.rows, new, o)))
      BY <1>1, <1>4, <2>6, RowInsertIs DEF Fails, Fits, Left, RowsSet
    <2> HIDE DEF a
    <2>9. Fits(a, new, o)
      BY Zenon, <2>6, <2>8 DEF Fits
    <2>10. Sound(z, base, late) /\ z \in States
      BY Zenon, <1>1, <2>7, <2>9, CallsSound, SoundTyped
    <2>11. z.res = "ok" => a.res = "ok" /\ y.cache[new] = None /\ CacheSet(a, z, new, o)
      BY Zenon, <1>1, <2>7, <2>8, <2>9, CacheAddIs DEF Fails, Fits
    <2> HIDE DEF z
    <2>12. CASE z.res # "ok"
      BY Zenon, <1>6, <1>8, <2>10, <2>12 DEF Then
    <2>13. CASE z.res = "ok"
      <3>1. z.cache = With(With(x.cache, old, None), new, o)
        BY Zenon, <2>1, <2>8, <2>11, <2>13 DEF CacheSet
      <3>2. TableIndexes(z, old) = {}
        <4>1. \A m \in Name : Is(z, "index", m) => m # new /\ m # old /\ z.cache[m] = x.cache[m]
          <5>1. z.cache[new] = o
            BY Zenon, <1>1, <3>1 DEF With, States, Caches
          <5>2. z.cache[old] = None
            BY Zenon, <1>1, <3>1 DEF With, States, Caches
          <5>3. \A m \in Name : m # old /\ m # new => z.cache[m] = x.cache[m]
            BY Zenon, <1>1, <3>1 DEF With, States, Caches
          <5> QED
            BY Zenon, <2>3, <5>1, <5>2, <5>3 DEF Is, SameTable
        <4>2. \A m \in Name : ~(Is(x, "index", m) /\ x.cache[m].tbl = old)
          BY Zenon DEF TableIndexes
        <4> QED
          BY Zenon, <4>1, <4>2 DEF TableIndexes, Is
      <3>3. r = z
        BY Zenon, <1>6, <1>8, <2>13, <3>2, MoveNone DEF Then
      <3>4. z.rows = With(With(x.rows, old, None), new, o)
        BY Zenon, <2>1, <2>8, <2>11, <2>13 DEF CacheSet, RowsSet
      <3>5. z.stores = x.stores /\ z.seqRows = x.seqRows
        BY Zenon, <2>1, <2>8, <2>11, <2>13 DEF CacheSet, RowsSet
      <3>6. x.cache[new] = None
        BY Zenon, <1>1, <2>4, <2>11, <2>13
      <3> QED
        BY Zenon, <2>1, <2>3, <2>10, <3>1, <3>3, <3>4, <3>5, <3>6
    <2> QED
      BY Zenon, <2>12, <2>13
  <1> QED
    BY Zenon, <1>7, <1>8
=============================================================================
