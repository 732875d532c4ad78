------------------------ MODULE MemoryEngine_proofs ------------------------
(***************************************************************************)
(* The memory engine implements the stores of engine.go, for any names,     *)
(* keys, values, trees and handles and any number of operations in a        *)
(* transaction.                                                             *)
(***************************************************************************)
EXTENDS MemoryEngine, WellFoundedInduction, TLAPS

Heaps ==
    [stores  : [Name -> Tree \cup {NoTree}],
     v       : [Tree -> [Key -> Val \cup {Nil}]],
     deleted : [Tree -> [Key -> BOOLEAN]],
     tr      : [Handle -> Tree \cup {NoTree}]]

StoreClosures ==
    [op : {"dropStore"}, name : Name, tree : {NoTree}]
    \cup [op : {"putStore"}, name : Name, tree : Tree]

ItemClosures ==
    [op : {"setItem"}, tree : Tree, key : Key, v : Val, deleted : BOOLEAN]
    \cup [op : {"unmark"}, tree : Tree, key : Key]
    \cup [op : {"removeItem"}, tree : Tree, handle : Handle, key : Key]

TreeClosures == [op : {"setTree"}, tree : Tree, handle : Handle]

Undos == StoreClosures \cup ItemClosures \cup TreeClosures

Finals == [op : {"finalize"}, tree : Tree, handle : Handle, key : Key]

TypeInv ==
    /\ heap \in Heaps
    /\ onRollback \in Seq(Undos)
    /\ onCommit \in Seq(Finals)
    /\ Len(onRollback) <= IF wild THEN MaxWild ELSE MaxOps
    /\ Len(onCommit) <= Len(onRollback)
    /\ {open, ctxDone, again, wild} \subseteq BOOLEAN
    /\ ~open => /\ onRollback = <<>> /\ onCommit = <<>>
                /\ touched = {} /\ ~again /\ ~ctxDone
                /\ heap.tr = [h \in Handle |-> NoTree]

(* The handle of a deletion works on the tree of the deleted item, or       *)
(* Truncate has given it one that no store has.                             *)
FinalsOnTheirTree ==
    \A i \in DOMAIN onCommit : LET f == onCommit[i] IN
        /\ heap.tr[f.handle] # NoTree
        /\ heap.tr[f.handle] = f.tree \/ (wild /\ heap.tr[f.handle] \notin Range(heap.stores))

(* Store n is the closure's, or item k of tree t.                           *)
OfStore(c, n) == c \in StoreClosures /\ c.name = n
OfItem(c, t, k) == c \in ItemClosures /\ c.tree = t /\ c.key = k

Location(c) == IF c \in StoreClosures THEN <<c.name, Nil>> ELSE <<c.tree, c.key>>

StoresApart(stores) ==
    \A m, n \in Name : stores[m] = stores[n] /\ stores[m] # NoTree => m = n

(* The closures of a transaction that changed no location twice hold what   *)
(* was at their location when it began: the stores and the items, none of   *)
(* which was marked.                                                        *)
Remembers(stores, v) ==
    /\ StoresApart(stores)
    /\ saved = [n \in Name |-> IF stores[n] = NoTree THEN NoStore ELSE v[stores[n]]]
    /\ \A i, j \in DOMAIN onRollback :
          Location(onRollback[i]) = Location(onRollback[j]) => i = j
    /\ \A n \in Name : heap.stores[n] = stores[n] \/ \E i \in DOMAIN onRollback : OfStore(onRollback[i], n)
    /\ \A t \in Tree, k \in Key :
          \/ heap.v[t][k] = v[t][k] /\ ~heap.deleted[t][k]
          \/ \E i \in DOMAIN onRollback : OfItem(onRollback[i], t, k)
    /\ \A i \in DOMAIN onRollback : LET c == onRollback[i] IN
          /\ c \in StoreClosures => c.tree = stores[c.name]
          /\ c.op = "setItem" => /\ heap.v[c.tree][c.key] # Nil
                                 /\ c.v = v[c.tree][c.key] /\ ~c.deleted
          /\ c.op = "unmark" => /\ heap.v[c.tree][c.key] # Nil
                                /\ heap.v[c.tree][c.key] = v[c.tree][c.key]
          /\ c.op = "removeItem" => v[c.tree][c.key] = Nil

TameInv ==
    /\ StoresApart(heap.stores)
    /\ \A t \in FreeTrees, k \in Key : heap.v[t][k] = Nil
    /\ \A t \in Tree, k \in Key : heap.deleted[t][k] =>
          /\ heap.v[t][k] # Nil
          /\ \E i \in DOMAIN onCommit : onCommit[i].tree = t /\ onCommit[i].key = k
    /\ \A i \in DOMAIN onRollback : LET c == onRollback[i] IN
          /\ c \notin TreeClosures
          /\ c.op = "removeItem" => heap.tr[c.handle] = c.tree
          /\ Location(c) \in touched
    /\ touched \subseteq {Location(onRollback[i]) : i \in DOMAIN onRollback}
    /\ ~again => \E stores \in [Name -> Tree \cup {NoTree}], v \in [Tree -> [Key -> Val \cup {Nil}]] :
                    Remembers(stores, v)

IInv == TypeInv /\ FinalsOnTheirTree /\ (~wild => TameInv)

-----------------------------------------------------------------------------
(* Induction up to a number, over a set of the numbers reached.             *)
LEMMA ReachesAll ==
    ASSUME NEW N \in Nat, NEW T, 0 \in T,
           \A i \in 0 .. N : i \in T /\ i < N => i + 1 \in T
    PROVE  \A i \in 0 .. N : i \in T
  <1> DEFINE Missed == {i \in 0 .. N : i \notin T}
  <1>1. ASSUME Missed # {}
        PROVE  FALSE
    <2>1. Missed \subseteq Nat
      OBVIOUS
    <2> HIDE DEF Missed
    <2>2. PICK x \in Missed : \A y \in Missed : ~(<<y, x>> \in OpToRel(<, Nat))
      BY Zenon, <1>1, <2>1, NatLessThanWellFounded, WFMin
    <2>3. \A y \in Missed : ~(y < x)
      BY Zenon, <2>1, <2>2 DEF OpToRel
    <2>4. x \in 0 .. N /\ x \notin T /\ x # 0 /\ x - 1 \in 0 .. N /\ x - 1 < N
      BY DEF Missed
    <2>5. x - 1 \in T
      BY <2>3, <2>4 DEF Missed
    <2>6. x - 1 + 1 = x
      BY <2>4
    <2> QED
      BY Zenon, <2>4, <2>5, <2>6
  <1> QED
    BY Zenon, <1>1

(* The function that CallAll defines: f[i] is the heap after i calls.       *)
Calls(f, hp, closures, N) ==
    f = [i \in 0 .. N |-> IF i = 0 THEN hp ELSE Call(f[i - 1], closures[i])]

(* There is one for a list of any length.                                   *)
LEMMA CallsExist ==
    ASSUME NEW hp, NEW closures, NEW N \in Nat
    PROVE  \E f : Calls(f, hp, closures, N)
  <1> DEFINE T == {i \in 0 .. N : \E f : Calls(f, hp, closures, i)}
  <1>1. 0 \in T
    <2> DEFINE f == [i \in 0 .. 0 |-> hp]
    <2>1. 0 .. 0 = {0}
      OBVIOUS
    <2>2. Calls(f, hp, closures, 0)
      BY Zenon, <2>1 DEF Calls
    <2> QED
      BY <2>2
  <1>2. ASSUME NEW i \in 0 .. N, i \in T, i < N
        PROVE  i + 1 \in T
    <2>1. PICK f : Calls(f, hp, closures, i)
      BY Zenon, <1>2
    <2>2. \A j \in 0 .. i : f[j] = IF j = 0 THEN hp ELSE Call(f[j - 1], closures[j])
      BY Zenon, <2>1 DEF Calls
    <2> DEFINE g == [j \in 0 .. i + 1 |->
                        IF j = i + 1 THEN Call(f[i], closures[i + 1]) ELSE f[j]]
    <2>3. /\ \A j \in 0 .. i : g[j] = f[j]
          /\ g[i + 1] = Call(f[i], closures[i + 1])
          /\ g = [j \in 0 .. i + 1 |-> g[j]]
      OBVIOUS
    <2> HIDE DEF g
    <2>4. ASSUME NEW j \in 0 .. i + 1
          PROVE  g[j] = IF j = 0 THEN hp ELSE Call(g[j - 1], closures[j])
      <3>1. CASE j = i + 1
        <4>1. i \in 0 .. i /\ j - 1 = i /\ j # 0
          BY <3>1
        <4> QED
          BY Zenon, <2>3, <3>1, <4>1
      <3>2. CASE j # i + 1
        <4>1. j \in 0 .. i /\ (j # 0 => j - 1 \in 0 .. i)
          BY <3>2
        <4> QED
          BY Zenon, <2>2, <2>3, <4>1
      <3> QED
        BY Zenon, <3>1, <3>2
    <2>5. Calls(g, hp, closures, i + 1)
      BY Zenon, <2>3, <2>4 DEF Calls
    <2> QED
      BY <1>2, <2>5
  <1> HIDE DEF T
  <1>3. \A i \in 0 .. N : i \in T
    BY Zenon, <1>1, <1>2, ReachesAll
  <1>4. N \in T
    BY <1>3
  <1> QED
    BY Zenon, <1>4 DEF T

(* The closures of a list run one after the other: the heaps between two    *)
(* calls.                                                                   *)
LEMMA CallsInOrder ==
    ASSUME NEW S, NEW closures \in Seq(S), NEW hp
    PROVE  \E g : /\ g[0] = hp
                  /\ \A i \in 1 .. Len(closures) : g[i] = Call(g[i - 1], closures[i])
                  /\ CallAll(hp, closures) = g[Len(closures)]
  <1> DEFINE N == Len(closures)
             g == CHOOSE f : Calls(f, hp, closures, N)
  <1>1. N \in Nat
    OBVIOUS
  <1>2. CallAll(hp, closures) = g[N]
    BY Zenon DEF CallAll, Calls
  <1>3. Calls(g, hp, closures, N)
    BY Zenon, <1>1, CallsExist
  <1> HIDE DEF g, N
  <1>4. g[0] = hp
    BY <1>1, <1>3 DEF Calls
  <1>5. ASSUME NEW i \in 1 .. N
        PROVE  g[i] = Call(g[i - 1], closures[i])
    BY <1>1, <1>3 DEF Calls
  <1> QED
    BY Zenon, <1>2, <1>4, <1>5 DEF N

-----------------------------------------------------------------------------
(* What the fields of a heap are, and the heap that has given fields.       *)
LEMMA HeapFields ==
    ASSUME NEW hp \in Heaps
    PROVE  /\ hp.stores \in [Name -> Tree \cup {NoTree}]
           /\ hp.v \in [Tree -> [Key -> Val \cup {Nil}]]
           /\ hp.deleted \in [Tree -> [Key -> BOOLEAN]]
           /\ hp.tr \in [Handle -> Tree \cup {NoTree}]
           /\ hp = [stores |-> hp.stores, v |-> hp.v, deleted |-> hp.deleted, tr |-> hp.tr]
  BY Zenon DEF Heaps

(* The heap new is hp with item k of tree t set.                            *)
Wrote(new, hp, t, k, x, d) ==
    /\ new.stores = hp.stores /\ new.tr = hp.tr
    /\ \A s \in Tree, j \in Key :
          IF s = t /\ j = k
          THEN new.v[s][j] = x /\ new.deleted[s][j] = d
          ELSE new.v[s][j] = hp.v[s][j] /\ new.deleted[s][j] = hp.deleted[s][j]

(* Writing an item: Put, BTree.Delete and the closure that sets an item.    *)
LEMMA WriteItem ==
    ASSUME NEW hp \in Heaps, NEW t, NEW k, NEW x \in Val \cup {Nil}, NEW d \in BOOLEAN
    PROVE  /\ SetItem(hp, t, k, x, d) \in Heaps
           /\ Wrote(SetItem(hp, t, k, x, d), hp, t, k, x, d)
  <1> DEFINE v   == [hp.v EXCEPT ![t] = [hp.v[t] EXCEPT ![k] = x]]
             del == [hp.deleted EXCEPT ![t] = [hp.deleted[t] EXCEPT ![k] = d]]
             new == SetItem(hp, t, k, x, d)
  <1>1. new = [stores |-> hp.stores, v |-> v, deleted |-> del, tr |-> hp.tr]
    <2>1. new = [hp EXCEPT !.v = v, !.deleted = del]
      BY Zenon DEF SetItem
    <2> HIDE DEF v, del, new
    <2> QED
      BY Zenon, <2>1 DEF Heaps
  <1>2. v \in [Tree -> [Key -> Val \cup {Nil}]]
        /\ \A s \in Tree, j \in Key : v[s][j] = IF s = t /\ j = k THEN x ELSE hp.v[s][j]
    <2> DEFINE f == hp.v
               r == [f[t] EXCEPT ![k] = x]
    <2>1. f \in [Tree -> [Key -> Val \cup {Nil}]]
      BY Zenon, HeapFields
    <2>2. v = [f EXCEPT ![t] = r]
      BY Zenon
    <2> HIDE DEF f, v
    <2>3. t \in Tree => /\ r \in [Key -> Val \cup {Nil}]
                       /\ \A j \in Key : r[j] = IF j = k THEN x ELSE f[t][j]
      BY Zenon, <2>1
    <2> HIDE DEF r
    <2>4. /\ v \in [Tree -> [Key -> Val \cup {Nil}]]
          /\ \A s \in Tree : v[s] = IF s = t THEN r ELSE f[s]
      BY Zenon, <2>1, <2>2, <2>3
    <2> QED
      BY Zenon, <2>3, <2>4 DEF f
  <1>3. del \in [Tree -> [Key -> BOOLEAN]]
        /\ \A s \in Tree, j \in Key : del[s][j] = IF s = t /\ j = k THEN d ELSE hp.deleted[s][j]
    <2> DEFINE f == hp.deleted
               r == [f[t] EXCEPT ![k] = d]
    <2>1. f \in [Tree -> [Key -> BOOLEAN]]
      BY Zenon, HeapFields
    <2>2. del = [f EXCEPT ![t] = r]
      BY Zenon
    <2> HIDE DEF f, del
    <2>3. t \in Tree => /\ r \in [Key -> BOOLEAN]
                       /\ \A j \in Key : r[j] = IF j = k THEN d ELSE f[t][j]
      BY Zenon, <2>1
    <2> HIDE DEF r
    <2>4. /\ del \in [Tree -> [Key -> BOOLEAN]]
          /\ \A s \in Tree : del[s] = IF s = t THEN r ELSE f[s]
      BY Zenon, <2>1, <2>2, <2>3
    <2> QED
      BY Zenon, <2>3, <2>4 DEF f
  <1> HIDE DEF v, del, new
  <1>4. new.stores = hp.stores /\ new.v = v /\ new.deleted = del /\ new.tr = hp.tr
    BY Zenon, <1>1
  <1>5. new \in Heaps
    BY Zenon, <1>1, <1>2, <1>3, HeapFields DEF Heaps
  <1> QED
    BY Zenon, <1>2, <1>3, <1>4, <1>5 DEF Wrote, new

(* Marking an item: Delete and the closure that unmarks.                    *)
LEMMA MarkItem ==
    ASSUME NEW hp \in Heaps, NEW t \in Tree, NEW k \in Key, NEW d \in BOOLEAN
    PROVE  /\ Mark(hp, t, k, d) \in Heaps
           /\ Wrote(Mark(hp, t, k, d), hp, t, k, hp.v[t][k], d)
  <1>1. hp.v[t][k] \in Val \cup {Nil}
    BY HeapFields
  <1> QED
    BY Zenon, <1>1, WriteItem DEF Mark

(* Giving a name a tree.                                                    *)
LEMMA WriteStore ==
    ASSUME NEW hp \in Heaps, NEW t \in Tree \cup {NoTree}, NEW n \in Name
    PROVE  LET new == SetStore(hp, n, t)
           IN  /\ new \in Heaps
               /\ new.v = hp.v /\ new.deleted = hp.deleted /\ new.tr = hp.tr
               /\ \A m \in Name : new.stores[m] = IF m = n THEN t ELSE hp.stores[m]
  <1> DEFINE s   == [hp.stores EXCEPT ![n] = t]
             new == SetStore(hp, n, t)
  <1>1. new = [stores |-> s, v |-> hp.v, deleted |-> hp.deleted, tr |-> hp.tr]
    <2>1. new = [hp EXCEPT !.stores = s]
      BY Zenon DEF SetStore
    <2> HIDE DEF s, new
    <2> QED
      BY Zenon, <2>1 DEF Heaps
  <1>2. /\ s \in [Name -> Tree \cup {NoTree}]
        /\ \A m \in Name : s[m] = IF m = n THEN t ELSE hp.stores[m]
    BY Zenon, HeapFields
  <1> HIDE DEF s, new
  <1>3. new \in Heaps
    BY Zenon, <1>1, <1>2, HeapFields DEF Heaps
  <1>4. new.stores = s /\ new.v = hp.v /\ new.deleted = hp.deleted /\ new.tr = hp.tr
    BY Zenon, <1>1
  <1> QED
    BY Zenon, <1>2, <1>3, <1>4 DEF new

(* Giving a handle a tree.                                                  *)
LEMMA WriteHandle ==
    ASSUME NEW hp \in Heaps, NEW t \in Tree \cup {NoTree}, NEW h \in Handle
    PROVE  LET new == SetHandle(hp, h, t)
           IN  /\ new \in Heaps
               /\ new.v = hp.v /\ new.deleted = hp.deleted /\ new.stores = hp.stores
               /\ \A g \in Handle : new.tr[g] = IF g = h THEN t ELSE hp.tr[g]
  <1> DEFINE s   == [hp.tr EXCEPT ![h] = t]
             new == SetHandle(hp, h, t)
  <1>1. new = [stores |-> hp.stores, v |-> hp.v, deleted |-> hp.deleted, tr |-> s]
    <2>1. new = [hp EXCEPT !.tr = s]
      BY Zenon DEF SetHandle
    <2> HIDE DEF s, new
    <2> QED
      BY Zenon, <2>1 DEF Heaps
  <1>2. /\ s \in [Handle -> Tree \cup {NoTree}]
        /\ \A g \in Handle : s[g] = IF g = h THEN t ELSE hp.tr[g]
    BY Zenon, HeapFields
  <1> HIDE DEF s, new
  <1>3. new \in Heaps
    BY Zenon, <1>1, <1>2, HeapFields DEF Heaps
  <1>4. new.stores = hp.stores /\ new.v = hp.v /\ new.deleted = hp.deleted /\ new.tr = s
    BY Zenon, <1>1
  <1> QED
    BY Zenon, <1>2, <1>3, <1>4 DEF new

(* What the end of a transaction keeps of a heap.                           *)
LEMMA Collected ==
    ASSUME NEW hp \in Heaps
    PROVE  LET new == Collect(hp)
           IN  /\ new \in Heaps
               /\ new.stores = hp.stores
               /\ new.tr = [h \in Handle |-> NoTree]
               /\ \A t \in Tree :
                     /\ t \in Range(hp.stores) =>
                           new.v[t] = hp.v[t] /\ new.deleted[t] = hp.deleted[t]
                     /\ t \notin Range(hp.stores) =>
                           new.v[t] = EmptyTree /\ new.deleted[t] = Unmarked
  <1> DEFINE kept == Range(hp.stores)
             h    == [x \in Handle |-> NoTree]
             v    == [t \in Tree |-> IF t \in kept THEN hp.v[t] ELSE EmptyTree]
             del  == [t \in Tree |-> IF t \in kept THEN hp.deleted[t] ELSE Unmarked]
             new  == Collect(hp)
  <1> HIDE DEF kept
  <1>1. new = [stores |-> hp.stores, v |-> v, deleted |-> del, tr |-> h]
    <2>1. new = [hp EXCEPT !.tr = h, !.v = v, !.deleted = del]
      BY Zenon DEF Collect, kept
    <2> HIDE DEF h, v, del, new
    <2> QED
      BY Zenon, <2>1 DEF Heaps
  <1>2. EmptyTree \in [Key -> Val \cup {Nil}] /\ Unmarked \in [Key -> BOOLEAN]
    BY Zenon DEF EmptyTree, Unmarked
  <1>3. /\ v \in [Tree -> [Key -> Val \cup {Nil}]] /\ del \in [Tree -> [Key -> BOOLEAN]]
        /\ h \in [Handle -> Tree \cup {NoTree}]
        /\ \A t \in Tree : /\ t \in kept => v[t] = hp.v[t] /\ del[t] = hp.deleted[t]
                           /\ t \notin kept => v[t] = EmptyTree /\ del[t] = Unmarked
    BY Zenon, <1>2, HeapFields
  <1> HIDE DEF v, del, new, h
  <1>4. new.stores = hp.stores /\ new.v = v /\ new.deleted = del /\ new.tr = h
    BY Zenon, <1>1
  <1>5. new \in Heaps
    BY Zenon, <1>1, <1>3, HeapFields DEF Heaps
  <1> QED
    BY Zenon, <1>3, <1>4, <1>5 DEF new, kept, h

-----------------------------------------------------------------------------
(* The fields of a closure, by what it does.                                *)
LEMMA ClosureFields ==
    ASSUME NEW c \in Undos
    PROVE  /\ c \in StoreClosures \/ c \in ItemClosures \/ c \in TreeClosures
           /\ c \in StoreClosures =>
                 /\ c.op \in {"dropStore", "putStore"}
                 /\ c.name \in Name /\ c.tree \in Tree \cup {NoTree}
                 /\ c.op = "dropStore" => c.tree = NoTree
                 /\ c.op = "putStore" => c.tree \in Tree
           /\ c \in ItemClosures =>
                 /\ c.op \in {"setItem", "unmark", "removeItem"}
                 /\ c.tree \in Tree /\ c.key \in Key
                 /\ c.op = "setItem" => c.v \in Val /\ c.deleted \in BOOLEAN
                 /\ c.op = "removeItem" => c.handle \in Handle
           /\ c \in TreeClosures =>
                 /\ c.op = "setTree"
                 /\ c.tree \in Tree /\ c.handle \in Handle
  <1>1. c \in StoreClosures \/ c \in ItemClosures \/ c \in TreeClosures
    BY Zenon DEF Undos
  <1>2. ASSUME c \in StoreClosures
        PROVE  /\ c.op \in {"dropStore", "putStore"}
               /\ c.name \in Name /\ c.tree \in Tree \cup {NoTree}
               /\ c.op = "dropStore" => c.tree = NoTree
               /\ c.op = "putStore" => c.tree \in Tree
    BY Zenon, <1>2 DEF StoreClosures
  <1>3. ASSUME c \in ItemClosures
        PROVE  /\ c.op \in {"setItem", "unmark", "removeItem"}
               /\ c.tree \in Tree /\ c.key \in Key
               /\ c.op = "setItem" => c.v \in Val /\ c.deleted \in BOOLEAN
               /\ c.op = "removeItem" => c.handle \in Handle
    BY Zenon, <1>3 DEF ItemClosures
  <1>4. ASSUME c \in TreeClosures
        PROVE  c.op = "setTree" /\ c.tree \in Tree /\ c.handle \in Handle
    BY Zenon, <1>4 DEF TreeClosures
  <1> QED
    BY Zenon, <1>1, <1>2, <1>3, <1>4

(* The heap new is hp with the tree of store n set.                         *)
Renamed(new, hp, n, t) ==
    /\ new.v = hp.v /\ new.deleted = hp.deleted /\ new.tr = hp.tr
    /\ \A m \in Name : new.stores[m] = IF m = n THEN t ELSE hp.stores[m]

(* What a closure of onRollback does to a heap.                             *)
LEMMA CallUndo ==
    ASSUME NEW hp \in Heaps, NEW c \in Undos, NEW new, new = Call(hp, c)
    PROVE  /\ new \in Heaps
           /\ c \in StoreClosures => Renamed(new, hp, c.name, c.tree)
           /\ c.op = "setItem" /\ hp.v[c.tree][c.key] # Nil =>
                 Wrote(new, hp, c.tree, c.key, c.v, c.deleted)
           /\ c.op = "unmark" /\ hp.v[c.tree][c.key] # Nil =>
                 Wrote(new, hp, c.tree, c.key, hp.v[c.tree][c.key], FALSE)
           /\ c.op = "removeItem" => Wrote(new, hp, hp.tr[c.handle], c.key, Nil, FALSE)
  <1>1. ASSUME c \in StoreClosures
        PROVE  new \in Heaps /\ Renamed(new, hp, c.name, c.tree)
    <2>1. /\ c.op \in {"dropStore", "putStore"} /\ c.name \in Name
          /\ c.tree \in Tree \cup {NoTree}
          /\ c.op = "dropStore" => c.tree = NoTree
      BY Zenon, <1>1, ClosureFields
    <2>2. new = SetStore(hp, c.name, c.tree)
      BY Zenon, <2>1 DEF Call, Undo
    <2> QED
      BY <2>1, <2>2, WriteStore DEF Renamed
  <1>2. ASSUME c.op = "setItem"
        PROVE  /\ new \in Heaps
               /\ hp.v[c.tree][c.key] # Nil => Wrote(new, hp, c.tree, c.key, c.v, c.deleted)
    <2>1. c.v \in Val /\ c.deleted \in BOOLEAN
      BY Zenon, <1>2, ClosureFields
    <2>2. new = IF hp.v[c.tree][c.key] = Nil THEN hp
                ELSE SetItem(hp, c.tree, c.key, c.v, c.deleted)
      BY Zenon, <1>2 DEF Call, Undo, OnItem
    <2> QED
      BY Zenon, <2>1, <2>2, WriteItem
  <1>3. ASSUME c.op = "unmark"
        PROVE  /\ new \in Heaps
               /\ hp.v[c.tree][c.key] # Nil =>
                     Wrote(new, hp, c.tree, c.key, hp.v[c.tree][c.key], FALSE)
    <2>1. c.tree \in Tree /\ c.key \in Key
      BY Zenon, <1>3, ClosureFields
    <2>2. new = IF hp.v[c.tree][c.key] = Nil THEN hp ELSE Mark(hp, c.tree, c.key, FALSE)
      BY Zenon, <1>3 DEF Call, Undo, OnItem
    <2> QED
      BY Zenon, <2>1, <2>2, MarkItem
  <1>4. ASSUME c.op = "removeItem"
        PROVE  new \in Heaps /\ Wrote(new, hp, hp.tr[c.handle], c.key, Nil, FALSE)
    <2> DEFINE t == hp.tr[c.handle]
    <2>1. new = SetItem(hp, t, c.key, Nil, FALSE)
      BY Zenon, <1>4 DEF Call, Undo, RemoveItem
    <2> HIDE DEF t
    <2>2. new \in Heaps /\ Wrote(new, hp, t, c.key, Nil, FALSE)
      BY Zenon, <2>1, WriteItem
    <2> QED
      BY Zenon, <2>2 DEF t
  <1>5. ASSUME c \in TreeClosures
        PROVE  new \in Heaps
    <2>1. c.op = "setTree" /\ c.tree \in Tree /\ c.handle \in Handle
      BY Zenon, <1>5, ClosureFields
    <2>2. new = SetHandle(hp, c.handle, c.tree)
      BY Zenon, <2>1 DEF Call, Undo
    <2> QED
      BY <2>1, <2>2, WriteHandle
  <1> QED
    BY Zenon, <1>1, <1>2, <1>3, <1>4, <1>5, ClosureFields

(* What a closure of onCommit does to a heap.                               *)
LEMMA CallFinal ==
    ASSUME NEW hp \in Heaps, NEW c \in Finals, NEW new, new = Call(hp, c)
    PROVE  /\ new \in Heaps
           /\ new.stores = hp.stores /\ new.tr = hp.tr
           /\ IF hp.deleted[c.tree][c.key]
              THEN Wrote(new, hp, hp.tr[c.handle], c.key, Nil, FALSE)
              ELSE new = hp
  <1> DEFINE t == hp.tr[c.handle]
  <1>1. new = IF hp.deleted[c.tree][c.key]
              THEN SetItem(hp, t, c.key, Nil, FALSE) ELSE hp
    BY Zenon DEF Call, Finalize, RemoveItem, Finals
  <1> HIDE DEF t
  <1>2. ASSUME hp.deleted[c.tree][c.key]
        PROVE  /\ new \in Heaps /\ new.stores = hp.stores /\ new.tr = hp.tr
               /\ Wrote(new, hp, t, c.key, Nil, FALSE)
    <2>1. new \in Heaps /\ Wrote(new, hp, t, c.key, Nil, FALSE)
      BY Zenon, <1>1, <1>2, WriteItem
    <2> QED
      BY Zenon, <2>1 DEF Wrote
  <1> QED
    BY Zenon, <1>1, <1>2 DEF t

-----------------------------------------------------------------------------
(* What storeTx.Get reads.                                                  *)
Read(hp, t, k) == IF hp.deleted[t][k] THEN Nil ELSE hp.v[t][k]

(* The first i closures of onCommit have made hp of the heap: what the      *)
(* stores read is the same, and their items are not marked any more.        *)
Finalized(hp, i) ==
    /\ hp \in Heaps /\ hp.stores = heap.stores /\ hp.tr = heap.tr
    /\ \A t \in Tree, k \in Key :
          t \in Range(heap.stores) => Read(hp, t, k) = Read(heap, t, k)
    /\ ~wild => \A t \in Tree, k \in Key : hp.deleted[t][k] =>
          /\ heap.deleted[t][k]
          /\ \A j \in 1 .. i : onCommit[j].tree # t \/ onCommit[j].key # k

(* The next closure of onCommit removes the item that storeTx.Delete        *)
(* marked, if it is still marked, and changes nothing that a store reads.   *)
LEMMA FinalizeStep ==
    ASSUME TypeInv, FinalsOnTheirTree,
           NEW i \in 1 .. Len(onCommit), NEW hp, Finalized(hp, i - 1),
           NEW new, new = Call(hp, onCommit[i])
    PROVE  Finalized(new, i)
  <1> DEFINE c == onCommit[i]
             T == heap.tr[c.handle]
  <1>1. c \in Finals /\ i \in DOMAIN onCommit
    BY DEF TypeInv
  <1>2. T = c.tree \/ (wild /\ T \notin Range(heap.stores))
    BY Zenon, <1>1 DEF FinalsOnTheirTree
  <1>3. c.tree \in Tree /\ c.key \in Key
    BY Zenon, <1>1 DEF Finals
  <1>4. /\ new \in Heaps
        /\ new.stores = heap.stores /\ new.tr = heap.tr
        /\ IF hp.deleted[c.tree][c.key]
           THEN Wrote(new, hp, T, c.key, Nil, FALSE)
           ELSE new = hp
    <2>1. hp \in Heaps /\ hp.stores = heap.stores /\ hp.tr = heap.tr
      BY Zenon DEF Finalized
    <2> HIDE DEF c
    <2> QED
      BY Zenon, <1>1, <2>1, CallFinal DEF c
  <1>5. \A j \in 1 .. i : j \in 1 .. i - 1 \/ j = i
    OBVIOUS
  <1> HIDE DEF c, T
  <1>6. CASE hp.deleted[c.tree][c.key]
    <2>1. \A s \in Tree, j \in Key :
             IF s = T /\ j = c.key
             THEN new.v[s][j] = Nil /\ new.deleted[s][j] = FALSE
             ELSE new.v[s][j] = hp.v[s][j] /\ new.deleted[s][j] = hp.deleted[s][j]
      BY Zenon, <1>4, <1>6 DEF Wrote
    <2>2. ASSUME NEW t \in Tree, NEW k \in Key, t \in Range(heap.stores)
          PROVE  Read(new, t, k) = Read(heap, t, k)
      <3>1. Read(hp, t, k) = Read(heap, t, k)
        BY Zenon, <2>2 DEF Finalized
      <3>2. CASE t = T /\ k = c.key
        <4>1. Read(hp, t, k) = Nil
          BY Zenon, <1>2, <1>6, <2>2, <3>2 DEF Read
        <4> QED
          BY Zenon, <2>1, <3>1, <3>2, <4>1 DEF Read
      <3>3. CASE ~(t = T /\ k = c.key)
        BY Zenon, <2>1, <3>1, <3>3 DEF Read
      <3> QED
        BY Zenon, <3>2, <3>3
    <2>3. ASSUME ~wild, NEW t \in Tree, NEW k \in Key, new.deleted[t][k]
          PROVE  /\ heap.deleted[t][k]
                 /\ \A j \in 1 .. i : onCommit[j].tree # t \/ onCommit[j].key # k
      <3>1. hp.deleted[t][k] /\ ~(t = c.tree /\ k = c.key)
        BY Zenon, <1>2, <2>1, <2>3
      <3>2. /\ heap.deleted[t][k]
            /\ \A j \in 1 .. i - 1 : onCommit[j].tree # t \/ onCommit[j].key # k
        BY Zenon, <2>3, <3>1 DEF Finalized
      <3> QED
        BY Zenon, <1>5, <3>1, <3>2 DEF c
    <2> QED
      BY Zenon, <1>4, <2>2, <2>3 DEF Finalized
  <1>7. CASE ~hp.deleted[c.tree][c.key]
    <2>1. new = hp
      BY Zenon, <1>4, <1>7
    <2>2. ASSUME ~wild, NEW t \in Tree, NEW k \in Key, hp.deleted[t][k]
          PROVE  /\ heap.deleted[t][k]
                 /\ \A j \in 1 .. i : onCommit[j].tree # t \/ onCommit[j].key # k
      <3>1. ~(t = c.tree /\ k = c.key)
        BY Zenon, <1>7, <2>2
      <3>2. /\ heap.deleted[t][k]
            /\ \A j \in 1 .. i - 1 : onCommit[j].tree # t \/ onCommit[j].key # k
        BY Zenon, <2>2 DEF Finalized
      <3> QED
        BY Zenon, <1>5, <3>1, <3>2 DEF c
    <2> QED
      BY Zenon, <2>1, <2>2 DEF Finalized
  <1> QED
    BY Zenon, <1>6, <1>7

(* The loop of Commit over onCommit: when it ends, every store reads what   *)
(* it read before, and no item that a closure was for is marked.            *)
LEMMA CommitRuns ==
    ASSUME TypeInv, FinalsOnTheirTree
    PROVE  Finalized(CallAll(heap, onCommit), Len(onCommit))
  <1> DEFINE N == Len(onCommit)
  <1>1. onCommit \in Seq(Finals) /\ N \in Nat
    BY DEF TypeInv
  <1>2. PICK g : /\ g[0] = heap
                 /\ \A i \in 1 .. N : g[i] = Call(g[i - 1], onCommit[i])
                 /\ CallAll(heap, onCommit) = g[N]
    BY Zenon, <1>1, CallsInOrder
  <1> DEFINE T == {i \in 0 .. N : Finalized(g[i], i)}
  <1>3. 0 \in T
    <2>1. Finalized(heap, 0)
      BY DEF Finalized, TypeInv
    <2> QED
      BY <1>1, <1>2, <2>1
  <1>4. ASSUME NEW i \in 0 .. N, i \in T, i < N
        PROVE  i + 1 \in T
    <2>1. i + 1 \in 1 .. N /\ i + 1 \in 0 .. N /\ i + 1 - 1 = i
      BY <1>1, <1>4
    <2>2. Finalized(g[i + 1 - 1], i + 1 - 1) /\ g[i + 1] = Call(g[i + 1 - 1], onCommit[i + 1])
      BY <1>2, <1>4, <2>1
    <2>3. Finalized(g[i + 1], i + 1)
      BY <2>1, <2>2, FinalizeStep
    <2> QED
      BY Zenon, <2>1, <2>3
  <1> HIDE DEF T
  <1>5. N \in T
    <2>1. \A i \in 0 .. N : i \in T
      BY Zenon, <1>1, <1>3, <1>4, ReachesAll
    <2> QED
      BY <1>1, <2>1
  <1> QED
    BY Zenon, <1>2, <1>5 DEF T

-----------------------------------------------------------------------------
(* The first i closures of onRollback have made hp of the heap: at their    *)
(* locations is what was there when the transaction began.                  *)
Undone(hp, i, stores, v) ==
    /\ hp \in Heaps /\ hp.tr = heap.tr
    /\ \A n \in Name :
          IF \E j \in 1 .. i : OfStore(onRollback[j], n)
          THEN hp.stores[n] = stores[n]
          ELSE hp.stores[n] = heap.stores[n]
    /\ \A t \in Tree, k \in Key :
          IF \E j \in 1 .. i : OfItem(onRollback[j], t, k)
          THEN hp.v[t][k] = v[t][k] /\ ~hp.deleted[t][k]
          ELSE hp.v[t][k] = heap.v[t][k] /\ hp.deleted[t][k] = heap.deleted[t][k]

(* The next closure of onRollback puts back what was at its location when   *)
(* the transaction began, and leaves every other location alone.            *)
LEMMA UndoStep ==
    ASSUME TypeInv, TameInv, NEW stores, NEW v, Remembers(stores, v),
           NEW i \in 1 .. Len(onRollback), NEW hp, Undone(hp, i - 1, stores, v),
           NEW new, new = Call(hp, onRollback[i])
    PROVE  Undone(new, i, stores, v)
  <1> DEFINE c == onRollback[i]
  <1>1. c \in Undos /\ i \in DOMAIN onRollback /\ \A j \in 1 .. i : j \in DOMAIN onRollback
    BY DEF TypeInv
  <1>2. \A j \in 1 .. i : j \in 1 .. i - 1 \/ j = i
    OBVIOUS
  <1>3. \A j \in 1 .. i - 1 : j \in 1 .. i /\ j # i /\ Location(onRollback[j]) # Location(c)
    BY <1>1 DEF Remembers
  <1>4. i \in 1 .. i
    OBVIOUS
  <1>5. hp \in Heaps /\ hp.tr = heap.tr /\ c \notin TreeClosures /\ new = Call(hp, c)
    BY Zenon, <1>1 DEF Undone, TameInv
  <1> HIDE DEF c
  <1>6. CASE c \in StoreClosures
    <2>1. /\ new \in Heaps
          /\ \A n \in Name : new.stores[n] = IF n = c.name THEN c.tree ELSE hp.stores[n]
          /\ new.v = hp.v /\ new.deleted = hp.deleted /\ new.tr = hp.tr
      <3>1. new \in Heaps /\ Renamed(new, hp, c.name, c.tree)
        BY Zenon, <1>1, <1>5, <1>6, CallUndo
      <3> QED
        BY Zenon, <3>1 DEF Renamed
    <2>2. c.tree = stores[c.name] /\ c \notin ItemClosures
      <3>1. c.tree = stores[c.name]
        BY Zenon, <1>1, <1>6 DEF Remembers, c
      <3>2. c \notin ItemClosures
        BY Zenon, <1>1, <1>6, ClosureFields
      <3> QED
        BY Zenon, <3>1, <3>2
    <2>3. ASSUME NEW n \in Name
          PROVE  IF \E j \in 1 .. i : OfStore(onRollback[j], n)
                 THEN new.stores[n] = stores[n]
                 ELSE new.stores[n] = heap.stores[n]
      <3>1. CASE n = c.name
        BY Zenon, <1>4, <1>6, <2>1, <2>2, <3>1 DEF OfStore, c
      <3>2. CASE n # c.name
        <4>1. ~OfStore(onRollback[i], n)
          BY Zenon, <3>2 DEF OfStore, c
        <4>2. (\E j \in 1 .. i : OfStore(onRollback[j], n))
              <=> (\E j \in 1 .. i - 1 : OfStore(onRollback[j], n))
          BY Zenon, <1>2, <1>3, <4>1
        <4> QED
          BY Zenon, <2>1, <3>2, <4>2 DEF Undone
      <3> QED
        BY Zenon, <3>1, <3>2
    <2>4. ASSUME NEW t \in Tree, NEW k \in Key
          PROVE  IF \E j \in 1 .. i : OfItem(onRollback[j], t, k)
                 THEN new.v[t][k] = v[t][k] /\ ~new.deleted[t][k]
                 ELSE new.v[t][k] = heap.v[t][k] /\ new.deleted[t][k] = heap.deleted[t][k]
      <3>1. ~OfItem(onRollback[i], t, k)
        BY Zenon, <2>2 DEF OfItem, c
      <3>2. (\E j \in 1 .. i : OfItem(onRollback[j], t, k))
            <=> (\E j \in 1 .. i - 1 : OfItem(onRollback[j], t, k))
        BY Zenon, <1>2, <1>3, <3>1
      <3> QED
        BY <2>1, <3>2 DEF Undone
    <2> QED
      BY Zenon, <1>5, <2>1, <2>3, <2>4 DEF Undone
  <1>7. CASE c \in ItemClosures
    <2>1. /\ c.op \in {"setItem", "unmark", "removeItem"}
          /\ c.tree \in Tree /\ c.key \in Key /\ c \notin StoreClosures
      <3>1. c.op \in {"setItem", "unmark", "removeItem"} /\ c.tree \in Tree /\ c.key \in Key
        BY Zenon, <1>1, <1>7, ClosureFields
      <3>2. c \notin StoreClosures
        BY Zenon, <1>1, <3>1, ClosureFields
      <3> QED
        BY Zenon, <3>1, <3>2
    <2>2. \A j \in 1 .. i - 1 : ~OfItem(onRollback[j], c.tree, c.key)
      <3> SUFFICES ASSUME NEW j \in 1 .. i - 1, OfItem(onRollback[j], c.tree, c.key)
                   PROVE  FALSE
        BY Zenon
      <3>1. onRollback[j] \in Undos
        BY <1>1, <1>3 DEF TypeInv
      <3>2. onRollback[j] \notin StoreClosures
        BY Zenon, <3>1, ClosureFields DEF OfItem
      <3>3. Location(onRollback[j]) = Location(c)
        BY Zenon, <2>1, <3>2 DEF Location, OfItem
      <3> QED
        BY Zenon, <1>3, <3>3
    <2>3. /\ hp.v[c.tree][c.key] = heap.v[c.tree][c.key]
          /\ hp.deleted[c.tree][c.key] = heap.deleted[c.tree][c.key]
      BY Zenon, <2>1, <2>2 DEF Undone
    <2>4. new \in Heaps /\ Wrote(new, hp, c.tree, c.key, v[c.tree][c.key], FALSE)
      <3>1. CASE c.op = "setItem"
        <4>1. hp.v[c.tree][c.key] # Nil /\ c.v = v[c.tree][c.key] /\ ~c.deleted
          BY Zenon, <1>1, <2>3, <3>1 DEF Remembers, c
        <4>2. c.deleted = FALSE
          BY Zenon, <1>1, <3>1, <4>1, ClosureFields
        <4> QED
          BY Zenon, <1>1, <1>5, <3>1, <4>1, <4>2, CallUndo
      <3>2. CASE c.op = "unmark"
        <4>1. hp.v[c.tree][c.key] # Nil /\ hp.v[c.tree][c.key] = v[c.tree][c.key]
          BY Zenon, <1>1, <2>3, <3>2 DEF Remembers, c
        <4> QED
          BY Zenon, <1>1, <1>5, <3>2, <4>1, CallUndo
      <3>3. CASE c.op = "removeItem"
        <4>1. hp.tr[c.handle] = c.tree /\ v[c.tree][c.key] = Nil
          BY Zenon, <1>1, <1>5, <3>3 DEF Remembers, TameInv, c
        <4> QED
          BY Zenon, <1>1, <1>5, <3>3, <4>1, CallUndo
      <3> QED
        BY Zenon, <2>1, <3>1, <3>2, <3>3
    <2>5. /\ new.stores = hp.stores /\ new.tr = hp.tr
          /\ new.v[c.tree][c.key] = v[c.tree][c.key] /\ ~new.deleted[c.tree][c.key]
          /\ \A s \in Tree, j \in Key : ~(s = c.tree /\ j = c.key) =>
                new.v[s][j] = hp.v[s][j] /\ new.deleted[s][j] = hp.deleted[s][j]
      BY Zenon, <2>1, <2>4 DEF Wrote
    <2>6. ASSUME NEW n \in Name
          PROVE  IF \E j \in 1 .. i : OfStore(onRollback[j], n)
                 THEN new.stores[n] = stores[n]
                 ELSE new.stores[n] = heap.stores[n]
      <3>1. ~OfStore(onRollback[i], n)
        BY Zenon, <2>1 DEF OfStore, c
      <3>2. (\E j \in 1 .. i : OfStore(onRollback[j], n))
            <=> (\E j \in 1 .. i - 1 : OfStore(onRollback[j], n))
        BY Zenon, <1>2, <1>3, <3>1
      <3> QED
        BY Zenon, <2>5, <3>2 DEF Undone
    <2>7. ASSUME NEW t \in Tree, NEW k \in Key
          PROVE  IF \E j \in 1 .. i : OfItem(onRollback[j], t, k)
                 THEN new.v[t][k] = v[t][k] /\ ~new.deleted[t][k]
                 ELSE new.v[t][k] = heap.v[t][k] /\ new.deleted[t][k] = heap.deleted[t][k]
      <3>1. CASE t = c.tree /\ k = c.key
        <4>1. OfItem(onRollback[i], t, k)
          BY Zenon, <1>7, <3>1 DEF OfItem, c
        <4> QED
          BY Zenon, <1>4, <2>5, <3>1, <4>1
      <3>2. CASE ~(t = c.tree /\ k = c.key)
        <4>1. ~OfItem(onRollback[i], t, k)
          BY Zenon, <3>2 DEF OfItem, c
        <4>2. (\E j \in 1 .. i : OfItem(onRollback[j], t, k))
              <=> (\E j \in 1 .. i - 1 : OfItem(onRollback[j], t, k))
          BY Zenon, <1>2, <1>3, <4>1
        <4> QED
          BY Zenon, <2>5, <3>2, <4>2 DEF Undone
      <3> QED
        BY Zenon, <3>1, <3>2
    <2> QED
      BY Zenon, <1>5, <2>4, <2>5, <2>6, <2>7 DEF Undone
  <1> QED
    BY Zenon, <1>1, <1>5, <1>6, <1>7, ClosureFields

(* A transaction that changed no location twice is undone.                  *)
LEMMA RollbackRuns ==
    ASSUME TypeInv, TameInv,
           NEW stores \in [Name -> Tree \cup {NoTree}],
           NEW v \in [Tree -> [Key -> Val \cup {Nil}]], Remembers(stores, v)
    PROVE  LET hp == CallAll(heap, onRollback)
           IN  /\ hp.stores = stores
               /\ \A t \in Tree, k \in Key : hp.v[t][k] = v[t][k] /\ ~hp.deleted[t][k]
  <1> DEFINE N  == Len(onRollback)
             hp == CallAll(heap, onRollback)
  <1>1. onRollback \in Seq(Undos) /\ N \in Nat /\ DOMAIN onRollback = 1 .. N
    BY DEF TypeInv
  <1>2. PICK g : /\ g[0] = heap
                 /\ \A i \in 1 .. N : g[i] = Call(g[i - 1], onRollback[i])
                 /\ hp = g[N]
    BY Zenon, <1>1, CallsInOrder
  <1> DEFINE T == {i \in 0 .. N : Undone(g[i], i, stores, v)}
  <1>3. 0 \in T
    <2>1. Undone(heap, 0, stores, v)
      BY DEF Undone, TypeInv
    <2> QED
      BY <1>1, <1>2, <2>1
  <1>4. ASSUME NEW i \in 0 .. N, i \in T, i < N
        PROVE  i + 1 \in T
    <2>1. i + 1 \in 1 .. N /\ i + 1 \in 0 .. N /\ i + 1 - 1 = i
      BY <1>1, <1>4
    <2>2. /\ Undone(g[i + 1 - 1], i + 1 - 1, stores, v)
          /\ g[i + 1] = Call(g[i + 1 - 1], onRollback[i + 1])
      BY <1>2, <1>4, <2>1
    <2>3. Undone(g[i + 1], i + 1, stores, v)
      BY <2>1, <2>2, UndoStep
    <2> QED
      BY Zenon, <2>1, <2>3
  <1> HIDE DEF T, hp
  <1>5. Undone(hp, N, stores, v)
    <2>1. \A i \in 0 .. N : i \in T
      BY Zenon, <1>1, <1>3, <1>4, ReachesAll
    <2>2. N \in T
      BY <1>1, <2>1
    <2> QED
      BY Zenon, <1>2, <2>2 DEF T
  <1>6. hp.stores = stores
    <2>1. hp.stores \in [Name -> Tree \cup {NoTree}]
      BY Zenon, <1>5, HeapFields DEF Undone
    <2>2. ASSUME NEW n \in Name
          PROVE  hp.stores[n] = stores[n]
      <3>1. heap.stores[n] = stores[n] \/ \E i \in 1 .. N : OfStore(onRollback[i], n)
        BY Zenon, <1>1 DEF Remembers
      <3>2. IF \E i \in 1 .. N : OfStore(onRollback[i], n)
            THEN hp.stores[n] = stores[n] ELSE hp.stores[n] = heap.stores[n]
        BY Zenon, <1>5 DEF Undone
      <3> QED
        BY Zenon, <3>1, <3>2
    <2> QED
      BY <2>1, <2>2
  <1>7. ASSUME NEW t \in Tree, NEW k \in Key
        PROVE  hp.v[t][k] = v[t][k] /\ ~hp.deleted[t][k]
    <2>1. \/ heap.v[t][k] = v[t][k] /\ ~heap.deleted[t][k]
          \/ \E i \in 1 .. N : OfItem(onRollback[i], t, k)
      BY Zenon, <1>1 DEF Remembers
    <2>2. IF \E i \in 1 .. N : OfItem(onRollback[i], t, k)
          THEN hp.v[t][k] = v[t][k] /\ ~hp.deleted[t][k]
          ELSE hp.v[t][k] = heap.v[t][k] /\ hp.deleted[t][k] = heap.deleted[t][k]
      BY Zenon, <1>5 DEF Undone
    <2> QED
      BY Zenon, <2>1, <2>2
  <1> QED
    BY Zenon, <1>6, <1>7 DEF hp

(* Whatever a transaction did, the closures of onRollback leave a heap.     *)
LEMMA RollbackType ==
    ASSUME TypeInv
    PROVE  CallAll(heap, onRollback) \in Heaps
  <1> DEFINE N == Len(onRollback)
  <1>1. onRollback \in Seq(Undos) /\ N \in Nat /\ heap \in Heaps
    BY DEF TypeInv
  <1>2. PICK g : /\ g[0] = heap
                 /\ \A i \in 1 .. N : g[i] = Call(g[i - 1], onRollback[i])
                 /\ CallAll(heap, onRollback) = g[N]
    BY Zenon, <1>1, CallsInOrder
  <1> DEFINE T == {i \in 0 .. N : g[i] \in Heaps}
  <1>3. 0 \in T
    BY <1>1, <1>2
  <1>4. ASSUME NEW i \in 0 .. N, i \in T, i < N
        PROVE  i + 1 \in T
    <2>1. i + 1 \in 1 .. N /\ i + 1 \in 0 .. N /\ i + 1 - 1 = i
      BY <1>1, <1>4
    <2>2. onRollback[i + 1] \in Undos /\ g[i] \in Heaps /\ g[i + 1] = Call(g[i], onRollback[i + 1])
      BY <1>1, <1>2, <1>4, <2>1
    <2>3. g[i + 1] \in Heaps
      BY Zenon, <2>2, CallUndo
    <2> QED
      BY Zenon, <2>1, <2>3
  <1> HIDE DEF T
  <1>5. N \in T
    <2>1. \A i \in 0 .. N : i \in T
      BY Zenon, <1>1, <1>3, <1>4, ReachesAll
    <2> QED
      BY <1>1, <2>1
  <1> QED
    BY Zenon, <1>2, <1>5 DEF T

-----------------------------------------------------------------------------
(* A closure pushed on a list of closures.                                  *)
LEMMA Pushed ==
    ASSUME NEW S, NEW s \in Seq(S), NEW e \in S
    PROVE  LET new == Append(s, e)
               N   == Len(s) + 1
           IN  /\ new \in Seq(S) /\ Len(new) = N
               /\ DOMAIN new = DOMAIN s \cup {N} /\ N \notin DOMAIN s
               /\ \A i \in DOMAIN s : new[i] = s[i]
               /\ new[N] = e
  <1> DEFINE new == Append(s, e)
             N   == Len(s) + 1
  <1>1. new \in Seq(S) /\ Len(new) = N /\ new[N] = e /\ \A i \in DOMAIN s : new[i] = s[i]
    OBVIOUS
  <1>2. Len(s) \in Nat /\ DOMAIN s = 1 .. Len(s) /\ DOMAIN new = 1 .. N
    BY <1>1
  <1>3. DOMAIN new = DOMAIN s \cup {N} /\ N \notin DOMAIN s
    <2> DEFINE L == Len(s)
    <2>1. 1 .. L + 1 = (1 .. L) \cup {L + 1} /\ L + 1 \notin 1 .. L
      <3> HIDE DEF L
      <3> SUFFICES ASSUME L \in Nat
                   PROVE  1 .. L + 1 = (1 .. L) \cup {L + 1} /\ L + 1 \notin 1 .. L
        BY Zenon, <1>2 DEF L
      <3> QED
        OBVIOUS
    <2> QED
      BY Zenon, <1>2, <2>1
  <1> QED
    BY Zenon, <1>1, <1>3

(* What Mutate does to the lists of closures: undo is last in onRollback,   *)
(* finish is added to onCommit, the others stay where they are.             *)
Pushes(undo, finish) ==
    /\ \E N : /\ DOMAIN onRollback' = DOMAIN onRollback \cup {N}
              /\ N \notin DOMAIN onRollback
              /\ onRollback'[N] = undo
    /\ \A i \in DOMAIN onRollback : onRollback'[i] = onRollback[i]
    /\ \A i \in DOMAIN onCommit : i \in DOMAIN onCommit' /\ onCommit'[i] = onCommit[i]
    /\ \A i \in DOMAIN onCommit' :
          \/ i \in DOMAIN onCommit /\ onCommit'[i] = onCommit[i]
          \/ finish = <<onCommit'[i]>>
    /\ \A f : finish = <<f>> => \E i \in DOMAIN onCommit' : onCommit'[i] = f

(* A mutation keeps the types and the bound on the number of closures.      *)
LEMMA MutateStep ==
    ASSUME TypeInv, open, NEW where, NEW new \in Heaps, NEW undo \in Undos, NEW finish,
           finish = <<>> \/ \E f \in Finals : finish = <<f>>,
           Mutate(where, new, undo, finish)
    PROVE  /\ TypeInv' /\ heap' = new /\ saved' = saved /\ wild' = wild
           /\ Pushes(undo, finish)
           /\ touched' = touched \cup {where}
           /\ again' = (again \/ where \in touched)
  <1>1. /\ heap' = new /\ saved' = saved /\ wild' = wild /\ open' = open /\ ctxDone' = ctxDone
        /\ touched' = touched \cup {where} /\ again' = (again \/ where \in touched)
        /\ onRollback' = Append(onRollback, undo) /\ onCommit' = onCommit \o finish
        /\ Len(onRollback) < IF wild THEN MaxWild ELSE MaxOps
    BY Zenon DEF Mutate
  <1>2. /\ onRollback \in Seq(Undos) /\ onCommit \in Seq(Finals)
        /\ Len(onCommit) <= Len(onRollback)
        /\ {open, ctxDone, again, wild} \subseteq BOOLEAN
    BY Zenon DEF TypeInv
  <1>3. /\ onRollback' \in Seq(Undos) /\ Len(onRollback') = Len(onRollback) + 1
        /\ DOMAIN onRollback' = DOMAIN onRollback \cup {Len(onRollback) + 1}
        /\ Len(onRollback) + 1 \notin DOMAIN onRollback
        /\ \A i \in DOMAIN onRollback : onRollback'[i] = onRollback[i]
        /\ onRollback'[Len(onRollback) + 1] = undo
    BY <1>1, <1>2, Pushed
  <1>4. /\ onCommit' \in Seq(Finals) /\ Len(onCommit') <= Len(onCommit) + 1
        /\ \A i \in DOMAIN onCommit : i \in DOMAIN onCommit' /\ onCommit'[i] = onCommit[i]
        /\ \A i \in DOMAIN onCommit' :
              \/ i \in DOMAIN onCommit /\ onCommit'[i] = onCommit[i]
              \/ finish = <<onCommit'[i]>>
        /\ \A f : finish = <<f>> => \E i \in DOMAIN onCommit' : onCommit'[i] = f
    <2>1. CASE finish = <<>>
      <3>1. onCommit' = onCommit
        BY <1>1, <1>2, <2>1
      <3>2. \A f : <<f>> # <<>>
        BY Zenon
      <3> QED
        BY <1>2, <2>1, <3>1, <3>2
    <2>2. ASSUME NEW f \in Finals, finish = <<f>>
          PROVE  /\ onCommit' \in Seq(Finals) /\ Len(onCommit') <= Len(onCommit) + 1
                 /\ \A i \in DOMAIN onCommit : i \in DOMAIN onCommit' /\ onCommit'[i] = onCommit[i]
                 /\ \A i \in DOMAIN onCommit' :
                       \/ i \in DOMAIN onCommit /\ onCommit'[i] = onCommit[i]
                       \/ finish = <<onCommit'[i]>>
                 /\ \A g : finish = <<g>> => \E i \in DOMAIN onCommit' : onCommit'[i] = g
      <3>1. onCommit' = Append(onCommit, f)
        BY <1>1, <1>2, <2>2
      <3>2. /\ onCommit' \in Seq(Finals) /\ Len(onCommit') = Len(onCommit) + 1
            /\ DOMAIN onCommit' = DOMAIN onCommit \cup {Len(onCommit) + 1}
            /\ \A i \in DOMAIN onCommit : onCommit'[i] = onCommit[i]
            /\ onCommit'[Len(onCommit) + 1] = f
        BY <1>2, <3>1, Pushed
      <3>3. \A g : finish = <<g>> => g = f
        BY Zenon, <2>2
      <3> QED
        BY <2>2, <3>2, <3>3
    <2> QED
      BY Zenon, <2>1, <2>2
  <1>5. Pushes(undo, finish)
    BY Zenon, <1>3, <1>4 DEF Pushes
  <1>6. /\ Len(onRollback') <= IF wild' THEN MaxWild ELSE MaxOps
        /\ Len(onCommit') <= Len(onRollback')
    <2> DEFINE a == Len(onRollback)  b == Len(onCommit)  c == Len(onCommit')
               bound == IF wild THEN MaxWild ELSE MaxOps
    <2>1. a \in Nat /\ b \in Nat /\ c \in Nat /\ bound \in Nat
      <3>1. MaxWild \in Nat /\ MaxOps \in Nat
        BY Zenon, MemoryEngineAssumptions
      <3>2. bound \in Nat
        BY Zenon, <3>1
      <3>3. a \in Nat /\ b \in Nat /\ c \in Nat
        BY <1>2, <1>4
      <3> QED
        BY Zenon, <3>2, <3>3
    <2>2. a < bound /\ b <= a /\ c <= b + 1
      BY Zenon, <1>1, <1>2, <1>4
    <2>3. Len(onRollback') = a + 1 /\ (IF wild' THEN MaxWild ELSE MaxOps) = bound
      BY Zenon, <1>1, <1>3
    <2> HIDE DEF a, b, c, bound
    <2>4. a + 1 <= bound /\ c <= a + 1
      BY <2>1, <2>2
    <2> QED
      BY Zenon, <2>3, <2>4 DEF c
  <1>7. {open', ctxDone', again', wild'} \subseteq BOOLEAN
    BY Zenon, <1>1, <1>2
  <1>8. TypeInv'
    BY Zenon, <1>1, <1>3, <1>4, <1>6, <1>7 DEF TypeInv
  <1> QED
    BY Zenon, <1>1, <1>5, <1>8

(* Where a closure works, by what it does.                                  *)
LEMMA Located ==
    ASSUME NEW c \in Undos
    PROVE  /\ c \in ItemClosures => c \notin StoreClosures /\ Location(c) = <<c.tree, c.key>>
           /\ c \in StoreClosures => c \notin ItemClosures /\ Location(c) = <<c.name, Nil>>
           /\ c.op \in {"setItem", "unmark", "removeItem"} => c \in ItemClosures
  <1>1. c \in ItemClosures => c \notin StoreClosures
    BY Zenon, ClosureFields
  <1>2. c.op \in {"setItem", "unmark", "removeItem"} => c \in ItemClosures
    BY Zenon, ClosureFields
  <1> QED
    BY Zenon, <1>1, <1>2 DEF Location

(* touched holds the locations of the closures; if the new one is at a      *)
(* location that was not touched, the locations stay distinct.              *)
LEMMA TouchStep ==
    ASSUME NEW undo, NEW finish, NEW where, Pushes(undo, finish), Location(undo) = where,
           touched' = touched \cup {where}, TameInv
    PROVE  /\ \A i \in DOMAIN onRollback' : Location(onRollback'[i]) \in touched'
           /\ touched' \subseteq {Location(onRollback'[i]) : i \in DOMAIN onRollback'}
           /\ where \notin touched =>
                 /\ \A i \in DOMAIN onRollback : Location(onRollback[i]) # where
                 /\ (\A i, j \in DOMAIN onRollback :
                        Location(onRollback[i]) = Location(onRollback[j]) => i = j)
                    => \A i, j \in DOMAIN onRollback' :
                          Location(onRollback'[i]) = Location(onRollback'[j]) => i = j
  <1>1. PICK N : /\ DOMAIN onRollback' = DOMAIN onRollback \cup {N}
                 /\ N \notin DOMAIN onRollback
                 /\ onRollback'[N] = undo
    BY Zenon DEF Pushes
  <1>2. \A i \in DOMAIN onRollback : onRollback'[i] = onRollback[i]
    BY Zenon DEF Pushes
  <1>3. /\ \A i \in DOMAIN onRollback : Location(onRollback[i]) \in touched
        /\ touched \subseteq {Location(onRollback[i]) : i \in DOMAIN onRollback}
    BY Zenon DEF TameInv
  <1>4. \A i \in DOMAIN onRollback' : Location(onRollback'[i]) \in touched'
    BY Zenon, <1>1, <1>2, <1>3
  <1>5. touched' \subseteq {Location(onRollback'[i]) : i \in DOMAIN onRollback'}
    BY <1>1, <1>2, <1>3
  <1>6. ASSUME where \notin touched
        PROVE  /\ \A i \in DOMAIN onRollback : Location(onRollback[i]) # where
               /\ (\A i, j \in DOMAIN onRollback :
                      Location(onRollback[i]) = Location(onRollback[j]) => i = j)
                  => \A i, j \in DOMAIN onRollback' :
                        Location(onRollback'[i]) = Location(onRollback'[j]) => i = j
    <2>1. \A i \in DOMAIN onRollback : Location(onRollback[i]) # where
      BY Zenon, <1>3, <1>6
    <2> QED
      BY Zenon, <1>1, <1>2, <2>1
  <1> QED
    BY Zenon, <1>4, <1>5, <1>6

(* The closure undo of a change of item k of tree t to x through handle h.  *)
UndoesItem(undo, t, h, k, x) ==
    \/ /\ heap.v[t][k] # Nil
       /\ undo = [op |-> "setItem", tree |-> t, key |-> k,
                  v |-> heap.v[t][k], deleted |-> heap.deleted[t][k]]
    \/ /\ heap.v[t][k] = Nil
       /\ undo = [op |-> "removeItem", tree |-> t, handle |-> h, key |-> k]
    \/ /\ heap.v[t][k] # Nil /\ x = heap.v[t][k]
       /\ undo = [op |-> "unmark", tree |-> t, key |-> k]

(* Which location a closure made by storeTx.Put or storeTx.Delete is about, *)
(* and what it puts back there.                                             *)
LEMMA UndoesItemFields ==
    ASSUME heap \in Heaps, NEW h \in Handle, NEW k \in Key, NEW t \in Tree, NEW x, NEW undo,
           UndoesItem(undo, t, h, k, x)
    PROVE  /\ undo \in Undos /\ undo \in ItemClosures /\ undo \notin StoreClosures
           /\ undo \notin TreeClosures
           /\ undo.tree = t /\ undo.key = k /\ Location(undo) = <<t, k>>
           /\ undo.op = "removeItem" => heap.v[t][k] = Nil /\ undo.handle = h
           /\ undo.op = "setItem" => undo.v = heap.v[t][k] /\ undo.deleted = heap.deleted[t][k]
           /\ undo.op = "unmark" => x = heap.v[t][k]
  <1>1. heap.v[t][k] \in Val \cup {Nil} /\ heap.deleted[t][k] \in BOOLEAN
    BY HeapFields
  <1> DEFINE a == heap.v[t][k]
             b == heap.deleted[t][k]
  <1>2. \/ a \in Val /\ undo = [op |-> "setItem", tree |-> t, key |-> k, v |-> a, deleted |-> b]
        \/ a = Nil /\ undo = [op |-> "removeItem", tree |-> t, handle |-> h, key |-> k]
        \/ x = a /\ undo = [op |-> "unmark", tree |-> t, key |-> k]
    BY Zenon, <1>1 DEF UndoesItem
  <1>3. b \in BOOLEAN
    BY Zenon, <1>1
  <1> HIDE DEF a, b
  <1>4. undo \in ItemClosures
    BY <1>2, <1>3 DEF ItemClosures
  <1>5. /\ undo.tree = t /\ undo.key = k
        /\ undo.op = "removeItem" => a = Nil /\ undo.handle = h
        /\ undo.op = "setItem" => undo.v = a /\ undo.deleted = b
        /\ undo.op = "unmark" => x = a
        /\ undo.op \in {"setItem", "unmark", "removeItem"}
    BY <1>2
  <1>6. undo \in Undos
    BY Zenon, <1>4 DEF Undos
  <1>7. undo \notin StoreClosures /\ undo \notin TreeClosures
    BY Zenon, <1>5, <1>6, ClosureFields
  <1> QED
    BY Zenon, <1>4, <1>5, <1>6, <1>7 DEF Location, a, b

(* A first change of an item leaves with its closure what was there when    *)
(* the transaction began.                                                   *)
LEMMA ItemRemembered ==
    ASSUME TypeInv, TameInv, NEW h \in Handle, NEW k \in Key, NEW t \in Tree,
           NEW x \in Val, NEW d, NEW undo, NEW finish, UndoesItem(undo, t, h, k, x),
           Wrote(heap', heap, t, k, x, d), Pushes(undo, finish), saved' = saved,
           <<t, k>> \notin touched, touched' = touched \cup {<<t, k>>},
           NEW stores, NEW v, Remembers(stores, v)
    PROVE  Remembers(stores, v)'
  <1>1. PICK N : /\ DOMAIN onRollback' = DOMAIN onRollback \cup {N}
                 /\ N \notin DOMAIN onRollback
                 /\ onRollback'[N] = undo
    BY Zenon DEF Pushes
  <1>2. \A i \in DOMAIN onRollback : onRollback'[i] = onRollback[i] /\ onRollback[i] \in Undos
    BY DEF Pushes, TypeInv
  <1>3. /\ undo \in ItemClosures /\ undo \notin StoreClosures /\ undo.tree = t /\ undo.key = k
        /\ Location(undo) = <<t, k>>
        /\ undo.op = "removeItem" => heap.v[t][k] = Nil
        /\ undo.op = "setItem" => undo.v = heap.v[t][k] /\ undo.deleted = heap.deleted[t][k]
        /\ undo.op = "unmark" => x = heap.v[t][k]
    <2>1. heap \in Heaps
      BY Zenon DEF TypeInv
    <2> QED
      BY <2>1, UndoesItemFields
  <1>4. \A i \in DOMAIN onRollback : Location(onRollback[i]) # <<t, k>>
    <2>1. \A i \in DOMAIN onRollback : Location(onRollback[i]) \in touched
      BY Zenon DEF TameInv
    <2> QED
      BY Zenon, <2>1
  <1>5. \A i, j \in DOMAIN onRollback' :
           Location(onRollback'[i]) = Location(onRollback'[j]) => i = j
    <2>1. \A i, j \in DOMAIN onRollback :
             Location(onRollback[i]) = Location(onRollback[j]) => i = j
      BY Zenon DEF Remembers
    <2> QED
      BY Zenon, <1>3, <2>1, TouchStep
  <1>6. /\ heap'.stores = heap.stores
        /\ heap'.v[t][k] = x /\ heap'.deleted[t][k] = d
        /\ \A s \in Tree, j \in Key : ~(s = t /\ j = k) =>
              heap'.v[s][j] = heap.v[s][j] /\ heap'.deleted[s][j] = heap.deleted[s][j]
    BY Zenon DEF Wrote
  <1>7. heap.v[t][k] = v[t][k] /\ ~heap.deleted[t][k]
    <2>1. \A i \in DOMAIN onRollback : ~OfItem(onRollback[i], t, k)
      BY Zenon, <1>2, <1>4, Located DEF OfItem
    <2> QED
      BY Zenon, <2>1 DEF Remembers
  <1>8. \A n \in Name : \/ heap'.stores[n] = stores[n]
                        \/ \E i \in DOMAIN onRollback' : OfStore(onRollback'[i], n)
    <2>1. \A n \in Name : \/ heap.stores[n] = stores[n]
                          \/ \E i \in DOMAIN onRollback : OfStore(onRollback[i], n)
      BY Zenon DEF Remembers
    <2> QED
      BY Zenon, <1>1, <1>2, <1>6, <2>1
  <1>9. ASSUME NEW s \in Tree, NEW j \in Key
        PROVE  \/ heap'.v[s][j] = v[s][j] /\ ~heap'.deleted[s][j]
               \/ \E i \in DOMAIN onRollback' : OfItem(onRollback'[i], s, j)
    <2>1. CASE s = t /\ j = k
      <3>1. OfItem(undo, s, j)
        BY Zenon, <1>3, <2>1 DEF OfItem
      <3> QED
        BY Zenon, <1>1, <3>1
    <2>2. CASE ~(s = t /\ j = k)
      <3>1. \/ heap.v[s][j] = v[s][j] /\ ~heap.deleted[s][j]
            \/ \E i \in DOMAIN onRollback : OfItem(onRollback[i], s, j)
        BY Zenon DEF Remembers
      <3> QED
        BY Zenon, <1>1, <1>2, <1>6, <2>2, <3>1
    <2> QED
      BY Zenon, <2>1, <2>2
  <1> DEFINE Holds(c, hv) ==
                /\ c \in StoreClosures => c.tree = stores[c.name]
                /\ c.op = "setItem" => /\ hv[c.tree][c.key] # Nil
                                       /\ c.v = v[c.tree][c.key] /\ ~c.deleted
                /\ c.op = "unmark" => /\ hv[c.tree][c.key] # Nil
                                      /\ hv[c.tree][c.key] = v[c.tree][c.key]
                /\ c.op = "removeItem" => v[c.tree][c.key] = Nil
  <1>10. ASSUME NEW i \in DOMAIN onRollback'
         PROVE  Holds(onRollback'[i], heap'.v)
    <2>1. CASE i = N
      <3>1. x # Nil
        BY Zenon, MemoryEngineAssumptions
      <3> QED
        BY Zenon, <1>1, <1>3, <1>6, <1>7, <2>1, <3>1
    <2>2. CASE i \in DOMAIN onRollback
      <3> DEFINE c == onRollback[i]
      <3>1. Holds(c, heap.v)
        BY Zenon, <2>2 DEF Remembers
      <3>2. onRollback'[i] = c /\ c \in Undos /\ Location(c) # <<t, k>>
        BY Zenon, <1>2, <1>4, <2>2
      <3> HIDE DEF c
      <3>3. c.op \in {"setItem", "unmark"} => heap'.v[c.tree][c.key] = heap.v[c.tree][c.key]
        <4> SUFFICES ASSUME c.op \in {"setItem", "unmark"}
                     PROVE  heap'.v[c.tree][c.key] = heap.v[c.tree][c.key]
          BY Zenon
        <4>1. c \in ItemClosures /\ Location(c) = <<c.tree, c.key>>
          BY Zenon, <3>2, Located
        <4>2. c.tree \in Tree /\ c.key \in Key /\ ~(c.tree = t /\ c.key = k)
          BY Zenon, <3>2, <4>1, ClosureFields
        <4> QED
          BY Zenon, <1>6, <4>2
      <3>4. Holds(c, heap'.v)
        <4>1. CASE c.op = "setItem"
          <5>1. heap'.v[c.tree][c.key] = heap.v[c.tree][c.key] /\ c.op # "unmark"
            BY Zenon, <3>3, <4>1
          <5> QED
            BY Zenon, <3>1, <4>1, <5>1
        <4>2. CASE c.op = "unmark"
          BY Zenon, <3>1, <3>3, <4>2
        <4>3. CASE c.op \notin {"setItem", "unmark"}
          BY Zenon, <3>1, <4>3
        <4> QED
          BY Zenon, <4>1, <4>2, <4>3
      <3> QED
        BY Zenon, <3>2, <3>4
    <2> QED
      BY Zenon, <1>1, <2>1, <2>2
  <1>11. StoresApart(stores) /\ saved' = [n \in Name |-> IF stores[n] = NoTree THEN NoStore ELSE v[stores[n]]]
    BY Zenon DEF Remembers
  <1> QED
    BY Zenon, <1>5, <1>8, <1>9, <1>10, <1>11 DEF Remembers

(* Put and Delete: a change of item k of tree t through handle h.           *)
LEMMA ItemStep ==
    ASSUME IInv, open, NEW h \in Handle, NEW k \in Key, NEW t \in Tree, heap.tr[h] = t,
           NEW x \in Val, NEW d \in BOOLEAN, NEW undo, NEW finish, NEW new \in Heaps,
           Wrote(new, heap, t, k, x, d), UndoesItem(undo, t, h, k, x),
           finish = IF d THEN <<[op |-> "finalize", tree |-> t, handle |-> h, key |-> k]>> ELSE <<>>,
           Mutate(<<t, k>>, new, undo, finish)
    PROVE  IInv'
  <1> DEFINE f == [op |-> "finalize", tree |-> t, handle |-> h, key |-> k]
  <1>1. /\ undo \in Undos /\ undo \notin TreeClosures /\ Location(undo) = <<t, k>>
        /\ undo.tree = t /\ (undo.op = "removeItem" => undo.handle = h)
    BY UndoesItemFields DEF IInv, TypeInv
  <1>2. f \in Finals /\ f.tree = t /\ f.handle = h /\ f.key = k
    BY Zenon DEF Finals
  <1>3. finish = IF d THEN <<f>> ELSE <<>>
    BY Zenon
  <1> HIDE DEF f
  <1>4. /\ TypeInv' /\ heap' = new /\ saved' = saved /\ wild' = wild /\ Pushes(undo, finish)
        /\ touched' = touched \cup {<<t, k>>} /\ again' = (again \/ <<t, k>> \in touched)
    <2>1. finish = <<>> \/ \E e \in Finals : finish = <<e>>
      BY Zenon, <1>2, <1>3
    <2> QED
      BY Zenon, <1>1, <2>1, MutateStep DEF IInv
  <1>5. /\ heap'.stores = heap.stores /\ heap'.tr = heap.tr
        /\ heap'.v[t][k] = x /\ heap'.deleted[t][k] = d
        /\ \A s \in Tree, j \in Key : ~(s = t /\ j = k) =>
              heap'.v[s][j] = heap.v[s][j] /\ heap'.deleted[s][j] = heap.deleted[s][j]
    BY Zenon, <1>4 DEF Wrote
  <1>6. FinalsOnTheirTree'
    <2> SUFFICES ASSUME NEW i \in DOMAIN onCommit'
                 PROVE  LET e == onCommit'[i] IN
                        /\ heap.tr[e.handle] # NoTree
                        /\ heap.tr[e.handle] = e.tree
                           \/ (wild /\ heap.tr[e.handle] \notin Range(heap.stores))
      BY Zenon, <1>4, <1>5 DEF FinalsOnTheirTree
    <2>1. CASE i \in DOMAIN onCommit /\ onCommit'[i] = onCommit[i]
      BY Zenon, <2>1 DEF IInv, FinalsOnTheirTree
    <2>2. CASE finish = <<onCommit'[i]>>
      <3>1. onCommit'[i] = f
        BY <1>3, <2>2
      <3> QED
        BY Zenon, <1>2, <3>1, MemoryEngineAssumptions
    <2> QED
      BY Zenon, <1>4, <2>1, <2>2 DEF Pushes
  <1>7. ASSUME ~wild
        PROVE  TameInv'
    <2>1. TameInv /\ TypeInv
      BY Zenon, <1>7 DEF IInv
    <2>2. StoresApart(heap'.stores)
      BY Zenon, <1>5, <2>1 DEF TameInv
    <2>3. ASSUME NEW s \in FreeTrees', NEW j \in Key
          PROVE  heap'.v[s][j] = Nil
      <3>1. PICK N : DOMAIN onRollback' = DOMAIN onRollback \cup {N}
        BY Zenon, <1>4 DEF Pushes
      <3>2. \A i \in DOMAIN onRollback : onRollback'[i] = onRollback[i] /\ i \in DOMAIN onRollback'
        BY Zenon, <1>4, <3>1 DEF Pushes
      <3>3. s \in FreeTrees
        BY Zenon, <1>5, <3>2 DEF FreeTrees
      <3>4. s # t
        BY <3>3, HeapFields DEF FreeTrees, Range, IInv, TypeInv
      <3>5. s \in Tree /\ heap.v[s][j] = Nil
        BY Zenon, <2>1, <3>3 DEF TameInv, FreeTrees
      <3> QED
        BY Zenon, <1>5, <3>4, <3>5
    <2>4. ASSUME NEW s \in Tree, NEW j \in Key, heap'.deleted[s][j]
          PROVE  /\ heap'.v[s][j] # Nil
                 /\ \E i \in DOMAIN onCommit' : onCommit'[i].tree = s /\ onCommit'[i].key = j
      <3>1. CASE s = t /\ j = k
        <4>1. finish = <<f>>
          BY Zenon, <1>3, <1>5, <2>4, <3>1
        <4>2. PICK i \in DOMAIN onCommit' : onCommit'[i] = f
          BY Zenon, <1>4, <4>1 DEF Pushes
        <4> QED
          BY Zenon, <1>2, <1>5, <3>1, <4>2, MemoryEngineAssumptions
      <3>2. CASE ~(s = t /\ j = k)
        <4>1. heap.deleted[s][j] /\ heap'.v[s][j] = heap.v[s][j]
          BY Zenon, <1>5, <2>4, <3>2
        <4>2. heap.v[s][j] # Nil
          BY Zenon, <2>1, <4>1 DEF TameInv
        <4>3. PICK i \in DOMAIN onCommit : onCommit[i].tree = s /\ onCommit[i].key = j
          BY Zenon, <2>1, <4>1 DEF TameInv
        <4>4. i \in DOMAIN onCommit' /\ onCommit'[i] = onCommit[i]
          BY Zenon, <1>4 DEF Pushes
        <4> QED
          BY Zenon, <4>1, <4>2, <4>3, <4>4
      <3> QED
        BY Zenon, <3>1, <3>2
    <2>5. ASSUME NEW i \in DOMAIN onRollback'
          PROVE  LET c == onRollback'[i] IN
                 c \notin TreeClosures /\ (c.op = "removeItem" => heap'.tr[c.handle] = c.tree)
      <3>1. CASE i \in DOMAIN onRollback /\ onRollback'[i] = onRollback[i]
        BY Zenon, <1>5, <2>1, <3>1 DEF TameInv
      <3>2. CASE onRollback'[i] = undo
        BY Zenon, <1>1, <1>5, <3>2
      <3>3. (i \in DOMAIN onRollback /\ onRollback'[i] = onRollback[i]) \/ onRollback'[i] = undo
        BY Zenon, <1>4 DEF Pushes
      <3> QED
        BY Zenon, <3>1, <3>2, <3>3
    <2>6. /\ \A i \in DOMAIN onRollback' : Location(onRollback'[i]) \in touched'
          /\ touched' \subseteq {Location(onRollback'[i]) : i \in DOMAIN onRollback'}
      BY Zenon, <1>1, <1>4, <2>1, TouchStep
    <2>7. ASSUME ~again'
          PROVE  \E stores \in [Name -> Tree \cup {NoTree}], v \in [Tree -> [Key -> Val \cup {Nil}]] :
                    Remembers(stores, v)'
      <3>1. ~again /\ <<t, k>> \notin touched
        BY Zenon, <1>4, <2>7
      <3>2. PICK stores \in [Name -> Tree \cup {NoTree}], v \in [Tree -> [Key -> Val \cup {Nil}]] :
                    Remembers(stores, v)
        BY Zenon, <2>1, <3>1 DEF TameInv
      <3>3. Wrote(heap', heap, t, k, x, d)
        BY Zenon, <1>4
      <3>4. Remembers(stores, v)'
        BY Zenon, <1>4, <2>1, <3>1, <3>2, <3>3, ItemRemembered
      <3> QED
        BY Zenon, <3>4
    <2> QED
      BY Zenon, <2>2, <2>3, <2>4, <2>5, <2>6, <2>7 DEF TameInv
  <1> QED
    BY Zenon, <1>4, <1>6, <1>7 DEF IInv

-----------------------------------------------------------------------------
(* A first change of a store leaves with its closure the tree that the name *)
(* had when the transaction began.                                          *)
LEMMA StoreRemembered ==
    ASSUME TypeInv, TameInv, NEW n \in Name, NEW t, NEW undo, NEW finish,
           undo \in StoreClosures, undo.name = n, undo.tree = heap.stores[n],
           Renamed(heap', heap, n, t), Pushes(undo, finish), saved' = saved,
           <<n, Nil>> \notin touched, touched' = touched \cup {<<n, Nil>>},
           NEW stores, NEW v, Remembers(stores, v)
    PROVE  Remembers(stores, v)'
  <1>1. PICK N : /\ DOMAIN onRollback' = DOMAIN onRollback \cup {N}
                 /\ N \notin DOMAIN onRollback
                 /\ onRollback'[N] = undo
    BY Zenon DEF Pushes
  <1>2. \A i \in DOMAIN onRollback : onRollback'[i] = onRollback[i] /\ onRollback[i] \in Undos
    BY DEF Pushes, TypeInv
  <1>3. undo.op \in {"dropStore", "putStore"} /\ Location(undo) = <<n, Nil>>
    <2>1. undo \in Undos
      BY Zenon DEF Undos
    <2> QED
      BY Zenon, <2>1, ClosureFields, Located
  <1>4. \A i \in DOMAIN onRollback : Location(onRollback[i]) # <<n, Nil>>
    BY Zenon, <1>3, TouchStep
  <1>5. \A i, j \in DOMAIN onRollback' :
           Location(onRollback'[i]) = Location(onRollback'[j]) => i = j
    <2>1. \A i, j \in DOMAIN onRollback :
             Location(onRollback[i]) = Location(onRollback[j]) => i = j
      BY Zenon DEF Remembers
    <2> QED
      BY Zenon, <1>3, <2>1, TouchStep
  <1>6. /\ heap'.v = heap.v /\ heap'.deleted = heap.deleted
        /\ \A m \in Name : m # n => heap'.stores[m] = heap.stores[m]
    BY Zenon DEF Renamed
  <1>7. heap.stores[n] = stores[n]
    <2>1. \A i \in DOMAIN onRollback : ~OfStore(onRollback[i], n)
      BY Zenon, <1>2, <1>4, Located DEF OfStore
    <2> QED
      BY Zenon, <2>1 DEF Remembers
  <1>8. ASSUME NEW m \in Name
        PROVE  \/ heap'.stores[m] = stores[m]
               \/ \E i \in DOMAIN onRollback' : OfStore(onRollback'[i], m)
    <2>1. CASE m = n
      <3>1. OfStore(undo, m)
        BY Zenon, <2>1 DEF OfStore
      <3> QED
        BY Zenon, <1>1, <3>1
    <2>2. CASE m # n
      <3>1. \/ heap.stores[m] = stores[m]
            \/ \E i \in DOMAIN onRollback : OfStore(onRollback[i], m)
        BY Zenon DEF Remembers
      <3> QED
        BY Zenon, <1>1, <1>2, <1>6, <2>2, <3>1
    <2> QED
      BY Zenon, <2>1, <2>2
  <1>9. ASSUME NEW s \in Tree, NEW j \in Key
        PROVE  \/ heap'.v[s][j] = v[s][j] /\ ~heap'.deleted[s][j]
               \/ \E i \in DOMAIN onRollback' : OfItem(onRollback'[i], s, j)
    <2>1. \/ heap.v[s][j] = v[s][j] /\ ~heap.deleted[s][j]
          \/ \E i \in DOMAIN onRollback : OfItem(onRollback[i], s, j)
      BY Zenon DEF Remembers
    <2> QED
      BY Zenon, <1>1, <1>2, <1>6, <2>1
  <1> DEFINE Holds(c, hv) ==
                /\ c \in StoreClosures => c.tree = stores[c.name]
                /\ c.op = "setItem" => /\ hv[c.tree][c.key] # Nil
                                       /\ c.v = v[c.tree][c.key] /\ ~c.deleted
                /\ c.op = "unmark" => /\ hv[c.tree][c.key] # Nil
                                      /\ hv[c.tree][c.key] = v[c.tree][c.key]
                /\ c.op = "removeItem" => v[c.tree][c.key] = Nil
  <1>10. ASSUME NEW i \in DOMAIN onRollback'
         PROVE  Holds(onRollback'[i], heap'.v)
    <2>1. CASE i = N
      BY Zenon, <1>1, <1>3, <1>7, <2>1
    <2>2. CASE i \in DOMAIN onRollback
      <3>1. Holds(onRollback[i], heap.v)
        BY Zenon, <2>2 DEF Remembers
      <3> HIDE DEF Holds
      <3> QED
        BY Zenon, <1>2, <1>6, <2>2, <3>1
    <2> QED
      BY Zenon, <1>1, <2>1, <2>2
  <1>11. StoresApart(stores) /\ saved' = [m \in Name |-> IF stores[m] = NoTree THEN NoStore ELSE v[stores[m]]]
    BY Zenon DEF Remembers
  <1> QED
    BY Zenon, <1>5, <1>8, <1>9, <1>10, <1>11 DEF Remembers

(* CreateStore and DropStore: name n gets a tree that nothing points to, or *)
(* none.                                                                    *)
LEMMA StoreStep ==
    ASSUME IInv, open, NEW n \in Name, NEW t, t \in FreeTrees \/ t = NoTree,
           NEW new \in Heaps, Renamed(new, heap, n, t), NEW undo,
           undo \in StoreClosures, undo.name = n, undo.tree = heap.stores[n],
           Mutate(<<n, Nil>>, new, undo, <<>>)
    PROVE  IInv'
  <1>1. undo \in Undos /\ undo \notin TreeClosures /\ Location(undo) = <<n, Nil>>
        /\ undo.op # "removeItem"
    <2>1. undo \in Undos
      BY Zenon DEF Undos
    <2> QED
      BY Zenon, <2>1, ClosureFields, Located
  <1>2. /\ TypeInv' /\ heap' = new /\ saved' = saved /\ wild' = wild /\ Pushes(undo, <<>>)
        /\ touched' = touched \cup {<<n, Nil>>} /\ again' = (again \/ <<n, Nil>> \in touched)
    <2>1. <<>> = <<>> \/ \E e \in Finals : <<>> = <<e>>
      BY Zenon
    <2> QED
      BY Zenon, <1>1, <2>1, MutateStep DEF IInv
  <1>3. /\ heap'.v = heap.v /\ heap'.deleted = heap.deleted /\ heap'.tr = heap.tr
        /\ \A m \in Name : heap'.stores[m] = IF m = n THEN t ELSE heap.stores[m]
    BY Zenon, <1>2 DEF Renamed
  <1>4. /\ heap.stores \in [Name -> Tree \cup {NoTree}] /\ heap'.stores \in [Name -> Tree \cup {NoTree}]
        /\ heap.tr \in [Handle -> Tree \cup {NoTree}]
    BY Zenon, <1>2, HeapFields DEF IInv, TypeInv
  <1>5. onCommit' = onCommit
    BY DEF Mutate, IInv, TypeInv
  <1>6. FinalsOnTheirTree'
    <2> SUFFICES ASSUME NEW i \in DOMAIN onCommit
                 PROVE  LET e == onCommit[i] IN
                        /\ heap.tr[e.handle] # NoTree
                        /\ heap.tr[e.handle] = e.tree
                           \/ (wild /\ heap.tr[e.handle] \notin Range(heap'.stores))
      BY Zenon, <1>2, <1>3, <1>5 DEF FinalsOnTheirTree
    <2> DEFINE s == heap.tr[onCommit[i].handle]
    <2>1. s # NoTree /\ (s = onCommit[i].tree \/ (wild /\ s \notin Range(heap.stores)))
      BY Zenon DEF IInv, FinalsOnTheirTree
    <2>2. s # t
      <3>1. onCommit[i] \in Finals
        BY DEF IInv, TypeInv
      <3>2. onCommit[i].handle \in Handle
        BY Zenon, <3>1 DEF Finals
      <3>3. s \in Range(heap.tr)
        BY Zenon, <1>4, <3>2 DEF Range
      <3> QED
        BY Zenon, <2>1, <3>3 DEF FreeTrees
    <2> HIDE DEF s
    <2>3. s \notin Range(heap.stores) => s \notin Range(heap'.stores)
      BY <1>3, <1>4, <2>2 DEF Range
    <2> QED
      BY Zenon, <2>1, <2>3 DEF s
  <1>7. ASSUME ~wild
        PROVE  TameInv'
    <2>1. TameInv /\ TypeInv
      BY Zenon, <1>7 DEF IInv
    <2>2. StoresApart(heap'.stores)
      <3>1. t = NoTree \/ \A m \in Name : heap.stores[m] # t
        BY Zenon, <1>4 DEF FreeTrees, Range
      <3> QED
        BY <1>3, <2>1, <3>1 DEF TameInv, StoresApart
    <2>3. ASSUME NEW s \in FreeTrees', NEW j \in Key
          PROVE  heap'.v[s][j] = Nil
      <3>1. PICK N : DOMAIN onRollback' = DOMAIN onRollback \cup {N} /\ onRollback'[N] = undo
        BY Zenon, <1>2 DEF Pushes
      <3>2. \A i \in DOMAIN onRollback : onRollback'[i] = onRollback[i] /\ i \in DOMAIN onRollback'
        BY Zenon, <1>2, <3>1 DEF Pushes
      <3>3. s \in Tree /\ s \notin Range(heap.tr) /\ s \notin Range(heap'.stores) /\ s # undo.tree
            /\ \A i \in DOMAIN onRollback : s # onRollback[i].tree
        BY <1>3, <3>1, <3>2 DEF FreeTrees
      <3>4. s \notin Range(heap.stores)
        BY <1>3, <1>4, <3>3 DEF Range
      <3>5. s \in FreeTrees
        BY Zenon, <3>3, <3>4 DEF FreeTrees
      <3> QED
        BY <1>3, <2>1, <3>5 DEF TameInv
    <2>4. ASSUME NEW s \in Tree, NEW j \in Key, heap'.deleted[s][j]
          PROVE  /\ heap'.v[s][j] # Nil
                 /\ \E i \in DOMAIN onCommit' : onCommit'[i].tree = s /\ onCommit'[i].key = j
      BY <1>3, <1>5, <2>1, <2>4 DEF TameInv
    <2>5. ASSUME NEW i \in DOMAIN onRollback'
          PROVE  LET c == onRollback'[i] IN
                 c \notin TreeClosures /\ (c.op = "removeItem" => heap'.tr[c.handle] = c.tree)
      <3>1. CASE i \in DOMAIN onRollback /\ onRollback'[i] = onRollback[i]
        BY Zenon, <1>3, <2>1, <3>1 DEF TameInv
      <3>2. CASE onRollback'[i] = undo
        BY Zenon, <1>1, <3>2
      <3> QED
        BY Zenon, <1>2, <3>1, <3>2 DEF Pushes
    <2>6. /\ \A i \in DOMAIN onRollback' : Location(onRollback'[i]) \in touched'
          /\ touched' \subseteq {Location(onRollback'[i]) : i \in DOMAIN onRollback'}
      BY Zenon, <1>1, <1>2, <2>1, TouchStep
    <2>7. ASSUME ~again'
          PROVE  \E stores \in [Name -> Tree \cup {NoTree}], v \in [Tree -> [Key -> Val \cup {Nil}]] :
                    Remembers(stores, v)'
      <3>1. ~again /\ <<n, Nil>> \notin touched
        BY Zenon, <1>2, <2>7
      <3>2. PICK stores \in [Name -> Tree \cup {NoTree}], v \in [Tree -> [Key -> Val \cup {Nil}]] :
                    Remembers(stores, v)
        BY Zenon, <2>1, <3>1 DEF TameInv
      <3>3. Renamed(heap', heap, n, t)
        BY Zenon, <1>2
      <3>4. Remembers(stores, v)'
        BY Zenon, <1>2, <2>1, <3>1, <3>2, <3>3, StoreRemembered
      <3> QED
        BY Zenon, <3>4
    <2> QED
      BY Zenon, <2>2, <2>3, <2>4, <2>5, <2>6, <2>7 DEF TameInv
  <1> QED
    BY Zenon, <1>2, <1>6, <1>7 DEF IInv

(* What a step does not touch stays remembered.                            *)
LEMMA SameRemembered ==
    ASSUME heap'.stores = heap.stores, heap'.v = heap.v, heap'.deleted = heap.deleted,
           onRollback' = onRollback, saved' = saved
    PROVE  \A stores, v : Remembers(stores, v) => Remembers(stores, v)'
  <1> SUFFICES ASSUME NEW stores, NEW v, Remembers(stores, v)
               PROVE  Remembers(stores, v)'
    BY Zenon
  <1>1. /\ StoresApart(stores)
        /\ saved' = [n \in Name |-> IF stores[n] = NoTree THEN NoStore ELSE v[stores[n]]]
    BY Zenon DEF Remembers
  <1>2. \A i, j \in DOMAIN onRollback' :
          Location(onRollback'[i]) = Location(onRollback'[j]) => i = j
    BY Zenon DEF Remembers
  <1>3. \A n \in Name : \/ heap'.stores[n] = stores[n]
                        \/ \E i \in DOMAIN onRollback' : OfStore(onRollback'[i], n)
    BY Zenon DEF Remembers
  <1>4. \A t \in Tree, k \in Key :
          \/ heap'.v[t][k] = v[t][k] /\ ~heap'.deleted[t][k]
          \/ \E i \in DOMAIN onRollback' : OfItem(onRollback'[i], t, k)
    BY Zenon DEF Remembers
  <1>5. \A i \in DOMAIN onRollback' : LET c == onRollback'[i] IN
          /\ c \in StoreClosures => c.tree = stores[c.name]
          /\ c.op = "setItem" => /\ heap'.v[c.tree][c.key] # Nil
                                 /\ c.v = v[c.tree][c.key] /\ ~c.deleted
          /\ c.op = "unmark" => /\ heap'.v[c.tree][c.key] # Nil
                                /\ heap'.v[c.tree][c.key] = v[c.tree][c.key]
          /\ c.op = "removeItem" => v[c.tree][c.key] = Nil
    BY Zenon DEF Remembers
  <1> QED
    BY Zenon, <1>1, <1>2, <1>3, <1>4, <1>5 DEF Remembers

-----------------------------------------------------------------------------
(* GetStore: a handle that had no tree gets the tree of a store.            *)
LEMMA GetStoreStep ==
    ASSUME IInv, NEW h \in Handle, NEW n \in Name, GetStore(h, n)
    PROVE  /\ IInv'
           /\ heap'.stores = heap.stores /\ heap'.v = heap.v /\ heap'.deleted = heap.deleted
  <1> DEFINE t == heap.stores[n]
  <1>1. /\ open /\ heap.tr[h] = NoTree /\ t # NoTree /\ heap' = SetHandle(heap, h, t)
        /\ onRollback' = onRollback /\ onCommit' = onCommit /\ open' = open
        /\ ctxDone' = ctxDone /\ saved' = saved /\ touched' = touched
        /\ again' = again /\ wild' = wild
    BY Zenon DEF GetStore, Running
  <1>2. heap \in Heaps /\ t \in Tree /\ heap.tr \in [Handle -> Tree \cup {NoTree}]
    BY Zenon, <1>1, HeapFields DEF IInv, TypeInv
  <1> HIDE DEF t
  <1>3. /\ heap' \in Heaps
        /\ heap'.v = heap.v /\ heap'.deleted = heap.deleted /\ heap'.stores = heap.stores
        /\ \A g \in Handle : heap'.tr[g] = IF g = h THEN t ELSE heap.tr[g]
    BY <1>1, <1>2, WriteHandle
  <1>4. TypeInv'
    <2>1. /\ onRollback \in Seq(Undos) /\ onCommit \in Seq(Finals)
          /\ Len(onRollback) <= IF wild THEN MaxWild ELSE MaxOps
          /\ Len(onCommit) <= Len(onRollback)
          /\ {open, ctxDone, again, wild} \subseteq BOOLEAN
      BY Zenon DEF IInv, TypeInv
    <2> QED
      BY Zenon, <1>1, <1>3, <2>1 DEF TypeInv
  <1>5. FinalsOnTheirTree'
    <2> SUFFICES ASSUME NEW i \in DOMAIN onCommit
                 PROVE  LET e == onCommit[i] IN
                        /\ heap'.tr[e.handle] # NoTree
                        /\ heap'.tr[e.handle] = e.tree
                           \/ (wild /\ heap'.tr[e.handle] \notin Range(heap.stores))
      BY Zenon, <1>1, <1>3 DEF FinalsOnTheirTree
    <2> DEFINE e == onCommit[i]
    <2>1. /\ heap.tr[e.handle] # NoTree
          /\ heap.tr[e.handle] = e.tree \/ (wild /\ heap.tr[e.handle] \notin Range(heap.stores))
      BY Zenon DEF IInv, FinalsOnTheirTree
    <2>2. e \in Finals
      BY DEF IInv, TypeInv
    <2> HIDE DEF e
    <2>3. e.handle \in Handle /\ e.handle # h
      BY Zenon, <1>1, <2>1, <2>2 DEF Finals
    <2>4. heap'.tr[e.handle] = heap.tr[e.handle]
      BY Zenon, <1>3, <2>3
    <2> QED
      BY Zenon, <2>1, <2>4 DEF e
  <1>6. ASSUME ~wild
        PROVE  TameInv'
    <2>1. TameInv /\ onRollback \in Seq(Undos)
      BY Zenon, <1>6 DEF IInv, TypeInv
    <2>2. FreeTrees' \subseteq FreeTrees
      <3>1. heap'.tr \in [Handle -> Tree \cup {NoTree}]
        BY Zenon, <1>3, HeapFields
      <3>2. \A s \in Tree : s \in Range(heap.tr) => s \in Range(heap'.tr)
        BY <1>1, <1>2, <1>3, <3>1, MemoryEngineAssumptions DEF Range
      <3> QED
        BY Zenon, <1>1, <1>3, <3>2 DEF FreeTrees
    <2>3. ASSUME NEW i \in DOMAIN onRollback, onRollback[i].op = "removeItem"
          PROVE  heap'.tr[onRollback[i].handle] = onRollback[i].tree
      <3> DEFINE c == onRollback[i]
      <3>1. c \in Undos /\ heap.tr[c.handle] = c.tree /\ c.op = "removeItem"
        BY <2>1, <2>3 DEF TameInv
      <3> HIDE DEF c
      <3>2. c.handle \in Handle /\ c.tree \in Tree
        BY Zenon, <3>1, ClosureFields
      <3>3. c.handle # h
        BY Zenon, <1>1, <3>1, <3>2, MemoryEngineAssumptions
      <3>4. heap'.tr[c.handle] = c.tree
        BY Zenon, <1>3, <3>1, <3>2, <3>3
      <3> QED
        BY Zenon, <3>4 DEF c
    <2>4. \A stores, v : Remembers(stores, v) => Remembers(stores, v)'
      BY Zenon, <1>1, <1>3, SameRemembered
    <2> QED
      BY <1>1, <1>3, <2>1, <2>2, <2>3, <2>4 DEF TameInv
  <1> QED
    BY Zenon, <1>1, <1>3, <1>4, <1>5, <1>6 DEF IInv

(* Truncate, of a wild transaction: the handle gets a tree that nothing     *)
(* points to.                                                               *)
LEMMA TruncateStep ==
    ASSUME IInv, NEW h \in Handle, Truncate(h)
    PROVE  IInv'
  <1> DEFINE t == heap.tr[h]
             u == [op |-> "setTree", tree |-> t, handle |-> h]
  <1>1. /\ wild /\ open /\ t # NoTree /\ FreeTrees # {}
        /\ Mutate(<<t, Nil>>, SetHandle(heap, h, NewTree), u, <<>>)
    BY Zenon DEF Truncate, Running
  <1>2. heap \in Heaps /\ t \in Tree
    BY Zenon, <1>1, HeapFields DEF IInv, TypeInv
  <1>3. NewTree \in FreeTrees /\ NewTree \in Tree
    BY Zenon, <1>1 DEF NewTree, FreeTrees
  <1>4. u \in Undos
    BY Zenon, <1>2 DEF Undos, TreeClosures
  <1> DEFINE new == SetHandle(heap, h, NewTree)
  <1>5. /\ new \in Heaps /\ new.stores = heap.stores
        /\ \A g \in Handle : new.tr[g] = IF g = h THEN NewTree ELSE heap.tr[g]
    BY <1>2, <1>3, WriteHandle
  <1> HIDE DEF u, t, new
  <1>6. TypeInv' /\ heap' = new /\ wild' = wild
    <2>1. Mutate(<<t, Nil>>, new, u, <<>>)
      BY Zenon, <1>1 DEF new
    <2>2. <<>> = <<>> \/ \E e \in Finals : <<>> = <<e>>
      BY Zenon
    <2> QED
      BY Zenon, <1>1, <1>4, <1>5, <2>1, <2>2, MutateStep DEF IInv
  <1>7. onCommit' = onCommit
    BY <1>1 DEF Mutate, IInv, TypeInv
  <1>8. FinalsOnTheirTree'
    <2> SUFFICES ASSUME NEW i \in DOMAIN onCommit
                 PROVE  LET e == onCommit[i] IN
                        /\ new.tr[e.handle] # NoTree
                        /\ new.tr[e.handle] = e.tree
                           \/ (wild /\ new.tr[e.handle] \notin Range(heap.stores))
      BY Zenon, <1>5, <1>6, <1>7 DEF FinalsOnTheirTree
    <2> DEFINE e == onCommit[i]
    <2>1. /\ heap.tr[e.handle] # NoTree
          /\ heap.tr[e.handle] = e.tree \/ (wild /\ heap.tr[e.handle] \notin Range(heap.stores))
      BY Zenon DEF IInv, FinalsOnTheirTree
    <2>2. e \in Finals
      BY DEF IInv, TypeInv
    <2> HIDE DEF e
    <2>3. e.handle \in Handle
      BY Zenon, <2>2 DEF Finals
    <2>4. NewTree # NoTree /\ NewTree \notin Range(heap.stores)
      BY Zenon, <1>3, MemoryEngineAssumptions DEF FreeTrees
    <2> QED
      BY Zenon, <1>1, <1>5, <2>1, <2>3, <2>4 DEF e
  <1> QED
    BY Zenon, <1>1, <1>6, <1>8 DEF IInv

(* The end of a transaction whose closures have made hp of the heap.        *)
LEMMA TerminateStep ==
    ASSUME TypeInv, NEW hp \in Heaps, Terminate(hp)
    PROVE  /\ TypeInv' /\ FinalsOnTheirTree' /\ wild' = wild
           /\ heap'.stores = hp.stores
           /\ \A t \in Tree :
                 /\ t \in Range(hp.stores) =>
                       heap'.v[t] = hp.v[t] /\ heap'.deleted[t] = hp.deleted[t]
                 /\ t \notin Range(hp.stores) =>
                       heap'.v[t] = EmptyTree /\ heap'.deleted[t] = Unmarked
  <1>1. /\ heap' = Collect(hp) /\ onRollback' = <<>> /\ onCommit' = <<>> /\ open' = FALSE
        /\ ctxDone' = FALSE /\ touched' = {} /\ again' = FALSE /\ wild' = wild
    BY Zenon DEF Terminate
  <1>2. /\ heap' \in Heaps /\ heap'.stores = hp.stores /\ heap'.tr = [h \in Handle |-> NoTree]
        /\ \A t \in Tree :
              /\ t \in Range(hp.stores) =>
                    heap'.v[t] = hp.v[t] /\ heap'.deleted[t] = hp.deleted[t]
              /\ t \notin Range(hp.stores) =>
                    heap'.v[t] = EmptyTree /\ heap'.deleted[t] = Unmarked
    BY Zenon, <1>1, Collected
  <1>3. /\ onRollback' \in Seq(Undos) /\ onCommit' \in Seq(Finals)
        /\ Len(onRollback') <= IF wild' THEN MaxWild ELSE MaxOps
        /\ Len(onCommit') <= Len(onRollback')
        /\ {open', ctxDone', again', wild'} \subseteq BOOLEAN
    <2>1. <<>> \in Seq(Undos) /\ <<>> \in Seq(Finals) /\ Len(<<>>) = 0
      OBVIOUS
    <2>2. 0 <= IF wild THEN MaxWild ELSE MaxOps
      <3>1. 0 <= MaxWild /\ 0 <= MaxOps
        BY MemoryEngineAssumptions
      <3> QED
        BY Zenon, <3>1
    <2>3. wild \in BOOLEAN
      BY Zenon DEF TypeInv
    <2>4. {open', ctxDone', again', wild'} \subseteq BOOLEAN
      BY Zenon, <1>1, <2>3
    <2>5. Len(onRollback') = 0 /\ Len(onCommit') = 0 /\ 0 <= 0
      BY <1>1, <2>1
    <2>6. Len(onRollback') <= IF wild' THEN MaxWild ELSE MaxOps
      BY Zenon, <1>1, <2>2, <2>5
    <2> QED
      BY Zenon, <1>1, <2>1, <2>4, <2>5, <2>6
  <1>4. TypeInv'
    BY Zenon, <1>1, <1>2, <1>3 DEF TypeInv
  <1>5. FinalsOnTheirTree'
    <2>1. DOMAIN onCommit' = {}
      BY <1>1
    <2> QED
      BY Zenon, <2>1 DEF FinalsOnTheirTree
  <1> QED
    BY Zenon, <1>1, <1>2, <1>4, <1>5

(* What is saved when the closures have made hp of the heap and no item of  *)
(* a store is marked.                                                       *)
Settled(hp) ==
    /\ StoresApart(hp.stores)
    /\ \A t \in Tree, k \in Key : t \in Range(hp.stores) => ~hp.deleted[t][k]
    /\ saved' = [n \in Name |-> IF hp.stores[n] = NoTree THEN NoStore ELSE hp.v[hp.stores[n]]]

(* The invariant of a tame transaction at its end, and what it leaves.      *)
LEMMA EndStep ==
    ASSUME TypeInv, NEW hp \in Heaps, Terminate(hp), Settled(hp)
    PROVE  TameInv' /\ Content' = saved'
  <1>1. /\ TypeInv' /\ heap'.stores = hp.stores
        /\ \A t \in Tree :
              /\ t \in Range(hp.stores) =>
                    heap'.v[t] = hp.v[t] /\ heap'.deleted[t] = hp.deleted[t]
              /\ t \notin Range(hp.stores) =>
                    heap'.v[t] = EmptyTree /\ heap'.deleted[t] = Unmarked
    BY Zenon, TerminateStep
  <1>2. onRollback' = <<>> /\ onCommit' = <<>> /\ touched' = {}
    BY Zenon DEF Terminate
  <1>3. /\ heap'.stores \in [Name -> Tree \cup {NoTree}]
        /\ heap'.v \in [Tree -> [Key -> Val \cup {Nil}]]
    BY Zenon, <1>1, HeapFields DEF TypeInv
  <1>4. \A t \in Tree, k \in Key : ~heap'.deleted[t][k]
    <2>1. \A t \in Tree, k \in Key : t \in Range(hp.stores) => ~hp.deleted[t][k]
      BY Zenon DEF Settled
    <2>2. \A k \in Key : ~Unmarked[k]
      BY Zenon DEF Unmarked
    <2> QED
      BY Zenon, <1>1, <2>1, <2>2
  <1>5. \A n \in Name : heap'.stores[n] # NoTree =>
           heap'.stores[n] \in Tree /\ heap'.v[heap'.stores[n]] = hp.v[hp.stores[n]]
    <2>1. \A n \in Name : heap'.stores[n] \in Range(heap'.stores)
      BY Zenon, <1>3 DEF Range
    <2> QED
      BY Zenon, <1>1, <1>3, <2>1
  <1>6. saved' = [n \in Name |-> IF heap'.stores[n] = NoTree THEN NoStore
                                 ELSE heap'.v[heap'.stores[n]]]
    BY Zenon, <1>1, <1>5 DEF Settled
  <1>7. Content' = saved'
    <2>1. ASSUME NEW t \in Tree
          PROVE  Visible(heap, t)' = heap'.v[t]
      <3>1. heap'.v[t] \in [Key -> Val \cup {Nil}]
        BY Zenon, <1>3
      <3>2. Visible(heap, t)' = [k \in Key |-> heap'.v[t][k]]
        BY Zenon, <1>4 DEF Visible
      <3> QED
        BY Zenon, <3>1, <3>2
    <2>2. ASSUME NEW n \in Name
          PROVE  (IF heap'.stores[n] = NoTree THEN NoStore ELSE Visible(heap, heap.stores[n])')
                 = IF heap'.stores[n] = NoTree THEN NoStore ELSE heap'.v[heap'.stores[n]]
      BY Zenon, <1>5, <2>1
    <2> QED
      BY Zenon, <1>6, <2>2 DEF Content
  <1>8. ASSUME NEW stores, NEW v, stores = heap'.stores, v = heap'.v
        PROVE  Remembers(stores, v)'
    <2>1. StoresApart(stores)
      BY Zenon, <1>1, <1>8 DEF Settled
    <2>2. saved' = [n \in Name |-> IF stores[n] = NoTree THEN NoStore ELSE v[stores[n]]]
      BY Zenon, <1>6, <1>8
    <2>3. \A n \in Name : heap'.stores[n] = stores[n]
      BY Zenon, <1>8
    <2>4. \A t \in Tree, k \in Key : heap'.v[t][k] = v[t][k] /\ ~heap'.deleted[t][k]
      BY Zenon, <1>4, <1>8
    <2>5. DOMAIN onRollback' = {}
      BY <1>2
    <2> QED
      BY Zenon, <2>1, <2>2, <2>3, <2>4, <2>5 DEF Remembers
  <1>9. ASSUME NEW t \in FreeTrees', NEW k \in Key
        PROVE  heap'.v[t][k] = Nil
    BY <1>1 DEF FreeTrees, EmptyTree
  <1>10. StoresApart(heap'.stores)
    BY Zenon, <1>1 DEF Settled
  <1>11. \E stores \in [Name -> Tree \cup {NoTree}], v \in [Tree -> [Key -> Val \cup {Nil}]] :
            Remembers(stores, v)'
    BY Zenon, <1>3, <1>8
  <1> QED
    BY <1>2, <1>4, <1>7, <1>9, <1>10, <1>11 DEF TameInv

-----------------------------------------------------------------------------
(* What a transaction reads, with a heap hp.                                *)
ContentOf(hp) == [n \in Name |->
    IF hp.stores[n] = NoTree THEN NoStore ELSE Visible(hp, hp.stores[n])]

(* What a transaction reads in a store: storeTx.Get of each key in the tree *)
(* that the engine holds under the name.                                    *)
LEMMA ContentIs ==
    ASSUME NEW hp \in Heaps, NEW c, c = ContentOf(hp)
    PROVE  /\ c = [n \in Name |-> c[n]]
           /\ \A n \in Name :
                 /\ hp.stores[n] = NoTree => c[n] = NoStore
                 /\ hp.stores[n] # NoTree =>
                       /\ hp.stores[n] \in Tree /\ c[n] # NoStore
                       /\ c[n] \in [Key -> Val \cup {Nil}]
                       /\ c[n] = Visible(hp, hp.stores[n])
                       /\ \A k \in Key : c[n][k] = Read(hp, hp.stores[n], k)
  <1>1. /\ hp.stores \in [Name -> Tree \cup {NoTree}]
        /\ hp.v \in [Tree -> [Key -> Val \cup {Nil}]]
        /\ hp.deleted \in [Tree -> [Key -> BOOLEAN]]
    BY Zenon, HeapFields
  <1>2. ASSUME NEW t \in Tree
        PROVE  /\ Visible(hp, t) \in [Key -> Val \cup {Nil}]
               /\ \A k \in Key : Visible(hp, t)[k] = Read(hp, t, k)
    <2>1. \A k \in Key : hp.v[t][k] \in Val \cup {Nil}
      BY Zenon, <1>1
    <2> QED
      BY Zenon, <2>1 DEF Visible, Read
  <1>3. \A n \in Name :
           c[n] = IF hp.stores[n] = NoTree THEN NoStore ELSE Visible(hp, hp.stores[n])
    BY Zenon DEF ContentOf
  <1>4. c = [n \in Name |-> c[n]]
    BY Zenon DEF ContentOf
  <1> QED
    BY <1>1, <1>2, <1>3, <1>4, MemoryEngineAssumptions

(* Item k of store n becomes y.                                             *)
ContentPut(n, k, y) == Content' = [Content EXCEPT ![n] = [Content[n] EXCEPT ![k] = y]]

(* A change of an item shows in the one store that has its tree, if any.    *)
LEMMA ItemContent ==
    ASSUME heap \in Heaps, heap' \in Heaps, StoresApart(heap.stores),
           NEW t \in Tree, NEW k \in Key, NEW x, NEW d, Wrote(heap', heap, t, k, x, d),
           NEW y, y = IF d THEN Nil ELSE x
    PROVE  \/ Content' = Content
           \/ \E n \in Name : heap.stores[n] = t /\ ContentPut(n, k, y)
  <1>1. /\ heap'.stores = heap.stores
        /\ \A s \in Tree, j \in Key : Read(heap', s, j) = IF s = t /\ j = k THEN y ELSE Read(heap, s, j)
    BY Zenon DEF Wrote, Read
  <1>2. /\ Content = [n \in Name |-> Content[n]]
        /\ \A n \in Name :
              /\ heap.stores[n] = NoTree => Content[n] = NoStore
              /\ heap.stores[n] # NoTree =>
                    /\ heap.stores[n] \in Tree /\ Content[n] # NoStore
                    /\ Content[n] \in [Key -> Val \cup {Nil}]
                    /\ \A j \in Key : Content[n][j] = Read(heap, heap.stores[n], j)
    <2>1. Content = ContentOf(heap)
      BY Zenon DEF Content, ContentOf
    <2> QED
      BY <2>1, ContentIs
  <1>3. /\ Content' = [n \in Name |-> Content'[n]]
        /\ \A n \in Name :
              /\ heap'.stores[n] = NoTree => Content'[n] = NoStore
              /\ heap'.stores[n] # NoTree =>
                    /\ Content'[n] \in [Key -> Val \cup {Nil}]
                    /\ \A j \in Key : Content'[n][j] = Read(heap', heap'.stores[n], j)
    <2>1. Content' = ContentOf(heap')
      BY Zenon DEF Content, ContentOf
    <2> QED
      BY <2>1, ContentIs
  <1> DEFINE old == Content
             new == Content'
  <1> HIDE DEF old, new
  <1>4. /\ old = [n \in Name |-> old[n]] /\ new = [n \in Name |-> new[n]]
    BY Zenon, <1>2, <1>3 DEF old, new
  <1>5. ASSUME NEW n \in Name, heap.stores[n] # t
        PROVE  new[n] = old[n]
    <2>1. CASE heap.stores[n] = NoTree
      BY Zenon, <1>1, <1>2, <1>3, <2>1 DEF old, new
    <2>2. CASE heap.stores[n] # NoTree
      <3>1. /\ new[n] \in [Key -> Val \cup {Nil}] /\ old[n] \in [Key -> Val \cup {Nil}]
            /\ heap.stores[n] \in Tree
        BY Zenon, <1>1, <1>2, <1>3, <2>2 DEF old, new
      <3>2. ASSUME NEW j \in Key
            PROVE  new[n][j] = old[n][j]
        <4>1. new[n][j] = Read(heap', heap.stores[n], j) /\ old[n][j] = Read(heap, heap.stores[n], j)
          BY Zenon, <1>1, <1>2, <1>3, <2>2 DEF old, new
        <4> QED
          BY Zenon, <1>1, <1>5, <3>1, <4>1
      <3> QED
        BY <3>1, <3>2
    <2> QED
      BY Zenon, <2>1, <2>2
  <1>6. ASSUME NEW n \in Name, heap.stores[n] = t
        PROVE  new[n] = [old[n] EXCEPT ![k] = y]
    <2>1. t # NoTree
      BY Zenon, MemoryEngineAssumptions
    <2>2. /\ new[n] \in [Key -> Val \cup {Nil}] /\ old[n] \in [Key -> Val \cup {Nil}]
          /\ \A j \in Key : new[n][j] = Read(heap', t, j) /\ old[n][j] = Read(heap, t, j)
      BY <1>1, <1>2, <1>3, <1>6, <2>1 DEF old, new
    <2>3. \A j \in Key : new[n][j] = IF j = k THEN y ELSE old[n][j]
      BY Zenon, <1>1, <2>2
    <2> QED
      BY Zenon, <2>2, <2>3
  <1>7. CASE \E n \in Name : heap.stores[n] = t
    <2>1. PICK n \in Name : heap.stores[n] = t
      BY Zenon, <1>7
    <2>2. \A m \in Name : m # n => heap.stores[m] # t
      BY Zenon, <2>1, MemoryEngineAssumptions DEF StoresApart
    <2>3. new = [old EXCEPT ![n] = [old[n] EXCEPT ![k] = y]]
      BY Zenon, <1>4, <1>5, <1>6, <2>1, <2>2
    <2> QED
      BY Zenon, <2>1, <2>3 DEF old, new, ContentPut
  <1>8. CASE \A n \in Name : heap.stores[n] # t
    <2>1. new = old
      BY Zenon, <1>4, <1>5, <1>8
    <2> QED
      BY Zenon, <2>1 DEF old, new
  <1> QED
    BY Zenon, <1>7, <1>8

(* A change of the tree of a name shows in the store of that name.          *)
LEMMA StoreContent ==
    ASSUME NEW n \in Name, NEW t, Renamed(heap', heap, n, t)
    PROVE  Content' = [Content EXCEPT ![n] = IF t = NoTree THEN NoStore ELSE Visible(heap, t)]
  <1>1. /\ heap'.v = heap.v /\ heap'.deleted = heap.deleted
        /\ \A m \in Name : heap'.stores[m] = IF m = n THEN t ELSE heap.stores[m]
    BY Zenon DEF Renamed
  <1>2. \A s : Visible(heap', s) = Visible(heap, s)
    BY Zenon, <1>1 DEF Visible
  <1>3. Content' = [m \in Name |-> IF heap'.stores[m] = NoTree THEN NoStore
                                   ELSE Visible(heap', heap'.stores[m])]
    BY Zenon DEF Content
  <1>4. Content = [m \in Name |-> IF heap.stores[m] = NoTree THEN NoStore
                                  ELSE Visible(heap, heap.stores[m])]
    BY Zenon DEF Content
  <1> QED
    BY Zenon, <1>1, <1>2, <1>3, <1>4

(* transaction.CreateStore keeps the invariant, and adds an empty store and *)
(* nothing else to what is read.                                            *)
LEMMA CreateStoreStep ==
    ASSUME IInv, NEW n \in Name, CreateStore(n)
    PROVE  /\ IInv'
           /\ ~wild => Content[n] = NoStore /\ Content' = [Content EXCEPT ![n] = EmptyTree]
  <1> DEFINE new == SetStore(heap, n, NewTree)
             u   == [op |-> "dropStore", name |-> n, tree |-> NoTree]
  <1>1. /\ open /\ heap.stores[n] = NoTree /\ FreeTrees # {}
        /\ Mutate(<<n, Nil>>, new, u, <<>>)
    BY Zenon DEF CreateStore, Running
  <1>2. heap \in Heaps
    BY Zenon DEF IInv, TypeInv
  <1>3. NewTree \in FreeTrees /\ NewTree \in Tree
    BY Zenon, <1>1 DEF NewTree, FreeTrees
  <1>4. u \in StoreClosures /\ u.name = n /\ u.tree = heap.stores[n]
    BY Zenon, <1>1 DEF StoreClosures
  <1>5. new \in Heaps /\ Renamed(new, heap, n, NewTree)
    BY <1>2, <1>3, WriteStore DEF Renamed
  <1>6. heap' = new
    BY Zenon, <1>1 DEF Mutate
  <1> HIDE DEF new, u
  <1>7. IInv'
    BY Zenon, <1>1, <1>3, <1>4, <1>5, StoreStep
  <1>8. ASSUME ~wild
        PROVE  Content[n] = NoStore /\ Content' = [Content EXCEPT ![n] = EmptyTree]
    <2>1. Content[n] = NoStore
      BY Zenon, <1>1 DEF Content
    <2>2. \A k \in Key : heap.v[NewTree][k] = Nil
      BY Zenon, <1>3, <1>8 DEF IInv, TameInv
    <2>3. Visible(heap, NewTree) = EmptyTree
      BY Zenon, <2>2 DEF Visible, EmptyTree
    <2>4. NewTree # NoTree
      BY Zenon, <1>3, MemoryEngineAssumptions
    <2>5. Renamed(heap', heap, n, NewTree)
      BY Zenon, <1>5, <1>6
    <2>6. Content' = [Content EXCEPT ![n] = IF NewTree = NoTree THEN NoStore
                                            ELSE Visible(heap, NewTree)]
      BY Zenon, <2>5, StoreContent
    <2> QED
      BY Zenon, <2>1, <2>3, <2>4, <2>6
  <1> QED
    BY Zenon, <1>7, <1>8

(* transaction.DropStore keeps the invariant, and takes one store and       *)
(* nothing else away from what is read.                                     *)
LEMMA DropStoreStep ==
    ASSUME IInv, NEW n \in Name, DropStore(n)
    PROVE  /\ IInv'
           /\ Content[n] # NoStore /\ Content' = [Content EXCEPT ![n] = NoStore]
  <1> DEFINE new == SetStore(heap, n, NoTree)
             t   == heap.stores[n]
             u   == [op |-> "putStore", name |-> n, tree |-> t]
  <1>1. open /\ t # NoTree /\ Mutate(<<n, Nil>>, new, u, <<>>)
    BY Zenon DEF DropStore, Running
  <1>2. heap \in Heaps /\ t \in Tree
    BY Zenon, <1>1, HeapFields DEF IInv, TypeInv
  <1>3. u \in StoreClosures /\ u.name = n /\ u.tree = heap.stores[n]
    BY Zenon, <1>2 DEF StoreClosures
  <1>4. new \in Heaps /\ Renamed(new, heap, n, NoTree)
    BY <1>2, WriteStore DEF Renamed
  <1>5. heap' = new
    BY Zenon, <1>1 DEF Mutate
  <1> HIDE DEF new, u
  <1>6. IInv'
    BY Zenon, <1>1, <1>3, <1>4, StoreStep
  <1>7. Content[n] # NoStore
    <2>1. Content = ContentOf(heap)
      BY Zenon DEF Content, ContentOf
    <2> QED
      BY Zenon, <1>1, <1>2, <2>1, ContentIs
  <1>8. Renamed(heap', heap, n, NoTree)
    BY Zenon, <1>4, <1>5
  <1>9. Content' = [Content EXCEPT ![n] = IF NoTree = NoTree THEN NoStore ELSE Visible(heap, NoTree)]
    BY Zenon, <1>8, StoreContent
  <1> QED
    BY Zenon, <1>6, <1>7, <1>9

(* storeTx.Put keeps the invariant; it changes one key of one store, or     *)
(* nothing that is read when the handle is that of a dropped store.         *)
LEMMA PutStep ==
    ASSUME IInv, NEW h \in Handle, NEW k \in Key, NEW x \in Val, Put(h, k, x)
    PROVE  /\ IInv'
           /\ ~wild => \/ Content' = Content
                       \/ \E n \in Name :
                             /\ Content[n] # NoStore
                             /\ ContentPut(n, k, x)
  <1> DEFINE t   == heap.tr[h]
             new == SetItem(heap, t, k, x, FALSE)
             u   == IF heap.v[t][k] # Nil
                    THEN [op |-> "setItem", tree |-> t, key |-> k,
                          v |-> heap.v[t][k], deleted |-> heap.deleted[t][k]]
                    ELSE [op |-> "removeItem", tree |-> t, handle |-> h, key |-> k]
  <1>1. open /\ t # NoTree /\ Mutate(<<t, k>>, new, u, <<>>)
    BY Zenon DEF Put, Running
  <1>2. heap \in Heaps /\ t \in Tree
    BY Zenon, <1>1, HeapFields DEF IInv, TypeInv
  <1>3. heap.tr[h] = t
    BY Zenon
  <1>4. UndoesItem(u, t, h, k, x)
    BY Zenon DEF UndoesItem
  <1> HIDE DEF t, u
  <1>5. new \in Heaps /\ Wrote(new, heap, t, k, x, FALSE)
    BY Zenon, <1>2, WriteItem
  <1>6. heap' = new
    BY Zenon, <1>1 DEF Mutate
  <1> HIDE DEF new
  <1>7. <<>> = IF FALSE THEN <<[op |-> "finalize", tree |-> t, handle |-> h, key |-> k]>> ELSE <<>>
    BY Zenon
  <1>8. IInv'
    BY Zenon, <1>1, <1>2, <1>3, <1>4, <1>5, <1>7, ItemStep
  <1>9. ASSUME ~wild
        PROVE  \/ Content' = Content
               \/ \E n \in Name :
                     /\ Content[n] # NoStore
                     /\ ContentPut(n, k, x)
    <2>1. StoresApart(heap.stores)
      BY Zenon, <1>9 DEF IInv, TameInv
    <2>2. heap' \in Heaps /\ Wrote(heap', heap, t, k, x, FALSE)
      BY Zenon, <1>5, <1>6
    <2>3. \/ Content' = Content
          \/ \E n \in Name : heap.stores[n] = t /\ ContentPut(n, k, x)
      BY Zenon, <1>2, <2>1, <2>2, ItemContent
    <2>4. \A n \in Name : heap.stores[n] = t => Content[n] # NoStore
      <3>1. Content = ContentOf(heap)
        BY Zenon DEF Content, ContentOf
      <3> QED
        BY Zenon, <1>1, <1>2, <3>1, ContentIs
    <2> QED
      BY Zenon, <2>3, <2>4
  <1> QED
    BY Zenon, <1>8, <1>9

(* storeTx.Delete keeps the invariant; it takes one key that was there from *)
(* one store, or nothing that is read when the store was dropped.           *)
LEMMA DeleteStep ==
    ASSUME IInv, NEW h \in Handle, NEW k \in Key, Delete(h, k)
    PROVE  /\ IInv'
           /\ ~wild => \/ Content' = Content
                       \/ \E n \in Name :
                             /\ Content[n] # NoStore /\ Content[n][k] # Nil
                             /\ ContentPut(n, k, Nil)
  <1> DEFINE t   == heap.tr[h]
             x   == heap.v[t][k]
             new == Mark(heap, t, k, TRUE)
             u   == [op |-> "unmark", tree |-> t, key |-> k]
             f   == [op |-> "finalize", tree |-> t, handle |-> h, key |-> k]
  <1>1. /\ open /\ t # NoTree /\ x # Nil /\ ~heap.deleted[t][k]
        /\ Mutate(<<t, k>>, new, u, <<f>>)
    BY Zenon DEF Delete, Running
  <1>2. heap \in Heaps /\ t \in Tree
    BY Zenon, <1>1, HeapFields DEF IInv, TypeInv
  <1>3. heap.tr[h] = t /\ heap.v[t][k] = x
    BY Zenon
  <1>4. x \in Val
    BY <1>1, <1>2, HeapFields
  <1>5. UndoesItem(u, t, h, k, x)
    BY Zenon, <1>1 DEF UndoesItem
  <1>6. <<f>> = IF TRUE THEN <<[op |-> "finalize", tree |-> t, handle |-> h, key |-> k]>> ELSE <<>>
    BY Zenon
  <1> HIDE DEF t, x, u, f
  <1>7. new \in Heaps /\ Wrote(new, heap, t, k, x, TRUE)
    BY Zenon, <1>2, <1>3, MarkItem
  <1>8. heap' = new
    BY Zenon, <1>1 DEF Mutate
  <1> HIDE DEF new
  <1>9. IInv'
    BY Zenon, <1>1, <1>2, <1>3, <1>4, <1>5, <1>6, <1>7, ItemStep
  <1>10. ASSUME ~wild
         PROVE  \/ Content' = Content
                \/ \E n \in Name :
                      /\ Content[n] # NoStore /\ Content[n][k] # Nil
                      /\ ContentPut(n, k, Nil)
    <2>1. StoresApart(heap.stores)
      BY Zenon, <1>10 DEF IInv, TameInv
    <2>2. heap' \in Heaps /\ Wrote(heap', heap, t, k, x, TRUE)
      BY Zenon, <1>7, <1>8
    <2>3. \/ Content' = Content
          \/ \E n \in Name : heap.stores[n] = t /\ ContentPut(n, k, Nil)
      BY Zenon, <1>2, <2>1, <2>2, ItemContent
    <2>4. \A n \in Name : heap.stores[n] = t => Content[n] # NoStore /\ Content[n][k] # Nil
      <3>1. Content = ContentOf(heap)
        BY Zenon DEF Content, ContentOf
      <3>2. Read(heap, t, k) # Nil
        BY Zenon, <1>1, <1>3 DEF Read
      <3> QED
        BY <1>1, <1>2, <3>1, <3>2, ContentIs
    <2> QED
      BY Zenon, <2>3, <2>4
  <1> QED
    BY Zenon, <1>9, <1>10

-----------------------------------------------------------------------------
(* Commit keeps what the transaction reads, of a wild one too.              *)
LEMMA CommitStep ==
    ASSUME IInv, Commit
    PROVE  IInv' /\ Content' = Content
  <1> DEFINE hp == CallAll(heap, onCommit)
  <1>1. Terminate(hp) /\ saved' = Content' /\ TypeInv /\ heap \in Heaps
    BY Zenon DEF Commit, IInv, TypeInv
  <1>2. Finalized(hp, Len(onCommit))
    BY Zenon, CommitRuns DEF IInv
  <1> HIDE DEF hp
  <1>3. /\ hp \in Heaps /\ hp.stores = heap.stores
        /\ \A t \in Tree, k \in Key : t \in Range(heap.stores) => Read(hp, t, k) = Read(heap, t, k)
    BY Zenon, <1>2 DEF Finalized
  <1>4. /\ TypeInv' /\ FinalsOnTheirTree' /\ wild' = wild /\ heap'.stores = heap.stores
        /\ \A t \in Tree : t \in Range(heap.stores) =>
                       heap'.v[t] = hp.v[t] /\ heap'.deleted[t] = hp.deleted[t]
    BY Zenon, <1>1, <1>3, TerminateStep
  <1>5. \A n \in Name : heap.stores[n] # NoTree =>
           heap.stores[n] \in Tree /\ heap.stores[n] \in Range(heap.stores)
    BY <1>1, HeapFields DEF Range
  <1>6. Content' = Content
    <2>1. ASSUME NEW t \in Tree, t \in Range(heap.stores)
          PROVE  Visible(heap', t) = Visible(heap, t)
      <3>1. \A k \in Key : Read(heap', t, k) = Read(heap, t, k)
        BY Zenon, <1>3, <1>4, <2>1 DEF Read
      <3> QED
        BY Zenon, <3>1 DEF Visible, Read
    <2>2. \A n \in Name :
             (IF heap'.stores[n] = NoTree THEN NoStore ELSE Visible(heap', heap'.stores[n]))
             = IF heap.stores[n] = NoTree THEN NoStore ELSE Visible(heap, heap.stores[n])
      BY Zenon, <1>4, <1>5, <2>1
    <2>3. Content' = [n \in Name |-> IF heap'.stores[n] = NoTree THEN NoStore
                                     ELSE Visible(heap', heap'.stores[n])]
      BY Zenon DEF Content
    <2> QED
      BY Zenon, <2>2, <2>3 DEF Content
  <1>7. ASSUME ~wild
        PROVE  TameInv'
    <2>1. TameInv
      BY Zenon, <1>7 DEF IInv
    <2>2. \A t \in Tree, k \in Key : ~hp.deleted[t][k]
      <3> SUFFICES ASSUME NEW t \in Tree, NEW k \in Key, hp.deleted[t][k]
                   PROVE  FALSE
        BY Zenon
      <3>1. /\ heap.deleted[t][k]
            /\ \A j \in 1 .. Len(onCommit) : onCommit[j].tree # t \/ onCommit[j].key # k
        BY Zenon, <1>2, <1>7 DEF Finalized
      <3>2. \E i \in DOMAIN onCommit : onCommit[i].tree = t /\ onCommit[i].key = k
        BY <2>1, <3>1 DEF TameInv
      <3>3. DOMAIN onCommit = 1 .. Len(onCommit)
        BY <1>1 DEF TypeInv
      <3> QED
        BY Zenon, <3>1, <3>2, <3>3
    <2>3. ASSUME NEW t \in Tree, t \in Range(heap.stores)
          PROVE  Visible(heap', t) = hp.v[t]
      <3>1. hp.v[t] \in [Key -> Val \cup {Nil}]
        BY Zenon, <1>3, HeapFields
      <3>2. \A k \in Key : Read(heap', t, k) = hp.v[t][k]
        BY Zenon, <1>4, <2>2, <2>3 DEF Read
      <3>3. Visible(heap', t) = [k \in Key |-> Read(heap', t, k)]
        BY Zenon DEF Visible, Read
      <3> QED
        BY Zenon, <3>1, <3>2, <3>3
    <2>4. saved' = [n \in Name |-> IF hp.stores[n] = NoTree THEN NoStore ELSE hp.v[hp.stores[n]]]
      <3>1. \A n \in Name :
               (IF heap'.stores[n] = NoTree THEN NoStore ELSE Visible(heap', heap'.stores[n]))
               = IF hp.stores[n] = NoTree THEN NoStore ELSE hp.v[hp.stores[n]]
        BY Zenon, <1>3, <1>4, <1>5, <2>3
      <3>2. saved' = [n \in Name |-> IF heap'.stores[n] = NoTree THEN NoStore
                                     ELSE Visible(heap', heap'.stores[n])]
        BY Zenon, <1>1 DEF Content
      <3> QED
        BY Zenon, <3>1, <3>2
    <2>5. Settled(hp)
      BY Zenon, <1>3, <2>1, <2>2, <2>4 DEF Settled, TameInv
    <2> QED
      BY Zenon, <1>1, <1>3, <2>5, EndStep
  <1> QED
    BY Zenon, <1>4, <1>6, <1>7 DEF IInv

(* Rollback restores what was saved, unless the transaction is wild.        *)
LEMMA RollbackStep ==
    ASSUME IInv, Rollback
    PROVE  IInv' /\ (~wild => Content' = saved)
  <1> DEFINE hp == CallAll(heap, onRollback)
  <1>1. Terminate(hp) /\ saved' = saved /\ (wild \/ ~again) /\ TypeInv
    BY Zenon DEF Rollback, IInv
  <1>2. hp \in Heaps
    BY Zenon, <1>1, RollbackType
  <1>3. TypeInv' /\ FinalsOnTheirTree' /\ wild' = wild
    BY Zenon, <1>1, <1>2, TerminateStep
  <1>4. ASSUME ~wild
        PROVE  TameInv' /\ Content' = saved
    <2>1. TameInv /\ ~again
      BY Zenon, <1>1, <1>4 DEF IInv
    <2>2. PICK stores \in [Name -> Tree \cup {NoTree}], v \in [Tree -> [Key -> Val \cup {Nil}]] :
                    Remembers(stores, v)
      BY Zenon, <2>1 DEF TameInv
    <2>3. /\ hp.stores = stores
          /\ \A t \in Tree, k \in Key : hp.v[t][k] = v[t][k] /\ ~hp.deleted[t][k]
      BY Zenon, <1>1, <2>1, <2>2, RollbackRuns
    <2> HIDE DEF hp
    <2>4. hp.v = v
      <3>1. hp.v \in [Tree -> [Key -> Val \cup {Nil}]]
        BY Zenon, <1>2, HeapFields
      <3>2. \A t \in Tree : hp.v[t] = v[t]
        BY <2>3, <3>1
      <3> QED
        BY <3>1, <3>2
    <2>5. Settled(hp)
      <3>1. /\ StoresApart(stores)
            /\ saved = [n \in Name |-> IF stores[n] = NoTree THEN NoStore ELSE v[stores[n]]]
        BY Zenon, <2>2 DEF Remembers
      <3> QED
        BY Zenon, <1>1, <2>3, <2>4, <3>1 DEF Settled
    <2>6. TameInv' /\ Content' = saved'
      BY Zenon, <1>1, <1>2, <2>5, EndStep
    <2> QED
      BY Zenon, <1>1, <2>6
  <1> QED
    BY Zenon, <1>3, <1>4 DEF IInv

(* Begin, and the cancellation of the context.                              *)
LEMMA QuietStep ==
    ASSUME IInv, Begin \/ CtxDone
    PROVE  IInv' /\ Content' = Content
  <1>1. /\ heap' = heap /\ onRollback' = onRollback /\ onCommit' = onCommit /\ saved' = saved
        /\ touched' = touched /\ again' = again /\ wild' = wild
        /\ open' = TRUE /\ ctxDone' \in BOOLEAN
    BY Zenon DEF Begin, CtxDone, Running, IInv, TypeInv
  <1>2. TypeInv'
    <2>1. /\ onRollback \in Seq(Undos) /\ onCommit \in Seq(Finals) /\ heap \in Heaps
          /\ Len(onRollback) <= IF wild THEN MaxWild ELSE MaxOps
          /\ Len(onCommit) <= Len(onRollback)
          /\ {again, wild} \subseteq BOOLEAN
      BY Zenon DEF IInv, TypeInv
    <2> QED
      BY Zenon, <1>1, <2>1 DEF TypeInv
  <1>3. FinalsOnTheirTree'
    BY Zenon, <1>1 DEF IInv, FinalsOnTheirTree
  <1>4. \A stores, v : Remembers(stores, v) => Remembers(stores, v)'
    BY Zenon, <1>1, SameRemembered
  <1>5. FreeTrees' = FreeTrees
    BY Zenon, <1>1 DEF FreeTrees
  <1>6. TameInv => TameInv'
    BY <1>1, <1>4, <1>5 DEF TameInv
  <1>7. Content' = Content
    BY Zenon, <1>1 DEF Content
  <1> QED
    BY Zenon, <1>1, <1>2, <1>3, <1>6, <1>7 DEF IInv

-----------------------------------------------------------------------------
(* The invariant holds at the start: no store, no tree in use.              *)
LEMMA InitStep ==
    ASSUME Init
    PROVE  IInv /\ Content = saved
  <1>1. /\ heap = [stores  |-> [n \in Name |-> NoTree],
                   v       |-> [t \in Tree |-> EmptyTree],
                   deleted |-> [t \in Tree |-> Unmarked],
                   tr      |-> [h \in Handle |-> NoTree]]
        /\ onRollback = <<>> /\ onCommit = <<>> /\ touched = {}
        /\ open = FALSE /\ ctxDone = FALSE /\ again = FALSE /\ wild \in BOOLEAN
        /\ saved = [n \in Name |-> NoStore]
    BY Zenon, MemoryEngineAssumptions DEF Init
  <1> DEFINE vs == [t \in Tree |-> EmptyTree]
             ds == [t \in Tree |-> Unmarked]
             ss == [n \in Name |-> NoTree]
             hs == [h \in Handle |-> NoTree]
  <1>2. /\ vs \in [Tree -> [Key -> Val \cup {Nil}]] /\ ds \in [Tree -> [Key -> BOOLEAN]]
        /\ ss \in [Name -> Tree \cup {NoTree}] /\ hs \in [Handle -> Tree \cup {NoTree}]
    BY Zenon DEF EmptyTree, Unmarked
  <1>3. /\ \A t \in Tree, k \in Key : vs[t][k] = Nil /\ ~ds[t][k]
        /\ \A n \in Name : ss[n] = NoTree
    BY Zenon DEF EmptyTree, Unmarked
  <1>4. heap = [stores |-> ss, v |-> vs, deleted |-> ds, tr |-> hs]
    BY Zenon, <1>1
  <1> HIDE DEF vs, ds, ss, hs
  <1>5. heap.stores = ss /\ heap.v = vs /\ heap.deleted = ds /\ heap.tr = hs
    BY Zenon, <1>4
  <1>6. TypeInv
    <2>1. heap \in Heaps
      BY Zenon, <1>2, <1>4 DEF Heaps
    <2>2. /\ onRollback \in Seq(Undos) /\ onCommit \in Seq(Finals)
          /\ Len(onRollback) = 0 /\ Len(onCommit) = 0
      BY <1>1
    <2>3. 0 <= (IF wild THEN MaxWild ELSE MaxOps) /\ 0 <= 0
      <3>1. 0 <= MaxWild /\ 0 <= MaxOps /\ 0 <= 0
        BY MemoryEngineAssumptions
      <3> QED
        BY Zenon, <3>1
    <2>4. {open, ctxDone, again, wild} \subseteq BOOLEAN
      BY Zenon, <1>1
    <2> QED
      BY Zenon, <1>1, <1>5, <2>1, <2>2, <2>3, <2>4 DEF TypeInv, hs
  <1>7. FinalsOnTheirTree
    <2>1. DOMAIN onCommit = {}
      BY <1>1
    <2> QED
      BY Zenon, <2>1 DEF FinalsOnTheirTree
  <1>8. StoresApart(ss)
    BY Zenon, <1>3 DEF StoresApart
  <1>9. saved = [n \in Name |-> IF ss[n] = NoTree THEN NoStore ELSE vs[ss[n]]]
    BY Zenon, <1>1, <1>3
  <1>10. Remembers(ss, vs)
    <2>1. DOMAIN onRollback = {}
      BY <1>1
    <2> QED
      BY Zenon, <1>3, <1>5, <1>8, <1>9, <2>1 DEF Remembers
  <1>11. TameInv
    <2>1. DOMAIN onRollback = {} /\ DOMAIN onCommit = {}
      BY <1>1
    <2>2. \A t \in FreeTrees : t \in Tree
      BY Zenon DEF FreeTrees
    <2> QED
      BY Zenon, <1>1, <1>2, <1>3, <1>5, <1>8, <1>10, <2>1, <2>2 DEF TameInv
  <1>12. Content = saved
    BY Zenon, <1>1, <1>3, <1>5 DEF Content
  <1> QED
    BY Zenon, <1>6, <1>7, <1>11, <1>12 DEF IInv

(* Every step keeps the invariant.                                          *)
LEMMA Step ==
    ASSUME IInv, [Next]_vars
    PROVE  IInv'
  <1>1. CASE Begin \/ CtxDone
    BY Zenon, <1>1, QuietStep
  <1>2. CASE Commit
    BY Zenon, <1>2, CommitStep
  <1>3. CASE Rollback
    BY Zenon, <1>3, RollbackStep
  <1>4. ASSUME NEW n \in Name, CreateStore(n)
        PROVE  IInv'
    BY Zenon, <1>4, CreateStoreStep
  <1>5. ASSUME NEW n \in Name, DropStore(n)
        PROVE  IInv'
    BY Zenon, <1>5, DropStoreStep
  <1>6. ASSUME NEW h \in Handle, NEW n \in Name, GetStore(h, n)
        PROVE  IInv'
    BY Zenon, <1>6, GetStoreStep
  <1>7. ASSUME NEW h \in Handle, NEW k \in Key, Delete(h, k)
        PROVE  IInv'
    BY Zenon, <1>7, DeleteStep
  <1>8. ASSUME NEW h \in Handle, NEW k \in Key, NEW v \in Val, Put(h, k, v)
        PROVE  IInv'
    BY Zenon, <1>8, PutStep
  <1>9. ASSUME NEW h \in Handle, Truncate(h)
        PROVE  IInv'
    BY Zenon, <1>9, TruncateStep
  <1>10. CASE UNCHANGED vars
    <2>1. /\ heap' = heap /\ onRollback' = onRollback /\ onCommit' = onCommit
          /\ saved' = saved /\ touched' = touched /\ again' = again /\ wild' = wild
          /\ open' = open /\ ctxDone' = ctxDone
      BY Zenon, <1>10 DEF vars
    <2>2. TypeInv' /\ FinalsOnTheirTree'
      BY Zenon, <2>1 DEF IInv, TypeInv, FinalsOnTheirTree
    <2>3. \A stores, v : Remembers(stores, v) => Remembers(stores, v)'
      BY Zenon, <2>1, SameRemembered
    <2>4. FreeTrees' = FreeTrees
      BY Zenon, <2>1 DEF FreeTrees
    <2>5. TameInv => TameInv'
      BY <2>1, <2>3, <2>4 DEF TameInv
    <2> QED
      BY Zenon, <2>1, <2>2, <2>5 DEF IInv
  <1> QED
    BY Zenon, <1>1, <1>2, <1>3, <1>4, <1>5, <1>6, <1>7, <1>8, <1>9, <1>10 DEF Next

(* The heap, the lists of closures and, for transactions that are not wild, *)
(* what the closures remember of the content at the last commit: the        *)
(* inductive invariant of the memory engine.                                *)
THEOREM Invariance == Spec => []IInv
  <1>1. Init => IInv
    BY Zenon, InitStep
  <1>2. IInv /\ [Next]_vars => IInv'
    BY Zenon, Step
  <1> QED
    BY <1>1, <1>2, PTL DEF Spec

(* The heap and the flags have their types, and a transaction that is not   *)
(* open has no closure left.                                                *)
THEOREM TypeCorrect == Spec => []TypeOK
  <1>1. IInv => TypeOK
    <2> SUFFICES ASSUME IInv
                 PROVE  TypeOK
      BY Zenon
    <2>1. /\ heap.stores \in [Name -> Tree \cup {NoTree}]
          /\ heap.v \in [Tree -> [Key -> Val \cup {Nil}]]
          /\ heap.deleted \in [Tree -> [Key -> BOOLEAN]]
          /\ heap.tr \in [Handle -> Tree \cup {NoTree}]
      BY Zenon, HeapFields DEF IInv, TypeInv
    <2>2. ~open => onRollback = <<>> /\ ctxDone = FALSE
      BY Zenon DEF IInv, TypeInv
    <2>3. /\ Len(onRollback) <= IF wild THEN MaxWild ELSE MaxOps
          /\ Len(onCommit) <= Len(onRollback)
          /\ {open, ctxDone, again, wild} \subseteq BOOLEAN
      BY Zenon DEF IInv, TypeInv
    <2> QED
      BY Zenon, <2>1, <2>2, <2>3 DEF TypeOK
  <1> QED
    BY <1>1, Invariance, PTL

(* store.go:117: no mark of a deletion outlives its transaction, whether it *)
(* ends with Commit or Rollback.                                            *)
THEOREM MarksAreRemoved == Spec => []NoMarkLeft
  <1>1. IInv => NoMarkLeft
    <2> SUFFICES ASSUME IInv, ~open, ~wild, NEW n \in Name, heap.stores[n] # NoTree
                 PROVE  heap.deleted[heap.stores[n]] = Unmarked
      BY Zenon DEF NoMarkLeft
    <2> DEFINE t == heap.stores[n]
    <2>1. t \in Tree /\ heap.deleted[t] \in [Key -> BOOLEAN]
      BY Zenon, HeapFields DEF IInv, TypeInv
    <2>2. DOMAIN onCommit = {}
      BY DEF IInv, TypeInv
    <2>3. \A k \in Key : ~heap.deleted[t][k]
      BY Zenon, <2>1, <2>2 DEF IInv, TameInv
    <2> HIDE DEF t
    <2>4. heap.deleted[t] = Unmarked
      BY Zenon, <2>1, <2>3 DEF Unmarked
    <2> QED
      BY Zenon, <2>4 DEF t
  <1> QED
    BY <1>1, Invariance, PTL

-----------------------------------------------------------------------------
(* The steps of a tame engine on what it reads and what is saved.           *)
SpecStep ==
    \/ UNCHANGED <<Content, saved, open>>
    \/ ~open /\ open' = TRUE /\ UNCHANGED <<Content, saved>>
    \/ /\ open /\ UNCHANGED <<saved, open>>
       /\ \E n \in Name :
             \/ Content[n] = NoStore /\ Content' = [Content EXCEPT ![n] = EmptyTree]
             \/ Content[n] # NoStore /\ Content' = [Content EXCEPT ![n] = NoStore]
             \/ \E k \in Key :
                   \/ Content[n] # NoStore /\ Content[n][k] # Nil /\ ContentPut(n, k, Nil)
                   \/ \E v \in Val : Content[n] # NoStore /\ ContentPut(n, k, v)
    \/ open /\ open' = FALSE /\ saved' = Content /\ Content' = Content
    \/ open /\ open' = FALSE /\ saved' = saved /\ Content' = saved

(* An operation changes neither saved nor open nor wild.                    *)
LEMMA MutateFrame ==
    ASSUME NEW where, NEW new, NEW undo, NEW finish, Mutate(where, new, undo, finish)
    PROVE  UNCHANGED <<saved, open, wild>>
  BY Zenon DEF Mutate

(* Every step of a transaction that is not wild is a step of the abstract   *)
(* engine, or leaves what it says of the engine alone.                      *)
LEMMA TameStep ==
    ASSUME IInv, ~wild, [Next]_vars
    PROVE  SpecStep
  <1>1. CASE Begin
    <2>1. Content' = Content
      BY Zenon, <1>1, QuietStep
    <2> QED
      BY Zenon, <1>1, <2>1 DEF Begin, SpecStep
  <1>2. CASE CtxDone
    <2>1. Content' = Content
      BY Zenon, <1>2, QuietStep
    <2> QED
      BY Zenon, <1>2, <2>1 DEF CtxDone, SpecStep
  <1>3. CASE Commit
    <2>1. Content' = Content
      BY Zenon, <1>3, CommitStep
    <2>2. open /\ open' = FALSE /\ saved' = Content'
      BY Zenon, <1>3 DEF Commit, Running, Terminate
    <2> QED
      BY Zenon, <2>1, <2>2 DEF SpecStep
  <1>4. CASE Rollback
    <2>1. Content' = saved
      BY Zenon, <1>4, RollbackStep
    <2>2. open /\ open' = FALSE /\ saved' = saved
      BY Zenon, <1>4 DEF Rollback, Terminate
    <2> QED
      BY Zenon, <2>1, <2>2 DEF SpecStep
  <1>5. ASSUME NEW n \in Name, CreateStore(n)
        PROVE  SpecStep
    <2>1. Content[n] = NoStore /\ Content' = [Content EXCEPT ![n] = EmptyTree]
      BY Zenon, <1>5, CreateStoreStep
    <2>2. open /\ UNCHANGED <<saved, open>>
      BY Zenon, <1>5, MutateFrame DEF CreateStore, Running
    <2> QED
      BY Zenon, <2>1, <2>2 DEF SpecStep
  <1>6. ASSUME NEW n \in Name, DropStore(n)
        PROVE  SpecStep
    <2>1. Content[n] # NoStore /\ Content' = [Content EXCEPT ![n] = NoStore]
      BY Zenon, <1>6, DropStoreStep
    <2>2. open /\ UNCHANGED <<saved, open>>
      BY Zenon, <1>6, MutateFrame DEF DropStore, Running
    <2> QED
      BY Zenon, <2>1, <2>2 DEF SpecStep
  <1>7. ASSUME NEW h \in Handle, NEW n \in Name, GetStore(h, n)
        PROVE  SpecStep
    <2>1. heap'.stores = heap.stores /\ heap'.v = heap.v /\ heap'.deleted = heap.deleted
      BY Zenon, <1>7, GetStoreStep
    <2>2. Content' = Content
      BY Zenon, <2>1 DEF Content, Visible
    <2> QED
      BY Zenon, <1>7, <2>2 DEF GetStore, SpecStep
  <1>8. ASSUME NEW h \in Handle, NEW k \in Key, Delete(h, k)
        PROVE  SpecStep
    <2>1. \/ Content' = Content
          \/ \E n \in Name : Content[n] # NoStore /\ Content[n][k] # Nil /\ ContentPut(n, k, Nil)
      BY Zenon, <1>8, DeleteStep
    <2>2. open /\ UNCHANGED <<saved, open>>
      BY Zenon, <1>8, MutateFrame DEF Delete, Running
    <2> QED
      BY Zenon, <2>1, <2>2 DEF SpecStep
  <1>9. ASSUME NEW h \in Handle, NEW k \in Key, NEW v \in Val, Put(h, k, v)
        PROVE  SpecStep
    <2>1. \/ Content' = Content
          \/ \E n \in Name : Content[n] # NoStore /\ ContentPut(n, k, v)
      BY Zenon, <1>9, PutStep
    <2>2. open /\ UNCHANGED <<saved, open>>
      BY Zenon, <1>9, MutateFrame DEF Put, Running
    <2> QED
      BY Zenon, <2>1, <2>2 DEF SpecStep
  <1>10. ASSUME NEW h \in Handle, Truncate(h)
         PROVE  SpecStep
    BY Zenon, <1>10 DEF Truncate
  <1>11. CASE UNCHANGED vars
    BY Zenon, <1>11 DEF vars, SpecStep, Content
  <1> QED
    BY Zenon, <1>1, <1>2, <1>3, <1>4, <1>5, <1>6, <1>7, <1>8, <1>9, <1>10, <1>11 DEF Next

(* A transaction stays wild or tame.                                        *)
LEMMA WildStays ==
    ASSUME [Next]_vars
    PROVE  wild' = wild
  <1>1. ASSUME NEW n \in Name, CreateStore(n) \/ DropStore(n)
        PROVE  wild' = wild
    BY Zenon, <1>1, MutateFrame DEF CreateStore, DropStore
  <1>2. ASSUME NEW h \in Handle, NEW k \in Key, Delete(h, k) \/ \E v \in Val : Put(h, k, v)
        PROVE  wild' = wild
    BY Zenon, <1>2, MutateFrame DEF Delete, Put
  <1>3. ASSUME NEW h \in Handle, Truncate(h)
        PROVE  wild' = wild
    BY Zenon, <1>3, MutateFrame DEF Truncate
  <1> QED
    BY Zenon, <1>1, <1>2, <1>3
    DEF Next, Begin, Commit, Rollback, CtxDone, Terminate, GetStore, vars

(* Every step of the memory engine is one of engine.go's, or none.          *)
LEMMA RefineStep ==
    ASSUME IInv, [Next]_vars
    PROVE  [engine!SpecNext]_engine!specVars
  <1>1. wild' = wild
    BY Zenon, WildStays
  <1>2. CASE wild
    BY Zenon, <1>1, <1>2 DEF Tame, engine!specVars
  <1>3. CASE ~wild
    <2>1. SpecStep
      BY Zenon, <1>3, TameStep
    <2>2. EmptyTree = engine!EmptyStore
      BY Zenon DEF EmptyTree, engine!EmptyStore
    <2>3. CASE UNCHANGED <<Content, saved, open>>
      BY Zenon, <1>1, <1>3, <2>3 DEF Tame, engine!specVars
    <2>4. CASE ~open /\ open' = TRUE /\ UNCHANGED <<Content, saved>>
      BY Zenon, <1>1, <1>3, <2>4 DEF Tame, engine!SpecNext, engine!SpecBegin
    <2>5. CASE open /\ open' = FALSE /\ saved' = Content /\ Content' = Content
      BY Zenon, <1>1, <1>3, <2>5 DEF Tame, engine!SpecNext, engine!SpecCommit
    <2>6. CASE open /\ open' = FALSE /\ saved' = saved /\ Content' = saved
      BY Zenon, <1>1, <1>3, <2>6 DEF Tame, engine!SpecNext, engine!SpecRollback
    <2>7. ASSUME open, UNCHANGED <<saved, open>>, NEW n \in Name,
                 Content[n] = NoStore /\ Content' = [Content EXCEPT ![n] = EmptyTree]
          PROVE  engine!SpecNext
      BY Zenon, <1>1, <1>3, <2>2, <2>7
      DEF Tame, engine!SpecNext, engine!SpecWrite, engine!SpecCreateStore, engine!SetStore
    <2>8. ASSUME open, UNCHANGED <<saved, open>>, NEW n \in Name,
                 Content[n] # NoStore /\ Content' = [Content EXCEPT ![n] = NoStore]
          PROVE  engine!SpecNext
      BY Zenon, <1>1, <1>3, <2>8
      DEF Tame, engine!SpecNext, engine!SpecWrite, engine!SpecDropStore, engine!SetStore
    <2>9. ASSUME open, UNCHANGED <<saved, open>>, NEW n \in Name, NEW k \in Key,
                 Content[n] # NoStore /\ Content[n][k] # Nil /\ ContentPut(n, k, Nil)
          PROVE  engine!SpecNext
      BY Zenon, <1>1, <1>3, <2>9
      DEF Tame, ContentPut, engine!SpecNext, engine!SpecWrite, engine!SpecDelete, engine!SetStore
    <2>10. ASSUME open, UNCHANGED <<saved, open>>, NEW n \in Name, NEW k \in Key, NEW v \in Val,
                  Content[n] # NoStore /\ ContentPut(n, k, v)
           PROVE  engine!SpecNext
      BY Zenon, <1>1, <1>3, <2>10
      DEF Tame, ContentPut, engine!SpecNext, engine!SpecWrite, engine!SpecPut, engine!SetStore
    <2> QED
      BY Zenon, <2>1, <2>3, <2>4, <2>5, <2>6, <2>7, <2>8, <2>9, <2>10 DEF SpecStep
  <1> QED
    BY <1>2, <1>3, Zenon DEF IInv, TypeInv

(* The b-trees, marks and closures of the memory engine implement the       *)
(* stores of engine.go, of transactions that change no location twice       *)
(* before they roll back and never truncate.                                *)
THEOREM MemoryImplementsEngine == Spec => ImplementsEngine
  <1>1. Init => engine!SpecInit
    <2> SUFFICES ASSUME Init
                 PROVE  engine!SpecInit
      BY Zenon
    <2>1. Content = saved /\ saved = [n \in Name |-> NoStore] /\ open = FALSE
      BY Zenon, InitStep DEF Init
    <2> QED
      BY Zenon, <2>1 DEF Tame, engine!SpecInit
  <1>2. IInv /\ [Next]_vars => [engine!SpecNext]_engine!specVars
    BY Zenon, RefineStep
  <1> QED
    BY <1>1, <1>2, Invariance, PTL DEF Spec, ImplementsEngine, engine!EngineSpecification
=============================================================================
