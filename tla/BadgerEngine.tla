---------------------------- MODULE BadgerEngine ----------------------------
(***************************************************************************)
(* engine/badgerengine: every store lives in the one key space of Badger.   *)
(* A store is a key built from its name, and its pairs are under keys built *)
(* from its name and theirs.  Names and keys are byte sequences.  Badger    *)
(* itself is external: a transaction reads the last commit and its own      *)
(* writes.                                                                  *)
(***************************************************************************)
EXTENDS Bytes

CONSTANTS Name, Key, Val,
          Nil, NoStore,
          NoValue,   \* the nil value of a store's own key
          MaxOps     \* bound: mutations in a transaction

(* No name continues another: names that generateStoreName makes are        *)
(* varints, whose last byte is the only one below 128.  (One of them, the   *)
(* byte 95, begins the names of the two tables of the catalog: "_".)        *)
BadgerAssumptions ==
    /\ Nil \notin Val
    /\ NoStore \notin [Key -> Val \cup {Nil}]
    /\ MaxOps \in Nat
    /\ Name \cup Key \subseteq Seq(Nat)
    /\ \A m, n \in Name : HasPrefix(n, m) => m = n

VARIABLES kv,        \* the pairs the transaction sees, a set of [k, v]
          base,      \* the pairs last committed
          open, ctxDone, nops

vars == <<kv, base, open, ctxDone, nops>>

separator == 31
storeKey == <<95>>        \* stands for the bytes of "__genji.store"
storePrefix == 115

buildStoreKey(name) == storeKey \o <<separator>> \o name
buildStorePrefixKey(name) == <<storePrefix, separator>> \o name

buildKey(prefix, k) == prefix \o <<separator, 0>> \o k

Init ==
    /\ kv = {}
    /\ base = {}
    /\ open = FALSE
    /\ ctxDone = FALSE
    /\ nops = 0

Begin ==
    /\ ~open
    /\ open' = TRUE
    /\ UNCHANGED <<kv, base, ctxDone, nops>>

Running == open /\ ~ctxDone

CtxDone ==
    /\ Running
    /\ ctxDone' = TRUE
    /\ UNCHANGED <<kv, base, open, nops>>

Has(k) == \E p \in kv : p.k = k

Set(k, v) == {p \in kv : p.k # k} \cup {[k |-> k, v |-> v]}

Mutate(pairs) ==
    /\ nops < MaxOps
    /\ nops' = nops + 1
    /\ kv' = pairs
    /\ UNCHANGED <<base, open, ctxDone>>

StoreExists(n) == Has(buildStoreKey(n))

CreateStore(n) ==
    /\ Running
    /\ ~StoreExists(n)
    /\ Mutate(Set(buildStoreKey(n), NoValue))

(* Truncate deletes the keys that start with the prefix of the store, to    *)
(* which no separator is added.                                             *)
Truncated(n) == {p \in kv : ~HasPrefix(p.k, buildStorePrefixKey(n))}

Truncate(n) == Running /\ StoreExists(n) /\ Mutate(Truncated(n))

DropStore(n) ==
    /\ Running
    /\ StoreExists(n)
    /\ Mutate({p \in Truncated(n) : p.k # buildStoreKey(n)})

Put(n, k, v) ==
    /\ Running
    /\ StoreExists(n)
    /\ Mutate(Set(buildKey(buildStorePrefixKey(n), k), v))

Delete(n, k) ==
    LET key == buildKey(buildStorePrefixKey(n), k) IN
    /\ Running
    /\ StoreExists(n)
    /\ Has(key)
    /\ Mutate({p \in kv : p.k # key})

End(pairs) ==
    /\ open
    /\ kv' = pairs
    /\ base' = pairs
    /\ open' = FALSE
    /\ ctxDone' = FALSE
    /\ nops' = 0

Commit == ~ctxDone /\ End(kv)

(* Rollback, also what Commit does when the context is done.                *)
Rollback == End(base)

Next ==
    \/ Begin \/ CtxDone \/ Commit \/ Rollback
    \/ \E n \in Name :
          \/ CreateStore(n) \/ DropStore(n) \/ Truncate(n)
          \/ \E k \in Key : Delete(n, k) \/ \E v \in Val : Put(n, k, v)

Spec == Init /\ [][Next]_vars

-----------------------------------------------------------------------------
ContentOf(pairs) == [n \in Name |->
    IF \E p \in pairs : p.k = buildStoreKey(n)
    THEN [k \in Key |->
            LET found == {p \in pairs : p.k = buildKey(buildStorePrefixKey(n), k)}
            IN  IF found = {} THEN Nil ELSE (CHOOSE p \in found : TRUE).v]
    ELSE NoStore]

Content == ContentOf(kv)

engine == INSTANCE EngineSpec WITH content <- Content, saved <- ContentOf(base)

(* The one key space behaves as the stores of engine.go: no operation on a  *)
(* store is seen in another, and a store that is dropped and created again  *)
(* is empty.                                                                *)
ImplementsEngine == engine!EngineSpecification

(* Each key is there once, and is the key of a store or of a pair in a      *)
(* store that exists: no pair outlives its store.                           *)
NoOrphans ==
    /\ \A p, q \in kv : p.k = q.k => p = q
    /\ \A p \in kv : \E n \in Name :
          /\ StoreExists(n)
          /\ \/ p = [k |-> buildStoreKey(n), v |-> NoValue]
             \/ p.v \in Val /\ \E k \in Key : p.k = buildKey(buildStorePrefixKey(n), k)
=============================================================================
