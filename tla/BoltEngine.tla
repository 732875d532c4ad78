----------------------------- MODULE BoltEngine -----------------------------
(***************************************************************************)
(* engine/boltengine: a store is a bucket of a Bolt transaction.  Delete    *)
(* gives the key a nil value, which hides it, and notes it in a bin bucket; *)
(* Commit deletes for good the keys noted in the bin that are still hidden, *)
(* and then the bin.  Names and keys are byte sequences, because the key in *)
(* the bin is the name followed by the key.  Bolt itself is external: a     *)
(* transaction works on its own copy of the buckets.                        *)
(***************************************************************************)
EXTENDS Bytes

CONSTANTS Name, Key, Val,
          Nil,       \* no entry under this key
          NoStore,
          Hidden,    \* an entry whose value is nil
          Empty,     \* such an entry, once it is written to a page
          MaxOps     \* bound: mutations in a transaction

(* No name continues another: names that generateStoreName makes are        *)
(* varints, whose last byte is the only one below 128.  (One of them, the   *)
(* byte 95, begins the names of the two tables of the catalog: "_".)        *)
BoltAssumptions ==
    /\ Nil \notin Val
    /\ Hidden \notin Val \cup {Nil}
    /\ NoStore \notin [Key -> Val \cup {Nil, Hidden}]
    /\ MaxOps \in Nat
    /\ Name \cup Key \subseteq Seq(Nat)
    /\ \A m, n \in Name : HasPrefix(n, m) => m = n

VARIABLES buckets, bin, open, ctxDone, saved, nops

vars == <<buckets, bin, open, ctxDone, saved, nops>>

EmptyBucket == [k \in Key |-> Nil]

Init ==
    /\ buckets = [n \in Name |-> NoStore]
    /\ bin = {}
    /\ open = FALSE
    /\ ctxDone = FALSE
    /\ saved = buckets
    /\ nops = 0

Begin ==
    /\ ~open
    /\ open' = TRUE
    /\ UNCHANGED <<buckets, bin, ctxDone, saved, nops>>

Running == open /\ ~ctxDone

CtxDone ==
    /\ Running
    /\ ctxDone' = TRUE
    /\ UNCHANGED <<buckets, bin, open, saved, nops>>

(* A mutation of bucket n, with what it adds to the bin.                    *)
Mutate(n, bucket, marks) ==
    /\ nops < MaxOps
    /\ nops' = nops + 1
    /\ buckets' = [buckets EXCEPT ![n] = bucket]
    /\ bin' = {m \in bin : \A x \in marks : x.key # m.key} \cup marks
    /\ UNCHANGED <<open, ctxDone, saved>>

CreateStore(n) == Running /\ buckets[n] = NoStore /\ Mutate(n, EmptyBucket, {})

DropStore(n) == Running /\ buckets[n] # NoStore /\ Mutate(n, NoStore, {})

(* DeleteBucket, then CreateBucket.                                         *)
Truncate(n) == Running /\ buckets[n] # NoStore /\ Mutate(n, EmptyBucket, {})

(* A store handle is got for each operation.                                *)
Put(n, k, v) ==
    /\ Running
    /\ buckets[n] # NoStore
    /\ Mutate(n, [buckets[n] EXCEPT ![k] = v], {})

(* Bucket.Get.                                                              *)
Get(bucket, k) == IF bucket[k] = Hidden THEN Nil ELSE bucket[k]

(* Variant: the key is hidden and not noted in the bin.                     *)
DeleteUnmarked(n, k) ==
    /\ Running
    /\ buckets[n] # NoStore
    /\ Get(buckets[n], k) # Nil
    /\ Mutate(n, [buckets[n] EXCEPT ![k] = Hidden], {})

(* markForDeletion: the entry of the bin is the name and the key, run       *)
(* together, with the length of the name.                                   *)
Delete(n, k) ==
    /\ Running
    /\ buckets[n] # NoStore
    /\ Get(buckets[n], k) # Nil
    /\ Mutate(n, [buckets[n] EXCEPT ![k] = Hidden],
              {[key |-> n \o k, offset |-> Len(n)]})

-----------------------------------------------------------------------------
(* Variant: cleanupBinBucket does not look whether the key was put again.   *)
CleanAlways(n, k) == \E m \in bin : m.key = n \o k /\ m.offset = Len(n)

(* cleanupBinBucket: the bin tells that the key is to be deleted, and it    *)
(* has not been rewritten.                                                  *)
Clean(n, k) ==
    /\ \E m \in bin : m.key = n \o k /\ m.offset = Len(n)
    /\ Get(buckets[n], k) = Nil

Cleaned == [n \in Name |->
    IF buckets[n] = NoStore THEN NoStore
    ELSE [k \in Key |-> CASE Clean(n, k) -> Nil
                          [] ~Clean(n, k) /\ buckets[n][k] = Hidden -> Empty
                          [] OTHER -> buckets[n][k]]]

End(bs) ==
    /\ open
    /\ buckets' = bs
    /\ saved' = bs
    /\ bin' = {}
    /\ open' = FALSE
    /\ ctxDone' = FALSE
    /\ nops' = 0

Commit == ~ctxDone /\ End(Cleaned)

(* Rollback, also what Commit does when the context is done.                *)
Rollback == End(saved)

Next ==
    \/ Begin \/ CtxDone \/ Commit \/ Rollback
    \/ \E n \in Name :
          \/ CreateStore(n) \/ DropStore(n) \/ Truncate(n)
          \/ \E k \in Key : Delete(n, k) \/ \E v \in Val : Put(n, k, v)

Spec == Init /\ [][Next]_vars

-----------------------------------------------------------------------------
(* The types of the variables; outside a transaction the bin is empty.      *)
TypeOK ==
    /\ buckets \in [Name -> [Key -> Val \cup {Nil, Hidden}] \cup {NoStore}]
    /\ saved \in [Name -> [Key -> Val \cup {Nil}] \cup {NoStore}]
    /\ {open, ctxDone} \subseteq BOOLEAN
    /\ nops \in 0 .. MaxOps
    /\ ~open => bin = {} /\ ~ctxDone

Content == [n \in Name |->
    IF buckets[n] = NoStore THEN NoStore ELSE [k \in Key |-> Get(buckets[n], k)]]

engine == INSTANCE EngineSpec WITH content <- Content

(* Hidden keys and the bin behave as engine.go says a transaction on stores *)
(* does.  A key hidden in a transaction that commits is gone, and does not  *)
(* come back as a key with an empty value; one that was deleted and put     *)
(* again, or whose store was dropped and created again, is kept.            *)
ImplementsEngine == engine!EngineSpecification
=============================================================================
