------------------------- MODULE DiskEngines_proofs -------------------------
(***************************************************************************)
(* Bolt's hidden keys and its bin, and the one key space of Badger, both    *)
(* implement engine.go, for any names, keys and values and any number of    *)
(* operations in a transaction.                                             *)
(***************************************************************************)
EXTENDS DiskEngines, Integers, Sequences, TLAPS

BoltNoted(n, k) == \E m \in boltBin : m.key = n \o k /\ m.offset = Len(n)

(* Every hidden key is noted in the bin, which cleanupBinBucket relies on,  *)
(* and no committed bucket has a hidden key.                                *)
BoltIInv ==
    /\ bolt!TypeOK
    /\ \A n \in DiskName, k \in DiskKey :
          boltBuckets[n] # DiskNoStore /\ boltBuckets[n][k] = Hidden => BoltNoted(n, k)
    /\ ~boltOpen => boltBuckets = boltSaved

-----------------------------------------------------------------------------
(* The key in the bin tells the store and the key, when no name continues   *)
(* another.                                                                 *)
LEMMA BoltBinKeysApart ==
    ASSUME bolt!BoltAssumptions, NEW m \in DiskName, NEW n \in DiskName, NEW j \in DiskKey, NEW k \in DiskKey,
           m \o j = n \o k
    PROVE  m = n
  <1>1. m \in Seq(Nat) /\ n \in Seq(Nat) /\ j \in Seq(Nat) /\ k \in Seq(Nat)
    BY DEF bolt!BoltAssumptions
  <1>2. Len(m) \in Nat /\ Len(n) \in Nat
    BY <1>1
  <1>3. /\ \A i \in 1 .. Len(m) : (m \o j)[i] = m[i]
        /\ \A i \in 1 .. Len(n) : (n \o k)[i] = n[i]
    BY <1>1
  <1>4. CASE Len(m) <= Len(n)
    <2>1. \A i \in 1 .. Len(m) : n[i] = m[i]
      BY <1>2, <1>3, <1>4
    <2> QED
      BY <1>4, <2>1 DEF bolt!HasPrefix, bolt!BoltAssumptions
  <1>5. CASE Len(n) <= Len(m)
    <2>1. \A i \in 1 .. Len(n) : m[i] = n[i]
      BY <1>2, <1>3, <1>5
    <2> QED
      BY <1>5, <2>1 DEF bolt!HasPrefix, bolt!BoltAssumptions
  <1> QED
    BY <1>2, <1>4, <1>5
(* Commit leaves in the buckets what the transaction reads in them: every   *)
(* hidden key is deleted for good, and no other key.                        *)
LEMMA BoltCleanedIsContent ==
    ASSUME bolt!BoltAssumptions, BoltIInv
    PROVE  bolt!Cleaned = bolt!Content
  <1> SUFFICES ASSUME NEW n \in DiskName, boltBuckets[n] # DiskNoStore, NEW k \in DiskKey
               PROVE  (CASE bolt!Clean(n, k) -> DiskNil
                         [] ~bolt!Clean(n, k) /\ boltBuckets[n][k] = Hidden -> Empty
                         [] OTHER -> boltBuckets[n][k]) = bolt!Get(boltBuckets[n], k)
    BY DEF bolt!Cleaned, bolt!Content
  <1>1. CASE boltBuckets[n][k] = Hidden
    <2>1. bolt!Clean(n, k)
      BY <1>1 DEF BoltIInv, BoltNoted, bolt!Clean, bolt!Get
    <2> QED
      BY <1>1, <2>1 DEF bolt!Get
  <1>2. CASE boltBuckets[n][k] # Hidden
    BY <1>2 DEF bolt!Clean, bolt!Get
  <1> QED
    BY <1>1, <1>2

(* The types of what a transaction reads.                                   *)
LEMMA BoltContentType ==
    ASSUME bolt!BoltAssumptions, bolt!TypeOK
    PROVE  /\ bolt!Content \in [DiskName -> [DiskKey -> DiskVal \cup {DiskNil}] \cup {DiskNoStore}]
           /\ \A n \in DiskName : bolt!Content[n] = DiskNoStore <=> boltBuckets[n] = DiskNoStore
  <1> SUFFICES ASSUME NEW n \in DiskName
               PROVE  /\ bolt!Content[n] \in [DiskKey -> DiskVal \cup {DiskNil}] \cup {DiskNoStore}
                      /\ bolt!Content[n] = DiskNoStore <=> boltBuckets[n] = DiskNoStore
    BY DEF bolt!Content
  <1>1. CASE boltBuckets[n] = DiskNoStore
    BY <1>1 DEF bolt!Content
  <1>2. CASE boltBuckets[n] # DiskNoStore
    <2> DEFINE c == [k \in DiskKey |-> bolt!Get(boltBuckets[n], k)]
    <2>1. boltBuckets[n] \in [DiskKey -> DiskVal \cup {DiskNil, Hidden}]
      BY <1>2 DEF bolt!TypeOK
    <2>2. \A k \in DiskKey : bolt!Get(boltBuckets[n], k) \in DiskVal \cup {DiskNil}
      BY <2>1 DEF bolt!Get
    <2>3. c \in [DiskKey -> DiskVal \cup {DiskNil}] /\ c \in [DiskKey -> DiskVal \cup {DiskNil, Hidden}]
      BY <2>2
    <2>4. c # DiskNoStore
      BY <2>3 DEF bolt!BoltAssumptions
    <2>5. bolt!Content[n] = c
      BY <1>2 DEF bolt!Content
    <2> QED
      BY <1>2, <2>3, <2>4, <2>5
  <1> QED
    BY <1>1, <1>2

(* A mutation keeps the invariant when the bucket it leaves has no hidden   *)
(* key but those it had and those it notes.                                 *)
LEMMA BoltMutateStep ==
    ASSUME bolt!BoltAssumptions, BoltIInv, boltOpen, NEW n \in DiskName,
           NEW bucket \in [DiskKey -> DiskVal \cup {DiskNil, Hidden}] \cup {DiskNoStore},
           NEW marks, bolt!Mutate(n, bucket, marks),
           \/ /\ marks = {}
              /\ \A k \in DiskKey : bucket # DiskNoStore /\ bucket[k] = Hidden =>
                                  boltBuckets[n] # DiskNoStore /\ boltBuckets[n][k] = Hidden
           \/ \E j \in DiskKey :
                 /\ marks = {[key |-> n \o j, offset |-> Len(n)]}
                 /\ \A k \in DiskKey \ {j} : bucket # DiskNoStore /\ bucket[k] = Hidden =>
                                  boltBuckets[n] # DiskNoStore /\ boltBuckets[n][k] = Hidden
    PROVE  BoltIInv'
  <1>1. /\ boltOps' = boltOps + 1 /\ boltOps < DiskOps /\ boltBuckets' = [boltBuckets EXCEPT ![n] = bucket]
        /\ boltBin' = {m \in boltBin : \A x \in marks : x.key # m.key} \cup marks
        /\ UNCHANGED <<boltOpen, boltDone, boltSaved>>
    BY DEF bolt!Mutate
  <1>2. bolt!TypeOK /\ DiskOps \in Nat
    BY DEF BoltIInv, bolt!BoltAssumptions
  <1>3. bolt!TypeOK'
    <2>1. boltOps' \in 0 .. DiskOps
      BY <1>1, <1>2 DEF bolt!TypeOK
    <2>2. boltBuckets' \in [DiskName -> [DiskKey -> DiskVal \cup {DiskNil, Hidden}] \cup {DiskNoStore}]
      BY <1>1, <1>2 DEF bolt!TypeOK
    <2>3. boltOpen'
      BY <1>1
    <2> QED
      BY <1>1, <1>2, <2>1, <2>2, <2>3 DEF bolt!TypeOK
  <1>4. ASSUME NEW p \in DiskName, NEW k \in DiskKey, BoltNoted(p, k)
        PROVE  BoltNoted(p, k)'
    <2>1. PICK m \in boltBin : m.key = p \o k /\ m.offset = Len(p)
      BY <1>4 DEF BoltNoted
    <2>2. CASE \A x \in marks : x.key # m.key
      BY Zenon, <1>1, <2>1, <2>2 DEF BoltNoted
    <2>3. CASE \E x \in marks : x.key = m.key
      <3>1. PICK j \in DiskKey : marks = {[key |-> n \o j, offset |-> Len(n)]}
        BY Zenon, <2>3
      <3> DEFINE y == [key |-> n \o j, offset |-> Len(n)]
      <3>2. y.key = n \o j /\ y.offset = Len(n) /\ marks = {y}
        BY <3>1
      <3> HIDE DEF y
      <3>3. n \o j = p \o k
        BY Zenon, <2>1, <2>3, <3>2
      <3>4. p = n
        BY Zenon, <3>3, BoltBinKeysApart
      <3>5. y \in boltBin'
        BY <1>1, <3>2
      <3> QED
        BY <3>2, <3>3, <3>4, <3>5 DEF BoltNoted
    <2> QED
      BY <2>2, <2>3
  <1>5. ASSUME NEW p \in DiskName, NEW k \in DiskKey, boltBuckets'[p] # DiskNoStore, boltBuckets'[p][k] = Hidden
        PROVE  BoltNoted(p, k)'
    <2>1. CASE p # n
      <3>1. boltBuckets'[p] = boltBuckets[p]
        BY <1>1, <1>2, <2>1 DEF bolt!TypeOK
      <3> QED
        BY <1>4, <1>5, <3>1 DEF BoltIInv
    <2>2. CASE p = n
      <3>1. boltBuckets'[p] = bucket
        BY <1>1, <1>2, <2>2 DEF bolt!TypeOK
      <3>2. CASE boltBuckets[n] # DiskNoStore /\ boltBuckets[n][k] = Hidden
        BY <1>4, <2>2, <3>2 DEF BoltIInv
      <3>3. CASE ~(boltBuckets[n] # DiskNoStore /\ boltBuckets[n][k] = Hidden)
        <4>1. marks = {[key |-> n \o k, offset |-> Len(n)]}
          BY Zenon, <1>5, <3>1, <3>3
        <4>2. [key |-> n \o k, offset |-> Len(n)] \in boltBin'
          BY <1>1, <4>1
        <4> QED
          BY <2>2, <4>2 DEF BoltNoted
      <3> QED
        BY <3>2, <3>3
    <2> QED
      BY <2>1, <2>2
  <1> QED
    BY <1>1, <1>3, <1>5 DEF BoltIInv
-----------------------------------------------------------------------------
(* What each mutation makes of the buckets, as MutateStep needs it and as   *)
(* the abstract engine says it.                                             *)
LEMMA BoltWriteStep ==
    ASSUME bolt!BoltAssumptions, BoltIInv, NEW n \in DiskName,
           \/ bolt!CreateStore(n) \/ bolt!DropStore(n) \/ bolt!Truncate(n)
           \/ \E k \in DiskKey : bolt!Delete(n, k) \/ \E v \in DiskVal : bolt!Put(n, k, v)
    PROVE  BoltIInv' /\ bolt!engine!SpecWrite
  <1>1. bolt!TypeOK /\ boltOpen
    BY Zenon DEF BoltIInv, bolt!CreateStore, bolt!DropStore, bolt!Truncate, bolt!Delete, bolt!Put, bolt!Running
  <1>2. /\ bolt!Content \in [DiskName -> [DiskKey -> DiskVal \cup {DiskNil}] \cup {DiskNoStore}]
        /\ \A p \in DiskName : bolt!Content[p] = DiskNoStore <=> boltBuckets[p] = DiskNoStore
    BY <1>1, BoltContentType
  <1>3. ASSUME NEW bucket, NEW marks, bolt!Mutate(n, bucket, marks)
        PROVE  /\ boltBuckets' = [boltBuckets EXCEPT ![n] = bucket]
               /\ boltSaved' = boltSaved /\ boltOpen' = boltOpen
               /\ bolt!Content' = [bolt!Content EXCEPT ![n] =
                     IF bucket = DiskNoStore THEN DiskNoStore ELSE [k \in DiskKey |-> bolt!Get(bucket, k)]]
    <2>1. boltBuckets' = [boltBuckets EXCEPT ![n] = bucket] /\ boltSaved' = boltSaved /\ boltOpen' = boltOpen
      BY <1>3 DEF bolt!Mutate
    <2> QED
      BY Zenon, <1>1, <2>1 DEF bolt!Content, bolt!TypeOK
  <1>4. bolt!EmptyBucket \in [DiskKey -> DiskVal \cup {DiskNil, Hidden}] /\ bolt!EmptyBucket # DiskNoStore
        /\ [k \in DiskKey |-> bolt!Get(bolt!EmptyBucket, k)] = bolt!engine!EmptyStore
        /\ \A k \in DiskKey : bolt!EmptyBucket[k] # Hidden
    <2>1. bolt!EmptyBucket \in [DiskKey -> DiskVal \cup {DiskNil, Hidden}]
      BY DEF bolt!EmptyBucket
    <2>2. \A k \in DiskKey : bolt!EmptyBucket[k] = DiskNil /\ DiskNil # Hidden
      BY DEF bolt!EmptyBucket, bolt!BoltAssumptions
    <2> QED
      BY <2>1, <2>2 DEF bolt!BoltAssumptions, bolt!Get, bolt!engine!EmptyStore
  <1>5. CASE bolt!CreateStore(n)
    <2>1. boltBuckets[n] = DiskNoStore /\ bolt!Mutate(n, bolt!EmptyBucket, {})
      BY <1>5 DEF bolt!CreateStore
    <2>2. bolt!Content' = [bolt!Content EXCEPT ![n] = bolt!engine!EmptyStore] /\ boltSaved' = boltSaved /\ boltOpen' = boltOpen
      BY <1>3, <1>4, <2>1
    <2>3. BoltIInv'
      BY Zenon, <1>1, <1>4, <2>1, BoltMutateStep
    <2> QED
      BY Zenon, <1>1, <1>2, <2>1, <2>2, <2>3
      DEF bolt!engine!SpecWrite, bolt!engine!SpecCreateStore, bolt!engine!SetStore
  <1>6. CASE bolt!DropStore(n)
    <2>1. boltBuckets[n] # DiskNoStore /\ bolt!Mutate(n, DiskNoStore, {})
      BY <1>6 DEF bolt!DropStore
    <2>2. bolt!Content' = [bolt!Content EXCEPT ![n] = DiskNoStore] /\ boltSaved' = boltSaved /\ boltOpen' = boltOpen
      BY <1>3, <2>1
    <2>3. BoltIInv'
      BY Zenon, <1>1, <2>1, BoltMutateStep
    <2> QED
      BY Zenon, <1>1, <1>2, <2>1, <2>2, <2>3
      DEF bolt!engine!SpecWrite, bolt!engine!SpecDropStore, bolt!engine!SetStore
  <1>7. CASE bolt!Truncate(n)
    <2>1. boltBuckets[n] # DiskNoStore /\ bolt!Mutate(n, bolt!EmptyBucket, {})
      BY <1>7 DEF bolt!Truncate
    <2>2. bolt!Content' = [bolt!Content EXCEPT ![n] = bolt!engine!EmptyStore] /\ boltSaved' = boltSaved /\ boltOpen' = boltOpen
      BY <1>3, <1>4, <2>1
    <2>3. BoltIInv'
      BY <1>1, <1>4, <2>1, BoltMutateStep
    <2> QED
      BY Zenon, <1>1, <1>2, <2>1, <2>2, <2>3
      DEF bolt!engine!SpecWrite, bolt!engine!SpecTruncate, bolt!engine!SetStore
  <1>8. ASSUME NEW k \in DiskKey, bolt!Delete(n, k)
        PROVE  BoltIInv' /\ bolt!engine!SpecWrite
    <2> DEFINE b  == [boltBuckets[n] EXCEPT ![k] = Hidden]
               ms == {[key |-> n \o k, offset |-> Len(n)]}
    <2>1. boltBuckets[n] # DiskNoStore /\ bolt!Get(boltBuckets[n], k) # DiskNil /\ bolt!Mutate(n, b, ms)
      BY <1>8 DEF bolt!Delete
    <2>2. /\ boltBuckets[n] \in [DiskKey -> DiskVal \cup {DiskNil, Hidden}]
          /\ b \in [DiskKey -> DiskVal \cup {DiskNil, Hidden}]
      BY <1>1, <2>1 DEF bolt!TypeOK
    <2>3. b # DiskNoStore /\ \A j \in DiskKey \ {k} : b[j] = boltBuckets[n][j]
      BY Zenon, <2>2 DEF bolt!BoltAssumptions
    <2>4. BoltIInv'
      <3> HIDE DEF b
      <3> QED
        BY <1>1, <2>1, <2>2, <2>3, BoltMutateStep
    <2>5. bolt!Content[n] = [j \in DiskKey |-> bolt!Get(boltBuckets[n], j)]
      BY <2>1 DEF bolt!Content
    <2>6. [j \in DiskKey |-> bolt!Get(b, j)] = [bolt!Content[n] EXCEPT ![k] = DiskNil]
      BY <2>2, <2>5 DEF bolt!Get
    <2>7. bolt!Content' = [bolt!Content EXCEPT ![n] = [bolt!Content[n] EXCEPT ![k] = DiskNil]]
          /\ boltSaved' = boltSaved /\ boltOpen' = boltOpen
      <3> HIDE DEF b
      <3> QED
        BY <1>3, <2>1, <2>3, <2>6
    <2>8. bolt!Content[n][k] # DiskNil
      BY <2>1, <2>5
    <2> QED
      BY Zenon, <1>1, <1>2, <2>1, <2>4, <2>7, <2>8
      DEF bolt!engine!SpecWrite, bolt!engine!SpecDelete, bolt!engine!SetStore
  <1>9. ASSUME NEW k \in DiskKey, NEW v \in DiskVal, bolt!Put(n, k, v)
        PROVE  BoltIInv' /\ bolt!engine!SpecWrite
    <2> DEFINE b == [boltBuckets[n] EXCEPT ![k] = v]
    <2>1. boltBuckets[n] # DiskNoStore /\ bolt!Mutate(n, b, {})
      BY <1>9 DEF bolt!Put
    <2>2. /\ boltBuckets[n] \in [DiskKey -> DiskVal \cup {DiskNil, Hidden}]
          /\ b \in [DiskKey -> DiskVal \cup {DiskNil, Hidden}]
      BY <1>1, <2>1 DEF bolt!TypeOK
    <2>3. /\ b # DiskNoStore /\ v # Hidden
          /\ \A j \in DiskKey : b[j] = Hidden => boltBuckets[n][j] = Hidden
      BY <2>2 DEF bolt!BoltAssumptions
    <2>4. BoltIInv'
      <3> HIDE DEF b
      <3> QED
        BY <1>1, <2>1, <2>2, <2>3, BoltMutateStep
    <2>5. bolt!Content[n] = [j \in DiskKey |-> bolt!Get(boltBuckets[n], j)]
      BY <2>1 DEF bolt!Content
    <2>6. [j \in DiskKey |-> bolt!Get(b, j)] = [bolt!Content[n] EXCEPT ![k] = v]
      BY <2>2, <2>3, <2>5 DEF bolt!Get
    <2>7. bolt!Content' = [bolt!Content EXCEPT ![n] = [bolt!Content[n] EXCEPT ![k] = v]]
          /\ boltSaved' = boltSaved /\ boltOpen' = boltOpen
      <3> HIDE DEF b
      <3> QED
        BY <1>3, <2>1, <2>3, <2>6
    <2> QED
      BY Zenon, <1>1, <1>2, <2>1, <2>4, <2>7
      DEF bolt!engine!SpecWrite, bolt!engine!SpecPut, bolt!engine!SetStore
  <1> QED
    BY <1>5, <1>6, <1>7, <1>8, <1>9
(* Begin, and the end of the context, which the abstract engine does not    *)
(* see.                                                                     *)
LEMMA BoltBeginStep ==
    ASSUME BoltIInv, bolt!Begin \/ bolt!CtxDone \/ UNCHANGED bolt!vars
    PROVE  BoltIInv' /\ (bolt!engine!SpecBegin \/ UNCHANGED bolt!engine!specVars)
  <1>1. UNCHANGED <<boltBuckets, boltBin, boltSaved, boltOps>>
    BY DEF bolt!Begin, bolt!CtxDone, bolt!vars
  <1>2. bolt!Content' = bolt!Content /\ \A n, k : BoltNoted(n, k)' <=> BoltNoted(n, k)
    BY <1>1 DEF bolt!Content, BoltNoted
  <1>3. CASE bolt!Begin
    BY <1>1, <1>2, <1>3 DEF bolt!Begin, BoltIInv, bolt!TypeOK, bolt!engine!SpecBegin
  <1>4. CASE bolt!CtxDone
    BY <1>1, <1>2, <1>4 DEF bolt!CtxDone, bolt!Running, BoltIInv, bolt!TypeOK, bolt!engine!specVars
  <1>5. CASE UNCHANGED bolt!vars
    BY <1>1, <1>2, <1>5 DEF bolt!vars, BoltIInv, bolt!TypeOK, bolt!engine!specVars
  <1> QED
    BY <1>3, <1>4, <1>5

(* The end of a transaction, whose buckets have no hidden key any more.     *)
LEMMA BoltEndStep ==
    ASSUME bolt!BoltAssumptions, BoltIInv,
           NEW bs \in [DiskName -> [DiskKey -> DiskVal \cup {DiskNil}] \cup {DiskNoStore}], bolt!End(bs)
    PROVE  BoltIInv' /\ bolt!Content' = bs /\ boltSaved' = bs /\ boltOpen /\ boltOpen' = FALSE
  <1>1. /\ boltOpen /\ boltBuckets' = bs /\ boltSaved' = bs /\ boltBin' = {} /\ boltOpen' = FALSE
        /\ boltDone' = FALSE /\ boltOps' = 0
    BY DEF bolt!End
  <1>2. bs \in [DiskName -> [DiskKey -> DiskVal \cup {DiskNil, Hidden}] \cup {DiskNoStore}]
    <2> SUFFICES ASSUME NEW n \in DiskName
                 PROVE  bs[n] \in [DiskKey -> DiskVal \cup {DiskNil, Hidden}] \cup {DiskNoStore}
      OBVIOUS
    <2>1. bs[n] \in [DiskKey -> DiskVal \cup {DiskNil}] \cup {DiskNoStore}
      OBVIOUS
    <2> QED
      BY <2>1
  <1>3. \A n \in DiskName, k \in DiskKey : bs[n] # DiskNoStore => bs[n][k] # Hidden
    <2> SUFFICES ASSUME NEW n \in DiskName, NEW k \in DiskKey, bs[n] # DiskNoStore
                 PROVE  bs[n][k] # Hidden
      OBVIOUS
    <2>1. bs[n] \in [DiskKey -> DiskVal \cup {DiskNil}]
      OBVIOUS
    <2> QED
      BY <2>1 DEF bolt!BoltAssumptions
  <1>4. bolt!Content' = bs
    <2>1. ASSUME NEW n \in DiskName, bs[n] # DiskNoStore
          PROVE  [k \in DiskKey |-> bolt!Get(bs[n], k)] = bs[n]
      <3>1. bs[n] \in [DiskKey -> DiskVal \cup {DiskNil}]
        BY <2>1
      <3> QED
        BY <1>3, <2>1, <3>1 DEF bolt!Get
    <2>2. bolt!Content' = [n \in DiskName |->
             IF bs[n] = DiskNoStore THEN DiskNoStore ELSE [k \in DiskKey |-> bolt!Get(bs[n], k)]]
      BY <1>1 DEF bolt!Content
    <2> QED
      BY <2>1, <2>2
  <1>5. bolt!TypeOK'
    <2>1. boltOps' \in 0 .. DiskOps
      BY <1>1 DEF bolt!BoltAssumptions
    <2> QED
      BY Zenon, <1>1, <1>2, <2>1 DEF bolt!TypeOK
  <1> QED
    BY <1>1, <1>3, <1>4, <1>5 DEF BoltIInv

(* Every step keeps the invariant and is a step of the abstract engine.     *)
LEMMA BoltStep ==
    ASSUME bolt!BoltAssumptions, BoltIInv, [bolt!Next]_bolt!vars
    PROVE  BoltIInv' /\ [bolt!engine!SpecNext]_bolt!engine!specVars
  <1>1. CASE bolt!Begin \/ bolt!CtxDone \/ UNCHANGED bolt!vars
    BY <1>1, BoltBeginStep DEF bolt!engine!SpecNext
  <1>2. CASE bolt!Commit
    <2>1. bolt!End(bolt!Content)
      BY <1>2, BoltCleanedIsContent DEF bolt!Commit
    <2>2. BoltIInv' /\ bolt!Content' = bolt!Content /\ boltSaved' = bolt!Content /\ boltOpen /\ boltOpen' = FALSE
      BY Zenon, <2>1, BoltContentType, BoltEndStep DEF BoltIInv
    <2> QED
      BY <2>2 DEF bolt!engine!SpecNext, bolt!engine!SpecCommit
  <1>3. CASE bolt!Rollback
    <2>1. BoltIInv' /\ bolt!Content' = boltSaved /\ boltSaved' = boltSaved /\ boltOpen /\ boltOpen' = FALSE
      BY Zenon, <1>3, BoltEndStep DEF BoltIInv, bolt!TypeOK, bolt!Rollback
    <2> QED
      BY <2>1 DEF bolt!engine!SpecNext, bolt!engine!SpecRollback
  <1>4. CASE \E n \in DiskName :
          \/ bolt!CreateStore(n) \/ bolt!DropStore(n) \/ bolt!Truncate(n)
          \/ \E k \in DiskKey : bolt!Delete(n, k) \/ \E v \in DiskVal : bolt!Put(n, k, v)
    BY <1>4, BoltWriteStep DEF bolt!engine!SpecNext
  <1> QED
    BY <1>1, <1>2, <1>3, <1>4 DEF bolt!Next

(* No store exists at first.                                                *)
LEMMA BoltInitStep ==
    ASSUME bolt!BoltAssumptions, bolt!Init
    PROVE  BoltIInv /\ bolt!engine!SpecInit
  <1>1. bolt!Content = [n \in DiskName |-> DiskNoStore] /\ boltBuckets = [n \in DiskName |-> DiskNoStore]
    BY DEF bolt!Init, bolt!Content
  <1>2. bolt!TypeOK
    <2>1. boltOps \in 0 .. DiskOps
      BY DEF bolt!Init, bolt!BoltAssumptions
    <2> QED
      BY Zenon, <2>1 DEF bolt!Init, bolt!TypeOK
  <1> QED
    BY <1>1, <1>2 DEF bolt!Init, BoltIInv, bolt!engine!SpecInit

-----------------------------------------------------------------------------
(* The inductive invariant of the bolt engine: a key that Store.Delete hid  *)
(* is in the bin that Commit empties.                                       *)
THEOREM BoltInvariance ==
    ASSUME bolt!BoltAssumptions
    PROVE  bolt!Spec => []BoltIInv
  <1>1. bolt!Init => BoltIInv
    BY BoltInitStep
  <1>2. BoltIInv /\ [bolt!Next]_bolt!vars => BoltIInv'
    BY BoltStep
  <1> QED
    BY <1>1, <1>2, PTL DEF bolt!Spec

(* The hidden keys and the bin of boltengine do what engine.go promises of  *)
(* a transaction: Commit keeps exactly what the transaction reads, Rollback *)
(* gives back what was committed, and an operation on one store or key is   *)
(* not seen in another.                                                     *)
THEOREM BoltImplementsEngine ==
    ASSUME bolt!BoltAssumptions
    PROVE  bolt!Spec => bolt!ImplementsEngine
  <1>1. bolt!Init => bolt!engine!SpecInit
    BY BoltInitStep
  <1>2. BoltIInv /\ [bolt!Next]_bolt!vars => [bolt!engine!SpecNext]_bolt!engine!specVars
    BY BoltStep
  <1> QED
    BY BoltInvariance, <1>1, <1>2, PTL DEF bolt!Spec, bolt!ImplementsEngine, bolt!engine!EngineSpecification

-----------------------------------------------------------------------------
BadgerPairKey(n, k) == badger!buildKey(badger!buildStorePrefixKey(n), k)

BadgerExists(pairs, n) == \E p \in pairs : p.k = badger!buildStoreKey(n)

(* Each key of a set of pairs is there once, and is a store's own or in a   *)
(* store that exists.                                                       *)
BadgerWellFormed(pairs) ==
    /\ pairs \subseteq [k : Seq(Nat), v : DiskVal \cup {NoValue}]
    /\ \A p, q \in pairs : p.k = q.k => p = q
    /\ \A p \in pairs : \E n \in DiskName :
          /\ BadgerExists(pairs, n)
          /\ \/ p = [k |-> badger!buildStoreKey(n), v |-> NoValue]
             \/ p.v \in DiskVal /\ \E k \in DiskKey : p.k = BadgerPairKey(n, k)

BadgerIInv ==
    /\ BadgerWellFormed(badgerKv)
    /\ BadgerWellFormed(badgerBase)
    /\ {badgerOpen, badgerDone} \subseteq BOOLEAN
    /\ badgerOps \in 0 .. DiskOps
    /\ ~badgerOpen => badgerKv = badgerBase

-----------------------------------------------------------------------------
(* A name that agrees with another as far as both go is that name.          *)
LEMMA BadgerNamesApart ==
    ASSUME badger!BadgerAssumptions, NEW m \in DiskName, NEW n \in DiskName,
           \A j \in 1 .. Len(m) : j <= Len(n) => m[j] = n[j]
    PROVE  m = n
  <1>1. m \in Seq(Nat) /\ n \in Seq(Nat) /\ Len(m) \in Nat /\ Len(n) \in Nat
    BY DEF badger!BadgerAssumptions
  <1>2. CASE Len(n) <= Len(m)
    <2>1. \A j \in 1 .. Len(n) : m[j] = n[j]
      BY <1>1, <1>2
    <2> QED
      BY <1>2, <2>1 DEF badger!HasPrefix, badger!BadgerAssumptions
  <1>3. CASE Len(m) <= Len(n)
    <2>1. \A j \in 1 .. Len(m) : n[j] = m[j]
      BY <1>1, <1>3
    <2> QED
      BY <1>3, <2>1 DEF badger!HasPrefix, badger!BadgerAssumptions
  <1> QED
    BY <1>1, <1>2, <1>3

(* What append does with the bytes of a key.                                *)
LEMMA BytesAppend ==
    ASSUME NEW s \in Seq(Nat), NEW t \in Seq(Nat)
    PROVE  Len(s \o t) = Len(s) + Len(t) /\ s \o t \in Seq(Nat)
  <1>1. Len(s \o t) = Len(s) + Len(t)
    OBVIOUS
  <1>2. s \o t \in Seq(Nat)
    OBVIOUS
  <1> QED
    BY <1>1, <1>2

(* append leaves the bytes that are there.                                  *)
LEMMA BytesStay ==
    ASSUME NEW s \in Seq(Nat), NEW t \in Seq(Nat), NEW j \in 1 .. Len(s)
    PROVE  (s \o t)[j] = s[j]
  OBVIOUS

(* The bytes of what is appended follow those it is appended to.            *)
LEMMA BytesFollow ==
    ASSUME NEW s \in Seq(Nat), NEW t \in Seq(Nat), NEW j \in 1 .. Len(t)
    PROVE  (s \o t)[j + Len(s)] = t[j]
  <1> DEFINE i == j + Len(s)
  <1>1. i \in 1 .. Len(s) + Len(t) /\ i > Len(s) /\ i - Len(s) = j
    OBVIOUS
  <1> HIDE DEF i
  <1>2. (s \o t)[i] = t[i - Len(s)]
    BY <1>1
  <1> QED
    BY <1>1, <1>2 DEF i

(* Keys with the same bytes are the same key (bytes.Equal).                 *)
LEMMA BytesEqual ==
    ASSUME NEW s \in Seq(Nat), NEW t \in Seq(Nat),
           Len(s) = Len(t), \A i \in 1 .. Len(s) : s[i] = t[i]
    PROVE  s = t
  OBVIOUS

(* The bytes of the key of a store.                                         *)
LEMMA BadgerStoreKeyParts ==
    ASSUME badger!BadgerAssumptions, NEW n \in DiskName
    PROVE  /\ badger!buildStoreKey(n) \in Seq(Nat)
           /\ Len(n) \in Nat /\ Len(badger!buildStoreKey(n)) = Len(n) + 2
           /\ badger!buildStoreKey(n)[1] = 95
           /\ \A j \in 1 .. Len(n) : badger!buildStoreKey(n)[j + 2] = n[j]
  <1>1. n \in Seq(Nat)
    BY DEF badger!BadgerAssumptions
  <1> DEFINE q == <<95>> \o <<31>>
  <1>q. q \in Seq(Nat)
    OBVIOUS
  <1>2. Len(q) = 2 /\ q[1] = 95
    OBVIOUS
  <1>3. badger!buildStoreKey(n) = q \o n
    BY DEF badger!buildStoreKey, badger!storeKey, badger!separator
  <1> HIDE DEF q
  <1>4. Len(q \o n) = Len(q) + Len(n) /\ q \o n \in Seq(Nat)
    BY Zenon, <1>1, <1>q, BytesAppend
  <1>5. ASSUME NEW j \in 1 .. Len(n)
        PROVE  (q \o n)[j + 2] = n[j]
    <2>1. (q \o n)[j + Len(q)] = n[j]
      BY Zenon, <1>1, <1>q, BytesFollow
    <2> QED
      BY Zenon, <1>2, <2>1
  <1>6. (q \o n)[1] = 95
    <2>1. 1 \in 1 .. Len(q)
      BY <1>2
    <2>2. \A j \in 1 .. Len(q) : (q \o n)[j] = q[j]
      BY Zenon, <1>1, <1>q, BytesStay
    <2> QED
      BY <1>2, <2>1, <2>2
  <1> QED
    BY <1>1, <1>2, <1>3, <1>4, <1>5, <1>6

(* The bytes of the prefix of a store.                                      *)
LEMMA BadgerPrefixParts ==
    ASSUME badger!BadgerAssumptions, NEW n \in DiskName
    PROVE  /\ badger!buildStorePrefixKey(n) \in Seq(Nat)
           /\ Len(n) \in Nat /\ Len(badger!buildStorePrefixKey(n)) = Len(n) + 2
           /\ badger!buildStorePrefixKey(n)[1] = 115 /\ badger!buildStorePrefixKey(n)[2] = 31
           /\ \A j \in 1 .. Len(n) : badger!buildStorePrefixKey(n)[j + 2] = n[j]
  <1>1. n \in Seq(Nat)
    BY DEF badger!BadgerAssumptions
  <1> QED
    BY <1>1 DEF badger!buildStorePrefixKey, badger!storePrefix, badger!separator

(* The bytes of the key of a pair.                                          *)
LEMMA BadgerPairKeyParts ==
    ASSUME badger!BadgerAssumptions, NEW n \in DiskName, NEW k \in DiskKey
    PROVE  /\ BadgerPairKey(n, k) \in Seq(Nat)
           /\ Len(n) \in Nat /\ Len(k) \in Nat
           /\ Len(BadgerPairKey(n, k)) = Len(n) + Len(k) + 4
           /\ \A j \in 1 .. Len(n) + 2 : BadgerPairKey(n, k)[j] = badger!buildStorePrefixKey(n)[j]
           /\ \A j \in 1 .. Len(k) : BadgerPairKey(n, k)[j + Len(n) + 4] = k[j]
  <1>1. k \in Seq(Nat) /\ Len(k) \in Nat
    BY DEF badger!BadgerAssumptions
  <1> DEFINE p == badger!buildStorePrefixKey(n)
             q == p \o <<31, 0>>
  <1>2. p \in Seq(Nat) /\ Len(n) \in Nat /\ Len(p) = Len(n) + 2
    BY BadgerPrefixParts
  <1> HIDE DEF p
  <1>3. /\ q \in Seq(Nat) /\ Len(q) = Len(n) + 4
        /\ \A j \in 1 .. Len(n) + 2 : q[j] = p[j]
    BY <1>2
  <1> HIDE DEF q
  <1>4. /\ q \o k \in Seq(Nat) /\ Len(q \o k) = Len(n) + Len(k) + 4
        /\ \A j \in 1 .. Len(n) + 2 : (q \o k)[j] = p[j]
    <2>1. Len(q \o k) = Len(q) + Len(k) /\ q \o k \in Seq(Nat)
      BY Zenon, <1>1, <1>3, BytesAppend
    <2>2. \A j \in 1 .. Len(n) + 2 : (q \o k)[j] = q[j]
      <3>1. q \in Seq(Nat) /\ k \in Seq(Nat) /\ \A j \in 1 .. Len(n) + 2 : j \in 1 .. Len(q)
        BY <1>1, <1>2, <1>3
      <3>2. \A j \in 1 .. Len(q) : (q \o k)[j] = q[j]
        BY Zenon, <3>1, BytesStay
      <3> QED
        BY <3>1, <3>2
    <2> QED
      BY <1>1, <1>2, <1>3, <2>1, <2>2
  <1>5. ASSUME NEW j \in 1 .. Len(k)
        PROVE  (q \o k)[j + Len(n) + 4] = k[j]
    <2>1. (q \o k)[j + Len(q)] = k[j]
      BY Zenon, <1>1, <1>3, BytesFollow
    <2>2. j + Len(q) = j + Len(n) + 4
      BY <1>1, <1>2, <1>3
    <2> QED
      BY Zenon, <2>1, <2>2
  <1>6. BadgerPairKey(n, k) = q \o k
    BY DEF BadgerPairKey, badger!buildKey, badger!separator, p, q
  <1> QED
    BY Zenon, <1>1, <1>2, <1>4, <1>5, <1>6 DEF p

(* Keys of stores and of pairs are distinct, and the prefix of a store is   *)
(* only in the keys of its own pairs, although Truncate adds no separator.  *)
LEMMA BadgerKeysApart ==
    ASSUME badger!BadgerAssumptions, NEW m \in DiskName, NEW n \in DiskName
    PROVE  /\ badger!buildStoreKey(m) = badger!buildStoreKey(n) => m = n
           /\ \A j, k \in DiskKey : BadgerPairKey(m, j) = BadgerPairKey(n, k) => m = n /\ j = k
           /\ \A k \in DiskKey : BadgerPairKey(m, k) # badger!buildStoreKey(n)
           /\ \A k \in DiskKey : badger!HasPrefix(BadgerPairKey(m, k), badger!buildStorePrefixKey(n)) <=> m = n
           /\ ~badger!HasPrefix(badger!buildStoreKey(m), badger!buildStorePrefixKey(n))
  <1>1. badger!buildStoreKey(m) = badger!buildStoreKey(n) => m = n
    <2> SUFFICES ASSUME badger!buildStoreKey(m) = badger!buildStoreKey(n)
                 PROVE  m = n
      OBVIOUS
    <2>1. Len(m) \in Nat /\ Len(n) \in Nat
          /\ (\A j \in 1 .. Len(m) : badger!buildStoreKey(m)[j + 2] = m[j])
          /\ (\A j \in 1 .. Len(n) : badger!buildStoreKey(n)[j + 2] = n[j])
      BY BadgerStoreKeyParts
    <2>2. \A j \in 1 .. Len(m) : j <= Len(n) => m[j] = n[j]
      BY <2>1
    <2> QED
      BY <2>2, BadgerNamesApart
  <1>2. ASSUME NEW k \in DiskKey,
               \A j \in 1 .. Len(n) + 2 :
                  j <= Len(BadgerPairKey(m, k)) => BadgerPairKey(m, k)[j] = badger!buildStorePrefixKey(n)[j]
        PROVE  m = n
    <2>1. \A j \in 1 .. Len(n) : j <= Len(m) => n[j] = m[j]
      <3> SUFFICES ASSUME NEW j \in 1 .. Len(n), j <= Len(m)
                   PROVE  n[j] = m[j]
        OBVIOUS
      <3>1. Len(n) \in Nat /\ Len(m) \in Nat /\ Len(k) \in Nat
            /\ Len(BadgerPairKey(m, k)) = Len(m) + Len(k) + 4
        BY BadgerPrefixParts, BadgerPairKeyParts
      <3>2. j + 2 \in 1 .. Len(n) + 2 /\ j + 2 <= Len(BadgerPairKey(m, k))
            /\ j + 2 \in 1 .. Len(m) + 2 /\ j \in 1 .. Len(m)
        BY <3>1
      <3>3. badger!buildStorePrefixKey(m)[j + 2] = badger!buildStorePrefixKey(n)[j + 2]
        BY Zenon, <1>2, <3>2, BadgerPairKeyParts
      <3> QED
        BY <3>2, <3>3, BadgerPrefixParts
    <2> QED
      BY <2>1, BadgerNamesApart
  <1>3. ASSUME NEW j \in DiskKey, NEW k \in DiskKey, BadgerPairKey(m, j) = BadgerPairKey(n, k)
        PROVE  m = n /\ j = k
    <2>1. m = n
      <3>1. \A i \in 1 .. Len(n) + 2 : BadgerPairKey(n, k)[i] = badger!buildStorePrefixKey(n)[i]
        BY Zenon, BadgerPairKeyParts
      <3>2. \A i \in 1 .. Len(n) + 2 : BadgerPairKey(m, j)[i] = badger!buildStorePrefixKey(n)[i]
        BY <1>3, <3>1
      <3> QED
        BY <1>2, <3>2
    <2>2. j \in Seq(Nat) /\ k \in Seq(Nat)
      BY DEF badger!BadgerAssumptions
    <2>3. Len(j) = Len(k) /\ Len(j) \in Nat /\ Len(m) \in Nat
      BY <1>3, <2>1, BadgerPairKeyParts
    <2>4. \A i \in 1 .. Len(j) : j[i] = k[i]
      <3>1. \A i \in 1 .. Len(j) : BadgerPairKey(n, j)[i + Len(n) + 4] = j[i]
        BY BadgerPairKeyParts
      <3>2. \A i \in 1 .. Len(k) : BadgerPairKey(n, k)[i + Len(n) + 4] = k[i]
        BY BadgerPairKeyParts
      <3> QED
        BY <1>3, <2>1, <2>3, <3>1, <3>2
    <2>5. j = k
      BY Zenon, <2>2, <2>3, <2>4, BytesEqual
    <2> QED
      BY <2>1, <2>5
  <1>4. ASSUME NEW k \in DiskKey
        PROVE  BadgerPairKey(m, k) # badger!buildStoreKey(n)
    <2>1. BadgerPairKey(m, k)[1] = 115
      <3>1. 1 \in 1 .. Len(m) + 2 /\ badger!buildStorePrefixKey(m)[1] = 115
        BY BadgerPrefixParts
      <3>2. \A j \in 1 .. Len(m) + 2 : BadgerPairKey(m, k)[j] = badger!buildStorePrefixKey(m)[j]
        BY BadgerPairKeyParts
      <3> QED
        BY <3>1, <3>2
    <2> QED
      BY <2>1, BadgerStoreKeyParts
  <1>5. ASSUME NEW k \in DiskKey
        PROVE  badger!HasPrefix(BadgerPairKey(m, k), badger!buildStorePrefixKey(n)) <=> m = n
    <2> DEFINE p == badger!buildStorePrefixKey(n)
               q == BadgerPairKey(m, k)
    <2>1. p \in Seq(Nat) /\ q \in Seq(Nat) /\ Len(p) = Len(n) + 2 /\ Len(n) \in Nat
          /\ Len(q) = Len(m) + Len(k) + 4 /\ Len(m) \in Nat /\ Len(k) \in Nat
      BY BadgerPrefixParts, BadgerPairKeyParts
    <2> HIDE DEF p, q
    <2>2. ASSUME badger!HasPrefix(q, p)
          PROVE  m = n
      <3>1. \A j \in 1 .. Len(n) + 2 : q[j] = p[j]
        BY <2>1, <2>2 DEF badger!HasPrefix
      <3> QED
        BY <1>2, <3>1 DEF p, q
    <2>3. ASSUME m = n
          PROVE  badger!HasPrefix(q, p)
      <3>1. \A j \in 1 .. Len(p) : q[j] = p[j]
        <4>1. \A j \in 1 .. Len(m) + 2 : BadgerPairKey(m, k)[j] = badger!buildStorePrefixKey(m)[j]
          BY Zenon, BadgerPairKeyParts
        <4> QED
          BY Zenon, <2>1, <2>3, <4>1 DEF p, q
      <3> QED
        BY <2>1, <2>3, <3>1 DEF badger!HasPrefix
    <2> QED
      BY <2>2, <2>3 DEF p, q
  <1>6. ~badger!HasPrefix(badger!buildStoreKey(m), badger!buildStorePrefixKey(n))
    <2> DEFINE p == badger!buildStorePrefixKey(n)
               q == badger!buildStoreKey(m)
    <2>1. p \in Seq(Nat) /\ q \in Seq(Nat) /\ Len(p) \in Nat /\ 1 <= Len(p)
          /\ p[1] = 115 /\ q[1] = 95
      BY BadgerPrefixParts, BadgerStoreKeyParts
    <2> HIDE DEF p, q
    <2>2. badger!HasPrefix(q, p) => q[1] = p[1]
      BY <2>1 DEF badger!HasPrefix
    <2> QED
      BY <2>1, <2>2 DEF p, q
  <1> QED
    BY <1>1, <1>3, <1>4, <1>5, <1>6
-----------------------------------------------------------------------------
(* What a store reads: the value of the one pair under a key.               *)
LEMMA BadgerContentReads ==
    ASSUME badger!BadgerAssumptions, NEW pairs, BadgerWellFormed(pairs), NEW n \in DiskName
    PROVE  /\ badger!ContentOf(pairs)[n] = DiskNoStore <=> ~BadgerExists(pairs, n)
           /\ BadgerExists(pairs, n) =>
                 /\ badger!ContentOf(pairs)[n] \in [DiskKey -> DiskVal \cup {DiskNil}]
                 /\ \A k \in DiskKey :
                       /\ \A p \in pairs : p.k = BadgerPairKey(n, k) =>
                             badger!ContentOf(pairs)[n][k] = p.v /\ p.v \in DiskVal
                       /\ (~ \E p \in pairs : p.k = BadgerPairKey(n, k))
                             => badger!ContentOf(pairs)[n][k] = DiskNil
  <1> DEFINE found(k) == {p \in pairs : p.k = BadgerPairKey(n, k)}
             read(k)  == IF found(k) = {} THEN DiskNil ELSE (CHOOSE p \in found(k) : TRUE).v
             c        == [k \in DiskKey |-> read(k)]
  <1>1. badger!ContentOf(pairs)[n] = IF BadgerExists(pairs, n) THEN c ELSE DiskNoStore
    BY DEF badger!ContentOf, BadgerExists, BadgerPairKey
  <1>2. ASSUME NEW k \in DiskKey, NEW p \in pairs, p.k = BadgerPairKey(n, k)
        PROVE  read(k) = p.v /\ p.v \in DiskVal
    <2>1. found(k) = {p}
      BY <1>2 DEF BadgerWellFormed
    <2>2. (CHOOSE q \in found(k) : TRUE) = p
      BY <2>1
    <2>3. p.v \in DiskVal
      <3>1. PICK m \in DiskName : \/ p = [k |-> badger!buildStoreKey(m), v |-> NoValue]
                              \/ p.v \in DiskVal
        BY DEF BadgerWellFormed
      <3>2. p # [k |-> badger!buildStoreKey(m), v |-> NoValue]
        BY <1>2, BadgerKeysApart
      <3> QED
        BY <3>1, <3>2
    <2> QED
      BY <2>1, <2>2, <2>3
  <1>3. ASSUME NEW k \in DiskKey, ~ \E p \in pairs : p.k = BadgerPairKey(n, k)
        PROVE  read(k) = DiskNil
    BY <1>3
  <1>4. \A k \in DiskKey : read(k) \in DiskVal \cup {DiskNil}
    <2> SUFFICES ASSUME NEW k \in DiskKey
                 PROVE  read(k) \in DiskVal \cup {DiskNil}
      OBVIOUS
    <2> HIDE DEF read
    <2> QED
      BY <1>2, <1>3
  <1> HIDE DEF read
  <1>5. c \in [DiskKey -> DiskVal \cup {DiskNil}] /\ c # DiskNoStore
    BY <1>4 DEF badger!BadgerAssumptions
  <1>6. \A k \in DiskKey : c[k] = read(k)
    OBVIOUS
  <1> HIDE DEF c
  <1> QED
    BY <1>1, <1>2, <1>3, <1>5, <1>6

(* No store exists and no pair is there at first.                           *)
LEMMA BadgerEmptyContent ==
    BadgerWellFormed({}) /\ badger!ContentOf({}) = [n \in DiskName |-> DiskNoStore]
  BY DEF BadgerWellFormed, badger!ContentOf

(* Two sets of pairs in which a store has the same key and pairs have the   *)
(* same content of it.                                                      *)
LEMMA BadgerSameStore ==
    ASSUME NEW a, NEW b, NEW n \in DiskName,
           BadgerExists(a, n) <=> BadgerExists(b, n),
           \A k \in DiskKey : {p \in a : p.k = BadgerPairKey(n, k)} = {p \in b : p.k = BadgerPairKey(n, k)}
    PROVE  badger!ContentOf(a)[n] = badger!ContentOf(b)[n]
  <1> DEFINE found(pairs, k) == {p \in pairs : p.k = BadgerPairKey(n, k)}
             read(pairs, k)  == IF found(pairs, k) = {} THEN DiskNil
                                ELSE (CHOOSE p \in found(pairs, k) : TRUE).v
  <1>1. \A pairs : badger!ContentOf(pairs)[n] =
           IF BadgerExists(pairs, n) THEN [k \in DiskKey |-> read(pairs, k)] ELSE DiskNoStore
    BY DEF badger!ContentOf, BadgerExists, BadgerPairKey
  <1>2. ASSUME NEW k \in DiskKey
        PROVE  read(a, k) = read(b, k)
    <2>1. found(a, k) = found(b, k)
      OBVIOUS
    <2> HIDE DEF found
    <2> QED
      BY <2>1
  <1> HIDE DEF read
  <1> QED
    BY Zenon, <1>1, <1>2

(* CreateStore makes an empty store: no pair of an earlier store of that    *)
(* name is left.                                                            *)
LEMMA BadgerCreateStoreStep ==
    ASSUME badger!BadgerAssumptions, BadgerWellFormed(badgerKv), NEW n \in DiskName, ~badger!StoreExists(n)
    PROVE  LET new == badger!Set(badger!buildStoreKey(n), NoValue)
           IN  /\ BadgerWellFormed(new)
               /\ badger!ContentOf(new) = [badger!ContentOf(badgerKv) EXCEPT ![n] = [k \in DiskKey |-> DiskNil]]
  <1> DEFINE x   == [k |-> badger!buildStoreKey(n), v |-> NoValue]
             new == badger!Set(badger!buildStoreKey(n), NoValue)
  <1>1. x.k = badger!buildStoreKey(n) /\ x.v = NoValue
        /\ x \in [k : Seq(Nat), v : DiskVal \cup {NoValue}]
    BY BadgerStoreKeyParts
  <1>2. new = badgerKv \cup {x} /\ \A p \in badgerKv : p.k # badger!buildStoreKey(n)
    BY DEF badger!Set, badger!StoreExists, badger!Has
  <1> HIDE DEF x, new
  <1>3. \A m \in DiskName : BadgerExists(new, m) <=> BadgerExists(badgerKv, m) \/ m = n
    BY Zenon, <1>1, <1>2, BadgerKeysApart DEF BadgerExists
  <1>4. BadgerWellFormed(new)
    <2>1. new \subseteq [k : Seq(Nat), v : DiskVal \cup {NoValue}]
      BY <1>1, <1>2 DEF BadgerWellFormed
    <2>2. \A p, q \in new : p.k = q.k => p = q
      BY <1>1, <1>2 DEF BadgerWellFormed
    <2>3. ASSUME NEW p \in new
          PROVE  \E m \in DiskName : /\ BadgerExists(new, m)
                                 /\ \/ p = [k |-> badger!buildStoreKey(m), v |-> NoValue]
                                    \/ p.v \in DiskVal /\ \E k \in DiskKey : p.k = BadgerPairKey(m, k)
      <3>1. CASE p = x
        BY <1>3, <3>1 DEF x
      <3>2. CASE p \in badgerKv
        BY <1>3, <3>2 DEF BadgerWellFormed
      <3> QED
        BY <1>2, <3>1, <3>2
    <2> QED
      BY <2>1, <2>2, <2>3 DEF BadgerWellFormed
  <1>5. ASSUME NEW m \in DiskName, m # n
        PROVE  badger!ContentOf(new)[m] = badger!ContentOf(badgerKv)[m]
    <2>1. \A k \in DiskKey : {p \in new : p.k = BadgerPairKey(m, k)} = {p \in badgerKv : p.k = BadgerPairKey(m, k)}
      BY <1>1, <1>2, BadgerKeysApart
    <2> QED
      BY <1>3, <1>5, <2>1, BadgerSameStore
  <1>6. ASSUME NEW k \in DiskKey
        PROVE  ~ \E p \in new : p.k = BadgerPairKey(n, k)
    <2>1. x.k # BadgerPairKey(n, k)
      BY <1>1, BadgerKeysApart
    <2>2. ASSUME NEW p \in badgerKv, p.k = BadgerPairKey(n, k)
          PROVE  FALSE
      <3>1. PICK m \in DiskName : /\ BadgerExists(badgerKv, m)
                              /\ \/ p = [k |-> badger!buildStoreKey(m), v |-> NoValue]
                                 \/ p.v \in DiskVal /\ \E j \in DiskKey : p.k = BadgerPairKey(m, j)
        BY <2>2 DEF BadgerWellFormed
      <3>2. p # [k |-> badger!buildStoreKey(m), v |-> NoValue]
        BY <2>2, BadgerKeysApart
      <3>3. m = n
        BY <2>2, <3>1, <3>2, BadgerKeysApart
      <3> QED
        BY <1>2, <3>1, <3>3 DEF BadgerExists
    <2> QED
      BY <1>2, <2>1, <2>2
  <1>7. badger!ContentOf(new)[n] = [k \in DiskKey |-> DiskNil]
    <2>1. BadgerExists(new, n)
      BY <1>3
    <2>2. /\ badger!ContentOf(new)[n] \in [DiskKey -> DiskVal \cup {DiskNil}]
          /\ \A k \in DiskKey : badger!ContentOf(new)[n][k] = DiskNil
      BY <1>4, <1>6, <2>1, BadgerContentReads
    <2> QED
      BY <2>2
  <1>8. badger!ContentOf(new) = [badger!ContentOf(badgerKv) EXCEPT ![n] = [k \in DiskKey |-> DiskNil]]
    <2>1. /\ badger!ContentOf(new) = [m \in DiskName |-> badger!ContentOf(new)[m]]
          /\ badger!ContentOf(badgerKv) = [m \in DiskName |-> badger!ContentOf(badgerKv)[m]]
      BY DEF badger!ContentOf
    <2> QED
      BY Zenon, <1>5, <1>7, <2>1
  <1> QED
    BY <1>4, <1>8 DEF new

(* Truncate and DropStore delete the pairs of the store, and of no other.   *)
LEMMA BadgerTruncatedPairs ==
    ASSUME badger!BadgerAssumptions, BadgerWellFormed(badgerKv), NEW n \in DiskName
    PROVE  /\ \A p \in badger!Truncated(n) : p \in badgerKv
           /\ \A p \in badgerKv : \A m \in DiskName :
                 /\ p.k = badger!buildStoreKey(m) => p \in badger!Truncated(n)
                 /\ \A k \in DiskKey : p.k = BadgerPairKey(m, k) => (p \in badger!Truncated(n) <=> m # n)
  BY BadgerKeysApart DEF badger!Truncated

(* Truncate leaves an empty store.                                          *)
LEMMA BadgerTruncateStep ==
    ASSUME badger!BadgerAssumptions, BadgerWellFormed(badgerKv), NEW n \in DiskName, badger!StoreExists(n)
    PROVE  /\ BadgerWellFormed(badger!Truncated(n))
           /\ badger!ContentOf(badger!Truncated(n)) = [badger!ContentOf(badgerKv) EXCEPT ![n] = [k \in DiskKey |-> DiskNil]]
  <1> DEFINE new == badger!Truncated(n)
  <1>1. /\ \A p \in new : p \in badgerKv
        /\ \A p \in badgerKv : \A m \in DiskName :
              /\ p.k = badger!buildStoreKey(m) => p \in new
              /\ \A k \in DiskKey : p.k = BadgerPairKey(m, k) => (p \in new <=> m # n)
    BY BadgerTruncatedPairs
  <1> HIDE DEF new
  <1>2. \A m \in DiskName : BadgerExists(new, m) <=> BadgerExists(badgerKv, m)
    BY <1>1 DEF BadgerExists
  <1>3. BadgerWellFormed(new)
    BY <1>1, <1>2 DEF BadgerWellFormed
  <1>4. ASSUME NEW m \in DiskName, m # n
        PROVE  badger!ContentOf(new)[m] = badger!ContentOf(badgerKv)[m]
    <2>1. \A k \in DiskKey : {p \in new : p.k = BadgerPairKey(m, k)} = {p \in badgerKv : p.k = BadgerPairKey(m, k)}
      BY <1>1, <1>4
    <2> QED
      BY <1>2, <2>1, BadgerSameStore
  <1>5. badger!ContentOf(new)[n] = [k \in DiskKey |-> DiskNil]
    <2>1. BadgerExists(new, n) /\ \A k \in DiskKey : ~ \E p \in new : p.k = BadgerPairKey(n, k)
      BY <1>1, <1>2 DEF badger!StoreExists, badger!Has, BadgerExists
    <2>2. /\ badger!ContentOf(new)[n] \in [DiskKey -> DiskVal \cup {DiskNil}]
          /\ \A k \in DiskKey : badger!ContentOf(new)[n][k] = DiskNil
      BY <1>3, <2>1, BadgerContentReads
    <2> QED
      BY <2>2
  <1>6. badger!ContentOf(new) = [badger!ContentOf(badgerKv) EXCEPT ![n] = [k \in DiskKey |-> DiskNil]]
    <2>1. /\ badger!ContentOf(new) = [m \in DiskName |-> badger!ContentOf(new)[m]]
          /\ badger!ContentOf(badgerKv) = [m \in DiskName |-> badger!ContentOf(badgerKv)[m]]
      BY DEF badger!ContentOf
    <2> QED
      BY Zenon, <1>4, <1>5, <2>1
  <1> QED
    BY <1>3, <1>6 DEF new

(* DropStore leaves nothing of the store.                                   *)
LEMMA BadgerDropStoreStep ==
    ASSUME badger!BadgerAssumptions, BadgerWellFormed(badgerKv), NEW n \in DiskName, badger!StoreExists(n)
    PROVE  LET new == {p \in badger!Truncated(n) : p.k # badger!buildStoreKey(n)}
           IN  /\ BadgerWellFormed(new)
               /\ badger!ContentOf(new) = [badger!ContentOf(badgerKv) EXCEPT ![n] = DiskNoStore]
  <1> DEFINE new == {p \in badger!Truncated(n) : p.k # badger!buildStoreKey(n)}
  <1>1. /\ \A p \in new : p \in badgerKv /\ p.k # badger!buildStoreKey(n)
        /\ \A p \in badgerKv : \A m \in DiskName :
              /\ p.k = badger!buildStoreKey(m) => (p \in new <=> m # n)
              /\ \A k \in DiskKey : p.k = BadgerPairKey(m, k) => (p \in new <=> m # n)
    BY BadgerTruncatedPairs, BadgerKeysApart
  <1> HIDE DEF new
  <1>2. \A m \in DiskName : BadgerExists(new, m) <=> BadgerExists(badgerKv, m) /\ m # n
    BY <1>1 DEF BadgerExists
  <1>3. BadgerWellFormed(new)
    <2>1. /\ new \subseteq [k : Seq(Nat), v : DiskVal \cup {NoValue}]
          /\ \A p, q \in new : p.k = q.k => p = q
      BY <1>1 DEF BadgerWellFormed
    <2>2. ASSUME NEW p \in new
          PROVE  \E m \in DiskName : /\ BadgerExists(new, m)
                                 /\ \/ p = [k |-> badger!buildStoreKey(m), v |-> NoValue]
                                    \/ p.v \in DiskVal /\ \E k \in DiskKey : p.k = BadgerPairKey(m, k)
      <3>1. PICK m \in DiskName : /\ BadgerExists(badgerKv, m)
                              /\ \/ p = [k |-> badger!buildStoreKey(m), v |-> NoValue]
                                 \/ p.v \in DiskVal /\ \E k \in DiskKey : p.k = BadgerPairKey(m, k)
        BY <1>1 DEF BadgerWellFormed
      <3>2. m # n
        BY <1>1, <3>1
      <3> QED
        BY <1>2, <3>1, <3>2
    <2> QED
      BY <2>1, <2>2 DEF BadgerWellFormed
  <1>4. ASSUME NEW m \in DiskName, m # n
        PROVE  badger!ContentOf(new)[m] = badger!ContentOf(badgerKv)[m]
    <2>1. \A k \in DiskKey : {p \in new : p.k = BadgerPairKey(m, k)} = {p \in badgerKv : p.k = BadgerPairKey(m, k)}
      BY <1>1, <1>4
    <2> QED
      BY <1>2, <1>4, <2>1, BadgerSameStore
  <1>5. badger!ContentOf(new)[n] = DiskNoStore
    BY <1>2, <1>3, BadgerContentReads
  <1>6. badger!ContentOf(new) = [badger!ContentOf(badgerKv) EXCEPT ![n] = DiskNoStore]
    <2>1. /\ badger!ContentOf(new) = [m \in DiskName |-> badger!ContentOf(new)[m]]
          /\ badger!ContentOf(badgerKv) = [m \in DiskName |-> badger!ContentOf(badgerKv)[m]]
      BY DEF badger!ContentOf
    <2> QED
      BY Zenon, <1>4, <1>5, <2>1
  <1> QED
    BY <1>3, <1>6 DEF new

(* Put and Delete change one pair of one store.                             *)
LEMMA BadgerPutStep ==
    ASSUME badger!BadgerAssumptions, BadgerWellFormed(badgerKv), NEW n \in DiskName, NEW k \in DiskKey, NEW v \in DiskVal,
           badger!StoreExists(n)
    PROVE  LET new == badger!Set(BadgerPairKey(n, k), v)
           IN  /\ BadgerWellFormed(new)
               /\ badger!ContentOf(new) = [badger!ContentOf(badgerKv) EXCEPT ![n] = [badger!ContentOf(badgerKv)[n] EXCEPT ![k] = v]]
  <1> DEFINE x   == [k |-> BadgerPairKey(n, k), v |-> v]
             new == badger!Set(BadgerPairKey(n, k), v)
  <1>1. x.k = BadgerPairKey(n, k) /\ x.v = v
        /\ x \in [k : Seq(Nat), v : DiskVal \cup {NoValue}]
    BY BadgerPairKeyParts
  <1>2. new = {p \in badgerKv : p.k # BadgerPairKey(n, k)} \cup {x}
    BY DEF badger!Set
  <1> HIDE DEF x, new
  <1>3. \A m \in DiskName : BadgerExists(new, m) <=> BadgerExists(badgerKv, m)
    BY Zenon, <1>1, <1>2, BadgerKeysApart DEF BadgerExists
  <1>4. BadgerExists(badgerKv, n)
    BY DEF badger!StoreExists, badger!Has, BadgerExists
  <1>5. BadgerWellFormed(new)
    <2>1. new \subseteq [k : Seq(Nat), v : DiskVal \cup {NoValue}]
      BY <1>1, <1>2 DEF BadgerWellFormed
    <2>2. \A p, q \in new : p.k = q.k => p = q
      BY <1>1, <1>2 DEF BadgerWellFormed
    <2>3. ASSUME NEW p \in new
          PROVE  \E m \in DiskName : /\ BadgerExists(new, m)
                                 /\ \/ p = [k |-> badger!buildStoreKey(m), v |-> NoValue]
                                    \/ p.v \in DiskVal /\ \E j \in DiskKey : p.k = BadgerPairKey(m, j)
      <3>1. CASE p = x
        BY <1>1, <1>3, <1>4, <3>1
      <3>2. CASE p \in badgerKv
        BY <1>3, <3>2 DEF BadgerWellFormed
      <3> QED
        BY <1>2, <3>1, <3>2
    <2> QED
      BY <2>1, <2>2, <2>3 DEF BadgerWellFormed
  <1>6. ASSUME NEW m \in DiskName, m # n
        PROVE  badger!ContentOf(new)[m] = badger!ContentOf(badgerKv)[m]
    <2>1. \A j \in DiskKey : {p \in new : p.k = BadgerPairKey(m, j)} = {p \in badgerKv : p.k = BadgerPairKey(m, j)}
      BY Zenon, <1>1, <1>2, <1>6, BadgerKeysApart
    <2> QED
      BY <1>3, <2>1, BadgerSameStore
  <1>7. badger!ContentOf(new)[n] = [badger!ContentOf(badgerKv)[n] EXCEPT ![k] = v]
    <2>1. /\ badger!ContentOf(new)[n] \in [DiskKey -> DiskVal \cup {DiskNil}]
          /\ badger!ContentOf(badgerKv)[n] \in [DiskKey -> DiskVal \cup {DiskNil}]
      BY Zenon, <1>3, <1>4, <1>5, BadgerContentReads
    <2>2. badger!ContentOf(new)[n][k] = v
      BY <1>1, <1>2, <1>3, <1>4, <1>5, BadgerContentReads
    <2>3. ASSUME NEW j \in DiskKey, j # k
          PROVE  badger!ContentOf(new)[n][j] = badger!ContentOf(badgerKv)[n][j]
      <3>1. \A p : p \in new /\ p.k = BadgerPairKey(n, j) <=> p \in badgerKv /\ p.k = BadgerPairKey(n, j)
        BY <1>1, <1>2, <2>3, BadgerKeysApart
      <3>2. CASE \E p \in badgerKv : p.k = BadgerPairKey(n, j)
        BY <1>3, <1>4, <1>5, <3>1, <3>2, BadgerContentReads
      <3>3. CASE ~ \E p \in badgerKv : p.k = BadgerPairKey(n, j)
        BY <1>3, <1>4, <1>5, <3>1, <3>3, BadgerContentReads
      <3> QED
        BY <3>2, <3>3
    <2> QED
      BY <2>1, <2>2, <2>3
  <1>8. badger!ContentOf(new) = [badger!ContentOf(badgerKv) EXCEPT ![n] = [badger!ContentOf(badgerKv)[n] EXCEPT ![k] = v]]
    <2>1. /\ badger!ContentOf(new) = [m \in DiskName |-> badger!ContentOf(new)[m]]
          /\ badger!ContentOf(badgerKv) = [m \in DiskName |-> badger!ContentOf(badgerKv)[m]]
      BY DEF badger!ContentOf
    <2> QED
      BY Zenon, <1>6, <1>7, <2>1
  <1> QED
    BY <1>5, <1>8 DEF new

(* Store.Delete of badger removes one pair, and the store then has no value *)
(* under that key; other keys and stores keep theirs.                       *)
LEMMA BadgerDeleteStep ==
    ASSUME badger!BadgerAssumptions, BadgerWellFormed(badgerKv), NEW n \in DiskName, NEW k \in DiskKey,
           badger!StoreExists(n), badger!Has(BadgerPairKey(n, k))
    PROVE  LET new == {p \in badgerKv : p.k # BadgerPairKey(n, k)}
           IN  /\ BadgerWellFormed(new)
               /\ badger!ContentOf(badgerKv)[n][k] # DiskNil
               /\ badger!ContentOf(new) = [badger!ContentOf(badgerKv) EXCEPT ![n] = [badger!ContentOf(badgerKv)[n] EXCEPT ![k] = DiskNil]]
  <1> DEFINE new == {p \in badgerKv : p.k # BadgerPairKey(n, k)}
  <1>1. \A p : p \in new <=> p \in badgerKv /\ p.k # BadgerPairKey(n, k)
    OBVIOUS
  <1> HIDE DEF new
  <1>2. \A m \in DiskName : BadgerExists(new, m) <=> BadgerExists(badgerKv, m)
    BY Zenon, <1>1, BadgerKeysApart DEF BadgerExists
  <1>3. BadgerExists(badgerKv, n)
    BY DEF badger!StoreExists, badger!Has, BadgerExists
  <1>4. BadgerWellFormed(new)
    BY <1>1, <1>2 DEF BadgerWellFormed
  <1>5. ASSUME NEW m \in DiskName, m # n
        PROVE  badger!ContentOf(new)[m] = badger!ContentOf(badgerKv)[m]
    <2>1. \A j \in DiskKey : {p \in new : p.k = BadgerPairKey(m, j)} = {p \in badgerKv : p.k = BadgerPairKey(m, j)}
      BY <1>1, <1>5, BadgerKeysApart
    <2> QED
      BY <1>2, <2>1, BadgerSameStore
  <1>6. badger!ContentOf(new)[n] = [badger!ContentOf(badgerKv)[n] EXCEPT ![k] = DiskNil]
    <2>1. /\ badger!ContentOf(new)[n] \in [DiskKey -> DiskVal \cup {DiskNil}]
          /\ badger!ContentOf(badgerKv)[n] \in [DiskKey -> DiskVal \cup {DiskNil}]
      BY <1>2, <1>3, <1>4, BadgerContentReads
    <2>2. badger!ContentOf(new)[n][k] = DiskNil
      BY <1>1, <1>2, <1>3, <1>4, BadgerContentReads
    <2>3. ASSUME NEW j \in DiskKey, j # k
          PROVE  badger!ContentOf(new)[n][j] = badger!ContentOf(badgerKv)[n][j]
      <3>1. \A p : p \in new /\ p.k = BadgerPairKey(n, j) <=> p \in badgerKv /\ p.k = BadgerPairKey(n, j)
        BY <1>1, <2>3, BadgerKeysApart
      <3>2. CASE \E p \in badgerKv : p.k = BadgerPairKey(n, j)
        BY <1>2, <1>3, <1>4, <3>1, <3>2, BadgerContentReads
      <3>3. CASE ~ \E p \in badgerKv : p.k = BadgerPairKey(n, j)
        BY <1>2, <1>3, <1>4, <3>1, <3>3, BadgerContentReads
      <3> QED
        BY <3>2, <3>3
    <2> QED
      BY <2>1, <2>2, <2>3
  <1>7. badger!ContentOf(badgerKv)[n][k] # DiskNil
    <2>1. PICK p \in badgerKv : p.k = BadgerPairKey(n, k)
      BY DEF badger!Has
    <2>2. badger!ContentOf(badgerKv)[n][k] \in DiskVal
      BY <1>3, <2>1, BadgerContentReads
    <2> QED
      BY <2>2 DEF badger!BadgerAssumptions
  <1>8. badger!ContentOf(new) = [badger!ContentOf(badgerKv) EXCEPT ![n] = [badger!ContentOf(badgerKv)[n] EXCEPT ![k] = DiskNil]]
    <2>1. /\ badger!ContentOf(new) = [m \in DiskName |-> badger!ContentOf(new)[m]]
          /\ badger!ContentOf(badgerKv) = [m \in DiskName |-> badger!ContentOf(badgerKv)[m]]
      BY DEF badger!ContentOf
    <2> QED
      BY Zenon, <1>5, <1>6, <2>1
  <1> QED
    BY <1>4, <1>7, <1>8 DEF new

-----------------------------------------------------------------------------
(* Every mutation keeps the key space well formed and is the mutation of    *)
(* the abstract engine.                                                     *)
LEMMA BadgerWriteStep ==
    ASSUME badger!BadgerAssumptions, BadgerIInv, NEW n \in DiskName,
           \/ badger!CreateStore(n) \/ badger!DropStore(n) \/ badger!Truncate(n)
           \/ \E k \in DiskKey : badger!Delete(n, k) \/ \E v \in DiskVal : badger!Put(n, k, v)
    PROVE  BadgerIInv' /\ badger!engine!SpecWrite
  <1>1. BadgerWellFormed(badgerKv) /\ badgerOpen
    BY Zenon DEF BadgerIInv, badger!CreateStore, badger!DropStore, badger!Truncate, badger!Delete, badger!Put, badger!Running
  <1>2. ASSUME NEW pairs, badger!Mutate(pairs), BadgerWellFormed(pairs)
        PROVE  /\ BadgerIInv'
               /\ badger!Content' = badger!ContentOf(pairs)
               /\ badger!ContentOf(badgerBase)' = badger!ContentOf(badgerBase) /\ badgerOpen' = badgerOpen
    <2>1. /\ badgerKv' = pairs /\ badgerBase' = badgerBase /\ badgerOpen' = badgerOpen /\ badgerDone' = badgerDone
          /\ badgerOps < DiskOps /\ badgerOps' = badgerOps + 1
      BY <1>2 DEF badger!Mutate
    <2>2. BadgerWellFormed(badgerKv)'
      BY Zenon, <1>2, <2>1 DEF BadgerWellFormed, BadgerExists
    <2>3. BadgerWellFormed(badgerBase)'
      BY Zenon, <2>1 DEF BadgerIInv, BadgerWellFormed, BadgerExists
    <2>4. badgerOps' \in 0 .. DiskOps
      BY <2>1 DEF BadgerIInv, badger!BadgerAssumptions
    <2>5. badger!Content' = badger!ContentOf(pairs) /\ badger!ContentOf(badgerBase)' = badger!ContentOf(badgerBase)
      BY <2>1 DEF badger!Content, badger!ContentOf
    <2> QED
      BY <1>1, <2>1, <2>2, <2>3, <2>4, <2>5 DEF BadgerIInv
  <1>3. badger!StoreExists(n) <=> badger!Content[n] # DiskNoStore
    BY <1>1, BadgerContentReads DEF badger!Content, badger!StoreExists, badger!Has, BadgerExists
  <1>4. CASE badger!CreateStore(n)
    <2> DEFINE new == badger!Set(badger!buildStoreKey(n), NoValue)
    <2>1. ~badger!StoreExists(n) /\ badger!Mutate(new)
      BY <1>4 DEF badger!CreateStore
    <2>2. BadgerWellFormed(new) /\ badger!ContentOf(new) = [badger!Content EXCEPT ![n] = badger!engine!EmptyStore]
      BY <1>1, <2>1, BadgerCreateStoreStep DEF badger!Content, badger!engine!EmptyStore
    <2> HIDE DEF new
    <2> QED
      BY Zenon, <1>1, <1>2, <1>3, <2>1, <2>2
      DEF badger!engine!SpecWrite, badger!engine!SpecCreateStore, badger!engine!SetStore
  <1>5. CASE badger!DropStore(n)
    <2> DEFINE new == {p \in badger!Truncated(n) : p.k # badger!buildStoreKey(n)}
    <2>1. badger!StoreExists(n) /\ badger!Mutate(new)
      BY <1>5 DEF badger!DropStore
    <2>2. BadgerWellFormed(new) /\ badger!ContentOf(new) = [badger!Content EXCEPT ![n] = DiskNoStore]
      BY <1>1, <2>1, BadgerDropStoreStep DEF badger!Content
    <2> HIDE DEF new
    <2> QED
      BY Zenon, <1>1, <1>2, <1>3, <2>1, <2>2
      DEF badger!engine!SpecWrite, badger!engine!SpecDropStore, badger!engine!SetStore
  <1>6. CASE badger!Truncate(n)
    <2> DEFINE new == badger!Truncated(n)
    <2>1. badger!StoreExists(n) /\ badger!Mutate(new)
      BY <1>6 DEF badger!Truncate
    <2>2. BadgerWellFormed(new) /\ badger!ContentOf(new) = [badger!Content EXCEPT ![n] = badger!engine!EmptyStore]
      BY <1>1, <2>1, BadgerTruncateStep DEF badger!Content, badger!engine!EmptyStore
    <2> HIDE DEF new
    <2> QED
      BY Zenon, <1>1, <1>2, <1>3, <2>1, <2>2
      DEF badger!engine!SpecWrite, badger!engine!SpecTruncate, badger!engine!SetStore
  <1>7. ASSUME NEW k \in DiskKey, badger!Delete(n, k)
        PROVE  BadgerIInv' /\ badger!engine!SpecWrite
    <2> DEFINE new == {p \in badgerKv : p.k # BadgerPairKey(n, k)}
    <2>1. badger!StoreExists(n) /\ badger!Has(BadgerPairKey(n, k)) /\ badger!Mutate(new)
      BY <1>7 DEF badger!Delete, BadgerPairKey
    <2>2. /\ BadgerWellFormed(new)
          /\ badger!Content[n][k] # DiskNil
          /\ badger!ContentOf(new) = [badger!Content EXCEPT ![n] = [badger!Content[n] EXCEPT ![k] = DiskNil]]
      BY <1>1, <2>1, BadgerDeleteStep DEF badger!Content
    <2> HIDE DEF new
    <2> QED
      BY Zenon, <1>1, <1>2, <1>3, <2>1, <2>2
      DEF badger!engine!SpecWrite, badger!engine!SpecDelete, badger!engine!SetStore
  <1>8. ASSUME NEW k \in DiskKey, NEW v \in DiskVal, badger!Put(n, k, v)
        PROVE  BadgerIInv' /\ badger!engine!SpecWrite
    <2> DEFINE new == badger!Set(BadgerPairKey(n, k), v)
    <2>1. badger!StoreExists(n) /\ badger!Mutate(new)
      BY <1>8 DEF badger!Put, BadgerPairKey
    <2>2. /\ BadgerWellFormed(new)
          /\ badger!ContentOf(new) = [badger!Content EXCEPT ![n] = [badger!Content[n] EXCEPT ![k] = v]]
      BY <1>1, <2>1, BadgerPutStep DEF badger!Content
    <2> HIDE DEF new
    <2>3. /\ BadgerIInv' /\ badger!Content' = badger!ContentOf(new)
          /\ badger!ContentOf(badgerBase)' = badger!ContentOf(badgerBase) /\ badgerOpen' = badgerOpen
      BY <1>2, <2>1, <2>2
    <2>4. badger!engine!SpecPut(n, k, v)
      BY <1>3, <2>1, <2>2, <2>3 DEF badger!engine!SpecPut, badger!engine!SetStore
    <2> QED
      BY <1>1, <2>3, <2>4 DEF badger!engine!SpecWrite
  <1> QED
    BY <1>4, <1>5, <1>6, <1>7, <1>8

(* Begin, and the end of the context, which the abstract engine does not    *)
(* see.                                                                     *)
LEMMA BadgerBeginStep ==
    ASSUME BadgerIInv, badger!Begin \/ badger!CtxDone \/ UNCHANGED badger!vars
    PROVE  BadgerIInv' /\ (badger!engine!SpecBegin \/ UNCHANGED badger!engine!specVars)
  <1>1. badgerKv' = badgerKv /\ badgerBase' = badgerBase /\ badgerOps' = badgerOps
    BY DEF badger!Begin, badger!CtxDone, badger!vars
  <1>2. /\ badger!Content' = badger!Content /\ badger!ContentOf(badgerBase)' = badger!ContentOf(badgerBase)
        /\ BadgerWellFormed(badgerKv)' /\ BadgerWellFormed(badgerBase)'
    <2>1. badger!Content' = badger!Content
      BY <1>1 DEF badger!Content, badger!ContentOf
    <2>2. badger!ContentOf(badgerBase)' = badger!ContentOf(badgerBase)
      BY <1>1 DEF badger!ContentOf
    <2>3. BadgerWellFormed(badgerKv)
      BY Zenon DEF BadgerIInv
    <2>4. BadgerWellFormed(badgerKv)'
      BY Zenon, <1>1, <2>3 DEF BadgerWellFormed, BadgerExists
    <2>5. BadgerWellFormed(badgerBase)
      BY Zenon DEF BadgerIInv
    <2>6. BadgerWellFormed(badgerBase)'
      BY Zenon, <1>1, <2>5 DEF BadgerWellFormed, BadgerExists
    <2> QED
      BY Zenon, <2>1, <2>2, <2>4, <2>6
  <1>3. CASE badger!Begin
    BY <1>1, <1>2, <1>3 DEF badger!Begin, BadgerIInv, badger!engine!SpecBegin
  <1>4. CASE badger!CtxDone
    BY <1>1, <1>2, <1>4 DEF badger!CtxDone, badger!Running, BadgerIInv, badger!engine!specVars
  <1>5. CASE UNCHANGED badger!vars
    BY <1>1, <1>2, <1>5 DEF badger!vars, BadgerIInv, badger!engine!specVars
  <1> QED
    BY <1>3, <1>4, <1>5

(* Both ends of a transaction leave one set of pairs, read and committed.   *)
LEMMA BadgerEndStep ==
    ASSUME badger!BadgerAssumptions, BadgerIInv, NEW pairs, BadgerWellFormed(pairs), badger!End(pairs)
    PROVE  /\ BadgerIInv' /\ badgerOpen /\ badgerOpen' = FALSE
           /\ badger!Content' = badger!ContentOf(pairs) /\ badger!ContentOf(badgerBase)' = badger!ContentOf(pairs)
  <1>1. /\ badgerOpen /\ badgerKv' = pairs /\ badgerBase' = pairs /\ badgerOpen' = FALSE /\ badgerDone' = FALSE
        /\ badgerOps' = 0
    BY DEF badger!End
  <1>2. badger!Content' = badger!ContentOf(pairs) /\ badger!ContentOf(badgerBase)' = badger!ContentOf(pairs)
    BY <1>1 DEF badger!Content, badger!ContentOf
  <1>3. BadgerWellFormed(badgerKv)' /\ BadgerWellFormed(badgerBase)'
    BY Zenon, <1>1 DEF BadgerWellFormed, BadgerExists
  <1>4. badgerOps' \in 0 .. DiskOps
    BY <1>1 DEF badger!BadgerAssumptions
  <1> QED
    BY Zenon, <1>1, <1>2, <1>3, <1>4 DEF BadgerIInv

(* Every step keeps the invariant and is a step of the abstract engine.     *)
LEMMA BadgerStep ==
    ASSUME badger!BadgerAssumptions, BadgerIInv, [badger!Next]_badger!vars
    PROVE  BadgerIInv' /\ [badger!engine!SpecNext]_badger!engine!specVars
  <1>1. CASE badger!Begin \/ badger!CtxDone \/ UNCHANGED badger!vars
    BY <1>1, BadgerBeginStep DEF badger!engine!SpecNext
  <1>2. CASE badger!Commit
    BY Zenon, <1>2, BadgerEndStep DEF BadgerIInv, badger!Commit, badger!Content, badger!engine!SpecNext, badger!engine!SpecCommit
  <1>3. CASE badger!Rollback
    BY Zenon, <1>3, BadgerEndStep DEF BadgerIInv, badger!Rollback, badger!Content, badger!engine!SpecNext, badger!engine!SpecRollback
  <1>4. CASE \E n \in DiskName :
          \/ badger!CreateStore(n) \/ badger!DropStore(n) \/ badger!Truncate(n)
          \/ \E k \in DiskKey : badger!Delete(n, k) \/ \E v \in DiskVal : badger!Put(n, k, v)
    BY <1>4, BadgerWriteStep DEF badger!engine!SpecNext
  <1> QED
    BY <1>1, <1>2, <1>3, <1>4 DEF badger!Next

(* No store exists at first.                                                *)
LEMMA BadgerInitStep ==
    ASSUME badger!BadgerAssumptions, badger!Init
    PROVE  BadgerIInv /\ badger!engine!SpecInit
  <1>1. badgerOps \in 0 .. DiskOps
    BY DEF badger!Init, badger!BadgerAssumptions
  <1>2. badger!Content = [n \in DiskName |-> DiskNoStore] /\ badger!ContentOf(badgerBase) = badger!Content
    BY BadgerEmptyContent DEF badger!Init, badger!Content
  <1> QED
    BY Zenon, <1>1, <1>2, BadgerEmptyContent DEF badger!Init, BadgerIInv, badger!engine!SpecInit

-----------------------------------------------------------------------------
(* The inductive invariant of the badger engine: what is committed and what *)
(* the transaction reads are both well formed.                              *)
THEOREM BadgerInvariance ==
    ASSUME badger!BadgerAssumptions
    PROVE  badger!Spec => []BadgerIInv
  <1>1. badger!Init => BadgerIInv
    BY BadgerInitStep
  <1>2. BadgerIInv /\ [badger!Next]_badger!vars => BadgerIInv'
    BY BadgerStep
  <1> QED
    BY <1>1, <1>2, PTL DEF badger!Spec

(* No key is there twice and no pair outlives its store, whatever Put,      *)
(* Delete, Truncate and DropStore did before.                               *)
THEOREM BadgerNothingOutlivesItsStore ==
    ASSUME badger!BadgerAssumptions
    PROVE  badger!Spec => []badger!NoOrphans
  <1>1. BadgerIInv => badger!NoOrphans
    BY DEF BadgerIInv, BadgerWellFormed, badger!NoOrphans, badger!StoreExists, badger!Has, BadgerExists, BadgerPairKey
  <1> QED
    BY BadgerInvariance, <1>1, PTL

(* The one key space of badgerengine does what engine.go promises of a      *)
(* transaction: a store that is dropped and created again is empty, and no  *)
(* operation on a store is seen in another.                                 *)
THEOREM BadgerImplementsEngine ==
    ASSUME badger!BadgerAssumptions
    PROVE  badger!Spec => badger!ImplementsEngine
  <1>1. badger!Init => badger!engine!SpecInit
    BY BadgerInitStep
  <1>2. BadgerIInv /\ [badger!Next]_badger!vars => [badger!engine!SpecNext]_badger!engine!specVars
    BY BadgerStep
  <1> QED
    BY BadgerInvariance, <1>1, <1>2, PTL DEF badger!Spec, badger!ImplementsEngine, badger!engine!EngineSpecification
=============================================================================
