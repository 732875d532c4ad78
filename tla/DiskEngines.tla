---------------------------- MODULE DiskEngines ----------------------------
(***************************************************************************)
(* The two engines that keep their stores on disk, side by side, each with  *)
(* variables of its own and both with the same names, keys and values.      *)
(***************************************************************************)
CONSTANTS DiskName, DiskKey, DiskVal, DiskNil, DiskNoStore, DiskOps, Hidden, Empty, NoValue

VARIABLES boltBuckets, boltBin, boltOpen, boltDone, boltSaved, boltOps,
          badgerKv, badgerBase, badgerOpen, badgerDone, badgerOps

boltVars == <<boltBuckets, boltBin, boltOpen, boltDone, boltSaved, boltOps>>
badgerVars == <<badgerKv, badgerBase, badgerOpen, badgerDone, badgerOps>>

bolt == INSTANCE BoltEngine WITH
    Name <- DiskName, Key <- DiskKey, Val <- DiskVal,
    Nil <- DiskNil, NoStore <- DiskNoStore, MaxOps <- DiskOps,
    buckets <- boltBuckets, bin <- boltBin, open <- boltOpen,
    ctxDone <- boltDone, saved <- boltSaved, nops <- boltOps

badger == INSTANCE BadgerEngine WITH
    Name <- DiskName, Key <- DiskKey, Val <- DiskVal,
    Nil <- DiskNil, NoStore <- DiskNoStore, MaxOps <- DiskOps,
    kv <- badgerKv, base <- badgerBase, open <- badgerOpen,
    ctxDone <- badgerDone, nops <- badgerOps
=============================================================================
