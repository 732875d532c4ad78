------------------------------ MODULE MCEngines ------------------------------
(***************************************************************************)
(* Small instances of the three engines, one of which is chosen at the      *)
(* start.  The variables of the others keep their initial values.           *)
(***************************************************************************)
EXTENDS MemoryEngine, DiskEngines, TLC

VARIABLE kind

MCDiskName == {<<1>>, <<2>>}
MCDiskKey == {<<1>>, <<1, 2>>, <<2>>}

boltIterator == INSTANCE BoltIterator WITH
    Name <- DiskName, Key <- DiskKey, Val <- DiskVal,
    Nil <- DiskNil, NoStore <- DiskNoStore, MaxOps <- DiskOps,
    buckets <- boltBuckets, bin <- boltBin, open <- boltOpen,
    ctxDone <- boltDone, saved <- boltSaved, nops <- boltOps

badgerIterator == INSTANCE BadgerIterator WITH
    Name <- DiskName, Key <- DiskKey, Val <- DiskVal,
    Nil <- DiskNil, NoStore <- DiskNoStore, MaxOps <- DiskOps,
    kv <- badgerKv, base <- badgerBase, open <- badgerOpen,
    ctxDone <- badgerDone, nops <- badgerOps

ASSUME DiskAssumptions == bolt!BoltAssumptions /\ badger!BadgerAssumptions

EnginesInit ==
    /\ Init /\ bolt!Init /\ badger!Init
    /\ kind \in {"memory", "bolt", "badger"}
    /\ kind # "memory" => wild = FALSE

EnginesNext ==
    /\ UNCHANGED kind
    /\ \/ kind = "memory" /\ Next /\ UNCHANGED <<boltVars, badgerVars>>
       \/ kind = "bolt" /\ bolt!Next /\ UNCHANGED <<vars, badgerVars>>
       \/ kind = "badger" /\ badger!Next /\ UNCHANGED <<vars, boltVars>>

EnginesSpec == EnginesInit /\ [][EnginesNext]_<<kind, vars, boltVars, badgerVars>>

(* The types, and that an engine with no open transaction has nothing in    *)
(* its log or its bin.                                                      *)
EnginesTypeOK == TypeOK /\ bolt!TypeOK

(* Nothing of what was deleted stays behind: no mark of the memory engine   *)
(* outlives its transaction, and no pair of badger its store.               *)
NothingLeftBehind == NoMarkLeft /\ badger!NoOrphans

(* The iterators of bolt and badger give exactly the keys of the store from *)
(* the pivot on, whatever is hidden or lies next to it.  In reverse order   *)
(* they give exactly those up to the pivot, except that nothing is claimed  *)
(* of a pivot of bolt after every key, from which it gives nothing, and of  *)
(* a pivot of badger that another key continues, which is given too.        *)
ScansAreComplete ==
    /\ kind = "bolt" => boltIterator!ScanIsComplete
    /\ kind = "badger" => badgerIterator!ScanIsComplete

(* What engine.go promises of a transaction holds of the three engines: the *)
(* trees and closures of memory, the hidden keys and the bin of bolt, and   *)
(* the one key space of badger.                                             *)
EnginesImplement == ImplementsEngine /\ bolt!ImplementsEngine /\ badger!ImplementsEngine

Sym == Permutations(Key) \cup Permutations(Handle) \cup Permutations(Name) \cup Permutations(Val)
=============================================================================
