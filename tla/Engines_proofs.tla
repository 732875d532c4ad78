--------------------------- MODULE Engines_proofs ---------------------------
(***************************************************************************)
(* The three engines together: what the module of proofs of each shows of   *)
(* it, as the properties of MCEngines.  The engine that is not chosen keeps *)
(* its initial state, so every behaviour of MCEngines is one of each        *)
(* engine.                                                                  *)
(***************************************************************************)
EXTENDS MCEngines, MemoryEngine_proofs, DiskEngines_proofs

(* The steps of MCEngines are steps of the memory engine, or leave it.      *)
LEMMA MemoryRuns == EnginesSpec => Spec
  <1>1. EnginesInit => Init
    BY DEF EnginesInit
  <1>2. [EnginesNext]_<<kind, vars, boltVars, badgerVars>> => [Next]_vars
    BY DEF EnginesNext
  <1> QED
    BY <1>1, <1>2, PTL DEF EnginesSpec, Spec

(* The steps of MCEngines are steps of the bolt engine, or leave it.        *)
LEMMA BoltRuns == EnginesSpec => bolt!Spec
  <1>1. EnginesInit => bolt!Init
    BY DEF EnginesInit
  <1>2. [EnginesNext]_<<kind, vars, boltVars, badgerVars>> => [bolt!Next]_bolt!vars
    BY DEF EnginesNext, boltVars, bolt!vars
  <1> QED
    BY <1>1, <1>2, PTL DEF EnginesSpec, bolt!Spec

(* The steps of MCEngines are steps of the badger engine, or leave it.      *)
LEMMA BadgerRuns == EnginesSpec => badger!Spec
  <1>1. EnginesInit => badger!Init
    BY DEF EnginesInit
  <1>2. [EnginesNext]_<<kind, vars, boltVars, badgerVars>> => [badger!Next]_badger!vars
    BY DEF EnginesNext, badgerVars, badger!vars
  <1> QED
    BY <1>1, <1>2, PTL DEF EnginesSpec, badger!Spec

(* The heap of the memory engine and the buckets of bolt have their types,  *)
(* and nothing is kept of a transaction that is over.                       *)
THEOREM EnginesTyped == EnginesSpec => []EnginesTypeOK
  <1>1. bolt!BoltAssumptions
    BY DiskAssumptions
  <1>2. bolt!Spec => []BoltIInv
    BY <1>1, BoltInvariance
  <1>3. BoltIInv => bolt!TypeOK
    BY DEF BoltIInv
  <1>4. TypeOK /\ bolt!TypeOK => EnginesTypeOK
    BY DEF EnginesTypeOK
  <1> QED
    BY <1>2, <1>3, <1>4, MemoryRuns, BoltRuns, TypeCorrect, PTL

(* Nothing of what was deleted stays behind: storeTx.Delete of the memory   *)
(* engine leaves no mark after Commit or Rollback, and DropStore of badger  *)
(* no pair of a store that is gone.                                         *)
THEOREM EnginesLeaveNothing == EnginesSpec => []NothingLeftBehind
  <1>1. badger!BadgerAssumptions
    BY DiskAssumptions
  <1>2. badger!Spec => []badger!NoOrphans
    BY <1>1, BadgerNothingOutlivesItsStore
  <1>3. NoMarkLeft /\ badger!NoOrphans => NothingLeftBehind
    BY DEF NothingLeftBehind
  <1> QED
    BY <1>2, <1>3, MemoryRuns, BadgerRuns, MarksAreRemoved, PTL

(* The memory, bolt and badger engines all implement the transactions of    *)
(* engine.go: every operation changes what it says and nothing else, Commit *)
(* keeps all of it and Rollback cancels all of it.                          *)
THEOREM EnginesAgree == EnginesSpec => EnginesImplement
  <1>1. bolt!BoltAssumptions /\ badger!BadgerAssumptions
    BY DiskAssumptions
  <1>2. bolt!Spec => bolt!ImplementsEngine
    BY <1>1, BoltImplementsEngine
  <1>3. badger!Spec => badger!ImplementsEngine
    BY <1>1, BadgerImplementsEngine
  <1> QED
    BY <1>2, <1>3, MemoryRuns, BoltRuns, BadgerRuns, MemoryImplementsEngine, PTL DEF EnginesImplement
=============================================================================
