-------------------------- MODULE Sequence_proofs --------------------------
(***************************************************************************)
(* Crash safety of sequences such as the ones that give documents without a *)
(* primary key their key, and stores their name: they count up from a       *)
(* number that is not negative and do not cycle; their Max may be the       *)
(* largest integer.  Transactions commit and roll back, SetLease may fail,  *)
(* and the process may stop at any point.                                   *)
(***************************************************************************)
EXTENDS Sequence, TLAPS

Ascending ==
    \A i \in Infos : i.IncrementBy > 0 /\ i.Cycle = FALSE /\ 0 <= i.Min

(* What has been given out is below CurrentValue.                           *)
MemoryAhead ==
    /\ CurrentValue = Nil => lease = Nil /\ savedLease = Nil /\ Given = {}
    /\ CurrentValue # Nil => /\ CurrentValue \in Start .. Max
                             /\ \A v \in Given : v <= CurrentValue

LeasesInBounds == {lease, savedLease} \subseteq (Start .. Max) \cup {Nil}

(* CurrentValue is below the lease, and so are the values that may still    *)
(* come out of memory.                                                      *)
LeaseAhead ==
    /\ Cached <= Cache
    /\ CurrentValue = Nil => Cached = 0
    /\ CurrentValue # Nil =>
          /\ lease # Nil
          /\ CurrentValue <= lease
          /\ lease < CurrentValue + Cache
          /\ CurrentValue + (Cache - Cached) <= lease \/ lease = Max
    /\ \A v \in kept : savedLease # Nil /\ v <= savedLease

IInv ==
    /\ SequenceTypeOK
    /\ ~inTx => savedLease = lease /\ mine = {}
    /\ ~lost => MemoryAhead
    /\ ~lost /\ Room => LeasesInBounds
    /\ Covered => LeaseAhead

-----------------------------------------------------------------------------
(* The bounds of an ascending sequence.                                     *)
LEMMA InfoFacts ==
    ASSUME Ascending, Info \in Infos
    PROVE  /\ IntMin \in Int /\ IntMax \in Int /\ IntMin = -IntMax - 1 /\ 0 < IntMax
           /\ IncrementBy \in Int /\ 0 < IncrementBy /\ IncrementBy <= IntMax
           /\ Min \in Int /\ Max \in Int /\ Start \in Int /\ Cache \in Int
           /\ 0 <= Min /\ Min <= Start /\ Start <= Max /\ Max <= IntMax
           /\ 0 < Cache /\ Cache <= IntMax
           /\ Cycle = FALSE
           /\ Nil \notin Int
  BY SequenceAssumptions DEF Ascending, IncrementBy, Min, Max, Start, Cache, Cycle, Int64

(* No action changes the sequence.                                          *)
LEMMA InfoIsFixed ==
    ASSUME [NextStep]_sequenceVars
    PROVE  /\ Info' = Info
           /\ IncrementBy' = IncrementBy /\ Min' = Min /\ Max' = Max
           /\ Start' = Start /\ Cache' = Cache /\ Cycle' = Cycle
  <1>1. Info' = Info
    BY DEF NextStep, sequenceVars, BeginTx, Next, NextFails, CommitTx, RollbackTx,
           StopProcess, Reopen, NewSequence
  <1> QED
    BY <1>1 DEF IncrementBy, Min, Max, Start, Cache, Cycle

(* A sum that is too large falls below zero, as two's complement has it.    *)
LEMMA WrapFacts ==
    ASSUME NEW x \in Int, IntMax \in Int, IntMin = -IntMax - 1, 0 < IntMax,
           IntMin + IntMin <= x, x <= IntMax + IntMax + 1
    PROVE  /\ Wrap(x) \in Int64
           /\ x \in Int64 => Wrap(x) = x
           /\ x > IntMax => Wrap(x) = x - (IntMax + IntMax + 2) /\ Wrap(x) < 0
  BY DEF Wrap, Int64

(* Nothing is given out and nothing is leased at first.                     *)
LEMMA InitIInv ==
    ASSUME Ascending, SequenceInit
    PROVE  IInv
  <1>1. Given = {} /\ Cached = 0 /\ kept = {}
    BY DEF SequenceInit, Given, CachedOnLoad
  <1>2. SequenceTypeOK
    <2>1. Cached \in Nat
      BY <1>1
    <2>2. mine \subseteq Int64 /\ kept \subseteq Int64 /\ {inTx, leaseBehind, lost} \subseteq BOOLEAN
      BY Zenon DEF SequenceInit
    <2>3. {CurrentValue, lease, savedLease} \subseteq Int64 \cup {Nil} /\ Info \in Infos
      BY DEF SequenceInit
    <2> QED
      BY <2>1, <2>2, <2>3 DEF SequenceTypeOK
  <1>3. MemoryAhead /\ LeasesInBounds
    BY <1>1 DEF SequenceInit, MemoryAhead, LeasesInBounds
  <1>4. LeaseAhead
    <2>1. Cache \in Int /\ 0 < Cache
      BY InfoFacts DEF SequenceInit
    <2> QED
      BY <1>1, <2>1 DEF SequenceInit, LeaseAhead
  <1> QED
    BY <1>2, <1>3, <1>4 DEF SequenceInit, IInv

(* The value Next gives out is a machine integer, even after a lease has    *)
(* overflowed and was read back.                                            *)
LEMMA NextValueIsInt64 ==
    ASSUME Ascending, SequenceTypeOK
    PROVE  Candidate \in Int64 /\ NewValue \in Int64
  <1>0. Info \in Infos
    BY DEF SequenceTypeOK
  <1>1. Start \in Int64 /\ Min \in Int64 /\ Max \in Int64
    BY <1>0, InfoFacts DEF Int64
  <1>2. Candidate \in Int64
    <2>1. CASE CurrentValue = Nil
      BY <1>1, <2>1 DEF Candidate
    <2>2. CASE CurrentValue # Nil
      <3>1. CurrentValue \in Int64
        BY <2>2 DEF SequenceTypeOK
      <3>2. /\ CurrentValue + IncrementBy \in Int
            /\ IntMin + IntMin <= CurrentValue + IncrementBy
            /\ CurrentValue + IncrementBy <= IntMax + IntMax + 1
        BY <1>0, <3>1, InfoFacts DEF Int64
      <3>3. Wrap(CurrentValue + IncrementBy) \in Int64
        BY <1>0, <3>2, InfoFacts, WrapFacts
      <3> QED
        BY <2>2, <3>3 DEF Candidate
    <2> QED
      BY <2>1, <2>2
  <1> QED
    BY <1>1, <1>2 DEF NewValue

(* The value Next gives out comes after CurrentValue: a sum that overflows  *)
(* is below Min, which the sequence refuses.                                *)
LEMMA NextValueIsNext ==
    ASSUME Ascending, Info \in Infos, MemoryAhead, ~OutOfRange
    PROVE  /\ NewValue \in Start .. Max
           /\ CurrentValue # Nil => NewValue = CurrentValue + IncrementBy
  <1>1. Candidate \in Min .. Max
    BY InfoFacts DEF OutOfRange
  <1>2. NewValue = Candidate
    BY <1>1, InfoFacts DEF NewValue
  <1>3. CASE CurrentValue = Nil
    BY <1>2, <1>3, InfoFacts DEF Candidate
  <1>4. CASE CurrentValue # Nil
    <2>1. CurrentValue \in Start .. Max /\ Candidate = Wrap(CurrentValue + IncrementBy)
      BY <1>4 DEF MemoryAhead, Candidate
    <2>2. /\ CurrentValue + IncrementBy \in Int
          /\ 0 <= CurrentValue + IncrementBy
          /\ CurrentValue + IncrementBy <= IntMax + IntMax + 1
          /\ Start <= CurrentValue + IncrementBy
      BY <2>1, InfoFacts
    <2>3. IntMin + IntMin <= CurrentValue + IncrementBy
      BY <2>2, InfoFacts
    <2>4. /\ CurrentValue + IncrementBy \in Int64 => Candidate = CurrentValue + IncrementBy
          /\ CurrentValue + IncrementBy > IntMax => Candidate < 0
      BY <2>1, <2>2, <2>3, InfoFacts, WrapFacts
    <2>5. CurrentValue + IncrementBy <= IntMax
      BY <1>1, <2>2, <2>4, InfoFacts
    <2>6. Candidate = CurrentValue + IncrementBy
      BY <2>2, <2>4, <2>5, InfoFacts DEF Int64
    <2> QED
      BY <1>1, <1>2, <2>2, <2>6, InfoFacts
  <1> QED
    BY <1>3, <1>4

(* A lease is a machine integer; while there is room for it, it covers      *)
(* Cache values, or all there are.                                          *)
LEMMA NewLeaseFacts ==
    ASSUME Ascending, Info \in Infos, NEW v \in Int64
    PROVE  /\ NewLease(v) \in Int64
           /\ v \in Start .. Max /\ v + Cache - 1 <= IntMax =>
                 /\ NewLease(v) \in v .. Max
                 /\ NewLease(v) = v + Cache - 1 \/ NewLease(v) = Max
                 /\ NewLease(v) < v + Cache
  <1>1. /\ v \in Int /\ v <= IntMax /\ IntMin <= v
        /\ Max \in Int /\ Cache \in Int /\ 0 < Cache /\ Cache <= IntMax
        /\ 0 <= Start /\ Start <= Max /\ Max <= IntMax /\ IncrementBy > 0
        /\ Start \in Int /\ IntMin = -IntMax - 1 /\ IntMax \in Int /\ 0 < IntMax
    BY InfoFacts DEF Int64
  <1> DEFINE w == Wrap(v + Cache)
             l == Wrap(w - 1)
  <1>2. v + Cache \in Int /\ IntMin + IntMin <= v + Cache /\ v + Cache <= IntMax + IntMax + 1
    BY <1>1
  <1>3. /\ w \in Int64 /\ (v + Cache \in Int64 => w = v + Cache)
        /\ v + Cache > IntMax => w = v + Cache - (IntMax + IntMax + 2)
    BY <1>1, <1>2, WrapFacts
  <1>4. w - 1 \in Int /\ IntMin + IntMin <= w - 1 /\ w - 1 <= IntMax + IntMax + 1
    BY <1>1, <1>3 DEF Int64
  <1>5. l \in Int64 /\ (w - 1 \in Int64 => l = w - 1)
    BY <1>1, <1>4, WrapFacts
  <1>6. NewLease(v) = IF l > Max THEN Max ELSE l
    BY <1>1 DEF NewLease
  <1>7. NewLease(v) \in Int64
    BY <1>1, <1>5, <1>6 DEF Int64
  <1>8. ASSUME v \in Start .. Max, v + Cache - 1 <= IntMax
        PROVE  l = v + Cache - 1
    <2>1. CASE v + Cache <= IntMax
      <3>1. w = v + Cache
        BY <1>1, <1>3, <1>8, <2>1 DEF Int64
      <3>2. w - 1 \in Int64
        BY <1>1, <1>8, <2>1, <3>1 DEF Int64
      <3> QED
        BY <1>1, <1>5, <3>1, <3>2
    <2>2. CASE v + Cache > IntMax
      <3>1. v + Cache = IntMax + 1 /\ w = IntMin
        BY <1>1, <1>3, <1>8, <2>2
      <3>2. l = IntMax
        BY <1>1, <3>1 DEF Wrap
      <3> QED
        BY <1>1, <3>1, <3>2
    <2> QED
      BY <1>1, <2>1, <2>2
  <1> QED
    BY <1>1, <1>6, <1>7, <1>8

(* Giving out a value, from memory or with a new lease.                     *)
LEMMA NextIInv ==
    ASSUME Ascending, IInv, Next
    PROVE  IInv'
  <1> DEFINE v == NewValue
  <1>0. Info \in Infos /\ SequenceTypeOK
    BY DEF IInv, SequenceTypeOK
  <1>f. /\ Info' = Info /\ Max' = Max /\ Start' = Start /\ Cache' = Cache
        /\ IncrementBy' = IncrementBy /\ Cycle' = Cycle /\ lost' = lost
    BY InfoIsFixed DEF NextStep, Next
  <1>1. v \in Int64 /\ v \in Int /\ v # Nil
    <2>1. v \in Int64
      BY <1>0, NextValueIsInt64
    <2> QED
      BY <1>0, <2>1, InfoFacts DEF Int64
  <1>2. NewLease(v) \in Int64
    BY <1>0, <1>1, NewLeaseFacts
  <1>3. Given' = Given \cup {v} /\ CurrentValue' = v
    BY DEF Next, Given
  <1>4. SequenceTypeOK'
    <2>1. Cached' \in Nat
      BY <1>0 DEF Next, NextCached, SequenceTypeOK
    <2>2. lease' \in Int64 \cup {Nil}
      BY <1>0, <1>2 DEF Next, SequenceTypeOK
    <2> QED
      BY <1>0, <1>1, <1>3, <1>f, <2>1, <2>2 DEF Next, SequenceTypeOK
  <1>5. ~inTx' => savedLease' = lease' /\ mine' = {}
    BY DEF Next
  <1>6. ASSUME ~lost'
        PROVE  MemoryAhead' /\ (Room' => LeasesInBounds') /\ (Covered' => LeaseAhead')
    <2>0. MemoryAhead
      BY <1>6, <1>f DEF IInv
    <2>1. v \in Start .. Max /\ (CurrentValue # Nil => v = CurrentValue + IncrementBy)
      BY <1>0, <2>0, NextValueIsNext DEF Next
    <2>2. MemoryAhead'
      <3>1. \A u \in Given : u <= v
        BY <1>0, <1>1, <2>0, <2>1, InfoFacts DEF MemoryAhead, SequenceTypeOK, Given, Int64
      <3> QED
        BY <1>1, <1>3, <1>f, <2>1, <3>1 DEF MemoryAhead
    <2>3. ASSUME Room'
          PROVE  /\ Room
                 /\ NewLease(v) \in v .. Max
                 /\ NewLease(v) = v + Cache - 1 \/ NewLease(v) = Max
                 /\ NewLease(v) < v + Cache
      <3>1. v + Cache - 1 <= IntMax
        BY <1>0, <1>1, <1>3, <1>f, <2>3, InfoFacts DEF Room
      <3>2. Room
        BY <1>0, <1>1, <2>0, <2>1, <3>1, InfoFacts DEF Room, MemoryAhead
      <3> QED
        BY <1>0, <1>1, <2>1, <3>1, <3>2, NewLeaseFacts
    <2>4. ASSUME Room' PROVE LeasesInBounds'
      <3>1. NewLease(v) \in Start .. Max
        BY <1>0, <1>1, <2>1, <2>3, <2>4, InfoFacts
      <3>2. LeasesInBounds
        BY <1>6, <1>f, <2>3, <2>4 DEF IInv
      <3> QED
        BY <1>f, <3>1, <3>2 DEF Next, LeasesInBounds
    <2>5. ASSUME Covered' PROVE LeaseAhead'
      <3>0. Room'
        BY <2>5 DEF Covered
      <3>1. Covered /\ IncrementBy = 1
        BY <1>0, <1>f, <2>3, <2>5, <3>0, InfoFacts DEF Covered, Next
      <3>2. LeaseAhead /\ LeasesInBounds
        BY <3>1 DEF IInv, Covered
      <3>3. kept' = kept /\ savedLease' = savedLease
        BY DEF Next
      <3>4. CASE FromMemory
        <4>1. /\ lease' = lease /\ Cached' = Cached + 1 /\ Cached + 1 <= Cache
              /\ CurrentValue # Nil
          BY <3>4 DEF Next, FromMemory, NextCached
        <4>2. lease \in Start .. Max /\ CurrentValue \in Int /\ Cached \in Nat
          BY <1>0, <2>0, <3>2, <4>1, InfoFacts DEF LeaseAhead, LeasesInBounds, MemoryAhead, SequenceTypeOK
        <4> QED
          BY <1>0, <1>1, <1>3, <1>f, <2>1, <3>1, <3>2, <3>3, <4>1, <4>2, InfoFacts DEF LeaseAhead
      <3>5. CASE ~FromMemory
        <4>1. lease' = NewLease(v) /\ Cached' = 1
          BY <3>2, <3>5 DEF Next, FromMemory, NextCached, LeaseAhead
        <4>2. NewLease(v) # Nil
          BY <1>0, <1>2, InfoFacts DEF Int64
        <4> QED
          BY <1>0, <1>1, <1>3, <1>f, <2>1, <2>3, <3>0, <3>2, <3>3, <4>1, <4>2, InfoFacts DEF LeaseAhead
      <3> QED
        BY <3>4, <3>5
    <2> QED
      BY <2>2, <2>4, <2>5
  <1> QED
    BY <1>4, <1>5, <1>6 DEF IInv, Covered

(* Taking a lease back.                                                     *)
LEMMA RollbackIInv ==
    ASSUME Ascending, IInv, RollbackTx
    PROVE  IInv'
  <1>1. /\ Info' = Info /\ Max' = Max /\ Start' = Start /\ Cache' = Cache
        /\ IncrementBy' = IncrementBy /\ Cycle' = Cycle
    BY DEF RollbackTx, Max, Start, Cache, IncrementBy, Cycle
  <1>2. Given' \subseteq Given /\ kept' = kept /\ mine' = {}
    BY DEF RollbackTx, Given
  <1>3. /\ CurrentValue' = CurrentValue /\ savedLease' = savedLease /\ Cached' = Cached
        /\ lease' = savedLease /\ lost' = lost
    BY DEF RollbackTx
  <1>4. SequenceTypeOK'
    BY Zenon, <1>1, <1>2, <1>3 DEF RollbackTx, IInv, SequenceTypeOK
  <1>5. ~lost' => MemoryAhead'
    BY <1>1, <1>2, <1>3 DEF IInv, MemoryAhead
  <1>6. Room' = Room
    BY <1>1, <1>3 DEF Room
  <1>7. ~lost' /\ Room' => LeasesInBounds'
    BY <1>1, <1>3, <1>6 DEF IInv, LeasesInBounds
  <1>8. ASSUME Covered' PROVE LeaseAhead'
    <2>1. ~leaseBehind /\ lease = savedLease
      BY Zenon, <1>8 DEF Covered, RollbackTx
    <2>2. lease' = lease
      BY Zenon, <1>3, <2>1
    <2>3. IncrementBy \in {-1, 1} /\ ~Cycle /\ Room /\ ~lost
      BY Zenon, <1>1, <1>3, <1>6, <1>8 DEF Covered
    <2>4. Covered
      BY Zenon, <2>1, <2>3 DEF Covered
    <2> QED
      BY <1>1, <1>2, <1>3, <2>2, <2>4 DEF IInv, LeaseAhead
  <1> QED
    BY <1>2, <1>3, <1>4, <1>5, <1>7, <1>8 DEF IInv

(* A process that starts from a row that covers what was kept.              *)
LEMMA LoadIInv ==
    ASSUME Ascending, IInv, NEW v \in Int64 \cup {Nil}, NewSequence(v), lost' \in BOOLEAN,
           ~lost' => v \in (Start .. Max) \cup {Nil} /\ \A u \in kept : v # Nil /\ u <= v
    PROVE  IInv'
  <1>0. Info \in Infos
    BY DEF IInv, SequenceTypeOK
  <1>1. /\ Info' = Info /\ Max' = Max /\ Start' = Start /\ Cache' = Cache
    BY DEF NewSequence, Max, Start, Cache
  <1>2. /\ Given' = kept /\ kept' = kept /\ mine' = {}
        /\ CurrentValue' = v /\ lease' = v /\ savedLease' = v
    BY DEF NewSequence, Given
  <1>3. Cached' = IF v = Nil THEN 0 ELSE Cache
    BY DEF NewSequence, CachedOnLoad
  <1>4. SequenceTypeOK'
    <2>1. Cached' \in Nat
      BY <1>0, <1>3, InfoFacts
    <2>2. {inTx, leaseBehind}' \subseteq BOOLEAN
      BY Zenon DEF NewSequence
    <2> QED
      BY <1>1, <1>2, <2>1, <2>2 DEF IInv, SequenceTypeOK
  <1>5. ~lost' => MemoryAhead' /\ LeasesInBounds'
    BY <1>1, <1>2 DEF MemoryAhead, LeasesInBounds
  <1>6. ~lost' => LeaseAhead'
    BY <1>0, <1>1, <1>2, <1>3, InfoFacts DEF LeaseAhead
  <1> QED
    BY <1>2, <1>4, <1>5, <1>6 DEF IInv, Covered

(* Every step preserves the invariant.                                      *)
LEMMA StepIInv ==
    ASSUME Ascending, IInv, [NextStep]_sequenceVars
    PROVE  IInv'
  <1> USE DEF IncrementBy, Max, Start, Cache, Cycle
  <1>1. CASE BeginTx
    BY <1>1 DEF BeginTx, IInv, SequenceTypeOK, MemoryAhead, LeasesInBounds, LeaseAhead, Covered, Room, Given
  <1>2. CASE Next
    BY <1>2, NextIInv
  <1>3. CASE NextFails
    <2>1. Cached' \in Nat
      BY <1>3 DEF NextFails, NextCached, IInv, SequenceTypeOK
    <2>2. SequenceTypeOK'
      BY Zenon, <1>3, <2>1 DEF NextFails, IInv, SequenceTypeOK
    <2> QED
      BY <1>3, <2>2 DEF NextFails, IInv, MemoryAhead, LeasesInBounds, Covered, Room, Given
  <1>4. CASE CommitTx
    <2>1. Given' = Given /\ kept' = Given /\ Info' = Info /\ mine' = {}
      BY <1>4 DEF CommitTx, Given
    <2>2. SequenceTypeOK'
      BY Zenon, <1>4, <2>1 DEF CommitTx, IInv, SequenceTypeOK, Given
    <2>3. ~lost' => MemoryAhead'
      BY <1>4, <2>1 DEF CommitTx, IInv, MemoryAhead
    <2>4. Room' = Room /\ (~lost' /\ Room' => LeasesInBounds')
      BY <1>4, <2>1 DEF CommitTx, IInv, LeasesInBounds, Room
    <2>5. ASSUME Covered' PROVE LeaseAhead'
      <3>1. LeaseAhead /\ MemoryAhead
        BY <1>4, <2>1, <2>4, <2>5 DEF Covered, CommitTx, IInv
      <3>2. \A u \in Given : lease # Nil /\ u <= lease
        BY <3>1, SequenceAssumptions
        DEF IInv, LeaseAhead, MemoryAhead, SequenceTypeOK, Given, Int64
      <3> QED
        BY <1>4, <2>1, <3>1, <3>2 DEF CommitTx, LeaseAhead
    <2> QED
      BY <1>4, <2>1, <2>2, <2>3, <2>4, <2>5 DEF CommitTx, IInv
  <1>5. CASE RollbackTx
    BY Zenon, <1>5, RollbackIInv
  <1>6. CASE StopProcess
    <2>1. savedLease \in Int64 \cup {Nil} /\ lost' \in BOOLEAN
      BY Zenon, <1>6 DEF StopProcess, IInv, SequenceTypeOK
    <2>2. ASSUME ~lost'
          PROVE  /\ savedLease \in (Start .. Max) \cup {Nil}
                 /\ \A u \in kept : savedLease # Nil /\ u <= savedLease
      <3>1. Covered
        BY Zenon, <1>6, <2>2 DEF StopProcess
      <3>2. LeaseAhead /\ LeasesInBounds
        BY Zenon, <3>1 DEF IInv, Covered
      <3> QED
        BY Zenon, <3>2 DEF LeaseAhead, LeasesInBounds
    <2> QED
      BY Zenon, <1>6, <2>1, <2>2, LoadIInv DEF StopProcess
  <1>7. CASE Reopen
    <2>1. Released \in Int64 \cup {Nil} /\ lost' \in BOOLEAN /\ lost' = lost
      BY <1>7 DEF Reopen, Released, IInv, SequenceTypeOK
    <2>2. ASSUME ~lost'
          PROVE  /\ Released \in (Start .. Max) \cup {Nil}
                 /\ \A u \in kept : Released # Nil /\ u <= Released
      BY <2>1, <2>2 DEF Released, IInv, MemoryAhead, Given
    <2> QED
      BY Zenon, <1>7, <2>1, <2>2, LoadIInv DEF Reopen
  <1>8. CASE UNCHANGED sequenceVars
    BY <1>8 DEF sequenceVars, IInv, SequenceTypeOK, MemoryAhead, LeasesInBounds, LeaseAhead, Covered, Room, Given
  <1> QED
    BY <1>1, <1>2, <1>3, <1>4, <1>5, <1>6, <1>7, <1>8 DEF NextStep

(* The inductive invariant holds in every reachable state.                  *)
THEOREM Invariance ==
    ASSUME Ascending
    PROVE  SequenceSpec => []IInv
  BY InitIInv, StepIInv, PTL DEF SequenceSpec

(* For any start, cache size and Max, the largest integer too, the lease in *)
(* the table covers every value that was given out and kept, while the      *)
(* sequence counts one by one, has room for a lease and none was taken back *)
(* or lost (Covered): Next stores it in time.                               *)
THEOREM LeaseIsCrashSafe ==
    ASSUME Ascending
    PROVE  SequenceSpec => []LeaseCovers
  <1>1. IInv => LeaseCovers
    <2> SUFFICES ASSUME IInv, Covered PROVE LeaseCovers
      BY DEF LeaseCovers
    <2>1. LeaseAhead /\ Info \in Infos
      BY DEF IInv, SequenceTypeOK
    <2>0. /\ kept \subseteq Int /\ mine \subseteq Int
          /\ savedLease \in Int \cup {Nil} /\ lease \in Int \cup {Nil}
      BY DEF IInv, SequenceTypeOK, Int64
    <2>2. \A u \in kept : savedLease # Nil /\ ~After(u, savedLease)
      <3>1. \A u \in kept : savedLease # Nil /\ u <= savedLease
        BY <2>1 DEF LeaseAhead
      <3> QED
        BY <2>0, <2>1, <3>1, InfoFacts DEF After
    <2>3. \A u \in Given : lease # Nil /\ ~After(u, lease)
      <3> SUFFICES ASSUME NEW u \in Given PROVE lease # Nil /\ ~After(u, lease)
        OBVIOUS
      <3>1. u \in Int
        BY <2>0 DEF Given
      <3>2. CurrentValue # Nil /\ CurrentValue \in Start .. Max /\ u <= CurrentValue
        BY DEF IInv, MemoryAhead, Covered
      <3>3. lease # Nil /\ CurrentValue <= lease
        BY <2>1, <3>2 DEF LeaseAhead
      <3>4. CurrentValue \in Int
        BY <2>1, <3>2, InfoFacts
      <3> QED
        BY <2>0, <2>1, <3>1, <3>2, <3>3, <3>4, InfoFacts DEF After
    <2> QED
      BY <2>2, <2>3 DEF LeaseCovers
  <1> QED
    BY Invariance, <1>1, PTL

(* While Covered, a crash skips fewer values than the cache holds.          *)
THEOREM GapsAreSmall ==
    ASSUME Ascending
    PROVE  SequenceSpec => []GapBounded
  <1>1. IInv => GapBounded
    <2> SUFFICES ASSUME IInv, Covered, CurrentValue # Nil PROVE GapBounded
      BY DEF GapBounded
    <2>1. LeaseAhead /\ Info \in Infos
      BY DEF IInv, SequenceTypeOK
    <2>2. lease # Nil /\ CurrentValue <= lease /\ lease < CurrentValue + Cache
      BY <2>1 DEF LeaseAhead
    <2>3. CurrentValue \in Int /\ lease \in Int
      BY <2>2 DEF IInv, SequenceTypeOK, Int64
    <2> QED
      BY <2>1, <2>2, <2>3, InfoFacts DEF GapBounded, After
  <1> QED
    BY Invariance, <1>1, PTL

(* Next gives out larger and larger values, through commits, rollbacks,     *)
(* failures of SetLease, restarts and the crashes that find the row         *)
(* covering the memory, up to the largest integer: until a crash loses a    *)
(* lease, the keys of documents are never given twice.                      *)
THEOREM KeysIncrease ==
    ASSUME Ascending
    PROVE  SequenceSpec => Monotonic
  <1>1. IInv /\ [NextStep]_sequenceVars
          => [Next /\ ~Cycle /\ ~lost => \A v \in Given : After(CurrentValue', v)]_sequenceVars
    <2> SUFFICES ASSUME IInv, Next, ~lost, NEW u \in Given PROVE After(CurrentValue', u)
      OBVIOUS
    <2>0. Info \in Infos
      BY DEF IInv, SequenceTypeOK
    <2>1. /\ CurrentValue # Nil /\ u <= CurrentValue /\ u \in Int /\ CurrentValue \in Int
          /\ MemoryAhead
      BY <2>0, InfoFacts DEF IInv, MemoryAhead, SequenceTypeOK, Given, Int64
    <2>2. CurrentValue' = CurrentValue + IncrementBy
      BY <2>0, <2>1, NextValueIsNext DEF Next
    <2> QED
      BY <2>0, <2>1, <2>2, InfoFacts DEF After
  <1> QED
    BY Invariance, <1>1, PTL DEF SequenceSpec, Monotonic
=============================================================================
