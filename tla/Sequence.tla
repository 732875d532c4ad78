------------------------------ MODULE Sequence ------------------------------
(***************************************************************************)
(* internal/database/sequence.go: one sequence, its value in memory and its *)
(* lease in the __genji_sequence table.                                     *)
(*                                                                         *)
(* Next gives out values from memory and stores in the table, once every    *)
(* Cache values, how far it may go without storing again.  The table is     *)
(* transactional, the memory is not: a rollback takes the lease back and    *)
(* leaves CurrentValue and Cached as they are.  A process that stops        *)
(* without Close loses the memory; the next one starts from the lease       *)
(* (Catalog.loadSequences, NewSequence).  Close stores CurrentValue as the  *)
(* lease (Release).                                                         *)
(***************************************************************************)
EXTENDS Integers

CONSTANTS Nil,
          IntMin, IntMax,     \* the range of int64
          Infos               \* the sequences CREATE SEQUENCE may make

Int64 == IntMin .. IntMax

(* What the parser of CREATE SEQUENCE makes sure of.                        *)
ASSUME SequenceAssumptions ==
    /\ IntMax \in Nat \ {0} /\ IntMin = -IntMax - 1
    /\ \A i \in Infos :
          /\ i.IncrementBy \in Int64 \ {0}
          /\ i.Min \in Int64 /\ i.Max \in Int64 /\ i.Min <= i.Max
          /\ i.Start \in i.Min .. i.Max
          /\ i.Cache \in 1 .. IntMax
          /\ i.Cycle \in BOOLEAN
    /\ Nil \notin Int

VARIABLES Info,                   \* SequenceInfo
          CurrentValue, Cached,   \* Sequence, in memory
          lease,        \* the field seq of the row, as the transaction sees it
          savedLease,   \* the same as of the last commit
          inTx,         \* a writable transaction is open
          mine,         \* values the open transaction was given
          kept,         \* values given to transactions that committed
          leaseBehind,  \* a lease was taken back or not stored, memory may be
                        \* ahead of it
          lost          \* the process stopped where the row did not cover memory

IncrementBy == Info.IncrementBy
Min   == Info.Min
Max   == Info.Max
Start == Info.Start
Cache == Info.Cache
Cycle == Info.Cycle

CachedBound == Cache + 2

sequenceVars == <<Info, CurrentValue, Cached, lease, savedLease, inTx, mine, kept, leaseBehind, lost>>

(* Two's complement result of one addition.                                 *)
Wrap(x) == IF x > IntMax THEN x - (IntMax - IntMin + 1)
           ELSE IF x < IntMin THEN x + (IntMax - IntMin + 1)
           ELSE x

(* Variant: the lease counts as unused after a restart.                     *)
CachedOnLoadZero(v) == 0

(* NewSequence.                                                             *)
CachedOnLoad(v) == IF v = Nil THEN 0 ELSE Cache

SequenceInit ==
    /\ Info \in Infos
    /\ CurrentValue = Nil
    /\ Cached = CachedOnLoad(Nil)
    /\ lease = Nil
    /\ savedLease = Nil
    /\ inTx = FALSE
    /\ mine = {}
    /\ kept = {}
    /\ leaseBehind = FALSE
    /\ lost = FALSE

BeginTx ==
    /\ ~inTx
    /\ inTx' = TRUE
    /\ UNCHANGED <<Info, CurrentValue, Cached, lease, savedLease, mine, kept, leaseBehind, lost>>

-----------------------------------------------------------------------------
Candidate == IF CurrentValue = Nil THEN Start ELSE Wrap(CurrentValue + IncrementBy)

(* A value below Min becomes Max, and one above Max becomes Min, when the   *)
(* sequence cycles.                                                         *)
NewValue ==
    LET low == IF Candidate < Min THEN Max ELSE Candidate
    IN  IF low > Max THEN Min ELSE low

OutOfRange == ~Cycle /\ Candidate \notin Min .. Max

(* Variant: one value more than the cache holds.                            *)
NewLeaseOneMore(v) ==
    LET l == IF IncrementBy > 0 THEN Wrap(v + Cache) ELSE Wrap(v - Cache)
    IN  IF l > Max THEN Max ELSE IF l < Min THEN Min ELSE l

(* Variant: the bounds are ignored.                                         *)
NewLeaseUnbounded(v) ==
    IF IncrementBy > 0 THEN Wrap(Wrap(v + Cache) - 1) ELSE Wrap(Wrap(v - Cache) + 1)

(* The lease that covers Cache values from v, kept within the bounds.       *)
NewLease(v) ==
    IF IncrementBy > 0
    THEN LET l == Wrap(Wrap(v + Cache) - 1) IN IF l > Max THEN Max ELSE l
    ELSE LET l == Wrap(Wrap(v - Cache) + 1) IN IF l < Min THEN Min ELSE l

(* Variant: off by one, the cache gives one value too many.                 *)
FromMemoryOneMore == CurrentValue # Nil /\ Cached <= Cache

(* The value comes out of what is already leased.                           *)
FromMemory == CurrentValue # Nil /\ Cached + 1 <= Cache

(* Cached is reset when the lease is extended, not when it is first set.    *)
NextCached == IF CurrentValue = Nil \/ FromMemory THEN Cached + 1 ELSE 1

Next ==
    /\ inTx
    /\ ~OutOfRange
    /\ CurrentValue' = NewValue
    /\ Cached' = NextCached
    /\ lease' = IF FromMemory THEN lease ELSE NewLease(NewValue)
    /\ mine' = mine \cup {NewValue}
    /\ UNCHANGED <<Info, savedLease, inTx, kept, leaseBehind, lost>>

(* SetLease fails, for one because the context is done: Cached has already  *)
(* been changed, and the transaction is left to the caller.                 *)
(* Bound: Cached stops growing at CachedBound.                              *)
NextFails ==
    /\ inTx
    /\ ~OutOfRange
    /\ ~FromMemory
    /\ NextCached <= CachedBound
    /\ Cached' = NextCached
    /\ leaseBehind' = TRUE
    /\ UNCHANGED <<Info, CurrentValue, lease, savedLease, inTx, mine, kept, lost>>

CommitTx ==
    /\ inTx
    /\ inTx' = FALSE
    /\ savedLease' = lease
    /\ kept' = kept \cup mine
    /\ mine' = {}
    /\ UNCHANGED <<Info, CurrentValue, Cached, lease, leaseBehind, lost>>

(* The transaction takes its lease back and leaves the memory alone.        *)
RollbackTx ==
    /\ inTx
    /\ inTx' = FALSE
    /\ lease' = savedLease
    /\ mine' = {}
    /\ leaseBehind' = (leaseBehind \/ lease # savedLease)
    /\ UNCHANGED <<Info, CurrentValue, Cached, savedLease, kept, lost>>

(* A new process loads the sequence from row value v.                       *)
NewSequence(v) ==
    /\ CurrentValue' = v
    /\ Cached' = CachedOnLoad(v)
    /\ lease' = v
    /\ savedLease' = v
    /\ inTx' = FALSE
    /\ mine' = {}
    /\ leaseBehind' = FALSE
    /\ UNCHANGED <<Info, kept>>

(* There are Cache values between the current one and the end of int64: the *)
(* sum of Next that makes a lease does not overflow.                        *)
Room ==
    CurrentValue # Nil =>
        IF IncrementBy > 0 THEN CurrentValue + Cache - 1 <= IntMax
                           ELSE CurrentValue - Cache + 1 >= IntMin

(* The row covers the values of memory: they go one by one in one           *)
(* direction, there is room for a lease, and every lease that was taken is  *)
(* in the row.                                                              *)
Covered == IncrementBy \in {-1, 1} /\ ~Cycle /\ Room /\ ~leaseBehind /\ ~lost

(* The process stops without calling Close, anywhere.                       *)
StopProcess ==
    /\ NewSequence(savedLease)
    /\ lost' = (lost \/ ~Covered)

(* Release stores the current value, unless nothing was ever given out.     *)
Released == IF CurrentValue = Nil THEN savedLease ELSE CurrentValue

(* Database.Close waits for the open transaction, releases and commits;     *)
(* then the database is opened again.                                       *)
Reopen == ~inTx /\ NewSequence(Released) /\ UNCHANGED lost

NextStep == BeginTx \/ Next \/ NextFails \/ CommitTx \/ RollbackTx \/ StopProcess \/ Reopen

SequenceSpec == SequenceInit /\ [][NextStep]_sequenceVars

-----------------------------------------------------------------------------
(* The types of the variables.                                              *)
SequenceTypeOK ==
    /\ Info \in Infos
    /\ CurrentValue \in Int64 \cup {Nil}
    /\ Cached \in Nat
    /\ lease \in Int64 \cup {Nil}
    /\ savedLease \in Int64 \cup {Nil}
    /\ inTx \in BOOLEAN
    /\ mine \subseteq Int64
    /\ kept \subseteq Int64
    /\ leaseBehind \in BOOLEAN
    /\ lost \in BOOLEAN

Given == mine \cup kept

(* a comes after b in the direction of the sequence.                        *)
After(a, b) == IF IncrementBy > 0 THEN a > b ELSE a < b

(* table.go:41: "a monotonic autoincremented integer key will be            *)
(* generated".  Every value comes after all those that were given before    *)
(* and not rolled back, so none is given twice and Insert meets no key that *)
(* is taken.                                                                *)
AlwaysMonotonic == [][Next /\ ~Cycle => \A v \in Given : After(CurrentValue', v)]_sequenceVars

(* The same, across commits, rollbacks, failures of SetLease and restarts,  *)
(* and across the crashes that find the row covering the memory.            *)
Monotonic ==
    [][Next /\ ~Cycle /\ ~lost => \A v \in Given : After(CurrentValue', v)]_sequenceVars

(* While Covered, the lease on disk covers every value a committed          *)
(* transaction was given, and the lease in the open transaction every value *)
(* it was given, so that a crash forgets none of them.                      *)
LeaseCovers ==
    Covered =>
        /\ \A v \in kept : savedLease # Nil /\ ~After(v, savedLease)
        /\ \A v \in Given : lease # Nil /\ ~After(v, lease)

(* While Covered, a crash skips fewer than Cache values.                    *)
GapBounded ==
    (Covered /\ CurrentValue # Nil) =>
        /\ lease # Nil
        /\ ~After(CurrentValue, lease)
        /\ IF IncrementBy > 0 THEN lease - CurrentValue < Cache
                              ELSE CurrentValue - lease < Cache

(* No value outside its bounds is ever given, not even from a lease that    *)
(* has overflowed; and while there is room for one, the lease stays within  *)
(* them too.                                                                *)
WithinBounds ==
    /\ Given \subseteq Min .. Max
    /\ Room /\ ~lost => {CurrentValue, lease, savedLease} \subseteq (Min .. Max) \cup {Nil}
=============================================================================
