------------------------------ MODULE RWMutex ------------------------------
(***************************************************************************)
(* The part of Go's sync.RWMutex that internal/database relies on          *)
(* (Database.txmu, shared with every Transaction as DBMu).  External code:  *)
(* modelled from how database.go and transaction.go use it.                 *)
(*                                                                         *)
(* A call of Lock first takes the internal writer mutex and announces       *)
(* itself, which keeps later readers out, then waits for the readers that   *)
(* are inside to leave.  Unlock admits every reader that queued up behind   *)
(* the writer before another writer can announce itself.                    *)
(***************************************************************************)
CONSTANT NoOwner

VARIABLES writer,   \* the writer that has announced itself, or NoOwner
          readers,  \* the owners inside a read-locked section
          rwait     \* the owners blocked in RLock behind the announced writer

mutexVars == <<writer, readers, rwait>>

MutexInit == writer = NoOwner /\ readers = {} /\ rwait = {}

(* t is past its call of Lock or RLock and has not released the mutex.     *)
Holds(t) == t \in readers \/ (writer = t /\ readers = {})

RLock(t) ==
    IF writer = NoOwner
    THEN readers' = readers \cup {t} /\ UNCHANGED <<writer, rwait>>
    ELSE rwait' = rwait \cup {t} /\ UNCHANGED <<writer, readers>>

LockAnnounce(t) == writer = NoOwner /\ writer' = t /\ UNCHANGED <<readers, rwait>>

RUnlock(t) == readers' = readers \ {t} /\ UNCHANGED <<writer, rwait>>

Unlock == writer' = NoOwner /\ readers' = readers \cup rwait /\ rwait' = {}
=============================================================================
