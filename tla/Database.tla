------------------------------ MODULE Database ------------------------------
(***************************************************************************)
(* Transactions of internal/database: Database.BeginTx, Close and           *)
(* GetAttachedTx (database.go), Transaction.Commit and Rollback             *)
(* (transaction.go), over the transaction life cycle every engine           *)
(* implements (engine.go, memoryengine/engine.go), as driven by DB.Begin,   *)
(* DB.View and DB.Update (db.go) and by the BEGIN, COMMIT and ROLLBACK      *)
(* statements.                                                              *)
(*                                                                         *)
(* Goroutines interleave between the points where the code takes or         *)
(* releases a lock: BeginTx is a call, an acquisition of txmu and a body     *)
(* under attachedTxMu; Commit and Rollback are an engine call, the hooks     *)
(* and the release of txmu.  The content of the database is one value       *)
(* that a writable transaction changes in place, which is what the memory   *)
(* engine does.                                                             *)
(***************************************************************************)
EXTENDS FiniteSets

CONSTANTS Proc,       \* goroutines
          Tx,         \* identities of transactions; each is used once
          None,       \* no transaction
          Val,        \* contents of the database
          InitVal,    \* the content the engine starts with
          Options,    \* the TxOptions that callers pass to BeginTx
          MayCancel,  \* callers use contexts that can be cancelled
          MayClose    \* Database.Close is called

ASSUME DatabaseAssumptions ==
    /\ None \notin Tx
    /\ InitVal \in Val
    /\ Options \subseteq [readOnly : BOOLEAN, attached : BOOLEAN]
    /\ MayCancel \in BOOLEAN
    /\ MayClose \in BOOLEAN

VARIABLES pc,          \* where each goroutine is
          call,        \* the method a goroutine is executing
          cur,         \* the transaction a goroutine is working with
          st,          \* what became of the BeginTx that made the transaction
          writable,    \* Transaction.Writable
          hooked,      \* releaseAttachedTx is among the transaction's hooks
          terminated,  \* the engine transactions that are over
          cancelled,   \* the transactions whose context is done
          attached,    \* Database.attachedTransaction
          closed,      \* the engine is closed
          shared,      \* two goroutines have used one transaction at a time
          live,        \* the content, uncommitted changes included
          committed,   \* the content as of the last commit
          before,      \* the content when the engine transaction began
          seen,        \* what a read-only transaction has read
          leftover,    \* a Rollback of the engine has left other content behind
          writer, readers, rwait   \* Database.txmu

txmu == INSTANCE RWMutex WITH NoOwner <- None

mutexVars == <<writer, readers, rwait>>
dataVars  == <<live, committed, before, seen, leftover>>
txVars    == <<st, writable, hooked>>
vars == <<pc, call, cur, txVars, terminated, cancelled, attached, closed,
          shared, dataVars, mutexVars>>

Locations == {"idle", "queue", "lock", "work", "end", "hooks", "unlock", "close"}
Methods   == {"Begin", "Commit", "Rollback", "Undo", "Close"}

Init ==
    /\ pc = [p \in Proc |-> "idle"]
    /\ call = [p \in Proc |-> "Begin"]
    /\ cur = [p \in Proc |-> None]
    /\ st = [t \in Tx |-> "unused"]
    /\ writable = [t \in Tx |-> FALSE]
    /\ hooked = [t \in Tx |-> FALSE]
    /\ terminated = {}
    /\ cancelled = {}
    /\ attached = None
    /\ closed = FALSE
    /\ shared = FALSE
    /\ leftover = FALSE
    /\ live = InitVal
    /\ committed = InitVal
    /\ before = [t \in Tx |-> InitVal]
    /\ seen = [t \in Tx |-> {}]
    /\ txmu!MutexInit

Goto(p, where) == pc' = [pc EXCEPT ![p] = where]

-----------------------------------------------------------------------------
(* Variant: BeginTx takes the read lock whatever the mode.                  *)
BeginTxAlwaysRLock(p, t, o) ==
    /\ pc[p] = "idle"
    /\ st[t] = "unused"
    /\ st' = [st EXCEPT ![t] = "begin"]
    /\ writable' = [writable EXCEPT ![t] = ~o.readOnly]
    /\ hooked' = [hooked EXCEPT ![t] = o.attached]
    /\ call' = [call EXCEPT ![p] = "Begin"]
    /\ cur' = [cur EXCEPT ![p] = t]
    /\ Goto(p, "lock")
    /\ txmu!RLock(t)
    /\ UNCHANGED <<terminated, cancelled, attached, closed, shared, dataVars>>

(* BeginTx: take txmu for reading or for writing.                           *)
BeginTx(p, t, o) ==
    /\ pc[p] = "idle"
    /\ st[t] = "unused"
    /\ st' = [st EXCEPT ![t] = "begin"]
    /\ writable' = [writable EXCEPT ![t] = ~o.readOnly]
    /\ hooked' = [hooked EXCEPT ![t] = o.attached]
    /\ call' = [call EXCEPT ![p] = "Begin"]
    /\ cur' = [cur EXCEPT ![p] = t]
    /\ IF o.readOnly
       THEN Goto(p, "lock") /\ txmu!RLock(t)
       ELSE Goto(p, "queue") /\ UNCHANGED mutexVars
    /\ UNCHANGED <<terminated, cancelled, attached, closed, shared, dataVars>>

Lock(p) ==
    /\ pc[p] = "queue"
    /\ txmu!LockAnnounce(cur[p])
    /\ Goto(p, "lock")
    /\ UNCHANGED <<call, cur, txVars, terminated, cancelled, attached, closed, shared, dataVars>>

(* The engine refuses to begin: context done, or engine closed.             *)
EngineBeginFails(t) == t \in cancelled \/ closed

(* GetAttachedTx: the goroutine takes the attached transaction, which "is   *)
(* not thread safe" (database.go:124), whether or not another one uses it.  *)
(* What two goroutines make of one transaction depends on data races (the   *)
(* engines look at terminated without a lock): the properties below say     *)
(* nothing of a database where that has happened.                           *)
PickUpAttached(p) ==
    /\ cur' = [cur EXCEPT ![p] = attached]
    /\ shared' = (shared \/ \E q \in Proc \ {p} : cur[q] = attached)

(* Query.Run after a BEGIN, COMMIT or ROLLBACK that failed: it rolls back   *)
(* the transaction that is attached by then, whoever attached it.           *)
UndoAttached(p) ==
    /\ PickUpAttached(p)
    /\ call' = [call EXCEPT ![p] = "Undo"]
    /\ Goto(p, "end")

LetGo(p) ==
    /\ cur' = [cur EXCEPT ![p] = None]
    /\ Goto(p, "idle")
    /\ UNCHANGED <<call, shared>>

(* The rest of BeginTx, under attachedTxMu.  The two early returns leave    *)
(* txmu as it is.  A statement that attached its transaction is over; any   *)
(* other caller goes on to use the handle it got.                           *)
BeginTxLocked(p) ==
    LET t == cur[p] IN
    /\ pc[p] = "lock"
    /\ call[p] = "Begin"
    /\ txmu!Holds(t)
    /\ IF attached # None \/ EngineBeginFails(t)
       THEN /\ st' = [st EXCEPT ![t] = "failed"]
            /\ IF hooked[t] /\ attached # None THEN UndoAttached(p) ELSE LetGo(p)
            /\ UNCHANGED <<attached, before>>
       ELSE /\ st' = [st EXCEPT ![t] = "open"]
            /\ before' = [before EXCEPT ![t] = live]
            /\ attached' = IF hooked[t] THEN t ELSE None
            /\ Goto(p, IF hooked[t] THEN "idle" ELSE "work")
            /\ cur' = [cur EXCEPT ![p] = IF hooked[t] THEN None ELSE t]
            /\ UNCHANGED <<call, shared>>
    /\ UNCHANGED <<writable, hooked, terminated, cancelled, closed,
                   live, committed, seen, leftover, mutexVars>>

(* Query.Run picks up the attached transaction.                             *)
GetAttachedTx(p) ==
    /\ pc[p] = "idle"
    /\ attached # None
    /\ PickUpAttached(p)
    /\ Goto(p, "work")
    /\ UNCHANGED <<call, txVars, terminated, cancelled, attached, closed,
                   dataVars, mutexVars>>

(* The query is over and leaves the attached transaction open.              *)
LeaveAttachedTx(p) ==
    /\ pc[p] = "work"
    /\ hooked[cur[p]]
    /\ Goto(p, "idle")
    /\ cur' = [cur EXCEPT ![p] = None]
    /\ UNCHANGED <<call, txVars, terminated, cancelled, attached, closed,
                   dataVars, shared, mutexVars>>

-----------------------------------------------------------------------------
(* Variant: Put does not check that the transaction is writable.            *)
PutUnchecked(p, v) ==
    /\ pc[p] = "work"
    /\ cur[p] \notin cancelled
    /\ live' = v
    /\ UNCHANGED <<pc, call, cur, txVars, terminated, cancelled, attached, closed,
                   committed, before, seen, leftover, shared, mutexVars>>

(* What the transaction does with the content.  The engines refuse every    *)
(* operation once the context is done, and writes of a read-only            *)
(* transaction; they do not look at terminated.                             *)
Put(p, v) ==
    /\ pc[p] = "work"
    /\ writable[cur[p]]
    /\ cur[p] \notin cancelled
    /\ live' = v
    /\ UNCHANGED <<pc, call, cur, txVars, terminated, cancelled, attached, closed,
                   committed, before, seen, leftover, shared, mutexVars>>

Get(p) ==
    /\ pc[p] = "work"
    /\ ~writable[cur[p]]
    /\ cur[p] \notin cancelled
    /\ seen' = [seen EXCEPT ![cur[p]] = @ \cup {live}]
    /\ UNCHANGED <<pc, call, cur, txVars, terminated, cancelled, attached, closed,
                   live, committed, before, leftover, shared, mutexVars>>

CtxDone(t) ==
    /\ MayCancel
    /\ st[t] \in {"begin", "open"}
    /\ t \notin cancelled
    /\ cancelled' = cancelled \cup {t}
    /\ UNCHANGED <<pc, call, cur, txVars, terminated, attached, closed, dataVars, shared, mutexVars>>

-----------------------------------------------------------------------------
(* The end of a transaction.  DB.Update commits and then runs its deferred  *)
(* Rollback whatever Commit returned; so do callers that follow its idiom.  *)
(* DB.View and a failed update go straight to Rollback.                     *)
Finish(p, m) ==
    /\ pc[p] = "work"
    /\ m \in {"Commit", "Rollback"}
    /\ call' = [call EXCEPT ![p] = m]
    /\ Goto(p, "end")
    /\ UNCHANGED <<cur, txVars, terminated, cancelled, attached, closed, dataVars, shared, mutexVars>>

(* The method returns to its caller.                                        *)
Return(p) ==
    CASE call[p] = "Commit" /\ ~hooked[cur[p]] ->
            /\ Goto(p, "end")
            /\ call' = [call EXCEPT ![p] = "Rollback"]
            /\ UNCHANGED <<cur, shared>>
      [] call[p] = "Close" ->
            /\ Goto(p, "close")
            /\ cur' = [cur EXCEPT ![p] = None]
            /\ UNCHANGED <<call, shared>>
      [] OTHER -> LetGo(p)

(* The method returns an error, which only the COMMIT and ROLLBACK          *)
(* statements act upon.                                                     *)
Fail(p) ==
    IF call[p] \in {"Commit", "Rollback"} /\ hooked[cur[p]] /\ attached # None
    THEN UndoAttached(p)
    ELSE Return(p)

(* Content v is put back.  The memory engine undoes changes first to last,  *)
(* so that several changes of one key or store may leave other content.     *)
Restore(v) ==
    /\ live' \in Val
    /\ leftover' = (leftover \/ live' # v)

(* Variant: Rollback ends the transaction and undoes nothing.               *)
EngineRollbackNothing(t) ==
    /\ terminated' = terminated \cup {t}
    /\ UNCHANGED <<live, leftover>>

(* Rollback of an engine transaction t that is not over: undo every change. *)
EngineRollback(t) ==
    /\ terminated' = terminated \cup {t}
    /\ IF writable[t] THEN Restore(before[t]) ELSE UNCHANGED <<live, leftover>>

(* Transaction.Commit up to the hooks.  The engine fails when the           *)
(* transaction is over, when it is read-only, and when its context is done; *)
(* in the last case it rolls back first.                                    *)
Commit(p) ==
    LET t == cur[p] IN
    /\ pc[p] = "end"
    /\ call[p] = "Commit"
    /\ \/ /\ t \in terminated \/ ~writable[t]
          /\ Fail(p)
          /\ UNCHANGED <<terminated, live, committed, leftover>>
       \/ /\ t \notin terminated /\ writable[t] /\ t \in cancelled
          /\ EngineRollback(t)
          /\ Fail(p)
          /\ UNCHANGED committed
       \/ /\ t \notin terminated /\ writable[t] /\ t \notin cancelled
          /\ terminated' = terminated \cup {t}
          /\ committed' = live
          /\ Goto(p, "hooks")
          /\ UNCHANGED <<call, cur, shared, live, leftover>>
    /\ UNCHANGED <<txVars, cancelled, attached, closed, before, seen, mutexVars>>

(* Variant: the engine does not report a transaction that is already over.  *)
RollbackTwice(p) ==
    LET t == cur[p] IN
    /\ pc[p] = "end"
    /\ call[p] \in {"Rollback", "Undo", "Close"}
    /\ EngineRollback(t)
    /\ IF t \in cancelled
       THEN Fail(p)
       ELSE Goto(p, "hooks") /\ UNCHANGED <<call, cur, shared>>
    /\ UNCHANGED <<txVars, cancelled, attached, closed, committed, before, seen, mutexVars>>

(* Transaction.Rollback up to the hooks, called by the user, by Query.Run   *)
(* or by Close.                                                             *)
(* The engine reports a context that is done after having rolled back.      *)
Rollback(p) ==
    LET t == cur[p] IN
    /\ pc[p] = "end"
    /\ call[p] \in {"Rollback", "Undo", "Close"}
    /\ \/ /\ t \in terminated
          /\ Fail(p)
          /\ UNCHANGED <<terminated, live, leftover>>
       \/ /\ t \notin terminated
          /\ EngineRollback(t)
          /\ IF t \in cancelled
             THEN Fail(p)
             ELSE Goto(p, "hooks") /\ UNCHANGED <<call, cur, shared>>
    /\ UNCHANGED <<txVars, cancelled, attached, closed, committed, before, seen, mutexVars>>

(* Variant: releaseAttachedTx was not registered.                           *)
RunHooksKeepAttached(p) ==
    /\ pc[p] = "hooks"
    /\ Goto(p, "unlock")
    /\ UNCHANGED <<call, cur, txVars, terminated, cancelled, attached, closed, dataVars, shared, mutexVars>>

(* OnCommitHooks and OnRollbackHooks: releaseAttachedTx.                    *)
RunHooks(p) ==
    /\ pc[p] = "hooks"
    /\ attached' = IF hooked[cur[p]] THEN None ELSE attached
    /\ Goto(p, "unlock")
    /\ UNCHANGED <<call, cur, txVars, terminated, cancelled, closed, dataVars, shared, mutexVars>>

(* Variant: a read-only transaction does not release DBMu.                  *)
UnlockDBMuWriterOnly(p) ==
    LET t == cur[p] IN
    /\ pc[p] = "unlock"
    /\ st' = [st EXCEPT ![t] = "ended"]
    /\ IF writable[t] THEN txmu!Unlock ELSE UNCHANGED mutexVars
    /\ Return(p)
    /\ UNCHANGED <<writable, hooked, terminated, cancelled, attached, closed, dataVars>>

(* The deferred release of DBMu.                                            *)
UnlockDBMu(p) ==
    LET t == cur[p] IN
    /\ pc[p] = "unlock"
    /\ st' = [st EXCEPT ![t] = "ended"]
    /\ IF writable[t] THEN txmu!Unlock ELSE txmu!RUnlock(t)
    /\ Return(p)
    /\ UNCHANGED <<writable, hooked, terminated, cancelled, attached, closed, dataVars>>

-----------------------------------------------------------------------------
(* Database.Close: roll back the attached transaction, then take txmu for   *)
(* writing and close the engine.                                            *)
Close(p) ==
    /\ MayClose
    /\ pc[p] = "idle"
    /\ call' = [call EXCEPT ![p] = "Close"]
    /\ IF attached = None
       THEN Goto(p, "close") /\ UNCHANGED <<cur, shared>>
       ELSE Goto(p, "end") /\ PickUpAttached(p)
    /\ UNCHANGED <<txVars, terminated, cancelled, attached, closed, dataVars, mutexVars>>

CloseLock(p, t) ==
    /\ pc[p] = "close"
    /\ st[t] = "unused"
    /\ st' = [st EXCEPT ![t] = "begin"]
    /\ writable' = [writable EXCEPT ![t] = TRUE]
    /\ cur' = [cur EXCEPT ![p] = t]
    /\ Goto(p, "queue")
    /\ UNCHANGED <<call, hooked, terminated, cancelled, attached, closed, dataVars, shared, mutexVars>>

(* Variant: Close does not wait for txmu.                                   *)
CloseLockedEarly(p) ==
    /\ pc[p] = "lock"
    /\ call[p] = "Close"
    /\ closed' = TRUE
    /\ st' = [st EXCEPT ![cur[p]] = "ended"]
    /\ cur' = [cur EXCEPT ![p] = None]
    /\ Goto(p, "idle")
    /\ UNCHANGED <<call, writable, hooked, terminated, cancelled, attached, dataVars, shared, mutexVars>>

(* The sequences are released and the engine is closed with txmu held for   *)
(* writing.  Release, Commit or the engine's Close may fail, and beginTx    *)
(* does when the engine was closed before: then the transaction, if any, is *)
(* rolled back and the engine stays as it was.                              *)
CloseLocked(p) ==
    /\ pc[p] = "lock"
    /\ call[p] = "Close"
    /\ txmu!Holds(cur[p])
    /\ \/ closed' = TRUE /\ UNCHANGED <<live, leftover>>
       \/ closed' = closed /\ ~closed /\ Restore(live)
    /\ st' = [st EXCEPT ![cur[p]] = "ended"]
    /\ txmu!Unlock
    /\ cur' = [cur EXCEPT ![p] = None]
    /\ Goto(p, "idle")
    /\ UNCHANGED <<call, writable, hooked, terminated, cancelled, attached, shared,
                   committed, before, seen>>

-----------------------------------------------------------------------------
(* The steps of the code: once called, a method goes on.                    *)
CodeStep(p) ==
    \/ BeginTxLocked(p)
    \/ Commit(p)
    \/ Rollback(p)
    \/ RunHooks(p)
    \/ UnlockDBMu(p)
    \/ \E t \in Tx : CloseLock(p, t)
    \/ CloseLocked(p)

(* The steps of the callers.                                                *)
Caller(p) ==
    \/ \E t \in Tx, o \in Options : BeginTx(p, t, o)
    \/ GetAttachedTx(p)
    \/ LeaveAttachedTx(p)
    \/ \E v \in Val : Put(p, v)
    \/ Get(p)
    \/ \E m \in {"Commit", "Rollback"} : Finish(p, m)
    \/ Close(p)

(* No method is being executed and no transaction is left to begin.         *)
Quiet ==
    /\ \A p \in Proc : pc[p] = "idle"
    /\ UNCHANGED vars

Next ==
    \/ \E p \in Proc : CodeStep(p) \/ Lock(p) \/ Caller(p)
    \/ \E t \in Tx : CtxDone(t)
    \/ Quiet

Spec == Init /\ [][Next]_vars

(* A goroutine inside a method is scheduled; the writer mutex inside        *)
(* sync.RWMutex is handed over in order, so a writer that keeps competing   *)
(* for it gets it.                                                          *)
CodeFairness == \A p \in Proc : WF_vars(CodeStep(p)) /\ SF_vars(Lock(p))

(* Callers do what DB.Begin asks of them: they close what they open.        *)
CallerFairness == \A p \in Proc : WF_vars(\E m \in {"Commit", "Rollback"} : Finish(p, m))

-----------------------------------------------------------------------------
(* The types of the variables.                                              *)
TypeOK ==
    /\ pc \in [Proc -> Locations]
    /\ call \in [Proc -> Methods]
    /\ cur \in [Proc -> Tx \cup {None}]
    /\ st \in [Tx -> {"unused", "begin", "open", "failed", "ended"}]
    /\ writable \in [Tx -> BOOLEAN]
    /\ hooked \in [Tx -> BOOLEAN]
    /\ terminated \subseteq Tx
    /\ cancelled \subseteq Tx
    /\ attached \in Tx \cup {None}
    /\ {closed, shared, leftover} \subseteq BOOLEAN
    /\ live \in Val
    /\ committed \in Val
    /\ before \in [Tx -> Val]
    /\ seen \in [Tx -> SUBSET Val]
    /\ writer \in Tx \cup {None}
    /\ readers \subseteq Tx
    /\ rwait \subseteq Tx

Open(t) == st[t] = "open"

(* Callers hand the attached transaction over between goroutines; the       *)
(* properties below are about databases where no two goroutines have used   *)
(* it at the same time (~shared).                                           *)

(* ARCHITECTURE.md: "no concurrent writes (serialized)", one writer or many *)
(* readers.  While a writable transaction is open, no other transaction is, *)
(* whatever the order in which BeginTx, Commit, Rollback and Close          *)
(* interleave and whichever of them fail.                                   *)
WriterExclusive ==
    ~shared => \A t, u \in Tx : Open(t) /\ Open(u) /\ writable[t] => t = u

(* Transaction.Commit and Rollback release DBMu only on behalf of a         *)
(* transaction that holds it, once: "Can be used safely after commit"       *)
(* (transaction.go:26).  Go panics on the release of a free RWMutex.        *)
NoStrayUnlock ==
    ~shared => \A p \in Proc : pc[p] = "unlock" =>
        /\ txmu!Holds(cur[p])
        /\ \A q \in Proc \ {p} : pc[q] = "unlock" => cur[q] # cur[p]

(* What a read-only transaction reads through the engine is the content at  *)
(* its begin, however often it reads and whoever begins, commits and rolls  *)
(* back meanwhile: the memory engine keeps no versions and leaves this to   *)
(* txmu.                                                                    *)
SnapshotReads ==
    ~shared => \A t \in Tx : seen[t] \subseteq {before[t]}

(* That content is the one of the last commit, as long as the engine's      *)
(* rollbacks put the earlier content back: no transaction begins on the     *)
(* uncommitted changes of one that is open, failed or was cancelled.        *)
BeginsOnCommitted ==
    ~shared /\ ~leftover =>
        \A t \in Tx : Open(t) /\ t \notin terminated =>
            /\ before[t] = committed
            /\ ~writable[t] => live = committed

(* The transaction Database.attachedTransaction points to is open and holds *)
(* txmu, so that no goroutine can pick up a transaction another one has     *)
(* already released: the hooks run before DBMu is released.                 *)
AttachedHoldsLock ==
    ~shared /\ attached # None => Open(attached) /\ txmu!Holds(attached)

(* engine.go:37: the engine is closed "after ensuring all the transactions  *)
(* have completed".                                                         *)
ClosedAfterAll == ~shared /\ closed => \A t \in Tx : ~Open(t)

(* A goroutine that calls BeginTx gets its answer, whoever else competes    *)
(* for txmu (database_test.go, TestConcurrentTransactionManagement).        *)
BeginReturns ==
    \A p \in Proc : pc[p] \in {"queue", "lock"} ~> pc[p] \notin {"queue", "lock"}

-----------------------------------------------------------------------------
(* db.go:48: "The returned transaction must be closed either by calling     *)
(* Rollback or Commit."  Whoever holds txmu is a BeginTx that has not       *)
(* answered or a transaction its caller still has to close: neither a       *)
(* BeginTx that failed nor a transaction whose Commit or Rollback has ended *)
(* the engine transaction keeps the lock.                                   *)
LockHasOwner ==
    \A t \in Tx : txmu!Holds(t) =>
        \/ st[t] = "begin"
        \/ Open(t) /\ (t \in terminated => \E p \in Proc : cur[p] = t)
=============================================================================
