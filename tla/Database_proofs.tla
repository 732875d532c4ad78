-------------------------- MODULE Database_proofs --------------------------
(***************************************************************************)
(* Proofs of the safety properties of Database, for any goroutines, any     *)
(* number of transactions, any content, with cancellation and Close, and    *)
(* whatever the rollbacks of the engine leave behind, until two goroutines  *)
(* share a transaction.                                                     *)
(***************************************************************************)
EXTENDS Database, TLAPS

(* The mutex and the transactions agree.                                    *)
MutexInv ==
    /\ \A t \in readers : ~writable[t] /\ st[t] \in {"begin", "open", "failed"}
    /\ \A t \in rwait : ~writable[t] /\ st[t] = "begin" /\ t \notin readers
    /\ writer # None => writable[writer] /\ st[writer] \in {"begin", "open", "failed"}
    /\ writer = None => rwait = {}
    /\ \A t \in Tx : st[t] \in {"open", "failed"} => txmu!Holds(t)

(* A goroutine is where the state of its transaction allows.                *)
UserAt(p) ==
    /\ pc[p] \in {"idle", "close"} <=> cur[p] = None
    /\ pc[p] \in {"queue", "lock"} => st[cur[p]] = "begin"
    /\ pc[p] = "queue" => writable[cur[p]] /\ writer # cur[p]
    /\ pc[p] = "lock" /\ call[p] = "Close" => writable[cur[p]]
    /\ pc[p] = "work" => st[cur[p]] = "open"
    /\ pc[p] = "end" =>
          st[cur[p]] = "open" \/ (st[cur[p]] = "ended" /\ cur[p] \in terminated)
    /\ pc[p] \in {"hooks", "unlock"} =>
          st[cur[p]] = "open" /\ cur[p] \in terminated
    /\ pc[p] = "unlock" => attached # cur[p]

(* No two goroutines use one transaction.                                   *)
UserInv ==
    /\ \A p \in Proc : UserAt(p)
    /\ \A p, q \in Proc : cur[p] = cur[q] /\ cur[p] # None => p = q

(* What is attached is open; what has ended in the engine is either being   *)
(* released or was cancelled.                                               *)
EndInv ==
    /\ attached # None => Open(attached) /\ hooked[attached]
    /\ \A t \in terminated : st[t] \in {"open", "ended"}
    /\ \A t \in Tx : Open(t) /\ t \in terminated =>
          t \in cancelled \/ \E p \in Proc : cur[p] = t /\ pc[p] \in {"hooks", "unlock"}
    /\ closed => \A t \in Tx : ~Open(t)

(* No content changes under an open reader.  While rollbacks put the        *)
(* earlier content back, uncommitted content belongs to an open writer.     *)
DataInv ==
    /\ \A t \in Tx : Open(t) /\ t \notin terminated /\ ~writable[t] => before[t] = live
    /\ ~leftover =>
          /\ live # committed => \E t \in Tx : Open(t) /\ writable[t] /\ t \notin terminated
          /\ \A t \in Tx : Open(t) /\ t \notin terminated => before[t] = committed
    /\ \A t \in Tx : st[t] \in {"unused", "begin"} => seen[t] = {}
    /\ \A t \in Tx : seen[t] \subseteq {before[t]}

IInv == TypeOK /\ MutexInv /\ UserInv /\ EndInv /\ DataInv

-----------------------------------------------------------------------------
(* Two transactions that hold the mutex, one of them for writing, are one.  *)
LEMMA HoldsExclusive ==
    ASSUME TypeOK, MutexInv,
           NEW t \in Tx, NEW u \in Tx,
           txmu!Holds(t), txmu!Holds(u), writable[t]
    PROVE  t = u
  BY Zenon, DatabaseAssumptions DEF TypeOK, MutexInv, txmu!Holds

(* A goroutine that does not move stays where its transaction allows, when   *)
(* the step leaves what UserAt says of that transaction alone.               *)
LEMMA OtherAt ==
    ASSUME NEW q \in Proc, UserAt(q),
           pc'[q] = pc[q], cur'[q] = cur[q], call'[q] = call[q],
           cur[q] # None => /\ st'[cur[q]] = st[cur[q]]
                            /\ writable'[cur[q]] = writable[cur[q]]
                            /\ writer' = writer \/ writer' # cur[q]
                            /\ cur[q] \in terminated => cur[q] \in terminated'
                            /\ attached' = attached \/ attached' # cur[q]
    PROVE  UserAt(q)'
  <1>1. CASE cur[q] = None
    BY Zenon, <1>1 DEF UserAt
  <1>2. CASE cur[q] # None
    BY Zenon, <1>2 DEF UserAt
  <1> QED
    BY Zenon, <1>1, <1>2

(* A goroutine inside a method has a transaction.                           *)
LEMMA BusyHasTx ==
    ASSUME IInv, NEW p \in Proc, pc[p] \notin {"idle", "close"}
    PROVE  cur[p] \in Tx /\ cur[p] # None
  <1>1. cur[p] \in Tx \cup {None} /\ UserAt(p)
    BY Zenon DEF IInv, TypeOK, UserInv
  <1> QED
    BY Zenon, <1>1, DatabaseAssumptions DEF UserAt

(* A transaction that is being committed or rolled back is open, or over    *)
(* and released.                                                            *)
LEMMA EndAt ==
    ASSUME IInv, NEW p \in Proc, pc[p] = "end"
    PROVE  st[cur[p]] = "open" \/ (st[cur[p]] = "ended" /\ cur[p] \in terminated)
  <1>1. UserAt(p)
    BY Zenon DEF IInv, UserInv
  <1> QED
    BY Zenon, <1>1 DEF UserAt

(* One goroutine keeps its transaction, lets go of it or takes one that      *)
(* nobody uses: still no two goroutines use one transaction.                 *)
LEMMA UniqueKept ==
    ASSUME UserInv, NEW p \in Proc,
           \A q \in Proc : UserAt(q)',
           \A q \in Proc \ {p} : cur'[q] = cur[q],
           cur'[p] = None \/ cur'[p] = cur[p] \/ \A q \in Proc \ {p} : cur[q] # cur'[p]
    PROVE  UserInv'
  <1>1. ASSUME NEW q \in Proc, NEW r \in Proc, cur'[q] = cur'[r], cur'[q] # None
        PROVE  q = r
    BY Zenon, <1>1 DEF UserInv
  <1> QED
    BY Zenon, <1>1 DEF UserInv

(* A step that only moves one goroutine.                                    *)
LEMMA MoveUserInv ==
    ASSUME UserInv, NEW p \in Proc, UserAt(p)',
           UNCHANGED <<st, writable, terminated, attached, writer>>,
           \A q \in Proc : q # p =>
               pc'[q] = pc[q] /\ cur'[q] = cur[q] /\ call'[q] = call[q],
           cur'[p] = None \/ cur'[p] = cur[p] \/ \A q \in Proc \ {p} : cur[q] # cur'[p]
    PROVE  UserInv'
  <1>1. ASSUME NEW q \in Proc, q # p PROVE UserAt(q)'
    <2>1. UserAt(q)
      BY Zenon DEF UserInv
    <2> QED
      BY Zenon, <1>1, <2>1, OtherAt
  <1> QED
    BY Zenon, <1>1, UniqueKept

(* The initial state satisfies the invariant.                               *)
LEMMA InitIInv == Init => IInv
  <1> SUFFICES ASSUME Init PROVE IInv
    BY Zenon
  <1> USE DatabaseAssumptions DEF Init, txmu!MutexInit
  <1>1. TypeOK
    BY Zenon DEF TypeOK, Locations, Methods
  <1>2. MutexInv
    BY Zenon DEF MutexInv, txmu!Holds
  <1>3. UserInv
    BY Zenon DEF UserInv, UserAt
  <1>4. EndInv
    BY Zenon DEF EndInv, Open
  <1>5. DataInv
    BY Zenon DEF DataInv
  <1> QED
    BY Zenon, <1>1, <1>2, <1>3, <1>4, <1>5 DEF IInv

(* BeginTx takes a fresh transaction, which nobody holds or uses.           *)
LEMMA BeginTxIInv ==
    ASSUME IInv, NEW p \in Proc, NEW t \in Tx, NEW o \in Options, BeginTx(p, t, o)
    PROVE  IInv'
  <1> USE DatabaseAssumptions DEF IInv, BeginTx, Goto, txmu!RLock, dataVars, mutexVars
  <1>0. o.readOnly \in BOOLEAN /\ o.attached \in BOOLEAN /\ t # None
    BY Zenon
  <1>1. TypeOK'
    BY <1>0 DEF TypeOK, Locations, Methods
  <1>2. t \notin readers /\ t \notin rwait /\ t # writer /\ (\A q \in Proc : cur[q] # t)
    BY <1>0 DEF TypeOK, MutexInv, UserInv, UserAt, Locations
  <1>3. MutexInv'
    <2>1. CASE ~o.readOnly
      BY <1>0, <1>2, <2>1 DEF TypeOK, MutexInv, txmu!Holds
    <2>2. CASE o.readOnly
      <3>1. writable' = [writable EXCEPT ![t] = FALSE]
        BY Zenon, <1>0, <2>2
      <3>2. CASE writer = None
        BY <1>0, <1>2, <2>2, <3>1, <3>2 DEF TypeOK, MutexInv, txmu!Holds
      <3>3. CASE writer # None
        BY <1>0, <1>2, <2>2, <3>1, <3>3 DEF TypeOK, MutexInv, txmu!Holds
      <3> QED
        BY Zenon, <3>2, <3>3
    <2> QED
      BY Zenon, <1>0, <2>1, <2>2
  <1>6. UserInv'
    <2>1. UserAt(p)'
      <3>1. pc'[p] \in {"queue", "lock"} /\ cur'[p] = t /\ st'[t] = "begin" /\ call'[p] = "Begin"
        BY Zenon DEF TypeOK
      <3>2. pc'[p] = "queue" => writable'[t] /\ writer' # t
        BY Zenon, <1>0, <1>2 DEF TypeOK
      <3> HIDE DEF IInv, BeginTx, Goto, txmu!RLock, dataVars, mutexVars
      <3> QED
        BY Zenon, <1>0, <3>1, <3>2 DEF UserAt
    <2>2. ASSUME NEW q \in Proc, q # p PROVE UserAt(q)'
      BY <1>0, <1>2, <2>2 DEF TypeOK, UserInv, UserAt
    <2> QED
      BY Zenon, <1>2, <2>1, <2>2 DEF TypeOK, UserInv
  <1>4. EndInv'
    BY <1>0 DEF TypeOK, EndInv, UserInv, UserAt, Open
  <1>5. DataInv'
    BY Zenon, <1>0 DEF TypeOK, DataInv, Open
  <1> QED
    BY Zenon, <1>1, <1>3, <1>4, <1>5, <1>6

(* A writer announces itself; those that hold the mutex are all readers.    *)
LEMMA LockIInv ==
    ASSUME IInv, NEW p \in Proc, Lock(p)
    PROVE  IInv'
  <1> USE DatabaseAssumptions DEF IInv, Lock, Goto, txmu!LockAnnounce, dataVars, mutexVars, txVars
  <1>0. cur[p] \in Tx /\ cur[p] # None /\ st[cur[p]] = "begin" /\ writable[cur[p]]
    BY DEF TypeOK, UserInv, UserAt, Locations
  <1>1. TypeOK'
    BY Zenon, <1>0 DEF TypeOK, Locations, Methods
  <1>2. MutexInv'
    BY Zenon, <1>0 DEF TypeOK, MutexInv, txmu!Holds
  <1>3. UserInv'
    <2>1. UserAt(p)'
      BY <1>0 DEF TypeOK, UserInv, UserAt, EndInv, Open
    <2>2. ASSUME NEW q \in Proc, q # p PROVE UserAt(q)'
      BY <1>0, <2>2 DEF TypeOK, UserInv, UserAt, EndInv
    <2> QED
      BY <1>0, <2>1, <2>2 DEF TypeOK, UserInv, UserAt
  <1>4. EndInv'
    BY <1>0 DEF TypeOK, EndInv, UserInv, UserAt, Open
  <1>5. DataInv'
    BY Zenon, <1>0 DEF TypeOK, DataInv, UserInv, UserAt, Open
  <1> QED
    BY Zenon, <1>1, <1>2, <1>3, <1>4, <1>5

(* A goroutine takes the attached transaction over.                         *)
LEMMA GetAttachedTxIInv ==
    ASSUME IInv, NEW p \in Proc, GetAttachedTx(p), ~shared'
    PROVE  IInv'
  <1> USE DatabaseAssumptions DEF IInv, GetAttachedTx, PickUpAttached, Goto, dataVars, mutexVars, txVars
  <1>0. attached \in Tx /\ attached # None /\ Open(attached) /\ cur[p] = None
    BY Zenon DEF TypeOK, EndInv, UserInv, UserAt
  <1>1. TypeOK'
    BY Zenon, <1>0 DEF TypeOK, Locations, Methods
  <1>2. MutexInv'
    BY Zenon, <1>0 DEF TypeOK, MutexInv, txmu!Holds
  <1>3. UserInv'
    <2>1. UserAt(p)'
      BY <1>0 DEF TypeOK, UserInv, UserAt, EndInv, Open
    <2>2. \A q \in Proc : q # p =>
              pc'[q] = pc[q] /\ cur'[q] = cur[q] /\ call'[q] = call[q]
      BY Zenon DEF TypeOK
    <2>3. cur'[p] = None \/ cur'[p] = cur[p] \/ \A q \in Proc \ {p} : cur[q] # cur'[p]
      BY Zenon, <1>0 DEF TypeOK
    <2>4. UserInv /\ UNCHANGED <<st, writable, terminated, attached, writer>>
      BY Zenon
    <2> HIDE DatabaseAssumptions DEF IInv, GetAttachedTx, Goto, dataVars, mutexVars, txVars
    <2> QED
      BY Zenon, <2>1, <2>2, <2>3, <2>4, MoveUserInv
  <1>4. EndInv'
    BY <1>0 DEF TypeOK, EndInv, UserInv, UserAt, Open
  <1>5. DataInv'
    BY Zenon, <1>0 DEF TypeOK, DataInv, UserInv, UserAt, Open
  <1> QED
    BY Zenon, <1>1, <1>2, <1>3, <1>4, <1>5

(* A goroutine lets go of the attached transaction.                         *)
LEMMA LeaveAttachedTxIInv ==
    ASSUME IInv, NEW p \in Proc, LeaveAttachedTx(p)
    PROVE  IInv'
  <1> USE DatabaseAssumptions DEF IInv, LeaveAttachedTx, Goto, dataVars, mutexVars, txVars
  <1>0. cur[p] \in Tx /\ cur[p] # None
    BY Zenon DEF TypeOK, UserInv, UserAt, Locations
  <1>1. TypeOK'
    BY Zenon, <1>0 DEF TypeOK, Locations, Methods
  <1>2. MutexInv'
    BY Zenon, <1>0 DEF TypeOK, MutexInv, txmu!Holds
  <1>3. UserInv'
    <2>1. UserAt(p)'
      BY <1>0 DEF TypeOK, UserInv, UserAt, EndInv, Open
    <2>2. \A q \in Proc : q # p =>
              pc'[q] = pc[q] /\ cur'[q] = cur[q] /\ call'[q] = call[q]
      BY Zenon DEF TypeOK
    <2>3. cur'[p] = None \/ cur'[p] = cur[p] \/ \A q \in Proc \ {p} : cur[q] # cur'[p]
      BY Zenon, <1>0 DEF TypeOK
    <2>4. UserInv /\ UNCHANGED <<st, writable, terminated, attached, writer>>
      BY Zenon
    <2> HIDE DatabaseAssumptions DEF IInv, LeaveAttachedTx, Goto, dataVars, mutexVars, txVars
    <2> QED
      BY Zenon, <2>1, <2>2, <2>3, <2>4, MoveUserInv
  <1>4. EndInv'
    BY <1>0 DEF TypeOK, EndInv, UserInv, UserAt, Open
  <1>5. DataInv'
    BY Zenon, <1>0 DEF TypeOK, DataInv, UserInv, UserAt, Open
  <1> QED
    BY Zenon, <1>1, <1>2, <1>3, <1>4, <1>5

(* A caller decides to commit or to roll back.                              *)
LEMMA FinishIInv ==
    ASSUME IInv, NEW p \in Proc, NEW m \in {"Commit", "Rollback"}, Finish(p, m)
    PROVE  IInv'
  <1> USE DatabaseAssumptions DEF IInv, Finish, Goto, dataVars, mutexVars, txVars
  <1>0. cur[p] \in Tx /\ cur[p] # None
    BY DEF TypeOK, UserInv, UserAt, Locations
  <1>1. TypeOK'
    BY Zenon, <1>0 DEF TypeOK, Locations, Methods
  <1>2. MutexInv'
    BY Zenon, <1>0 DEF TypeOK, MutexInv, txmu!Holds
  <1>3. UserInv'
    <2>1. UserAt(p)'
      BY <1>0 DEF TypeOK, UserInv, UserAt, EndInv, Open
    <2>2. \A q \in Proc : q # p =>
              pc'[q] = pc[q] /\ cur'[q] = cur[q] /\ call'[q] = call[q]
      BY Zenon DEF TypeOK
    <2>3. cur'[p] = None \/ cur'[p] = cur[p] \/ \A q \in Proc \ {p} : cur[q] # cur'[p]
      BY Zenon, <1>0 DEF TypeOK
    <2>4. UserInv /\ UNCHANGED <<st, writable, terminated, attached, writer>>
      BY Zenon
    <2> HIDE DatabaseAssumptions DEF IInv, Finish, Goto, dataVars, mutexVars, txVars
    <2> QED
      BY Zenon, <2>1, <2>2, <2>3, <2>4, MoveUserInv
  <1>4. EndInv'
    BY <1>0 DEF TypeOK, EndInv, UserInv, UserAt, Open
  <1>5. DataInv'
    BY Zenon, <1>0 DEF TypeOK, DataInv, UserInv, UserAt, Open
  <1> QED
    BY Zenon, <1>1, <1>2, <1>3, <1>4, <1>5

(* The hook detaches the transaction that is being released.                *)
LEMMA RunHooksIInv ==
    ASSUME IInv, NEW p \in Proc, RunHooks(p)
    PROVE  IInv'
  <1> USE DatabaseAssumptions DEF IInv, RunHooks, Goto, dataVars, mutexVars, txVars
  <1>0. cur[p] \in Tx /\ cur[p] # None /\ Open(cur[p])
    BY Zenon DEF TypeOK, UserInv, UserAt, Locations, Open
  <1>1. TypeOK'
    BY Zenon, <1>0 DEF TypeOK, Locations, Methods
  <1>2. MutexInv'
    BY Zenon, <1>0 DEF TypeOK, MutexInv, txmu!Holds
  <1>3. UserInv'
    <2>1. UserAt(p)'
      BY <1>0 DEF TypeOK, UserInv, UserAt, EndInv, Open
    <2>2. ASSUME NEW q \in Proc, q # p PROVE UserAt(q)'
      BY <1>0, <2>2 DEF TypeOK, UserInv, UserAt, EndInv
    <2> QED
      BY <1>0, <2>1, <2>2 DEF TypeOK, UserInv, UserAt
  <1>4. EndInv'
    BY <1>0 DEF TypeOK, EndInv, UserInv, UserAt, Open
  <1>5. DataInv'
    BY Zenon, <1>0 DEF TypeOK, DataInv, UserInv, UserAt, Open
  <1> QED
    BY Zenon, <1>1, <1>2, <1>3, <1>4, <1>5

(* Close picks up the attached transaction, if there is one.                *)
LEMMA CloseIInv ==
    ASSUME IInv, NEW p \in Proc, Close(p), ~shared'
    PROVE  IInv'
  <1> USE DatabaseAssumptions DEF IInv, Close, PickUpAttached, Goto, dataVars, mutexVars, txVars
  <1>0. cur[p] = None /\ (attached # None => attached \in Tx /\ Open(attached))
    BY Zenon DEF TypeOK, UserInv, UserAt, EndInv
  <1>1. TypeOK'
    <2>1. pc' \in [Proc -> Locations] /\ call' \in [Proc -> Methods]
      BY Zenon DEF TypeOK, Locations, Methods
    <2>2. cur' \in [Proc -> Tx \cup {None}] /\ shared' \in BOOLEAN
      BY Zenon, <1>0 DEF TypeOK
    <2> QED
      BY Zenon, <2>1, <2>2 DEF TypeOK
  <1>2. MutexInv'
    BY Zenon, <1>0 DEF TypeOK, MutexInv, txmu!Holds
  <1>3. UserInv'
    <2>1. UserAt(p)'
      BY <1>0 DEF TypeOK, UserInv, UserAt, EndInv, Open
    <2>2. \A q \in Proc : q # p =>
              pc'[q] = pc[q] /\ cur'[q] = cur[q] /\ call'[q] = call[q]
      BY Zenon DEF TypeOK
    <2>3. cur'[p] = None \/ cur'[p] = cur[p] \/ \A q \in Proc \ {p} : cur[q] # cur'[p]
      BY Zenon, <1>0 DEF TypeOK
    <2>4. UserInv /\ UNCHANGED <<st, writable, terminated, attached, writer>>
      BY Zenon
    <2> HIDE DatabaseAssumptions DEF IInv, Close, Goto, dataVars, mutexVars, txVars
    <2> QED
      BY Zenon, <2>1, <2>2, <2>3, <2>4, MoveUserInv
  <1>4. EndInv'
    BY <1>0 DEF TypeOK, EndInv, UserInv, UserAt, Open
  <1>5. DataInv'
    BY Zenon, <1>0 DEF TypeOK, DataInv, UserInv, UserAt, Open
  <1> QED
    BY Zenon, <1>1, <1>2, <1>3, <1>4, <1>5

(* A context is cancelled.                                                  *)
LEMMA CtxDoneIInv ==
    ASSUME IInv, NEW t \in Tx, CtxDone(t)
    PROVE  IInv'
  <1> USE DatabaseAssumptions DEF IInv, CtxDone, dataVars, mutexVars, txVars
  <1>1. TypeOK'
    BY Zenon DEF TypeOK
  <1>2. MutexInv'
    BY Zenon DEF MutexInv, txmu!Holds
  <1>3. UserInv'
    BY Zenon DEF UserInv, UserAt
  <1>4. EndInv'
    BY Zenon DEF EndInv, Open
  <1>5. DataInv'
    BY Zenon DEF DataInv, Open
  <1> QED
    BY Zenon, <1>1, <1>2, <1>3, <1>4, <1>5

(* Close queues up for the mutex with a transaction of its own.             *)
LEMMA CloseLockIInv ==
    ASSUME IInv, NEW p \in Proc, NEW t \in Tx, CloseLock(p, t)
    PROVE  IInv'
  <1> USE DatabaseAssumptions DEF IInv, CloseLock, Goto, dataVars, mutexVars, txVars
  <1>0. t # None /\ cur[p] = None /\ t \notin readers /\ t \notin rwait /\ t # writer
        /\ \A q \in Proc : cur[q] # t
    BY DEF TypeOK, MutexInv, UserInv, UserAt, Locations
  <1>1. TypeOK'
    BY Zenon, <1>0 DEF TypeOK, Locations, Methods
  <1>2. MutexInv'
    BY Zenon, <1>0 DEF TypeOK, MutexInv, txmu!Holds
  <1>3. UserInv'
    <2>1. UserAt(p)'
      BY <1>0 DEF TypeOK, UserInv, UserAt, EndInv, Open
    <2>2. UserInv /\ cur' = [cur EXCEPT ![p] = t] /\ pc' = [pc EXCEPT ![p] = "queue"]
          /\ call' = call /\ st' = [st EXCEPT ![t] = "begin"]
          /\ writable' = [writable EXCEPT ![t] = TRUE] /\ writer' = writer
          /\ terminated' = terminated /\ attached' = attached
      BY Zenon
    <2>3. cur \in [Proc -> Tx \cup {None}] /\ DOMAIN pc = Proc
          /\ DOMAIN st = Tx /\ DOMAIN writable = Tx
      BY Zenon DEF TypeOK
    <2> HIDE DatabaseAssumptions DEF IInv, CloseLock, Goto, dataVars, mutexVars, txVars
    <2>4. ASSUME NEW q \in Proc, q # p PROVE UserAt(q)'
      <3>1. UserAt(q) /\ pc'[q] = pc[q] /\ cur'[q] = cur[q] /\ call'[q] = call[q]
        BY Zenon, <2>2, <2>3, <2>4 DEF UserInv
      <3>2. cur[q] # None => cur[q] \in Tx \ {t}
        BY Zenon, <1>0, <2>3
      <3> QED
        BY Zenon, <2>2, <2>3, <3>1, <3>2, OtherAt
    <2> QED
      BY Zenon, <1>0, <2>1, <2>2, <2>3, <2>4, UniqueKept
  <1>4. EndInv'
    BY <1>0 DEF TypeOK, EndInv, UserInv, UserAt, Open
  <1>5. DataInv'
    BY <1>0 DEF TypeOK, DataInv, UserInv, UserAt, Open
  <1> QED
    BY Zenon, <1>1, <1>2, <1>3, <1>4, <1>5

(* A user of a transaction that is not cancelled works before its end.      *)
LEMMA WorkingIsLive ==
    ASSUME IInv, NEW p \in Proc, pc[p] = "work", cur[p] \notin cancelled
    PROVE  cur[p] \in Tx /\ Open(cur[p]) /\ cur[p] \notin terminated
  <1>1. cur[p] \in Tx /\ Open(cur[p])
    BY DEF IInv, TypeOK, UserInv, UserAt, Open
  <1>2. \A q \in Proc : cur[q] = cur[p] => q = p
    BY Zenon, <1>1, DatabaseAssumptions DEF IInv, UserInv
  <1> QED
    BY Zenon, <1>1, <1>2 DEF IInv, EndInv

(* Nobody else is open beside an open writer.                               *)
LEMMA OpenExclusive ==
    ASSUME IInv, NEW t \in Tx, NEW u \in Tx, Open(t), Open(u), writable[t]
    PROVE  t = u
  BY Zenon, HoldsExclusive DEF IInv, MutexInv, Open

(* Only the open writer changes the content.                                *)
LEMMA PutIInv ==
    ASSUME IInv, NEW p \in Proc, NEW v \in Val, Put(p, v)
    PROVE  IInv'
  <1> USE DatabaseAssumptions DEF IInv, Put, dataVars, mutexVars, txVars
  <1>0. cur[p] \in Tx /\ Open(cur[p]) /\ cur[p] \notin terminated
    BY Zenon, WorkingIsLive
  <1>1. TypeOK'
    BY Zenon, <1>0 DEF TypeOK
  <1>2. MutexInv'
    BY Zenon DEF MutexInv, txmu!Holds
  <1>3. UserInv'
    BY Zenon DEF UserInv, UserAt
  <1>4. EndInv'
    BY Zenon DEF EndInv, Open
  <1>5. DataInv'
    <2>1. \A u \in Tx : Open(u) => writable[u]
      BY Zenon, <1>0, OpenExclusive
    <2>2. DataInv /\ UNCHANGED <<st, writable, terminated, committed, before, seen, leftover>>
          /\ writable[cur[p]]
      BY Zenon
    <2> HIDE DatabaseAssumptions DEF IInv, Put, dataVars, mutexVars, txVars
    <2> QED
      BY Zenon, <1>0, <2>1, <2>2 DEF DataInv, Open
  <1> QED
    BY Zenon, <1>1, <1>2, <1>3, <1>4, <1>5

(* A reader reads the content it began on: no writer is open beside it.      *)
LEMMA GetIInv ==
    ASSUME IInv, NEW p \in Proc, Get(p)
    PROVE  IInv'
  <1> USE DatabaseAssumptions DEF IInv, Get, dataVars, mutexVars, txVars
  <1>0. cur[p] \in Tx /\ Open(cur[p]) /\ cur[p] \notin terminated
    BY Zenon, WorkingIsLive
  <1>1. TypeOK'
    BY Zenon, <1>0 DEF TypeOK
  <1>2. MutexInv'
    BY Zenon DEF MutexInv, txmu!Holds
  <1>3. UserInv'
    BY Zenon DEF UserInv, UserAt
  <1>4. EndInv'
    BY Zenon DEF EndInv, Open
  <1>5. DataInv'
    <2>1. before[cur[p]] = live
      BY Zenon, <1>0 DEF DataInv
    <2> QED
      BY Zenon, <1>0, <2>1 DEF TypeOK, DataInv, Open
  <1> QED
    BY Zenon, <1>1, <1>2, <1>3, <1>4, <1>5

(* The mutex is held: the content is committed when the engine begins.      *)
LEMMA BeginTxLockedIInv ==
    ASSUME IInv, NEW p \in Proc, BeginTxLocked(p), ~shared'
    PROVE  IInv'
  <1> USE DatabaseAssumptions DEF IInv, BeginTxLocked, UndoAttached, PickUpAttached, LetGo, Goto,
         dataVars, mutexVars, txVars
  <1> DEFINE t == cur[p]
  <1>0. t \in Tx /\ t # None /\ st[t] = "begin" /\ txmu!Holds(t)
    BY DEF TypeOK, UserInv, UserAt, Locations
  <1>1. TypeOK'
    BY <1>0 DEF TypeOK, Locations, Methods
  <1>2. MutexInv'
    BY <1>0 DEF TypeOK, MutexInv, txmu!Holds
  <1>3. UserInv'
    <2>1. UserInv /\ writable' = writable /\ writer' = writer
          /\ terminated' = terminated
      BY Zenon
    <2>2. \/ /\ pc' = [pc EXCEPT ![p] = "idle"]
             /\ cur' = [cur EXCEPT ![p] = None]
          \/ /\ pc' = [pc EXCEPT ![p] = "work"]
             /\ cur' = [cur EXCEPT ![p] = t]
             /\ st' = [st EXCEPT ![t] = "open"]
          \/ /\ pc' = [pc EXCEPT ![p] = "end"]
             /\ cur' = [cur EXCEPT ![p] = attached]
             /\ attached # None /\ st'[attached] = "open"
             /\ \A q \in Proc \ {p} : cur[q] # attached
      BY Zenon, <1>0 DEF TypeOK, EndInv, Open
    <2>c. \A q \in Proc : q # p => call'[q] = call[q]
      BY Zenon DEF TypeOK
    <2>3. (attached' = attached \/ attached' \in {t, None})
          /\ \E s \in {"failed", "open"} : st' = [st EXCEPT ![t] = s]
      BY Zenon, <1>0
    <2>4. cur \in [Proc -> Tx \cup {None}] /\ DOMAIN pc = Proc /\ DOMAIN st = Tx
      BY Zenon DEF TypeOK
    <2> HIDE DatabaseAssumptions DEF IInv, BeginTxLocked, UndoAttached, PickUpAttached, LetGo,
             Goto, dataVars, mutexVars, txVars
    <2>5. UserAt(p)'
      BY Zenon, <1>0, <2>2, <2>4 DEF UserAt
    <2>6. ASSUME NEW q \in Proc, q # p PROVE UserAt(q)'
      <3>1. UserAt(q) /\ pc'[q] = pc[q] /\ cur'[q] = cur[q] /\ call'[q] = call[q]
        BY Zenon, <2>1, <2>2, <2>4, <2>6, <2>c DEF UserInv
      <3>2. cur[q] # None => cur[q] \in Tx \ {t}
        BY Zenon, <1>0, <2>1, <2>4, <2>6 DEF UserInv
      <3>3. cur[q] # None => st'[cur[q]] = st[cur[q]]
        BY Zenon, <2>3, <2>4, <3>2
      <3> QED
        BY Zenon, <2>1, <2>3, <3>1, <3>2, <3>3, OtherAt
    <2>7. /\ \A q \in Proc \ {p} : cur'[q] = cur[q]
          /\ cur'[p] = None \/ cur'[p] = cur[p] \/ \A q \in Proc \ {p} : cur[q] # cur'[p]
      BY Zenon, <2>2, <2>4
    <2> QED
      BY Zenon, <2>1, <2>5, <2>6, <2>7, UniqueKept
  <1>4. EndInv'
    <2>1. t \notin terminated
      BY Zenon, <1>0 DEF EndInv
    <2>2. EndInv /\ pc[p] = "lock" /\ DOMAIN pc = Proc /\ DOMAIN cur = Proc
          /\ DOMAIN st = Tx /\ terminated \subseteq Tx
          /\ UNCHANGED <<hooked, terminated, cancelled, closed>>
      BY Zenon DEF TypeOK
    <2>3. \A q \in Proc : pc[q] \in {"hooks", "unlock"} => pc'[q] = pc[q] /\ cur'[q] = cur[q]
      BY Zenon, <2>2
    <2>4. \A u \in Tx : u # t => st'[u] = st[u]
      BY Zenon, <2>2
    <2>5. (attached' = attached /\ attached # None => attached # t)
      BY Zenon, <1>0 DEF EndInv, Open
    <2>6. \/ st'[t] = "failed" /\ attached' = attached
          \/ st'[t] = "open" /\ ~closed /\ attached' = None
          \/ st'[t] = "open" /\ ~closed /\ attached' = t /\ hooked[t]
      BY Zenon, <1>0, <2>2 DEF EngineBeginFails
    <2> HIDE DatabaseAssumptions DEF IInv, BeginTxLocked, UndoAttached, PickUpAttached, LetGo,
             Goto, dataVars, mutexVars, txVars, t
    <2>b. attached \in Tx \cup {None} /\ None \notin Tx
      BY Zenon, DatabaseAssumptions, <2>2 DEF IInv, TypeOK
    <2>7. (attached # None => Open(attached) /\ hooked[attached])'
      BY Zenon, <1>0, <2>2, <2>4, <2>5, <2>6, <2>b DEF EndInv, Open
    <2>8. (\A u \in terminated : st[u] \in {"open", "ended"})'
      BY Zenon, <2>1, <2>2, <2>4 DEF EndInv
    <2>9. (\A u \in Tx : Open(u) /\ u \in terminated =>
              u \in cancelled \/ \E q \in Proc : cur[q] = u /\ pc[q] \in {"hooks", "unlock"})'
      <3>1. ASSUME NEW u \in Tx, u # t, st[u] = "open", u \in terminated, u \notin cancelled
            PROVE  \E q \in Proc : cur'[q] = u /\ pc'[q] \in {"hooks", "unlock"}
        <4>1. PICK q \in Proc : cur[q] = u /\ pc[q] \in {"hooks", "unlock"}
          BY Zenon, <2>2, <3>1 DEF EndInv, Open
        <4> QED
          BY Zenon, <2>3, <4>1
      <3> QED
        BY <2>1, <2>2, <2>4, <3>1 DEF Open
    <2>a. (closed => \A u \in Tx : ~Open(u))'
      BY <2>2, <2>4, <2>6 DEF EndInv, Open
    <2> QED
      BY Zenon, <2>7, <2>8, <2>9, <2>a DEF EndInv
  <1>5. DataInv'
    <2>1. ASSUME NEW u \in Tx, Open(u) PROVE ~writable[u]
      BY Zenon, <1>0, <2>1, HoldsExclusive DEF MutexInv, Open
    <2>2. ~leftover => live = committed
      BY Zenon, <2>1 DEF DataInv
    <2>3. /\ DataInv /\ UNCHANGED <<terminated, live, committed, leftover, seen, writable>>
          /\ DOMAIN st = Tx /\ DOMAIN before = Tx /\ seen[t] = {}
      BY Zenon, <1>0 DEF TypeOK, DataInv
    <2>4. \/ st' = [st EXCEPT ![t] = "failed"] /\ before' = before
          \/ st' = [st EXCEPT ![t] = "open"] /\ before' = [before EXCEPT ![t] = live]
      BY Zenon
    <2> HIDE DatabaseAssumptions DEF IInv, BeginTxLocked, UndoAttached, PickUpAttached, LetGo,
             Goto, dataVars, mutexVars, txVars, t
    <2> QED
      BY <1>0, <2>1, <2>2, <2>3, <2>4 DEF DataInv, Open
  <1> QED
    BY Zenon, <1>1, <1>2, <1>3, <1>4, <1>5

(* A method that returns goes on to the deferred Rollback or lets go; one   *)
(* that fails may go on to the attached transaction.                        *)
LEMMA ReturnCases ==
    ASSUME NEW p \in Proc, Return(p)
    PROVE  /\ shared' = shared
           /\ \/ /\ pc' = [pc EXCEPT ![p] = "end"]
                 /\ call' = [call EXCEPT ![p] = "Rollback"]
                 /\ cur' = cur
              \/ /\ \E l \in {"idle", "close"} : pc' = [pc EXCEPT ![p] = l]
                 /\ cur' = [cur EXCEPT ![p] = None]
                 /\ call' = call
  BY Zenon DEF Return, LetGo, Goto

(* A method that fails returns, or rolls back the attached transaction.     *)
LEMMA FailCases ==
    ASSUME NEW p \in Proc, Fail(p)
    PROVE  Return(p) \/ (UndoAttached(p) /\ attached # None)
  BY Zenon DEF Fail

(* Nothing changes for the other goroutines.                                *)
LEMMA ReturnOthers ==
    ASSUME TypeOK, NEW p \in Proc, Return(p) \/ Fail(p)
    PROVE  \A q \in Proc : q # p =>
               pc'[q] = pc[q] /\ cur'[q] = cur[q] /\ call'[q] = call[q]
  <1>1. DOMAIN pc = Proc /\ DOMAIN cur = Proc /\ DOMAIN call = Proc
    BY Zenon DEF TypeOK
  <1>2. CASE Return(p)
    BY Zenon, <1>1, <1>2, ReturnCases
  <1>3. CASE UndoAttached(p)
    BY Zenon, <1>1, <1>3 DEF UndoAttached, PickUpAttached, Goto
  <1> QED
    BY Zenon, <1>2, <1>3, FailCases

(* The goroutine that returns from Commit or Rollback satisfies UserAt, and *)
(* so does every other one.                                                 *)
LEMMA ReturnUserInv ==
    ASSUME IInv, NEW p \in Proc, Return(p), pc[p] \in {"end", "unlock"},
           cur[p] \in Tx,
           st'[cur[p]] = "open" \/ (st'[cur[p]] = "ended" /\ cur[p] \in terminated'),
           \A t \in Tx \ {cur[p]} : st'[t] = st[t],
           terminated \subseteq terminated',
           writer' = writer \/ writer' = None,
           UNCHANGED <<writable, attached>>
    PROVE  UserInv'
  <1>0. cur \in [Proc -> Tx \cup {None}] /\ DOMAIN pc = Proc /\ DOMAIN call = Proc
        /\ UserInv /\ None \notin Tx
    BY Zenon, DatabaseAssumptions DEF IInv, TypeOK
  <1>1. UserAt(p)'
    <2>1. CASE pc'[p] = "end" /\ cur'[p] = cur[p]
      BY Zenon, <1>0, <2>1 DEF UserAt
    <2>2. CASE pc'[p] \in {"idle", "close"} /\ cur'[p] = None
      BY Zenon, <2>2 DEF UserAt
    <2> QED
      BY Zenon, <1>0, <2>1, <2>2, ReturnCases
  <1>2. ASSUME NEW q \in Proc, q # p PROVE UserAt(q)'
    <2>1. UserAt(q) /\ pc'[q] = pc[q] /\ cur'[q] = cur[q] /\ call'[q] = call[q]
      BY Zenon, <1>0, <1>2, ReturnCases DEF UserInv
    <2>2. cur[q] # None => cur[q] \in Tx \ {cur[p]}
      BY Zenon, <1>0, <1>2 DEF UserInv
    <2> QED
      BY Zenon, <1>0, <2>1, <2>2, OtherAt
  <1>3. (cur'[p] = None \/ cur'[p] = cur[p]) /\ \A q \in Proc \ {p} : cur'[q] = cur[q]
    BY Zenon, <1>0, ReturnCases
  <1> QED
    BY Zenon, <1>0, <1>1, <1>2, <1>3, UniqueKept

(* The same for a method that fails, as nobody else uses the transaction    *)
(* it goes on to.                                                           *)
LEMMA FailUserInv ==
    ASSUME IInv, NEW p \in Proc, Fail(p), ~shared', pc[p] = "end", cur[p] \in Tx,
           st[cur[p]] = "open" \/ (st[cur[p]] = "ended" /\ cur[p] \in terminated'),
           terminated \subseteq terminated',
           UNCHANGED <<st, writer, writable, attached>>
    PROVE  UserInv'
  <1>1. CASE Return(p)
    BY Zenon, <1>1, ReturnUserInv
  <1>2. CASE UndoAttached(p) /\ attached # None
    <2>0. cur \in [Proc -> Tx \cup {None}] /\ DOMAIN pc = Proc /\ DOMAIN call = Proc
          /\ UserInv /\ None \notin Tx /\ st[attached] = "open"
      BY Zenon, <1>2, DatabaseAssumptions DEF IInv, TypeOK, EndInv, Open
    <2>1. pc'[p] = "end" /\ cur'[p] = attached /\ \A q \in Proc \ {p} : cur[q] # attached
      BY Zenon, <1>2, <2>0 DEF UndoAttached, PickUpAttached, Goto
    <2>2. UserAt(p)'
      BY Zenon, <1>2, <2>0, <2>1 DEF UserAt
    <2>3. \A q \in Proc : q # p => pc'[q] = pc[q] /\ cur'[q] = cur[q] /\ call'[q] = call[q]
      BY Zenon, ReturnOthers DEF IInv
    <2>4. ASSUME NEW q \in Proc, q # p PROVE UserAt(q)'
      <3>1. UserAt(q)
        BY Zenon, <2>0 DEF UserInv
      <3> QED
        BY Zenon, <2>3, <2>4, <3>1, OtherAt
    <2> QED
      BY Zenon, <2>0, <2>1, <2>2, <2>3, <2>4, UniqueKept
  <1> QED
    BY Zenon, <1>1, <1>2, FailCases

(* What a method that returns or fails leaves in the goroutine's variables. *)
LEMMA ReturnType ==
    ASSUME TypeOK, NEW p \in Proc, Return(p) \/ Fail(p)
    PROVE  /\ pc' \in [Proc -> Locations]
           /\ call' \in [Proc -> Methods]
           /\ cur' \in [Proc -> Tx \cup {None}]
           /\ shared' \in BOOLEAN
  <1>1. /\ pc \in [Proc -> Locations]
        /\ call \in [Proc -> Methods]
        /\ cur \in [Proc -> Tx \cup {None}]
        /\ attached \in Tx \cup {None}
        /\ shared \in BOOLEAN
    BY Zenon DEF TypeOK
  <1>2. "end" \in Locations /\ "idle" \in Locations /\ "close" \in Locations
        /\ "Rollback" \in Methods /\ "Undo" \in Methods
    BY Zenon DEF Locations, Methods
  <1>3. CASE Return(p)
    <2>1. pc' \in [Proc -> Locations] /\ cur' \in [Proc -> Tx \cup {None}]
      BY <1>1, <1>2, <1>3, ReturnCases
    <2>2. call' \in [Proc -> Methods] /\ shared' \in BOOLEAN
      BY Zenon, <1>1, <1>2, <1>3, ReturnCases
    <2> QED
      BY <2>1, <2>2
  <1>4. CASE UndoAttached(p)
    BY Zenon, <1>1, <1>2, <1>4 DEF UndoAttached, PickUpAttached, Goto
  <1> QED
    BY Zenon, <1>3, <1>4, FailCases

(* The engine's Rollback leaves some content.                               *)
LEMMA EngineRollbackType ==
    ASSUME TypeOK, NEW t \in Tx, EngineRollback(t)
    PROVE  terminated' \subseteq Tx /\ live' \in Val /\ leftover' \in BOOLEAN
  BY Zenon DEF TypeOK, EngineRollback, Restore

(* A transaction that is over in the engine is about to be released, or its *)
(* context was done.                                                        *)
LEMMA EndKept ==
    ASSUME TypeOK, EndInv, NEW t \in Tx, Open(t),
           terminated' = terminated \cup {t},
           UNCHANGED <<st, hooked, cancelled, attached, closed>>,
           t \in cancelled \/ \E q \in Proc : cur'[q] = t /\ pc'[q] \in {"hooks", "unlock"},
           \A q \in Proc : pc[q] \in {"hooks", "unlock"} => cur'[q] = cur[q] /\ pc'[q] = pc[q]
    PROVE  EndInv'
  <1>1. (attached # None => Open(attached) /\ hooked[attached])'
    BY Zenon DEF EndInv, Open
  <1>2. (\A u \in terminated : st[u] \in {"open", "ended"})'
    BY Zenon DEF EndInv, Open
  <1>3. (\A u \in Tx : Open(u) /\ u \in terminated =>
            u \in cancelled \/ \E q \in Proc : cur[q] = u /\ pc[q] \in {"hooks", "unlock"})'
    <2>1. ASSUME NEW u \in Tx, st[u] = "open", u \in terminated, u \notin cancelled
          PROVE  \E q \in Proc : cur'[q] = u /\ pc'[q] \in {"hooks", "unlock"}
      <3>1. PICK q \in Proc : cur[q] = u /\ pc[q] \in {"hooks", "unlock"}
        BY Zenon, <2>1 DEF EndInv, Open
      <3> QED
        BY Zenon, <3>1
    <2> QED
      BY Zenon, <2>1 DEF Open
  <1>4. (closed => \A u \in Tx : ~Open(u))'
    BY Zenon DEF EndInv, Open
  <1> QED
    BY Zenon, <1>1, <1>2, <1>3, <1>4 DEF EndInv

(* The same when no engine transaction ends in the step.                    *)
LEMMA EndStays ==
    ASSUME EndInv, UNCHANGED <<st, hooked, terminated, cancelled, attached, closed>>,
           \A q \in Proc : pc[q] \in {"hooks", "unlock"} => cur'[q] = cur[q] /\ pc'[q] = pc[q]
    PROVE  EndInv'
  <1>1. (\A u \in Tx : Open(u) /\ u \in terminated =>
            u \in cancelled \/ \E q \in Proc : cur[q] = u /\ pc[q] \in {"hooks", "unlock"})'
    <2>1. ASSUME NEW u \in Tx, st[u] = "open", u \in terminated, u \notin cancelled
          PROVE  \E q \in Proc : cur'[q] = u /\ pc'[q] \in {"hooks", "unlock"}
      <3>1. PICK q \in Proc : cur[q] = u /\ pc[q] \in {"hooks", "unlock"}
        BY Zenon, <2>1 DEF EndInv, Open
      <3> QED
        BY Zenon, <3>1
    <2> QED
      BY Zenon, <2>1 DEF Open
  <1>2. (attached # None => Open(attached) /\ hooked[attached])'
    BY Zenon DEF EndInv, Open
  <1>3. (\A u \in terminated : st[u] \in {"open", "ended"})'
    BY Zenon DEF EndInv
  <1>4. (closed => \A u \in Tx : ~Open(u))'
    BY Zenon DEF EndInv, Open
  <1> QED
    BY Zenon, <1>1, <1>2, <1>3, <1>4 DEF EndInv

(* A writer that releases the mutex lets the waiting readers in.            *)
LEMMA UnlockMutexInv ==
    ASSUME TypeOK, MutexInv, NEW t \in Tx, txmu!Holds(t), writable[t], txmu!Unlock,
           writable' = writable, st' = [st EXCEPT ![t] = "ended"]
    PROVE  MutexInv'
  <1>1. writer = t /\ readers = {} /\ t \notin rwait
    BY Zenon, DatabaseAssumptions DEF TypeOK, MutexInv, txmu!Holds
  <1>2. writer' = None /\ readers' = rwait /\ rwait' = {}
    BY Zenon, <1>1 DEF txmu!Unlock
  <1>3. \A u \in Tx : st'[u] = IF u = t THEN "ended" ELSE st[u]
    BY Zenon DEF TypeOK
  <1>4. \A u \in rwait : u \in Tx /\ ~writable[u] /\ st[u] = "begin"
    BY Zenon DEF TypeOK, MutexInv
  <1>5. \A u \in Tx : st[u] \in {"open", "failed"} => u = t
    BY Zenon, <1>1, DatabaseAssumptions DEF MutexInv, txmu!Holds
  <1>6. \A u \in readers' : ~writable'[u] /\ st'[u] = "begin"
    BY Zenon, <1>1, <1>2, <1>3, <1>4
  <1>7. \A u \in Tx : ~(st'[u] \in {"open", "failed"})
    BY <1>3, <1>5
  <1> QED
    BY Zenon, <1>2, <1>6, <1>7 DEF MutexInv

(* A reader that releases the mutex takes only itself out.                  *)
LEMMA RUnlockMutexInv ==
    ASSUME TypeOK, MutexInv, NEW t \in Tx, Open(t), ~writable[t], txmu!RUnlock(t),
           writable' = writable, st' = [st EXCEPT ![t] = "ended"]
    PROVE  MutexInv'
  <1>1. readers' = readers \ {t} /\ writer' = writer /\ rwait' = rwait
    BY Zenon DEF txmu!RUnlock
  <1>2. \A u \in Tx : st'[u] = IF u = t THEN "ended" ELSE st[u]
    BY Zenon DEF TypeOK
  <1>3. t \notin rwait /\ t # writer /\ readers \subseteq Tx /\ rwait \subseteq Tx
        /\ writer \in Tx \cup {None}
    BY Zenon, DatabaseAssumptions DEF TypeOK, MutexInv, Open
  <1>4. ASSUME NEW u \in Tx, st'[u] \in {"open", "failed"} PROVE txmu!Holds(u)'
    <2>1. u # t
      BY <1>2, <1>4
    <2>2. st[u] \in {"open", "failed"}
      BY Zenon, <1>2, <1>4, <2>1
    <2>3. u \in readers \/ (writer = u /\ readers = {})
      BY Zenon, <2>2 DEF MutexInv, txmu!Holds
    <2> QED
      BY Zenon, <1>1, <2>1, <2>3 DEF txmu!Holds
  <1>5. (\A u \in readers : ~writable[u] /\ st[u] \in {"begin", "open", "failed"})'
    BY Zenon, <1>1, <1>2, <1>3 DEF MutexInv
  <1>6. (\A u \in rwait : ~writable[u] /\ st[u] = "begin" /\ u \notin readers)'
    BY Zenon, <1>1, <1>2, <1>3 DEF MutexInv
  <1>7. (writer # None => writable[writer] /\ st[writer] \in {"begin", "open", "failed"})'
    BY Zenon, <1>1, <1>2, <1>3 DEF MutexInv
  <1>8. (writer = None => rwait = {})'
    BY Zenon, <1>1 DEF MutexInv
  <1> QED
    BY Zenon, <1>4, <1>5, <1>6, <1>7, <1>8 DEF MutexInv

(* The goroutine whose engine transaction has just ended goes on to the     *)
(* hooks.                                                                   *)
LEMMA HooksUserInv ==
    ASSUME IInv, NEW p \in Proc, cur[p] \in Tx, Open(cur[p]), Goto(p, "hooks"),
           terminated' = terminated \cup {cur[p]},
           UNCHANGED <<call, cur, st, writable, attached, writer>>
    PROVE  UserInv'
  <1>0. DOMAIN pc = Proc /\ UserInv /\ None \notin Tx
    BY Zenon, DatabaseAssumptions DEF IInv, TypeOK
  <1>1. UserAt(p)'
    BY Zenon, <1>0 DEF UserAt, Goto, Open
  <1>2. ASSUME NEW q \in Proc, q # p PROVE UserAt(q)'
    <2>1. UserAt(q) /\ pc'[q] = pc[q]
      BY Zenon, <1>0, <1>2 DEF UserInv, Goto
    <2> QED
      BY Zenon, <2>1, OtherAt
  <1> QED
    BY Zenon, <1>0, <1>1, <1>2, UniqueKept

(* The content after the engine's Rollback of an open transaction: nobody   *)
(* else is open beside a writer, and a reader leaves it alone.              *)
LEMMA RolledBackData ==
    ASSUME IInv, NEW t \in Tx, Open(t), t \notin terminated, EngineRollback(t),
           UNCHANGED <<st, writable, committed, before, seen>>
    PROVE  DataInv'
  <1>1. terminated' = terminated \cup {t} /\ DataInv
    BY Zenon DEF EngineRollback, IInv
  <1>2. CASE writable[t]
    <2>1. \A u \in Tx : Open(u) => u = t
      BY Zenon, <1>2, OpenExclusive
    <2>2. ~leftover' => ~leftover /\ live' = before[t]
      BY Zenon, <1>2 DEF EngineRollback, Restore
    <2> QED
      BY Zenon, <1>1, <1>2, <2>1, <2>2 DEF DataInv, Open
  <1>3. CASE ~writable[t]
    <2>1. live' = live /\ leftover' = leftover
      BY Zenon, <1>3 DEF EngineRollback
    <2> QED
      BY Zenon, <1>1, <1>3, <2>1 DEF DataInv, Open
  <1> QED
    BY Zenon, <1>2, <1>3

(* Commit makes the content of the only open writer the committed one.      *)
LEMMA CommitIInv ==
    ASSUME IInv, NEW p \in Proc, Commit(p), ~shared'
    PROVE  IInv'
  <1> USE DatabaseAssumptions DEF IInv, Commit, dataVars, mutexVars, txVars
  <1> DEFINE t == cur[p]
  <1>0. t \in Tx /\ t # None
    BY Zenon, BusyHasTx
  <1>1. CASE (t \in terminated \/ ~writable[t]) /\ Fail(p)
             /\ UNCHANGED <<terminated, live, committed, leftover>>
    <2>1. TypeOK'
      BY Zenon, <1>0, <1>1, ReturnType DEF TypeOK
    <2>2. MutexInv'
      BY Zenon, <1>1 DEF MutexInv, txmu!Holds
    <2>3. UserInv'
      BY Zenon, <1>0, <1>1, FailUserInv, EndAt
    <2>4. EndInv'
      <3>1. \A q \in Proc : q # p => cur'[q] = cur[q] /\ pc'[q] = pc[q]
        BY Zenon, <1>1, ReturnOthers
      <3>2. EndInv /\ pc[p] = "end"
            /\ UNCHANGED <<st, hooked, terminated, cancelled, attached, closed>>
        BY Zenon, <1>1
      <3> HIDE DEF IInv, Commit, Rollback, dataVars, mutexVars, txVars, t
      <3> QED
        BY Zenon, <3>1, <3>2, EndStays
    <2>5. DataInv'
      BY Zenon, <1>1 DEF DataInv, Open
    <2> QED
      BY Zenon, <2>1, <2>2, <2>3, <2>4, <2>5
  <1>2. CASE t \notin terminated /\ writable[t] /\ t \in cancelled
             /\ EngineRollback(t) /\ Fail(p) /\ UNCHANGED committed
    <2>0. Open(t)
      BY Zenon, <1>0, <1>2 DEF UserInv, UserAt, Open
    <2>1. TypeOK'
      BY Zenon, <1>0, <1>2, ReturnType, EngineRollbackType DEF TypeOK
    <2>2. MutexInv'
      BY Zenon, <1>2 DEF MutexInv, txmu!Holds
    <2>3. UserInv'
      BY Zenon, <1>0, <1>2, <2>0, FailUserInv DEF Open, EngineRollback
    <2>4. EndInv'
      <3>1. \A q \in Proc : q # p => cur'[q] = cur[q] /\ pc'[q] = pc[q]
        BY Zenon, <1>2, ReturnOthers
      <3>2. TypeOK /\ EndInv /\ pc[p] = "end" /\ t \in cancelled
            /\ terminated' = terminated \cup {t}
            /\ UNCHANGED <<st, hooked, cancelled, attached, closed>>
        BY Zenon, <1>2 DEF EngineRollback
      <3> HIDE DEF IInv, Commit, dataVars, mutexVars, txVars, t
      <3> QED
        BY Zenon, <1>0, <2>0, <3>1, <3>2, EndKept
    <2>5. DataInv'
      BY Zenon, <1>0, <1>2, <2>0, RolledBackData
    <2> QED
      BY Zenon, <2>1, <2>2, <2>3, <2>4, <2>5
  <1>3. CASE t \notin terminated /\ writable[t] /\ t \notin cancelled
             /\ terminated' = terminated \cup {t} /\ committed' = live
             /\ Goto(p, "hooks") /\ UNCHANGED <<call, cur, shared, live, leftover>>
    <2>0. Open(t) /\ \A u \in Tx : Open(u) => u = t
      BY Zenon, <1>0, <1>3, OpenExclusive DEF UserInv, UserAt, Open
    <2>1. TypeOK'
      BY Zenon, <1>0, <1>3 DEF TypeOK, Locations, Goto
    <2>2. MutexInv'
      BY Zenon, <1>3 DEF MutexInv, txmu!Holds
    <2>3. UserInv'
      BY Zenon, <1>0, <1>3, <2>0, HooksUserInv
    <2>4. EndInv'
      <3>1. TypeOK /\ EndInv /\ pc[p] = "end" /\ terminated' = terminated \cup {t}
            /\ UNCHANGED <<st, hooked, cancelled, attached, closed>>
        BY Zenon, <1>3
      <3>2. cur' = cur /\ cur'[p] = t /\ pc'[p] = "hooks"
            /\ \A q \in Proc : q # p => pc'[q] = pc[q]
        BY Zenon, <1>3, <3>1 DEF TypeOK, Goto
      <3> HIDE DEF IInv, Commit, dataVars, mutexVars, txVars, t
      <3> QED
        BY Zenon, <1>0, <2>0, <3>1, <3>2, EndKept
    <2>5. DataInv'
      BY Zenon, <1>0, <1>3, <2>0 DEF DataInv, Open
    <2> QED
      BY Zenon, <2>1, <2>2, <2>3, <2>4, <2>5
  <1> QED
    BY Zenon, <1>1, <1>2, <1>3

(* Rollback puts the committed content back.                                *)
LEMMA RollbackIInv ==
    ASSUME IInv, NEW p \in Proc, Rollback(p), ~shared'
    PROVE  IInv'
  <1> USE DatabaseAssumptions DEF IInv, Rollback, dataVars, mutexVars, txVars
  <1> DEFINE t == cur[p]
  <1>0. t \in Tx /\ t # None
    BY Zenon, BusyHasTx
  <1>1. CASE t \in terminated /\ Fail(p) /\ UNCHANGED <<terminated, live, leftover>>
    <2>1. TypeOK'
      BY Zenon, <1>0, <1>1, ReturnType DEF TypeOK
    <2>2. MutexInv'
      BY Zenon, <1>1 DEF MutexInv, txmu!Holds
    <2>3. UserInv'
      BY Zenon, <1>0, <1>1, FailUserInv, EndAt
    <2>4. EndInv'
      <3>1. \A q \in Proc : q # p => cur'[q] = cur[q] /\ pc'[q] = pc[q]
        BY Zenon, <1>1, ReturnOthers
      <3>2. EndInv /\ pc[p] = "end"
            /\ UNCHANGED <<st, hooked, terminated, cancelled, attached, closed>>
        BY Zenon, <1>1
      <3> HIDE DEF IInv, Commit, Rollback, dataVars, mutexVars, txVars, t
      <3> QED
        BY Zenon, <3>1, <3>2, EndStays
    <2>5. DataInv'
      BY Zenon, <1>1 DEF DataInv, Open
    <2> QED
      BY Zenon, <2>1, <2>2, <2>3, <2>4, <2>5
  <1>2. CASE t \notin terminated /\ EngineRollback(t)
    <2>0. Open(t)
      BY Zenon, <1>0, <1>2 DEF UserInv, UserAt, Open
    <2>1. MutexInv'
      BY Zenon DEF MutexInv, txmu!Holds
    <2>2. DataInv'
      BY Zenon, <1>0, <1>2, <2>0, RolledBackData
    <2>3. CASE t \in cancelled
      <3>0. Fail(p)
        BY Zenon, <1>2, <2>3
      <3>1. TypeOK'
        BY Zenon, <1>0, <1>2, <3>0, ReturnType, EngineRollbackType DEF TypeOK
      <3>2. UserInv'
        BY Zenon, <1>0, <1>2, <2>0, <3>0, FailUserInv DEF Open, EngineRollback
      <3>3. EndInv'
        <4>1. \A q \in Proc : q # p => cur'[q] = cur[q] /\ pc'[q] = pc[q]
          BY Zenon, <3>0, ReturnOthers
        <4>2. TypeOK /\ EndInv /\ pc[p] = "end" /\ t \in cancelled
              /\ terminated' = terminated \cup {t}
              /\ UNCHANGED <<st, hooked, cancelled, attached, closed>>
          BY Zenon, <1>2, <2>3 DEF EngineRollback
        <4> HIDE DEF IInv, Rollback, dataVars, mutexVars, txVars, t
        <4> QED
          BY Zenon, <1>0, <2>0, <4>1, <4>2, EndKept
      <3> QED
        BY Zenon, <2>1, <2>2, <3>1, <3>2, <3>3
    <2>4. CASE t \notin cancelled
      <3>0. Goto(p, "hooks") /\ UNCHANGED <<call, cur, shared>>
        BY Zenon, <1>2, <2>4
      <3>1. TypeOK'
        BY Zenon, <1>0, <1>2, <3>0, EngineRollbackType DEF TypeOK, Locations, Goto
      <3>2. UserInv'
        BY Zenon, <1>0, <1>2, <2>0, <3>0, HooksUserInv DEF EngineRollback
      <3>3. EndInv'
        <4>1. TypeOK /\ EndInv /\ pc[p] = "end" /\ terminated' = terminated \cup {t}
              /\ UNCHANGED <<st, hooked, cancelled, attached, closed>>
          BY Zenon, <1>2 DEF EngineRollback
        <4>2. cur' = cur /\ cur'[p] = t /\ pc'[p] = "hooks"
              /\ \A q \in Proc : q # p => pc'[q] = pc[q]
          BY Zenon, <3>0, <4>1 DEF TypeOK, Goto
        <4> HIDE DEF IInv, Rollback, dataVars, mutexVars, txVars, t
        <4> QED
          BY Zenon, <1>0, <2>0, <4>1, <4>2, EndKept
      <3> QED
        BY Zenon, <2>1, <2>2, <3>1, <3>2, <3>3
    <2> QED
      BY Zenon, <2>3, <2>4
  <1> QED
    BY Zenon, <1>1, <1>2

(* The mutex is released by a transaction that holds it.                    *)
LEMMA UnlockDBMuIInv ==
    ASSUME IInv, NEW p \in Proc, UnlockDBMu(p)
    PROVE  IInv'
  <1> USE DatabaseAssumptions DEF IInv, UnlockDBMu, dataVars, mutexVars, txVars
  <1> DEFINE t == cur[p]
  <1>0. t \in Tx /\ t # None /\ Open(t) /\ t \in terminated /\ txmu!Holds(t)
    BY Zenon DEF TypeOK, MutexInv, UserInv, UserAt, Locations, Open
  <1>1. TypeOK'
    BY Zenon, <1>0, ReturnType DEF TypeOK, txmu!Unlock, txmu!RUnlock
  <1>2. MutexInv'
    <2>1. CASE writable[t]
      BY Zenon, <1>0, <2>1, UnlockMutexInv
    <2>2. CASE ~writable[t]
      BY Zenon, <1>0, <2>2, RUnlockMutexInv
    <2> QED
      BY Zenon, <2>1, <2>2
  <1>3. UserInv'
    <2>1. writer' = writer \/ writer' = None
      BY Zenon DEF txmu!Unlock, txmu!RUnlock
    <2>2. st'[t] = "ended" /\ \A u \in Tx \ {t} : st'[u] = st[u]
      BY Zenon, <1>0 DEF TypeOK
    <2> QED
      BY Zenon, <1>0, <2>1, <2>2, ReturnUserInv
  <1>4. EndInv'
    <2>1. ASSUME NEW u \in Tx, u # t, Open(u), u \in terminated, u \notin cancelled
          PROVE  \E q \in Proc : cur'[q] = u /\ pc'[q] \in {"hooks", "unlock"}
      <3>1. PICK q \in Proc : cur[q] = u /\ pc[q] \in {"hooks", "unlock"}
        BY Zenon, <2>1 DEF EndInv
      <3>2. cur'[q] = u /\ pc'[q] = pc[q]
        BY Zenon, <2>1, <3>1, ReturnOthers
      <3> QED
        BY Zenon, <3>1, <3>2
    <2>2. attached # t
      BY Zenon, <1>0 DEF UserInv, UserAt
    <2>3. \A u \in Tx : st'[u] = IF u = t THEN "ended" ELSE st[u]
      BY Zenon, <1>0 DEF TypeOK
    <2>4. UNCHANGED <<hooked, terminated, cancelled, attached, closed>>
      BY Zenon
    <2>t. TypeOK /\ EndInv
      BY Zenon
    <2> HIDE DatabaseAssumptions DEF IInv, UnlockDBMu, dataVars, mutexVars, txVars, t
    <2>5. (attached # None => Open(attached) /\ hooked[attached])'
      BY Zenon, <2>t, <2>2, <2>3, <2>4 DEF TypeOK, EndInv, Open
    <2>6. (\A u \in terminated : st[u] \in {"open", "ended"})'
      BY Zenon, <2>t, <2>3, <2>4 DEF TypeOK, EndInv
    <2>7. (\A u \in Tx : Open(u) /\ u \in terminated =>
              u \in cancelled \/ \E q \in Proc : cur[q] = u /\ pc[q] \in {"hooks", "unlock"})'
      <3>1. ASSUME NEW u \in Tx, Open(u)', u \in terminated', u \notin cancelled'
            PROVE  \E q \in Proc : cur'[q] = u /\ pc'[q] \in {"hooks", "unlock"}
        <4>1. u # t /\ Open(u) /\ u \in terminated /\ u \notin cancelled
          BY Zenon, <2>3, <2>4, <3>1 DEF Open
        <4> QED
          BY Zenon, <2>1, <4>1
      <3> QED
        BY Zenon, <3>1
    <2>8. (closed => \A u \in Tx : ~Open(u))'
      BY Zenon, <2>t, <2>3, <2>4 DEF EndInv, Open
    <2> QED
      BY Zenon, <2>5, <2>6, <2>7, <2>8 DEF EndInv
  <1>5. DataInv'
    <2>1. \A u \in Tx : st'[u] = IF u = t THEN "ended" ELSE st[u]
      BY Zenon, <1>0 DEF TypeOK
    <2>2. DataInv /\ UNCHANGED <<writable, terminated, live, committed, before, seen, leftover>>
      BY Zenon
    <2> HIDE DatabaseAssumptions DEF IInv, UnlockDBMu, dataVars, mutexVars, txVars, t
    <2>3. \A u \in Tx : Open(u)' => Open(u) /\ u # t
      BY Zenon, <2>1 DEF Open
    <2>4. \A u \in Tx : Open(u) /\ u \notin terminated => Open(u)'
      BY Zenon, <1>0, <2>1 DEF Open
    <2>5. \A u \in Tx : st'[u] \in {"unused", "begin"} => st[u] \in {"unused", "begin"}
      BY Zenon, <2>1
    <2> QED
      BY Zenon, <2>2, <2>3, <2>4, <2>5 DEF DataInv
  <1> QED
    BY Zenon, <1>1, <1>2, <1>3, <1>4, <1>5

(* Nothing is open when the engine is closed.                               *)
LEMMA CloseLockedIInv ==
    ASSUME IInv, NEW p \in Proc, CloseLocked(p)
    PROVE  IInv'
  <1> USE DatabaseAssumptions DEF IInv, CloseLocked, Goto, dataVars, mutexVars, txVars
  <1> DEFINE t == cur[p]
  <1>0. t \in Tx /\ t # None /\ st[t] = "begin" /\ writable[t] /\ txmu!Holds(t)
    <2>1. TypeOK /\ UserAt(p) /\ pc[p] = "lock" /\ call[p] = "Close" /\ txmu!Holds(t)
      BY Zenon DEF UserInv
    <2> HIDE DEF IInv, CloseLocked, Goto, dataVars, mutexVars, txVars
    <2> QED
      BY Zenon, <2>1 DEF TypeOK, UserAt
  <1>1. TypeOK'
    BY Zenon, <1>0 DEF TypeOK, Locations, Restore, txmu!Unlock
  <1>2. MutexInv'
    BY Zenon, <1>0, UnlockMutexInv
  <1>3. UserInv'
    <2>1. UserInv /\ pc' = [pc EXCEPT ![p] = "idle"] /\ cur' = [cur EXCEPT ![p] = None]
          /\ call' = call /\ st' = [st EXCEPT ![t] = "ended"]
          /\ UNCHANGED <<writable, terminated, attached>>
      BY Zenon
    <2>2. cur \in [Proc -> Tx \cup {None}] /\ DOMAIN pc = Proc /\ DOMAIN st = Tx
      BY Zenon DEF TypeOK
    <2>3. writer' = None
      BY Zenon DEF txmu!Unlock
    <2> HIDE DEF IInv, CloseLocked, Goto, dataVars, mutexVars, txVars
    <2>4. UserAt(p)'
      BY Zenon, <2>1, <2>2 DEF UserAt
    <2>5. ASSUME NEW q \in Proc, q # p PROVE UserAt(q)'
      <3>1. UserAt(q) /\ pc'[q] = pc[q] /\ cur'[q] = cur[q] /\ call'[q] = call[q]
        BY Zenon, <2>1, <2>2, <2>5 DEF UserInv
      <3>2. cur[q] # None => cur[q] \in Tx \ {t}
        BY Zenon, <1>0, <2>1, <2>2, <2>5 DEF UserInv
      <3> QED
        BY Zenon, <2>1, <2>2, <2>3, <3>1, <3>2, OtherAt
    <2> QED
      BY Zenon, <2>1, <2>2, <2>4, <2>5, UniqueKept
  <1>4. EndInv'
    <2>1. \A u \in Tx : ~Open(u)
      BY Zenon, <1>0, HoldsExclusive DEF MutexInv, Open
    <2>2. EndInv /\ st' = [st EXCEPT ![t] = "ended"] /\ DOMAIN st = Tx /\ terminated \subseteq Tx
          /\ UNCHANGED <<hooked, terminated, cancelled, attached>>
      BY Zenon DEF TypeOK
    <2>3. \A u \in Tx : u # t => st'[u] = st[u]
      BY Zenon, <2>2
    <2>4. st'[t] = "ended" /\ attached' = None
      BY Zenon, <1>0, <2>1, <2>2 DEF EndInv, TypeOK
    <2> HIDE DatabaseAssumptions DEF IInv, CloseLocked, Goto, dataVars, mutexVars, txVars, t
    <2>5. \A u \in Tx : st'[u] # "open"
      BY Zenon, <2>1, <2>3, <2>4 DEF Open
    <2>6. (\A u \in terminated : st[u] \in {"open", "ended"})'
      BY Zenon, <2>2, <2>3, <2>4 DEF EndInv
    <2> QED
      BY Zenon, <2>4, <2>5, <2>6 DEF EndInv, Open
  <1>5. DataInv'
    <2>1. \A u \in Tx : ~Open(u)
      BY Zenon, <1>0, HoldsExclusive DEF MutexInv, Open
    <2>2. \A u \in Tx : st'[u] = IF u = t THEN "ended" ELSE st[u]
      BY Zenon, <1>0 DEF TypeOK
    <2>3. ~leftover' => ~leftover /\ live' = live
      BY Zenon DEF Restore
    <2>4. DataInv /\ UNCHANGED <<writable, terminated, committed, before, seen>>
      BY Zenon
    <2> HIDE DatabaseAssumptions DEF IInv, CloseLocked, Goto, dataVars, mutexVars, txVars, t
    <2>5. \A u \in Tx : ~Open(u)'
      BY Zenon, <2>1, <2>2 DEF Open
    <2> QED
      BY Zenon, <2>1, <2>2, <2>3, <2>4, <2>5 DEF DataInv
  <1> QED
    BY Zenon, <1>1, <1>2, <1>3, <1>4, <1>5

-----------------------------------------------------------------------------
(* Every step of every goroutine preserves the invariant, unless it is the  *)
(* one that shares a transaction.                                           *)
LEMMA NextIInv == IInv /\ [Next]_vars /\ ~shared' => IInv'
  <1> SUFFICES ASSUME IInv, [Next]_vars, ~shared' PROVE IInv'
    BY Zenon
  <1>1. CASE UNCHANGED vars
    <2> USE <1>1 DEF IInv, vars, txVars, dataVars, mutexVars
    <2>1. TypeOK'
      BY Zenon DEF TypeOK
    <2>2. MutexInv'
      BY Zenon DEF MutexInv, txmu!Holds
    <2>3. UserInv'
      BY Zenon DEF UserInv, UserAt
    <2>4. EndInv'
      BY Zenon DEF EndInv, Open
    <2>5. DataInv'
      BY Zenon DEF DataInv, Open
    <2> QED
      BY Zenon, <2>1, <2>2, <2>3, <2>4, <2>5
  <1>2. ASSUME NEW p \in Proc, CodeStep(p) PROVE IInv'
    BY Zenon, <1>2, BeginTxLockedIInv, CommitIInv, RollbackIInv, RunHooksIInv, UnlockDBMuIInv,
       CloseLockIInv, CloseLockedIInv DEF CodeStep
  <1>3. ASSUME NEW p \in Proc, Lock(p) PROVE IInv'
    BY Zenon, <1>3, LockIInv
  <1>4. ASSUME NEW p \in Proc, Caller(p) PROVE IInv'
    BY Zenon, <1>4, BeginTxIInv, GetAttachedTxIInv, LeaveAttachedTxIInv, PutIInv, GetIInv,
       FinishIInv, CloseIInv DEF Caller
  <1>5. ASSUME NEW t \in Tx, CtxDone(t) PROVE IInv'
    BY Zenon, <1>5, CtxDoneIInv
  <1> QED
    BY Zenon, <1>1, <1>2, <1>3, <1>4, <1>5 DEF Next, Quiet

(* That a transaction has been shared is not forgotten.                     *)
LEMMA SharedStays == shared /\ [Next]_vars => shared'
  <1> SUFFICES ASSUME shared, [Next]_vars PROVE shared'
    BY Zenon
  <1>1. ASSUME NEW p \in Proc, Fail(p) \/ Return(p) \/ LetGo(p) \/ UndoAttached(p) PROVE shared'
    BY Zenon, <1>1, ReturnCases, FailCases DEF LetGo, UndoAttached, PickUpAttached
  <1>2. ASSUME NEW p \in Proc, CodeStep(p) PROVE shared'
    BY Zenon, <1>1, <1>2 DEF CodeStep, BeginTxLocked, Commit, Rollback, RunHooks, UnlockDBMu,
       CloseLock, CloseLocked
  <1>3. ASSUME NEW p \in Proc, Lock(p) \/ Caller(p) PROVE shared'
    BY Zenon, <1>3 DEF Lock, Caller, BeginTx, GetAttachedTx, LeaveAttachedTx, Put, Get, Finish,
       Close, PickUpAttached
  <1> QED
    BY Zenon, <1>2, <1>3 DEF Next, CtxDone, Quiet, vars

(* The inductive invariant holds in every reachable state, until two        *)
(* goroutines share a transaction.                                          *)
THEOREM Invariance == Spec => [](shared \/ IInv)
  <1>1. (shared \/ IInv) /\ [Next]_vars => (shared \/ IInv)'
    BY Zenon, NextIInv, SharedStays
  <1> QED
    BY InitIInv, <1>1, PTL DEF Spec

(* One writer or many readers: BeginTx, Commit, Rollback and Close never    *)
(* leave a writable transaction open beside another one, cancellations and  *)
(* refused Begins and failing Closes included.                              *)
THEOREM WritersExclude == Spec => []WriterExclusive
  <1>1. shared \/ IInv => WriterExclusive
    BY Zenon, OpenExclusive DEF WriterExclusive
  <1> QED
    BY Invariance, <1>1, PTL

(* Commit and Rollback never release a txmu they do not hold, so Rollback   *)
(* "can be used safely after commit".                                       *)
THEOREM UnlocksAreOwned == Spec => []NoStrayUnlock
  <1>1. shared \/ IInv => NoStrayUnlock
    BY Zenon, DatabaseAssumptions DEF IInv, NoStrayUnlock, MutexInv, UserInv, UserAt, TypeOK
  <1> QED
    BY Invariance, <1>1, PTL

(* Read-only transactions read one content from begin to end, whatever the  *)
(* engine's rollbacks leave behind.                                         *)
THEOREM ReadsAreSnapshots == Spec => []SnapshotReads
  <1>1. shared \/ IInv => SnapshotReads
    BY Zenon DEF IInv, SnapshotReads, DataInv
  <1> QED
    BY Invariance, <1>1, PTL

(* Over an engine whose rollbacks put the earlier content back, every       *)
(* transaction begins on committed content.                                 *)
THEOREM BeginsAreCommitted == Spec => []BeginsOnCommitted
  <1>1. shared \/ IInv => BeginsOnCommitted
    BY Zenon DEF IInv, BeginsOnCommitted, DataInv
  <1> QED
    BY Invariance, <1>1, PTL

(* The attached transaction is open and holds txmu.                         *)
THEOREM AttachedIsLocked == Spec => []AttachedHoldsLock
  <1>1. shared \/ IInv => AttachedHoldsLock
    BY Zenon DEF IInv, TypeOK, AttachedHoldsLock, EndInv, MutexInv, Open
  <1> QED
    BY Invariance, <1>1, PTL

(* Close closes the engine when no transaction is open.                     *)
THEOREM CloseIsLast == Spec => []ClosedAfterAll
  <1>1. shared \/ IInv => ClosedAfterAll
    BY Zenon DEF IInv, ClosedAfterAll, EndInv
  <1> QED
    BY Invariance, <1>1, PTL
=============================================================================
