---------------------------- MODULE MemoryEngine ----------------------------
(***************************************************************************)
(* engine/memoryengine: a writable transaction changes the b-trees in       *)
(* place and keeps two lists of closures, onRollback and onCommit.  A       *)
(* deletion only marks the item; the item leaves the tree at commit.  The   *)
(* closures capture pointers: to items, to trees and to the store handles   *)
(* that GetStore returns.  An item is identified by its tree and its key,   *)
(* which is sound because items leave a tree only when the transaction      *)
(* ends.  One writable transaction is open at a time (module Database).     *)
(***************************************************************************)
EXTENDS Naturals, Sequences, Functions

CONSTANTS Name, Key, Val,
          Tree,      \* identities of b-trees
          Handle,    \* identities of the handles GetStore returns
          Nil, NoStore, NoTree,
          MaxOps,    \* bound: mutations in a transaction
          MaxWild,   \* the same bound, of a wild transaction
          Wild       \* values of wild

ASSUME MemoryEngineAssumptions ==
    /\ Nil \notin Val
    /\ NoStore \notin [Key -> Val \cup {Nil}]
    /\ NoTree \notin Tree
    /\ {MaxOps, MaxWild} \subseteq Nat
    /\ Wild \subseteq BOOLEAN

VARIABLES heap,        \* stores, trees, items and handles
          onRollback, onCommit,
          open,        \* the transaction has begun and is not terminated
          ctxDone,     \* its context is cancelled
          saved,       \* the content at the last commit
          touched,     \* the keys and names the transaction has changed
          again,       \* it has changed one of them twice
          wild         \* it may also roll that back, and truncate stores

vars == <<heap, onRollback, onCommit, open, ctxDone, saved, touched, again, wild>>

EmptyTree == [k \in Key |-> Nil]
Unmarked  == [k \in Key |-> FALSE]

(* Heap: engine.stores; the value of the item under each key of each tree,  *)
(* Nil when the tree has no such item, and its deleted flag; the tree each  *)
(* store handle works on.                                                   *)
Init ==
    /\ heap = [stores  |-> [n \in Name |-> NoTree],
               v       |-> [t \in Tree |-> EmptyTree],
               deleted |-> [t \in Tree |-> Unmarked],
               tr      |-> [h \in Handle |-> NoTree]]
    /\ onRollback = <<>>
    /\ onCommit = <<>>
    /\ open = FALSE
    /\ ctxDone = FALSE
    /\ saved = [n \in Name |-> NoStore]
    /\ touched = {}
    /\ again = FALSE
    /\ wild \in Wild

(* What a handle on tree t reads: storeTx.Get.                              *)
Visible(hp, t) == [k \in Key |-> IF hp.deleted[t][k] THEN Nil ELSE hp.v[t][k]]

Content == [n \in Name |->
    IF heap.stores[n] = NoTree THEN NoStore ELSE Visible(heap, heap.stores[n])]

-----------------------------------------------------------------------------
SetStore(hp, n, t) == [hp EXCEPT !.stores[n] = t]

SetHandle(hp, h, t) == [hp EXCEPT !.tr[h] = t]

SetItem(hp, t, k, v, deleted) == [hp EXCEPT !.v[t][k] = v, !.deleted[t][k] = deleted]

Mark(hp, t, k, deleted) == SetItem(hp, t, k, hp.v[t][k], deleted)

Begin ==
    /\ ~open
    /\ open' = TRUE
    /\ UNCHANGED <<heap, onRollback, onCommit, ctxDone, saved, touched, again, wild>>

(* Every operation starts by checking the context.                          *)
Running == open /\ ~ctxDone

GetStore(h, n) ==
    /\ Running
    /\ heap.tr[h] = NoTree
    /\ heap.stores[n] # NoTree
    /\ heap' = SetHandle(heap, h, heap.stores[n])
    /\ UNCHANGED <<onRollback, onCommit, open, ctxDone, saved, touched, again, wild>>

(* A mutation: change the heap, push the closure that undoes it and, for a  *)
(* deletion, the one that finishes it.                                      *)
Mutate(where, newHeap, undo, finish) ==
    /\ Len(onRollback) < IF wild THEN MaxWild ELSE MaxOps
    /\ touched' = touched \cup {where}
    /\ again' = (again \/ where \in touched)
    /\ heap' = newHeap
    /\ onRollback' = Append(onRollback, undo)
    /\ onCommit' = onCommit \o finish
    /\ UNCHANGED <<open, ctxDone, saved, wild>>

(* The trees nothing points to any more.                                    *)
FreeTrees ==
    Tree \ (Range(heap.stores) \cup Range(heap.tr)
            \cup {onRollback[i].tree : i \in DOMAIN onRollback})

NewTree == CHOOSE t \in FreeTrees : TRUE

CreateStore(n) ==
    /\ Running
    /\ heap.stores[n] = NoTree
    /\ FreeTrees # {}
    /\ Mutate(<<n, Nil>>, SetStore(heap, n, NewTree),
              [op |-> "dropStore", name |-> n, tree |-> NoTree], <<>>)

DropStore(n) ==
    /\ Running
    /\ heap.stores[n] # NoTree
    /\ Mutate(<<n, Nil>>, SetStore(heap, n, NoTree),
              [op |-> "putStore", name |-> n, tree |-> heap.stores[n]], <<>>)

Put(h, k, v) ==
    LET t == heap.tr[h] IN
    /\ Running
    /\ t # NoTree
    /\ Mutate(<<t, k>>, SetItem(heap, t, k, v, FALSE),
              IF heap.v[t][k] # Nil
              THEN [op |-> "setItem", tree |-> t, key |-> k,
                    v |-> heap.v[t][k], deleted |-> heap.deleted[t][k]]
              ELSE [op |-> "removeItem", tree |-> t, handle |-> h, key |-> k],
              <<>>)

(* Variant: Delete registers no onCommit closure.                           *)
DeleteForever(h, k) ==
    LET t == heap.tr[h] IN
    /\ Running
    /\ t # NoTree
    /\ heap.v[t][k] # Nil
    /\ ~heap.deleted[t][k]
    /\ Mutate(<<t, k>>, Mark(heap, t, k, TRUE),
              [op |-> "unmark", tree |-> t, key |-> k], <<>>)

Delete(h, k) ==
    LET t == heap.tr[h] IN
    /\ Running
    /\ t # NoTree
    /\ heap.v[t][k] # Nil
    /\ ~heap.deleted[t][k]
    /\ Mutate(<<t, k>>, Mark(heap, t, k, TRUE),
              [op |-> "unmark", tree |-> t, key |-> k],
              <<[op |-> "finalize", tree |-> t, handle |-> h, key |-> k]>>)

(* Truncate gives the handle, and only the handle, a new tree.              *)
Truncate(h) ==
    /\ wild
    /\ Running
    /\ heap.tr[h] # NoTree
    /\ FreeTrees # {}
    /\ Mutate(<<heap.tr[h], Nil>>, SetHandle(heap, h, NewTree),
              [op |-> "setTree", tree |-> heap.tr[h], handle |-> h], <<>>)

-----------------------------------------------------------------------------
(* BTree.Delete, by key; the tree may have no such item.                    *)
RemoveItem(hp, t, k) == SetItem(hp, t, k, Nil, FALSE)

(* A closure on an item that has left its tree has no visible effect.       *)
OnItem(hp, u, new) == IF hp.v[u.tree][u.key] = Nil THEN hp ELSE new

Undo(hp, u) ==
    CASE u.op = "dropStore"  -> SetStore(hp, u.name, NoTree)
      [] u.op = "putStore"   -> SetStore(hp, u.name, u.tree)
      [] u.op = "setItem"    -> OnItem(hp, u, SetItem(hp, u.tree, u.key, u.v, u.deleted))
      [] u.op = "unmark"     -> OnItem(hp, u, Mark(hp, u.tree, u.key, FALSE))
      [] u.op = "removeItem" -> RemoveItem(hp, hp.tr[u.handle], u.key)
      [] u.op = "setTree"    -> SetHandle(hp, u.handle, u.tree)

Finalize(hp, f) ==
    IF hp.deleted[f.tree][f.key] THEN RemoveItem(hp, hp.tr[f.handle], f.key) ELSE hp

Call(hp, c) == IF c.op = "finalize" THEN Finalize(hp, c) ELSE Undo(hp, c)

(* The closures of a list run in the order in which they were pushed.       *)
CallAll(hp, closures) ==
    LET after[i \in 0 .. Len(closures)] ==
            IF i = 0 THEN hp ELSE Call(after[i - 1], closures[i])
    IN  after[Len(closures)]

(* The handles go with the transaction, the trees without a store too.      *)
Collect(hp) ==
    LET kept == Range(hp.stores) IN
    [hp EXCEPT !.tr = [h \in Handle |-> NoTree],
               !.v = [t \in Tree |-> IF t \in kept THEN hp.v[t] ELSE EmptyTree],
               !.deleted = [t \in Tree |-> IF t \in kept THEN hp.deleted[t] ELSE Unmarked]]

Terminate(hp) ==
    /\ heap' = Collect(hp)
    /\ onRollback' = <<>>
    /\ onCommit' = <<>>
    /\ open' = FALSE
    /\ ctxDone' = FALSE
    /\ touched' = {}
    /\ again' = FALSE
    /\ UNCHANGED wild

(* Rollback, also what Commit does when the context is done.  Unless wild,  *)
(* the transactions that are rolled back changed no location twice.         *)
Rollback ==
    /\ wild \/ ~again
    /\ open
    /\ Terminate(CallAll(heap, onRollback))
    /\ UNCHANGED saved

Commit ==
    /\ Running
    /\ Terminate(CallAll(heap, onCommit))
    /\ saved' = Content'

CtxDone ==
    /\ wild \/ ~again
    /\ Running
    /\ ctxDone' = TRUE
    /\ UNCHANGED <<heap, onRollback, onCommit, open, saved, touched, again, wild>>

Next ==
    \/ Begin \/ Commit \/ Rollback \/ CtxDone
    \/ \E n \in Name : CreateStore(n) \/ DropStore(n)
    \/ \E h \in Handle :
          \/ \E n \in Name : GetStore(h, n)
          \/ \E k \in Key : Delete(h, k) \/ \E v \in Val : Put(h, k, v)
          \/ Truncate(h)

Spec == Init /\ [][Next]_vars

-----------------------------------------------------------------------------
(* The types of the variables.                                              *)
TypeOK ==
    /\ heap.stores \in [Name -> Tree \cup {NoTree}]
    /\ heap.v \in [Tree -> [Key -> Val \cup {Nil}]]
    /\ heap.deleted \in [Tree -> [Key -> BOOLEAN]]
    /\ heap.tr \in [Handle -> Tree \cup {NoTree}]
    /\ Len(onRollback) <= IF wild THEN MaxWild ELSE MaxOps
    /\ Len(onCommit) <= Len(onRollback)
    /\ {open, ctxDone, again, wild} \subseteq BOOLEAN
    /\ ~open => onRollback = <<>> /\ ctxDone = FALSE

(* A wild transaction is no transaction of the abstract engine.             *)
Tame(this, other) == IF wild THEN other ELSE this

engine == INSTANCE EngineSpec WITH
    content <- Tame(Content, [n \in Name |-> NoStore]),
    saved   <- Tame(saved, [n \in Name |-> NoStore]),
    open    <- Tame(open, FALSE)

(* The b-trees, marks and closures behave as engine.go says a transaction   *)
(* on stores of key-value pairs does: every operation changes what it says  *)
(* and nothing else, Commit keeps all of it (a key that was deleted and put *)
(* again included), Rollback cancels all of it.  Transactions that are not   *)
(* wild: see RollbackCancels for the others.                                *)
ImplementsEngine == engine!EngineSpecification

(* store.go:117: a deleted item is "actually deleted during the commit      *)
(* phase".  No mark survives the transaction that made it, after a          *)
(* Rollback either: a marked item that stays hides the key from the next    *)
(* transactions.                                                            *)
NoMarkLeft ==
    ~open /\ ~wild => \A n \in Name : heap.stores[n] # NoTree =>
                heap.deleted[heap.stores[n]] = Unmarked

-----------------------------------------------------------------------------
(* engine.go:51: "Rollback the transaction and cancel any change made       *)
(* during its lifetime."                                                    *)
RollbackCancels == [][Rollback => Content' = saved]_vars
=============================================================================
