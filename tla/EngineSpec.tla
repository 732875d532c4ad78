----------------------------- MODULE EngineSpec -----------------------------
(***************************************************************************)
(* What engine/engine.go promises of a writable transaction: the comments   *)
(* on the interfaces Transaction and Store.  The content maps the name of   *)
(* each store to the key-value pairs in it.                                 *)
(***************************************************************************)
CONSTANTS Name, Key, Val,
          Nil,       \* no value under this key
          NoStore    \* no store of this name

VARIABLES content,   \* what the transaction reads
          saved,     \* what was last committed
          open       \* a writable transaction is open

specVars == <<content, saved, open>>

EmptyStore == [k \in Key |-> Nil]

SpecInit ==
    /\ content = [n \in Name |-> NoStore]
    /\ saved = content
    /\ open = FALSE

SpecBegin ==
    /\ ~open
    /\ open' = TRUE
    /\ UNCHANGED <<content, saved>>

SetStore(n, s) == content' = [content EXCEPT ![n] = s]

SpecCreateStore(n) == content[n] = NoStore /\ SetStore(n, EmptyStore)

SpecDropStore(n) == content[n] # NoStore /\ SetStore(n, NoStore)

SpecTruncate(n) == content[n] # NoStore /\ SetStore(n, EmptyStore)

SpecPut(n, k, v) == content[n] # NoStore /\ SetStore(n, [content[n] EXCEPT ![k] = v])

SpecDelete(n, k) ==
    /\ content[n] # NoStore
    /\ content[n][k] # Nil
    /\ SetStore(n, [content[n] EXCEPT ![k] = Nil])

SpecWrite ==
    /\ open
    /\ \E n \in Name :
          \/ SpecCreateStore(n) \/ SpecDropStore(n) \/ SpecTruncate(n)
          \/ \E k \in Key : SpecDelete(n, k) \/ \E v \in Val : SpecPut(n, k, v)
    /\ UNCHANGED <<saved, open>>

SpecCommit ==
    /\ open
    /\ open' = FALSE
    /\ saved' = content
    /\ UNCHANGED content

SpecRollback ==
    /\ open
    /\ open' = FALSE
    /\ content' = saved
    /\ UNCHANGED saved

SpecNext == SpecBegin \/ SpecWrite \/ SpecCommit \/ SpecRollback

EngineSpecification == SpecInit /\ [][SpecNext]_specVars
=============================================================================
