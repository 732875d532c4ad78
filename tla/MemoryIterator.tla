--------------------------- MODULE MemoryIterator ---------------------------
(***************************************************************************)
(* The iterator of engine/memoryengine/store.go.  It reads the b-tree in    *)
(* batches of itBufSize item pointers, and the loop that uses it may put    *)
(* and delete keys of the same tree between two items, as DELETE and UPDATE *)
(* do.  A deletion marks the item, which stays in the tree until commit.    *)
(***************************************************************************)
EXTENDS Naturals, Sequences, Functions, Sorting

CONSTANTS Key,         \* keys, numbers from 1 on, in the order of the tree
          itBufSize    \* at least 2

NoPivot == 0

(* itBufSize is 64 in the code; a tree holds finitely many keys.            *)
ASSUME IteratorAssumptions ==
    /\ Key \subseteq Nat \ {NoPivot}
    /\ IsFiniteSet(Key)
    /\ itBufSize \in Nat \ {0}

VARIABLES item,      \* the items of the tree: "none", "live" or "deleted"
          reverse,   \* IteratorOptions.Reverse
          pivot,     \* the argument of the user's Seek
          buf, cursor,
          phase,     \* "end", or inside Valid, or in the body of the loop
          err,       \* the context is done and the iterator knows
          visited,   \* the keys the loop has been given
          stable     \* the keys that have been in the store since Seek

vars == <<item, reverse, pivot, buf, cursor, phase, err, visited, stable>>

Before(a, b) == IF reverse THEN a > b ELSE a < b

FromPivot(p, k) == p = NoPivot \/ ~Before(k, p)

Order == {kk \in Key \X Key : Before(kk[1], kk[2])}

(* The items of the tree from p on, marked ones included.                   *)
From(p) == {k \in Key : item[k] # "none" /\ FromPivot(p, k)}

(* Variant: off by one, a batch has one item more.                          *)
BatchOneMore(p) ==
    LET ks == Arranged(From(p), Order)
    IN  SubSeq(ks, 1, IF Len(ks) < itBufSize + 1 THEN Len(ks) ELSE itBufSize + 1)

(* Seek: the first itBufSize items from p on, marked ones included.         *)
Batch(p) ==
    LET ks == Arranged(From(p), Order)
    IN  SubSeq(ks, 1, IF Len(ks) < itBufSize THEN Len(ks) ELSE itBufSize)

Init ==
    /\ item \in [Key -> {"none", "live"}]
    /\ reverse \in BOOLEAN
    /\ pivot = NoPivot
    /\ buf = <<>>
    /\ cursor = 0
    /\ phase = "end"
    /\ err = FALSE
    /\ visited = <<>>
    /\ stable = {}

(* Seek on a new iterator.                                                  *)
Seek(p) ==
    /\ phase = "end"
    /\ pivot' = p
    /\ buf' = Batch(p)
    /\ cursor' = 0
    /\ phase' = "valid"
    /\ err' = FALSE
    /\ visited' = <<>>
    /\ stable' = {k \in Key : item[k] = "live" /\ FromPivot(p, k)}
    /\ UNCHANGED <<item, reverse>>

AtEndOfBuf == cursor >= Len(buf)

(* Valid, one round of its loops at a time.                                 *)
SkipDeleted ==
    /\ phase = "valid"
    /\ ~AtEndOfBuf
    /\ item[buf[cursor + 1]] = "deleted"
    /\ cursor' = cursor + 1
    /\ UNCHANGED <<item, reverse, pivot, buf, phase, err, visited, stable>>

(* Variant: the overlap of two batches is not skipped.                      *)
NextBatchOverlap ==
    /\ phase = "valid"
    /\ AtEndOfBuf
    /\ Len(buf) = itBufSize
    /\ buf' = Batch(buf[Len(buf)])
    /\ cursor' = 0
    /\ UNCHANGED <<item, reverse, pivot, phase, err, visited, stable>>

(* The next batch starts with the last item of this one, which is skipped.  *)
NextBatch ==
    /\ phase = "valid"
    /\ AtEndOfBuf
    /\ Len(buf) = itBufSize
    /\ buf' = Batch(buf[Len(buf)])
    /\ cursor' = 1
    /\ UNCHANGED <<item, reverse, pivot, phase, err, visited, stable>>

ValidTrue ==
    /\ phase = "valid"
    /\ ~AtEndOfBuf
    /\ item[buf[cursor + 1]] = "live"
    /\ ~err
    /\ phase' = "body"
    /\ visited' = Append(visited, buf[cursor + 1])
    /\ UNCHANGED <<item, reverse, pivot, buf, cursor, err, stable>>

ValidFalse ==
    /\ phase = "valid"
    /\ err \/ (AtEndOfBuf /\ Len(buf) # itBufSize)
    /\ phase' = "end"
    /\ UNCHANGED <<item, reverse, pivot, buf, cursor, err, visited, stable>>

(* Next, then the call of Valid, which looks at the context.                *)
Next(ctxDone) ==
    /\ phase = "body"
    /\ cursor' = cursor + 1
    /\ phase' = "valid"
    /\ err' = ctxDone
    /\ UNCHANGED <<item, reverse, pivot, buf, visited, stable>>

-----------------------------------------------------------------------------
(* What the body of the loop does to the tree.                              *)
Put(k) ==
    /\ phase = "body"
    /\ item[k] # "live"
    /\ item' = [item EXCEPT ![k] = "live"]
    /\ UNCHANGED <<reverse, pivot, buf, cursor, phase, err, visited, stable>>

Delete(k) ==
    /\ phase = "body"
    /\ item[k] = "live"
    /\ item' = [item EXCEPT ![k] = "deleted"]
    /\ stable' = stable \ {k}
    /\ UNCHANGED <<reverse, pivot, buf, cursor, phase, err, visited>>

InValid == SkipDeleted \/ NextBatch \/ ValidTrue \/ ValidFalse

NextStep ==
    \/ \E p \in Key \cup {NoPivot} : Seek(p)
    \/ InValid
    \/ \E c \in BOOLEAN : Next(c)
    \/ \E k \in Key : Put(k) \/ Delete(k)

(* Valid runs to its end, and the loop calls Next after its body.           *)
Fairness == WF_vars(InValid) /\ WF_vars(\E c \in BOOLEAN : Next(c))

Spec == Init /\ [][NextStep]_vars /\ Fairness

-----------------------------------------------------------------------------
(* The types of the variables.                                              *)
TypeOK ==
    /\ item \in [Key -> {"none", "live", "deleted"}]
    /\ reverse \in BOOLEAN
    /\ pivot \in Key \cup {NoPivot}
    /\ buf \in Seq(Key) /\ Len(buf) <= itBufSize
    /\ cursor \in 0 .. itBufSize
    /\ phase \in {"end", "valid", "body"}
    /\ err \in BOOLEAN
    /\ visited \in Seq(Key)
    /\ stable \subseteq Key

(* engine.go:88: "iterates on keys of a store in lexicographic order": the  *)
(* loop gets its keys in strict order, so none twice, although batches      *)
(* overlap and the loop changes the tree.                                   *)
StrictOrder ==
    \A i \in 1 .. Len(visited) - 1 : Before(visited[i], visited[i + 1])

(* enginetest, "Iterating while deleting current key should work": an       *)
(* iteration that ends without error has visited every key that was in the  *)
(* store all the time, whatever was put and deleted at the borders of the   *)
(* batches.                                                                 *)
Complete ==
    phase = "end" /\ ~err => stable \subseteq Range(visited)

(* The iterator gives its keys in strict order, and every key that was in   *)
(* the store all the time, whatever the loop puts and deletes at the        *)
(* borders of the batches.                                                  *)
IterationIsExact == StrictOrder /\ Complete

(* The loop over a finite store ends.                                       *)
Ends == phase # "end" ~> phase = "end"
=============================================================================
