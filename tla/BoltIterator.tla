---------------------------- MODULE BoltIterator ----------------------------
(***************************************************************************)
(* The iterator of engine/boltengine: a cursor on the bucket, which passes  *)
(* the hidden keys too.                                                     *)
(***************************************************************************)
EXTENDS BoltEngine, SequencesExt

(* The entries of a bucket, hidden ones too, as Bolt's cursor orders them.  *)
Cursor(bucket) == SetToSortSeq({k \in Key : bucket[k] # Nil}, Less)

(* Where iterator.Seek puts the cursor, 0 for nowhere.  A reverse iterator  *)
(* starts at the first key from the pivot on and goes back until it is not  *)
(* after the pivot and not hidden: when every key is before the pivot, it   *)
(* is nowhere at once.                                                      *)
Seek(bucket, pivot, reverse) ==
    LET c       == Cursor(bucket)
        shown   == {i \in DOMAIN c : bucket[c[i]] # Hidden}
        from    == {i \in DOMAIN c : ~Less(c[i], pivot)}
        forward == shown \cap from
        back    == {i \in shown : ~Less(pivot, c[i])}
        all     == IF pivot = <<>> THEN shown ELSE IF from = {} THEN {} ELSE back
    IN  IF ~reverse
        THEN IF forward = {} THEN 0 ELSE CHOOSE i \in forward : \A j \in forward : i <= j
        ELSE IF all = {} THEN 0 ELSE CHOOSE i \in all : \A j \in all : i >= j

(* The keys a loop on the iterator gets: Next skips hidden ones.            *)
Scan(bucket, pivot, reverse) ==
    LET c        == Cursor(bucket)
        p        == Seek(bucket, pivot, reverse)
        Shown(k) == bucket[k] # Hidden
        part     == IF reverse THEN Reverse(SubSeq(c, 1, p)) ELSE SubSeq(c, p, Len(c))
    IN  IF p = 0 THEN <<>> ELSE SelectSeq(part, Shown)

(* enginetest: an iterator gives the visible keys from its pivot on, in     *)
(* order, and in reverse order those up to its pivot.  For a reverse        *)
(* iterator this is claimed of the pivots that have a key of the bucket,    *)
(* hidden or not, at or after them: from any other it gives nothing, where  *)
(* testing.go:818 says that it "should start from the previous item".       *)
ScanIsComplete ==
    \A n \in Name, p \in Key \cup {<<>>} : buckets[n] # NoStore =>
        LET shown == {k \in Key : Get(buckets[n], k) # Nil}
            More(a, b) == Less(b, a)
        IN  /\ Scan(buckets[n], p, FALSE) = SetToSortSeq({k \in shown : ~Less(k, p)}, Less)
            /\ (p = <<>> \/ \E k \in Key : buckets[n][k] # Nil /\ ~Less(k, p)) =>
                  Scan(buckets[n], p, TRUE)
                      = SetToSortSeq({k \in shown : p = <<>> \/ ~Less(p, k)}, More)
=============================================================================
