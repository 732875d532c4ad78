--------------------------- MODULE BadgerIterator ---------------------------
(***************************************************************************)
(* The iterator of engine/badgerengine: an iterator of Badger on the keys   *)
(* with the prefix of a store.                                              *)
(***************************************************************************)
EXTENDS BadgerEngine, SequencesExt

(* Variant: a reverse iterator without pivot seeks the prefix itself.       *)
SeekKeyPlain(n, pivot, reverse) ==
    LET prefix == buildStorePrefixKey(n) IN
    IF reverse /\ pivot # <<>> THEN buildKey(prefix, pivot \o <<255>>)
    ELSE buildKey(prefix, pivot)

(* iterator.Seek: the key given to Badger's iterator.                       *)
SeekKey(n, pivot, reverse) ==
    LET prefix == buildStorePrefixKey(n) IN
    CASE ~reverse -> buildKey(prefix, pivot)
      [] reverse /\ pivot = <<>> -> prefix \o <<separator, 255>>
      [] OTHER -> buildKey(prefix, pivot \o <<255>>)

(* The keys a loop on the iterator gets, without the prefix.                *)
Scan(n, pivot, reverse) ==
    LET prefix      == buildKey(buildStorePrefixKey(n), <<>>)
        seek        == SeekKey(n, pivot, reverse)
        Order(a, b) == IF reverse THEN Less(b, a) ELSE Less(a, b)
        found       == {p.k : p \in {q \in kv : HasPrefix(q.k, prefix) /\ ~Order(q.k, seek)}}
        sorted      == SetToSortSeq(found, Order)
    IN  [i \in DOMAIN sorted |-> SubSeq(sorted[i], Len(prefix) + 1, Len(sorted[i]))]

(* enginetest: an iterator gives the keys of its store from its pivot on,   *)
(* in order, and in reverse order those up to its pivot.  For a reverse     *)
(* iterator this is claimed of the pivots that no other key of the store    *)
(* continues: the byte 255 that Seek adds makes it start at such a key,     *)
(* which is after the pivot.                                                *)
ScanIsComplete ==
    \A n \in Name, p \in Key \cup {<<>>} : StoreExists(n) =>
        LET keys == {k \in Key : Content[n][k] # Nil}
            More(a, b) == Less(b, a)
        IN  /\ Scan(n, p, FALSE) = SetToSortSeq({k \in keys : ~Less(k, p)}, Less)
            /\ (p = <<>> \/ \A k \in keys : HasPrefix(k, p) => k = p) =>
                  Scan(n, p, TRUE) = SetToSortSeq({k \in keys : p = <<>> \/ ~Less(p, k)}, More)
=============================================================================
