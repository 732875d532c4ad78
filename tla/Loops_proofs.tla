---------------------------- MODULE Loops_proofs ----------------------------
(***************************************************************************)
(* The loops of MCLoops, for stores, results and texts of any size.  The    *)
(* iterator of the memory engine gives its keys in strict order and misses  *)
(* none that stays; Next of the driver never sends on a closed channel,     *)
(* io.EOF is the end, and a closed result has the outcome its last Next     *)
(* announced; MatchLike has text left to step over when it backtracks.      *)
(***************************************************************************)
EXTENDS MCLoops, FiniteSetTheorems, FunctionTheorems, TLAPS

(* A finite set with a strict total order has an arrangement (module        *)
(* Sorting): the rank of an element is the number of those before it.       *)
Below(S, R, b) == {a \in S : <<a, b>> \in R}

Rank(S, R) == [b \in S |-> Cardinality(Below(S, R, b)) + 1]

(* q lists the elements of S in the order R.                                *)
Lists(q, S, R) ==
    /\ q \in [1 .. Cardinality(S) -> S]
    /\ \A i, j \in 1 .. Cardinality(S) : i < j => <<q[i], q[j]>> \in R

(* The elements before b are fewer than all, and fewer than those before c  *)
(* when b is before c.                                                      *)
LEMMA RankGrows ==
    ASSUME NEW S, IsFiniteSet(S), NEW R, Orders(R, S)
    PROVE  /\ Rank(S, R) \in [S -> 1 .. Cardinality(S)]
           /\ \A b, c \in S : <<b, c>> \in R => Rank(S, R)[b] < Rank(S, R)[c]
  <1>1. \A b \in S : /\ IsFiniteSet(Below(S, R, b))
                     /\ Cardinality(Below(S, R, b)) \in Nat
    BY Zenon, FS_Subset, FS_CardinalityType DEF Below
  <1>2. ASSUME NEW b \in S
        PROVE  Cardinality(Below(S, R, b)) < Cardinality(S)
    <2>1. Below(S, R, b) \in SUBSET S /\ b \notin Below(S, R, b)
      BY Zenon DEF Below, Orders
    <2>2. Cardinality(Below(S, R, b)) <= Cardinality(S)
          /\ Cardinality(Below(S, R, b)) # Cardinality(S)
      BY Zenon, <2>1, FS_Subset
    <2> QED
      BY <1>1, <2>2, FS_CardinalityType
  <1>3. ASSUME NEW b \in S, NEW c \in S, <<b, c>> \in R
        PROVE  Cardinality(Below(S, R, b)) < Cardinality(Below(S, R, c))
    <2>1. Below(S, R, b) \in SUBSET Below(S, R, c)
          /\ b \notin Below(S, R, b) /\ b \in Below(S, R, c)
      BY Zenon, <1>3 DEF Below, Orders
    <2>2. Cardinality(Below(S, R, b)) <= Cardinality(Below(S, R, c))
          /\ Cardinality(Below(S, R, b)) # Cardinality(Below(S, R, c))
      BY Zenon, <1>1, <2>1, FS_Subset
    <2> QED
      BY <1>1, <2>2
  <1>4. Cardinality(S) \in Nat
    BY Zenon, FS_CardinalityType
  <1> QED
    BY <1>1, <1>2, <1>3, <1>4 DEF Rank

(* A finite set with a total order has an arrangement.                      *)
LEMMA ArrangementExists ==
    ASSUME NEW S, IsFiniteSet(S), NEW R, Orders(R, S)
    PROVE  \E q : Lists(q, S, R)
  <1> DEFINE N == Cardinality(S)
             r == Rank(S, R)
             q == [i \in 1 .. N |-> CHOOSE b \in S : r[b] = i]
  <1>1. N \in Nat /\ IsFiniteSet(1 .. N) /\ Cardinality(1 .. N) = N
    BY FS_CardinalityType, FS_Interval
  <1>2. r \in [S -> 1 .. N] /\ \A b, c \in S : <<b, c>> \in R => r[b] < r[c]
    BY Zenon, RankGrows
  <1>3. r \in Injection(S, 1 .. N)
    <2>1. ASSUME NEW b \in S, NEW c \in S, r[b] = r[c]
          PROVE  b = c
      <3>1. r[b] \in 1 .. N /\ ~(r[b] < r[c]) /\ ~(r[c] < r[b])
        BY <1>1, <1>2, <2>1
      <3> QED
        BY Zenon, <1>2, <3>1 DEF Orders
    <2> QED
      BY Zenon, <1>2, <2>1 DEF Injection, IsInjective
  <1>4. r \in Surjection(S, 1 .. N)
    BY Zenon, <1>1, <1>3, FS_Injection
  <1>5. \A i \in 1 .. N : \E b \in S : r[b] = i
    BY Zenon, <1>4 DEF Surjection
  <1>6. \A i \in 1 .. N : q[i] \in S /\ r[q[i]] = i
    BY Zenon, <1>5
  <1>7. \A i, j \in 1 .. N : i < j => <<q[i], q[j]>> \in R
    <2> SUFFICES ASSUME NEW i \in 1 .. N, NEW j \in 1 .. N, i < j
                 PROVE  <<q[i], q[j]>> \in R
      BY Zenon
    <2>1. q[i] \in S /\ q[j] \in S /\ r[q[i]] = i /\ r[q[j]] = j
      BY Zenon, <1>6
    <2>2. q[i] # q[j] /\ ~(<<q[j], q[i]>> \in R)
      BY <1>1, <1>2, <2>1
    <2> QED
      BY Zenon, <2>1, <2>2 DEF Orders
  <1>8. q \in [1 .. N -> S]
    BY Zenon, <1>6
  <1> QED
    BY Zenon, <1>7, <1>8 DEF Lists

(* Each element is in an arrangement once.                                  *)
LEMMA ListsAll ==
    ASSUME NEW S, IsFiniteSet(S), NEW R, Orders(R, S), NEW q, Lists(q, S, R)
    PROVE  /\ \A i, j \in 1 .. Cardinality(S) : q[i] = q[j] => i = j
           /\ \A b \in S : \E i \in 1 .. Cardinality(S) : q[i] = b
  <1> DEFINE N == Cardinality(S)
  <1>1. N \in Nat /\ IsFiniteSet(1 .. N) /\ Cardinality(1 .. N) = N
    BY FS_CardinalityType, FS_Interval
  <1>2. q \in [1 .. N -> S] /\ \A i, j \in 1 .. N : i < j => <<q[i], q[j]>> \in R
    BY Zenon DEF Lists
  <1>3. \A i, j \in 1 .. N : q[i] = q[j] => i = j
    <2> SUFFICES ASSUME NEW i \in 1 .. N, NEW j \in 1 .. N, q[i] = q[j], i # j
                 PROVE  FALSE
      BY Zenon
    <2>1. q[i] \in S /\ q[j] \in S /\ (i < j \/ j < i)
      BY <1>1, <1>2
    <2> QED
      BY Zenon, <1>2, <2>1 DEF Orders
  <1>4. q \in Injection(1 .. N, S)
    BY Zenon, <1>2, <1>3 DEF Injection, IsInjective
  <1>5. q \in Surjection(1 .. N, S)
    BY Zenon, <1>1, <1>4, FS_Injection
  <1> QED
    BY Zenon, <1>3, <1>5 DEF Surjection

(* Arranged gives the arrangement: a sequence of all the elements, in       *)
(* order.                                                                   *)
THEOREM ArrangedLists ==
    ASSUME NEW S, IsFiniteSet(S), NEW R, Orders(R, S)
    PROVE  /\ Lists(Arranged(S, R), S, R)
           /\ Arranged(S, R) \in Seq(S)
           /\ Len(Arranged(S, R)) = Cardinality(S)
           /\ \A b \in S : \E i \in 1 .. Cardinality(S) : Arranged(S, R)[i] = b
  <1>1. Lists(Arranged(S, R), S, R)
    BY Zenon, ArrangementExists DEF Arranged, Lists
  <1>2. Cardinality(S) \in Nat
    BY Zenon, FS_CardinalityType
  <1>3. Arranged(S, R) \in Seq(S) /\ Len(Arranged(S, R)) = Cardinality(S)
    BY <1>1, <1>2 DEF Lists
  <1> QED
    BY <1>1, <1>3, ListsAll

-----------------------------------------------------------------------------

(* The place in the buffer up to which the loop has been served.            *)
Done == IF phase = "body" THEN cursor + 1 ELSE cursor

(* The buffer holds items of the tree, in order.  Items are marked, and     *)
(* unmarked by a put, but none leaves the tree during the loop.             *)
Buffer ==
    /\ buf \in Seq(Key)
    /\ Len(buf) <= itBufSize
    /\ cursor \in 0 .. Len(buf)
    /\ Done <= Len(buf)
    /\ \A i \in 1 .. Len(buf) : item[buf[i]] # "none"
    /\ \A i, j \in 1 .. Len(buf) : i < j => Before(buf[i], buf[j])

(* What was visited comes before what is left in the buffer, and not after  *)
(* its last item, from which the next batch starts.                         *)
Visited ==
    /\ visited \in Seq(Key)
    /\ StrictOrder
    /\ Len(buf) = 0 => visited = <<>>
    /\ \A n \in 1 .. Len(visited) :
          /\ \A i \in Done + 1 .. Len(buf) : Before(visited[n], buf[i])
          /\ visited[n] = buf[Len(buf)] \/ Before(visited[n], buf[Len(buf)])

(* A key that has stayed in the tree was visited, or is in what is left of  *)
(* the buffer, or comes after a full buffer.                                *)
Kept(k) ==
    \/ \E n \in 1 .. Len(visited) : visited[n] = k
    \/ \E i \in Done + 1 .. Len(buf) : buf[i] = k
    \/ Len(buf) = itBufSize /\ Before(buf[Len(buf)], k)

IInv ==
    /\ item \in [Key -> {"none", "live", "deleted"}]
    /\ reverse \in BOOLEAN
    /\ pivot \in Key \cup {NoPivot}
    /\ phase \in {"end", "valid", "body"}
    /\ err \in BOOLEAN
    /\ stable \subseteq Key
    /\ Buffer
    /\ Visited
    /\ \A k \in stable : item[k] = "live" /\ Kept(k)
    /\ Complete

-----------------------------------------------------------------------------
(* The tree orders the keys, in both directions.                            *)
LEMMA KeysAreOrdered ==
    ASSUME reverse \in BOOLEAN
    PROVE  /\ \A a \in Key : ~Before(a, a)
           /\ \A a, b, c \in Key : Before(a, b) /\ Before(b, c) => Before(a, c)
           /\ \A a, b \in Key : a = b \/ Before(a, b) \/ Before(b, a)
           /\ \A a, b \in Key : Before(a, b) => ~Before(b, a)
  BY IteratorAssumptions DEF Before

(* iterator.Seek fills the buffer with the first items from p on: they are  *)
(* in order, and an item from p on that is not among them comes after them, *)
(* when the buffer is full.                                                 *)
LEMMA BatchIsFirst ==
    ASSUME reverse \in BOOLEAN, NEW p \in Key \cup {NoPivot}
    PROVE  /\ Batch(p) \in Seq(Key)
           /\ Len(Batch(p)) <= itBufSize
           /\ \A i \in 1 .. Len(Batch(p)) : Batch(p)[i] \in From(p)
           /\ \A i, j \in 1 .. Len(Batch(p)) : i < j => Before(Batch(p)[i], Batch(p)[j])
           /\ \A k \in From(p) :
                 \/ \E i \in 1 .. Len(Batch(p)) : Batch(p)[i] = k
                 \/ /\ Len(Batch(p)) = itBufSize
                    /\ \A i \in 1 .. Len(Batch(p)) : Before(Batch(p)[i], k)
  <1> DEFINE S  == From(p)
             ks == Arranged(S, Order)
             N  == Cardinality(S)
             m  == IF N < itBufSize THEN N ELSE itBufSize
             b  == SubSeq(ks, 1, m)
  <1>1. IsFiniteSet(S) /\ S \subseteq Key /\ N \in Nat
    BY Zenon, FS_Subset, FS_CardinalityType, IteratorAssumptions DEF From
  <1>2. \A x, y \in S : <<x, y>> \in Order <=> Before(x, y)
    BY Zenon, <1>1 DEF Order
  <1>3. Orders(Order, S)
    BY Zenon, <1>1, <1>2, KeysAreOrdered DEF Orders
  <1>4. /\ Lists(ks, S, Order)
        /\ ks \in Seq(S) /\ Len(ks) = N
        /\ \A x \in S : \E i \in 1 .. N : ks[i] = x
    BY <1>1, <1>3, ArrangedLists
  <1>5. /\ \A i \in 1 .. N : ks[i] \in S
        /\ \A i, j \in 1 .. N : i < j => Before(ks[i], ks[j])
    BY Zenon, <1>2, <1>4 DEF Lists
  <1> HIDE DEF ks, S, N
  <1>6. m \in Nat /\ m <= N /\ m <= itBufSize /\ (m < N => m = itBufSize)
    BY <1>1, IteratorAssumptions
  <1>7. b \in Seq(S) /\ Len(b) = m /\ \A i \in 1 .. m : b[i] = ks[i]
    BY <1>4, <1>6
  <1>8. Batch(p) = b
    BY Zenon, <1>4 DEF Batch, ks, S
  <1> HIDE DEF m, b
  <1>9. \A k \in S : \/ \E i \in 1 .. m : b[i] = k
                     \/ m = itBufSize /\ \A i \in 1 .. m : Before(b[i], k)
    <2> SUFFICES ASSUME NEW k \in S, ~ \E i \in 1 .. m : b[i] = k
                 PROVE  m = itBufSize /\ \A i \in 1 .. m : Before(b[i], k)
      BY Zenon
    <2>1. PICK n \in 1 .. N : ks[n] = k
      BY Zenon, <1>4
    <2>2. m < n
      BY <1>1, <1>6, <1>7, <2>1
    <2>3. \A i \in 1 .. m : i \in 1 .. N /\ i < n
      BY <1>1, <1>6, <2>2
    <2> QED
      BY <1>1, <1>5, <1>6, <1>7, <2>1, <2>2, <2>3
  <1>10. \A i \in 1 .. m : b[i] \in S
    BY <1>1, <1>5, <1>6, <1>7
  <1>11. \A i, j \in 1 .. m : i < j => Before(b[i], b[j])
    BY <1>1, <1>5, <1>6, <1>7
  <1>12. b \in Seq(Key)
    BY <1>1, <1>7
  <1> QED
    BY Zenon, <1>6, <1>7, <1>8, <1>9, <1>10, <1>11, <1>12 DEF S

(* The batch from an item of the tree starts with that item.                *)
LEMMA BatchStartsThere ==
    ASSUME reverse \in BOOLEAN, NEW p \in Key, item[p] # "none"
    PROVE  Len(Batch(p)) \in Nat /\ Len(Batch(p)) >= 1 /\ Batch(p)[1] = p
  <1> DEFINE b == Batch(p)
  <1>1. /\ b \in Seq(Key)
        /\ Len(b) <= itBufSize
        /\ \A i \in 1 .. Len(b) : b[i] \in From(p)
        /\ \A i, j \in 1 .. Len(b) : i < j => Before(b[i], b[j])
        /\ \A k \in From(p) : \/ \E i \in 1 .. Len(b) : b[i] = k
                              \/ /\ Len(b) = itBufSize
                                 /\ \A i \in 1 .. Len(b) : Before(b[i], k)
    BY Zenon, BatchIsFirst
  <1>2. p \in From(p) /\ p # NoPivot
    BY Zenon, KeysAreOrdered, IteratorAssumptions DEF From, FromPivot
  <1>3. \A k \in From(p) : k \in Key /\ ~Before(k, p)
    BY Zenon, <1>2 DEF From, FromPivot
  <1> HIDE DEF b
  <1>4. Len(b) \in Nat /\ itBufSize \in Nat /\ itBufSize >= 1
    BY <1>1, IteratorAssumptions
  <1>5. PICK i \in 1 .. Len(b) : b[i] = p
    <2>1. CASE \E i \in 1 .. Len(b) : b[i] = p
      BY Zenon, <2>1
    <2>2. CASE Len(b) = itBufSize /\ \A i \in 1 .. Len(b) : Before(b[i], p)
      <3>1. 1 \in 1 .. Len(b)
        BY <1>4, <2>2
      <3> QED
        BY Zenon, <1>1, <1>3, <2>2, <3>1
    <2> QED
      BY Zenon, <1>1, <1>2, <2>1, <2>2
  <1>6. 1 \in 1 .. Len(b) /\ (i = 1 \/ 1 < i)
    BY <1>4, <1>5
  <1>7. i = 1
    BY Zenon, <1>1, <1>3, <1>5, <1>6
  <1> QED
    BY <1>4, <1>5, <1>6, <1>7 DEF b
-----------------------------------------------------------------------------
(* No step changes the direction.                                           *)
LEMMA SameDirection ==
    ASSUME [NextStep]_vars
    PROVE  /\ reverse' = reverse
           /\ \A a, b : Before(a, b)' <=> Before(a, b)
  <1>1. reverse' = reverse
    BY Zenon DEF NextStep, vars, Seek, InValid, SkipDeleted, NextBatch, ValidTrue, ValidFalse,
           Next, Put, Delete
  <1> QED
    BY Zenon, <1>1 DEF Before

(* A new loop: nothing is visited, and what is in the store is in the       *)
(* buffer or after it.                                                      *)
LEMMA SeekStep ==
    ASSUME IInv, NEW p \in Key \cup {NoPivot}, Seek(p)
    PROVE  IInv'
  <1> DEFINE b == Batch(p)
  <1>1. /\ pivot' = p /\ buf' = b /\ cursor' = 0 /\ phase' = "valid" /\ err' = FALSE
        /\ visited' = <<>> /\ item' = item /\ reverse' = reverse
        /\ stable' = {k \in Key : item[k] = "live" /\ FromPivot(p, k)}
    BY Zenon DEF Seek
  <1>2. /\ b \in Seq(Key)
        /\ Len(b) <= itBufSize
        /\ \A i \in 1 .. Len(b) : b[i] \in From(p)
        /\ \A i, j \in 1 .. Len(b) : i < j => Before(b[i], b[j])
        /\ \A k \in From(p) : \/ \E i \in 1 .. Len(b) : b[i] = k
                              \/ /\ Len(b) = itBufSize
                                 /\ \A i \in 1 .. Len(b) : Before(b[i], k)
    BY Zenon, BatchIsFirst DEF IInv
  <1> HIDE DEF b
  <1>3. Len(b) \in Nat /\ itBufSize \in Nat /\ itBufSize >= 1
    BY <1>2, IteratorAssumptions
  <1>4. Done' = 0
    BY Zenon, <1>1 DEF Done
  <1>5. Buffer'
    <2>1. \A i \in 1 .. Len(b) : item[b[i]] # "none"
      BY Zenon, <1>2 DEF From
    <2> QED
      BY <1>1, <1>2, <1>3, <1>4, <2>1 DEF Buffer, Before
  <1>6. Visited'
    BY <1>1, <1>3 DEF Visited, StrictOrder
  <1>7. ASSUME NEW k \in stable'
        PROVE  item[k] = "live" /\ Kept(k)'
    <2>1. k \in From(p) /\ item[k] = "live"
      BY Zenon, <1>1 DEF From
    <2>2. CASE \E i \in 1 .. Len(b) : b[i] = k
      BY <1>1, <1>3, <1>4, <2>1, <2>2 DEF Kept
    <2>3. CASE Len(b) = itBufSize /\ \A i \in 1 .. Len(b) : Before(b[i], k)
      <3>1. Len(b) \in 1 .. Len(b)
        BY <1>3, <2>3
      <3> QED
        BY Zenon, <1>1, <2>1, <2>3, <3>1 DEF Kept, Before
    <2> QED
      BY Zenon, <1>2, <2>1, <2>2, <2>3
  <1> QED
    BY Zenon, <1>1, <1>5, <1>6, <1>7 DEF IInv, Complete

(* The next batch starts with the last item of the buffer; what is in it    *)
(* after that item has not been visited.                                    *)
LEMMA NextBatchStep ==
    ASSUME IInv, NextBatch
    PROVE  IInv'
  <1> DEFINE p == buf[Len(buf)]
             b == Batch(p)
  <1>1. /\ phase = "valid" /\ AtEndOfBuf /\ Len(buf) = itBufSize
        /\ buf' = b /\ cursor' = 1
        /\ UNCHANGED <<item, reverse, pivot, phase, err, visited, stable>>
    BY Zenon DEF NextBatch
  <1>2. /\ Buffer /\ Visited /\ reverse \in BOOLEAN /\ stable \subseteq Key
        /\ \A k \in stable : item[k] = "live" /\ Kept(k)
    BY Zenon DEF IInv
  <1>3. /\ Len(buf) \in Nat /\ itBufSize \in Nat /\ itBufSize >= 1
        /\ Len(buf) \in 1 .. Len(buf)
        /\ cursor = Len(buf) /\ Done = Len(buf)
    BY <1>1, <1>2, IteratorAssumptions DEF Buffer, AtEndOfBuf, Done
  <1>4. p \in Key /\ item[p] # "none"
    BY <1>2, <1>3 DEF Buffer
  <1> HIDE DEF p
  <1>5. /\ b \in Seq(Key)
        /\ Len(b) <= itBufSize
        /\ \A i \in 1 .. Len(b) : b[i] \in From(p)
        /\ \A i, j \in 1 .. Len(b) : i < j => Before(b[i], b[j])
        /\ \A k \in From(p) : \/ \E i \in 1 .. Len(b) : b[i] = k
                              \/ /\ Len(b) = itBufSize
                                 /\ \A i \in 1 .. Len(b) : Before(b[i], k)
    BY Zenon, <1>2, <1>4, BatchIsFirst
  <1>6. Len(b) \in Nat /\ Len(b) >= 1 /\ b[1] = p
    BY Zenon, <1>2, <1>4, BatchStartsThere
  <1> HIDE DEF b
  <1>7. Done' = 1 /\ 1 \in 1 .. Len(b) /\ Len(b) \in 1 .. Len(b)
    BY <1>1, <1>6 DEF Done
  <1>8. \A a, c : Before(a, c)' <=> Before(a, c)
    BY Zenon, <1>1 DEF Before
  <1>9. Buffer'
    <2>1. \A i \in 1 .. Len(b) : item[b[i]] # "none"
      BY Zenon, <1>5 DEF From
    <2>2. cursor' \in 0 .. Len(b)
      BY <1>1, <1>6
    <2> QED
      BY Zenon, <1>1, <1>5, <1>6, <1>7, <1>8, <2>1, <2>2 DEF Buffer
  <1>10. \A i \in 2 .. Len(b) : b[i] \in Key /\ Before(p, b[i])
    BY <1>5, <1>6, <1>7
  <1>11. \A n \in 1 .. Len(visited) :
            visited[n] \in Key /\ (visited[n] = p \/ Before(visited[n], p))
    BY <1>2 DEF Visited, p
  <1>12. \A n \in 1 .. Len(visited), i \in 2 .. Len(b) : Before(visited[n], b[i])
    BY Zenon, <1>2, <1>4, <1>10, <1>11, KeysAreOrdered
  <1>13. Visited'
    <2>1. visited' \in Seq(Key) /\ StrictOrder' /\ Len(buf') # 0
      BY <1>1, <1>2, <1>6, <1>8 DEF Visited, StrictOrder
    <2>2. ASSUME NEW n \in 1 .. Len(visited)
          PROVE  visited[n] = b[Len(b)] \/ Before(visited[n], b[Len(b)])
      <3>1. CASE Len(b) = 1
        BY Zenon, <1>6, <1>11, <3>1
      <3>2. CASE Len(b) # 1
        <4>1. \A m \in Nat : m >= 1 /\ m # 1 => m \in 2 .. m
          OBVIOUS
        <4>2. Len(b) \in 2 .. Len(b)
          BY Zenon, <1>6, <3>2, <4>1
        <4> QED
          BY Zenon, <1>12, <4>2
      <3> QED
        BY Zenon, <3>1, <3>2
    <2>3. Done' + 1 .. Len(b) = 2 .. Len(b)
      BY <1>7
    <2> QED
      BY Zenon, <1>1, <1>8, <1>12, <2>1, <2>2, <2>3 DEF Visited
  <1>14. ASSUME NEW k \in stable
         PROVE  Kept(k)'
    <2>1. CASE \E n \in 1 .. Len(visited) : visited[n] = k
      BY Zenon, <1>1, <2>1 DEF Kept
    <2>2. CASE Before(p, k)
      <3>1. k \in From(p) /\ k # p
        BY Zenon, <1>2, <1>4, <2>2, KeysAreOrdered DEF From, FromPivot
      <3>2. CASE \E i \in 1 .. Len(b) : b[i] = k
        <4>1. PICK i \in 1 .. Len(b) : b[i] = k
          BY Zenon, <3>2
        <4>2. i # 1
          BY Zenon, <1>6, <3>1, <4>1
        <4>3. i \in Done' + 1 .. Len(b)
          BY <1>6, <1>7, <4>2
        <4> QED
          BY Zenon, <1>1, <4>1, <4>3 DEF Kept
      <3>3. CASE Len(b) = itBufSize /\ \A i \in 1 .. Len(b) : Before(b[i], k)
        <4>1. Len(b) = itBufSize /\ Before(b[Len(b)], k)
          BY Zenon, <1>7, <3>3
        <4>2. Before(buf'[Len(buf')], k)
          BY Zenon, <1>1, <4>1
        <4>3. (Before(buf[Len(buf)], k))'
          BY Zenon, <1>1, <4>2 DEF Before
        <4> QED
          BY Zenon, <1>1, <4>1, <4>3 DEF Kept
      <3> QED
        BY Zenon, <1>5, <3>1, <3>2, <3>3
    <2> QED
      BY <1>2, <1>3, <2>1, <2>2 DEF Kept, p
  <1> QED
    BY Zenon, <1>1, <1>2, <1>9, <1>13, <1>14 DEF IInv, Complete
(* Valid passes over a marked item: it is no key that stays.                *)
LEMMA SkipDeletedStep ==
    ASSUME IInv, SkipDeleted
    PROVE  IInv'
  <1>1. /\ phase = "valid" /\ ~AtEndOfBuf /\ item[buf[cursor + 1]] = "deleted"
        /\ cursor' = cursor + 1
        /\ UNCHANGED <<item, reverse, pivot, buf, phase, err, visited, stable>>
    BY Zenon DEF SkipDeleted
  <1>2. /\ Buffer /\ Visited /\ stable \subseteq Key
        /\ \A k \in stable : item[k] = "live" /\ Kept(k)
    BY Zenon DEF IInv
  <1>3. Len(buf) \in Nat /\ cursor \in Nat /\ cursor + 1 <= Len(buf)
    BY <1>1, <1>2 DEF Buffer, AtEndOfBuf
  <1>4. Done = cursor /\ Done' = cursor + 1
    BY Zenon, <1>1 DEF Done
  <1>5. \A a, b : Before(a, b)' <=> Before(a, b)
    BY Zenon, <1>1 DEF Before
  <1>6. Buffer'
    BY <1>1, <1>2, <1>3, <1>4, <1>5 DEF Buffer
  <1>7. Visited'
    BY <1>1, <1>2, <1>3, <1>4, <1>5 DEF Visited, StrictOrder
  <1>8. ASSUME NEW k \in stable
        PROVE  Kept(k)'
    <2>1. k # buf[cursor + 1]
      BY Zenon, <1>1, <1>2
    <2>2. (\E i \in Done + 1 .. Len(buf) : buf[i] = k)
             => \E i \in Done' + 1 .. Len(buf) : buf[i] = k
      BY <1>3, <1>4, <2>1
    <2> QED
      BY Zenon, <1>1, <1>2, <1>5, <2>2 DEF Kept
  <1> QED
    BY Zenon, <1>1, <1>2, <1>6, <1>7, <1>8 DEF IInv, Complete

(* Valid gives the loop the item under the cursor.                          *)
LEMMA ValidTrueStep ==
    ASSUME IInv, ValidTrue
    PROVE  IInv'
  <1> DEFINE x == buf[cursor + 1]
             L == Len(visited)
  <1>1. /\ phase = "valid" /\ ~AtEndOfBuf /\ phase' = "body"
        /\ visited' = Append(visited, x)
        /\ UNCHANGED <<item, reverse, pivot, buf, cursor, err, stable>>
    BY Zenon DEF ValidTrue
  <1>2. /\ Buffer /\ Visited /\ stable \subseteq Key
        /\ \A k \in stable : item[k] = "live" /\ Kept(k)
    BY Zenon DEF IInv
  <1>3. Len(buf) \in Nat /\ cursor \in Nat /\ cursor + 1 <= Len(buf)
    BY <1>1, <1>2 DEF Buffer, AtEndOfBuf
  <1>4. Done = cursor /\ Done' = cursor + 1 /\ cursor + 1 \in 1 .. Len(buf)
    BY <1>1, <1>3 DEF Done
  <1>5. \A a, b : Before(a, b)' <=> Before(a, b)
    BY Zenon, <1>1 DEF Before
  <1>6. x \in Key
    BY <1>2, <1>4 DEF Buffer
  <1>7. /\ L \in Nat /\ visited' \in Seq(Key) /\ Len(visited') = L + 1
        /\ visited'[L + 1] = x /\ \A n \in 1 .. L : visited'[n] = visited[n]
    BY <1>1, <1>2, <1>6 DEF Visited
  <1>8. \A n \in 1 .. L : Before(visited[n], x)
    BY <1>2, <1>3, <1>4 DEF Visited
  <1>9. \A i \in cursor + 2 .. Len(buf) : Before(x, buf[i])
    BY <1>2, <1>3, <1>4 DEF Buffer
  <1> HIDE DEF x, L
  <1>10. Buffer'
    BY Zenon, <1>1, <1>2, <1>3, <1>4, <1>5 DEF Buffer
  <1>11. StrictOrder'
    <2> SUFFICES ASSUME NEW n \in 1 .. L
                 PROVE  Before(visited'[n], visited'[n + 1])
      BY <1>5, <1>7 DEF StrictOrder
    <2>1. CASE n = L
      BY Zenon, <1>7, <1>8, <2>1
    <2>2. CASE n # L
      <3>1. n \in 1 .. L - 1 /\ n + 1 \in 1 .. L
        BY <1>7, <2>2
      <3> QED
        BY Zenon, <1>2, <1>7, <3>1 DEF Visited, StrictOrder, L
    <2> QED
      BY Zenon, <2>1, <2>2
  <1>12. Visited'
    <2>1. ASSUME NEW n \in 1 .. L + 1, NEW i \in Done' + 1 .. Len(buf)
          PROVE  Before(visited'[n], buf[i])
      <3>1. i \in cursor + 2 .. Len(buf) /\ i \in Done + 1 .. Len(buf)
        BY <1>3, <1>4
      <3>2. CASE n = L + 1
        BY Zenon, <1>7, <1>9, <3>1, <3>2
      <3>3. CASE n # L + 1
        <4>1. n \in 1 .. L
          BY <1>7, <3>3
        <4> QED
          BY Zenon, <1>2, <1>7, <3>1, <4>1 DEF Visited, L
      <3> QED
        BY Zenon, <3>2, <3>3
    <2>2. ASSUME NEW n \in 1 .. L + 1
          PROVE  visited'[n] = buf[Len(buf)] \/ Before(visited'[n], buf[Len(buf)])
      <3>1. CASE n = L + 1
        <4>1. CASE cursor + 1 = Len(buf)
          BY Zenon, <1>7, <3>1, <4>1 DEF x
        <4>2. CASE cursor + 1 # Len(buf)
          <5>1. Len(buf) \in cursor + 2 .. Len(buf)
            BY <1>3, <4>2
          <5> QED
            BY Zenon, <1>7, <1>9, <3>1, <5>1
        <4> QED
          BY Zenon, <4>1, <4>2
      <3>2. CASE n # L + 1
        <4>1. n \in 1 .. L
          BY <1>7, <3>2
        <4> QED
          BY Zenon, <1>2, <1>7, <4>1 DEF Visited, L
      <3> QED
        BY Zenon, <3>1, <3>2
    <2> QED
      BY <1>1, <1>3, <1>5, <1>7, <1>11, <2>1, <2>2 DEF Visited
  <1>13. ASSUME NEW k \in stable
         PROVE  Kept(k)'
    <2>1. CASE \E n \in 1 .. L : visited[n] = k
      <3>1. PICK n \in 1 .. L : visited[n] = k
        BY Zenon, <2>1
      <3>2. n \in 1 .. Len(visited') /\ visited'[n] = k
        BY <1>7, <3>1
      <3> QED
        BY Zenon, <3>2 DEF Kept
    <2>2. CASE x = k
      <3>1. L + 1 \in 1 .. Len(visited') /\ visited'[L + 1] = k
        BY <1>7, <2>2
      <3> QED
        BY Zenon, <3>1 DEF Kept
    <2>3. CASE \E i \in Done + 1 .. Len(buf) : buf[i] = k /\ x # k
      <3>1. \E i \in Done' + 1 .. Len(buf) : buf[i] = k
        BY <1>3, <1>4, <2>3 DEF x
      <3> QED
        BY Zenon, <1>1, <3>1 DEF Kept
    <2>4. CASE Len(buf) = itBufSize /\ Before(buf[Len(buf)], k)
      BY Zenon, <1>1, <1>5, <2>4 DEF Kept
    <2> QED
      BY Zenon, <1>2, <2>1, <2>2, <2>3, <2>4 DEF Kept, L
  <1> QED
    BY Zenon, <1>1, <1>2, <1>10, <1>12, <1>13 DEF IInv, Complete
(* Valid returns false: at the end of a buffer that is not full, nothing is *)
(* left.                                                                    *)
LEMMA ValidFalseStep ==
    ASSUME IInv, ValidFalse
    PROVE  IInv'
  <1>1. /\ phase = "valid" /\ phase' = "end" /\ (err \/ (AtEndOfBuf /\ Len(buf) # itBufSize))
        /\ UNCHANGED <<item, reverse, pivot, buf, cursor, err, visited, stable>>
    BY Zenon DEF ValidFalse
  <1>2. /\ Buffer /\ Visited
        /\ \A k \in stable : item[k] = "live" /\ Kept(k)
    BY Zenon DEF IInv
  <1>3. Done' = Done /\ Done = cursor
    BY Zenon, <1>1 DEF Done
  <1>4. \A a, b : Before(a, b)' <=> Before(a, b)
    BY Zenon, <1>1 DEF Before
  <1>5. Buffer' /\ Visited'
    BY Zenon, <1>1, <1>2, <1>3, <1>4 DEF Buffer, Visited, StrictOrder
  <1>6. \A k \in stable : Kept(k)'
    BY Zenon, <1>1, <1>2, <1>3, <1>4 DEF Kept
  <1>7. Complete'
    <2> SUFFICES ASSUME ~err, NEW k \in stable
                 PROVE  k \in Range(visited)
      BY Zenon, <1>1 DEF Complete
    <2>1. Len(buf) # itBufSize /\ Done + 1 > Len(buf) /\ Len(buf) \in Nat /\ Done \in Nat
      BY <1>1, <1>2, <1>3 DEF AtEndOfBuf, Buffer
    <2>2. \E n \in 1 .. Len(visited) : visited[n] = k
      BY <1>2, <2>1 DEF Kept
    <2> QED
      BY <1>2, <2>2 DEF Range, Visited
  <1> QED
    BY Zenon, <1>1, <1>2, <1>5, <1>6, <1>7 DEF IInv

(* The loop goes on: what was served stays served.                          *)
LEMMA NextStepOfLoop ==
    ASSUME IInv, NEW c \in BOOLEAN, Next(c)
    PROVE  IInv'
  <1>1. /\ phase = "body" /\ phase' = "valid" /\ cursor' = cursor + 1 /\ err' = c
        /\ UNCHANGED <<item, reverse, pivot, buf, visited, stable>>
    BY Zenon DEF Next
  <1>2. /\ Buffer /\ Visited
        /\ \A k \in stable : item[k] = "live" /\ Kept(k)
    BY Zenon DEF IInv
  <1>3. Done' = Done /\ Done = cursor + 1
    BY Zenon, <1>1 DEF Done
  <1>4. \A a, b : Before(a, b)' <=> Before(a, b)
    BY Zenon, <1>1 DEF Before
  <1>5. Buffer'
    BY <1>1, <1>2, <1>3, <1>4 DEF Buffer
  <1>6. Visited'
    BY Zenon, <1>1, <1>2, <1>3, <1>4 DEF Visited, StrictOrder
  <1>7. \A k \in stable : Kept(k)'
    BY Zenon, <1>1, <1>2, <1>3, <1>4 DEF Kept
  <1> QED
    BY Zenon, <1>1, <1>2, <1>5, <1>6, <1>7 DEF IInv, Complete

(* The body of the loop puts and deletes: no item leaves the tree, and a    *)
(* key that is deleted is no longer one that stays.                         *)
LEMMA BodyStep ==
    ASSUME IInv, NEW k \in Key, Put(k) \/ Delete(k)
    PROVE  IInv'
  <1>1. /\ phase = "body"
        /\ item' = [item EXCEPT ![k] = item'[k]] /\ item'[k] \in {"live", "deleted"}
        /\ stable' \subseteq stable
        /\ \A j \in stable' : item'[j] = item[j] \/ item'[j] = "live"
        /\ UNCHANGED <<reverse, pivot, buf, cursor, phase, err, visited>>
    BY Zenon DEF Put, Delete, IInv
  <1>2. /\ Buffer /\ Visited
        /\ \A j \in stable : item[j] = "live" /\ Kept(j)
    BY Zenon DEF IInv
  <1>3. Done' = Done
    BY Zenon, <1>1 DEF Done
  <1>4. \A a, b : Before(a, b)' <=> Before(a, b)
    BY Zenon, <1>1 DEF Before
  <1>5. item' \in [Key -> {"none", "live", "deleted"}]
        /\ \A j \in Key : item[j] # "none" => item'[j] # "none"
    BY Zenon, <1>1 DEF IInv
  <1>6. Buffer'
    BY <1>1, <1>2, <1>3, <1>4, <1>5 DEF Buffer
  <1>7. Visited'
    BY Zenon, <1>1, <1>2, <1>3, <1>4 DEF Visited, StrictOrder
  <1>8. \A j \in stable' : item'[j] = "live" /\ Kept(j)'
    BY Zenon, <1>1, <1>2, <1>3, <1>4 DEF Kept
  <1> QED
    BY Zenon, <1>1, <1>5, <1>6, <1>7, <1>8 DEF IInv, Complete

-----------------------------------------------------------------------------
(* The inductive invariant of the iterator, whose buffer overlaps the next  *)
(* one and whose tree changes under it (storeTx.Put, storeTx.Delete).       *)
THEOREM Invariance ==
    Init /\ [][NextStep]_vars => []IInv
  <1>1. Init => IInv
    <2> SUFFICES ASSUME Init
                 PROVE  IInv
      BY Zenon
    <2>1. Done = 0
      BY Zenon DEF Init, Done
    <2>2. Buffer
      BY <2>1, IteratorAssumptions DEF Init, Buffer
    <2>3. Visited
      BY DEF Init, Visited, StrictOrder
    <2> QED
      BY Zenon, <2>2, <2>3 DEF Init, IInv, Complete
  <1>2. IInv /\ [NextStep]_vars => IInv'
    <2> SUFFICES ASSUME IInv, [NextStep]_vars
                 PROVE  IInv'
      BY Zenon
    <2>1. CASE UNCHANGED vars
      <3>1. \A a, b : Before(a, b)' <=> Before(a, b)
        BY Zenon, SameDirection
      <3> QED
        BY Zenon, <2>1, <3>1 DEF vars, IInv, Buffer, Visited, Kept, Done, StrictOrder, Complete
    <2>2. CASE \E p \in Key \cup {NoPivot} : Seek(p)
      BY Zenon, <2>2, SeekStep
    <2>3. CASE InValid
      BY Zenon, <2>3, SkipDeletedStep, NextBatchStep, ValidTrueStep, ValidFalseStep DEF InValid
    <2>4. CASE \E c \in BOOLEAN : Next(c)
      BY Zenon, <2>4, NextStepOfLoop
    <2>5. CASE \E k \in Key : Put(k) \/ Delete(k)
      BY Zenon, <2>5, BodyStep
    <2> QED
      BY Zenon, <2>1, <2>2, <2>3, <2>4, <2>5 DEF NextStep
  <1> QED
    BY <1>1, <1>2, PTL

(* iterator.Seek, Valid and Next give the loop its keys in strict order and *)
(* every key that stays in the store, whatever the loop puts and deletes,   *)
(* for every size of the buffer.                                            *)
THEOREM IteratorIsExact ==
    Spec => []IterationIsExact
  <1>1. IInv => IterationIsExact
    BY Zenon DEF IInv, Visited, IterationIsExact
  <1> QED
    BY Invariance, <1>1, PTL DEF Spec

-----------------------------------------------------------------------------
(* Where the caller and the goroutine can be at the same time.  Before      *)
(* Close calls cancelFn no select of the goroutine sees a cancelled         *)
(* context, so that it leaves the callback only by a document or an error.  *)
Rendezvous ==
    /\ ch = "closed" <=> gor \in {"none", "ended"}
    /\ rows = "none" => gor = "none" /\ res.tx = "none"
    /\ rows \in {"idle", "request", "receive"} => ~ctxDone
    /\ gor = "stop" => ctxDone
    /\ rows = "idle" /\ last \in {"none", "row"} => gor \in {"first", "recv"}
    /\ rows = "request" => gor \in {"first", "recv"}
    /\ rows = "receive" => gor \in {"iterate", "send", "fail", "ended"}
    /\ rows \in {"request", "receive"} => last \in {"none", "row"}
    /\ last \in {"eof", "err"} => gor = "ended"

(* What the goroutine has been given and has handed over.                   *)
Counts ==
    /\ gor \in {"none", "first", "iterate", "recv", "fail"} => got = given
    /\ gor = "send" => given = got + 1
    /\ gor \in {"stop", "ended"} => given \in {got, got + 1}
    /\ (rows = "receive" /\ gor = "ended") \/ last = "eof" =>
          left = 0 /\ got = given /\ ~res.fails /\ ~res.err

(* The error of the iteration is recorded before it is sent, and Close has  *)
(* not ended the transaction before it is called.                           *)
Outcome ==
    /\ gor \in {"none", "first", "iterate", "send", "recv"} => ~res.fails /\ ~res.err
    /\ gor = "stop" => ~res.fails
    /\ gor = "fail" \/ last = "err" => res.err
    /\ rows # "closed" => res.tx \in {"none", "open"}
    /\ rows = "closed" => res.tx # "open"
    /\ driver!OutcomeIsKnown

DriverInv == driver!TypeOK /\ Rendezvous /\ Counts /\ Outcome

-----------------------------------------------------------------------------
(* No query has been made at first.                                         *)
LEMMA DriverInit ==
    ASSUME driver!Init
    PROVE  DriverInv
  <1>1. driver!TypeOK
    BY Zenon DEF driver!Init, driver!TypeOK, driver!Rows, driver!Goroutine, driver!ResultTx
  <1>2. Rendezvous
    BY Zenon DEF driver!Init, Rendezvous
  <1>3. Counts /\ Outcome
    BY Zenon DEF driver!Init, Counts, Outcome, driver!OutcomeIsKnown
  <1> QED
    BY Zenon, <1>1, <1>2, <1>3 DEF DriverInv

(* Every step keeps the types.                                              *)
LEMMA DriverTypeStep ==
    ASSUME driver!TypeOK, [driver!Next]_driver!vars
    PROVE  driver!TypeOK'
  <1> USE DEF driver!TypeOK, driver!Rows, driver!Goroutine, driver!ResultTx
  <1>1. CASE driver!BeginTx \/ driver!EndTx \/ driver!Next1 \/ driver!Close1 \/ driver!ReceiveEOF \/ UNCHANGED driver!vars
    <2>1. UNCHANGED <<left, given, got, res, gor, ch>>
      BY Zenon, <1>1 DEF driver!BeginTx, driver!EndTx, driver!Next1, driver!Close1, driver!ReceiveEOF, driver!vars
    <2>2. tx' \in {"none", "open"} /\ rows' \in driver!Rows
      BY Zenon, <1>1 DEF driver!BeginTx, driver!EndTx, driver!Next1, driver!Close1, driver!ReceiveEOF, driver!vars
    <2>3. ctxDone' \in BOOLEAN /\ last' \in {"none", "row", "badrow", "eof", "err"}
      BY Zenon, <1>1 DEF driver!BeginTx, driver!EndTx, driver!Next1, driver!Close1, driver!ReceiveEOF, driver!vars
    <2> QED
      BY Zenon, <2>1, <2>2, <2>3
  <1>2. CASE driver!QueryContext
    <2>1. left' \in Nat /\ given' \in Nat /\ got' \in Nat
      BY <1>2, DriverAssumption DEF driver!MaxDocsNat, driver!QueryContext
    <2>2. res' \in [tx : driver!ResultTx, writable : BOOLEAN, err : BOOLEAN, fails : BOOLEAN]
      BY <1>2 DEF driver!QueryContext
    <2> QED
      BY Zenon, <1>2, <2>1, <2>2 DEF driver!QueryContext
  <1>3. CASE driver!Close2
    BY Zenon, <1>3 DEF driver!Close2, driver!ResultClose
  <1>4. CASE driver!TakeRequest \/ driver!SeeCancel \/ driver!IterateEnds \/ driver!SendErr
    BY Zenon, <1>4 DEF driver!TakeRequest, driver!SeeCancel, driver!IterateEnds, driver!SendErr
  <1>5. CASE driver!IterateDoc \/ driver!SendDoc
    BY <1>5 DEF driver!IterateDoc, driver!SendDoc
  <1>6. CASE driver!IterateFails \/ driver!Unwind
    BY Zenon, <1>6 DEF driver!IterateFails, driver!Unwind
  <1> QED
    BY Zenon, <1>1, <1>2, <1>3, <1>4, <1>5, <1>6 DEF driver!Next, driver!CallStep, driver!GoroutineStep

(* Every step keeps the caller and the goroutine together.                  *)
LEMMA RendezvousStep ==
    ASSUME DriverInv, [driver!Next]_driver!vars
    PROVE  Rendezvous'
  <1> USE DEF DriverInv, driver!TypeOK, driver!Rows, driver!Goroutine, driver!ResultTx, Rendezvous
  <1>1. CASE driver!BeginTx \/ driver!EndTx \/ driver!Next1 \/ driver!Close1 \/ UNCHANGED driver!vars
    BY <1>1 DEF driver!BeginTx, driver!EndTx, driver!NoRows, driver!Next1, driver!Close1, driver!vars
  <1>2. CASE driver!QueryContext
    BY Zenon, <1>2 DEF driver!QueryContext
  <1>3. CASE driver!ReceiveEOF
    BY Zenon, <1>3 DEF driver!ReceiveEOF
  <1>4. CASE driver!Close2
    BY Zenon, <1>4 DEF driver!Close2, driver!ResultClose
  <1>5. CASE driver!TakeRequest
    BY Zenon, <1>5 DEF driver!TakeRequest
  <1>6. CASE driver!SeeCancel
    BY Zenon, <1>6 DEF driver!SeeCancel
  <1>7. CASE driver!IterateDoc \/ driver!IterateEnds
    BY <1>7 DEF driver!IterateDoc, driver!IterateEnds
  <1>8. CASE driver!IterateFails \/ driver!Unwind
    BY <1>8 DEF driver!IterateFails, driver!Unwind
  <1>9. CASE driver!SendDoc \/ driver!SendErr
    BY <1>9 DEF driver!SendDoc, driver!SendErr
  <1> QED
    BY Zenon, <1>1, <1>2, <1>3, <1>4, <1>5, <1>6, <1>7, <1>8, <1>9
    DEF driver!Next, driver!CallStep, driver!GoroutineStep

(* Every step keeps the count of what was handed over.                      *)
LEMMA CountsStep ==
    ASSUME DriverInv, [driver!Next]_driver!vars
    PROVE  Counts'
  <1> USE DEF DriverInv, driver!TypeOK, driver!Rows, driver!Goroutine, driver!ResultTx, Rendezvous, Counts, Outcome
  <1>1. CASE driver!BeginTx \/ driver!EndTx \/ driver!Next1 \/ driver!Close1 \/ UNCHANGED driver!vars
    BY Zenon, <1>1 DEF driver!BeginTx, driver!EndTx, driver!Next1, driver!Close1, driver!vars
  <1>2. CASE driver!QueryContext
    BY Zenon, <1>2 DEF driver!QueryContext
  <1>3. CASE driver!ReceiveEOF
    BY Zenon, <1>3 DEF driver!ReceiveEOF
  <1>4. CASE driver!Close2
    BY Zenon, <1>4 DEF driver!Close2, driver!ResultClose
  <1>5. CASE driver!TakeRequest
    BY Zenon, <1>5 DEF driver!TakeRequest
  <1>6. CASE driver!SeeCancel
    BY Zenon, <1>6 DEF driver!SeeCancel
  <1>7. CASE driver!IterateDoc
    BY Zenon, <1>7 DEF driver!IterateDoc
  <1>8. CASE driver!IterateEnds
    BY Zenon, <1>8 DEF driver!IterateEnds
  <1>9. CASE driver!IterateFails \/ driver!Unwind
    BY Zenon, <1>9 DEF driver!IterateFails, driver!Unwind
  <1>10. CASE driver!SendDoc \/ driver!SendErr
    BY Zenon, <1>10 DEF driver!SendDoc, driver!SendErr
  <1> QED
    BY Zenon, <1>1, <1>2, <1>3, <1>4, <1>5, <1>6, <1>7, <1>8, <1>9, <1>10
    DEF driver!Next, driver!CallStep, driver!GoroutineStep

(* Every step keeps the outcome of a result that is closed.                 *)
LEMMA OutcomeStep ==
    ASSUME DriverInv, [driver!Next]_driver!vars
    PROVE  Outcome'
  <1> USE DEF DriverInv, driver!TypeOK, driver!Rows, driver!Goroutine, driver!ResultTx, Rendezvous, Counts, Outcome,
              driver!OutcomeIsKnown
  <1>1. CASE driver!BeginTx \/ driver!EndTx \/ driver!Next1 \/ driver!Close1 \/ UNCHANGED driver!vars
    BY <1>1 DEF driver!BeginTx, driver!EndTx, driver!Next1, driver!Close1, driver!vars
  <1>2. CASE driver!QueryContext
    BY <1>2 DEF driver!QueryContext
  <1>3. CASE driver!ReceiveEOF
    BY Zenon, <1>3 DEF driver!ReceiveEOF
  <1>4. CASE driver!Close2
    BY Zenon, <1>4 DEF driver!Close2, driver!ResultClose
  <1>5. CASE driver!TakeRequest
    BY Zenon, <1>5 DEF driver!TakeRequest
  <1>6. CASE driver!SeeCancel
    BY Zenon, <1>6 DEF driver!SeeCancel
  <1>7. CASE driver!IterateDoc \/ driver!IterateEnds
    BY Zenon, <1>7 DEF driver!IterateDoc, driver!IterateEnds
  <1>8. CASE driver!IterateFails \/ driver!Unwind
    BY Zenon, <1>8 DEF driver!IterateFails, driver!Unwind
  <1>9. CASE driver!SendDoc \/ driver!SendErr
    BY Zenon, <1>9 DEF driver!SendDoc, driver!SendErr
  <1> QED
    BY Zenon, <1>1, <1>2, <1>3, <1>4, <1>5, <1>6, <1>7, <1>8, <1>9
    DEF driver!Next, driver!CallStep, driver!GoroutineStep

-----------------------------------------------------------------------------
(* The inductive invariant of the driver's rows: where Next, Close and the  *)
(* goroutine iterate can be together, what has gone over the channel, and   *)
(* what the Result knows of it.                                             *)
THEOREM DriverInvariance == driver!Spec => []DriverInv
  <1>1. DriverInv /\ [driver!Next]_driver!vars => DriverInv'
    BY Zenon, DriverTypeStep, RendezvousStep, CountsStep, OutcomeStep DEF DriverInv
  <1> QED
    BY DriverInit, <1>1, PTL DEF driver!Spec

-----------------------------------------------------------------------------
(* MatchLike: what is left of the text is never longer than the text saved  *)
(* at the last "%", from which the loop goes on when it backtracks.         *)
LikeInv ==
    /\ s \in Seq(InString) /\ t \in Seq(InString)
    /\ w # <<>> /\ at \in {"next", "back"} => Len(s) <= Len(t)
    /\ glob!CanStepForward

(* Every turn of the loop keeps it: the loop gives up on a pattern only     *)
(* with text left, and the text saved is at least as long.                  *)
LEMMA LikeStep ==
    ASSUME LikeInv, [glob!LikeNext]_likeVars
    PROVE  LikeInv'
  <1> USE DEF LikeInv, glob!CanStepForward
  <1>1. CASE glob!EndOfText \/ glob!EndOfPattern \/ glob!Returned \/ UNCHANGED likeVars
    BY <1>1 DEF glob!EndOfText, glob!EndOfPattern, glob!Returned, glob!likeVars, likeVars
  <1>2. CASE glob!All \/ glob!Escape
    BY Zenon, <1>2 DEF glob!All, glob!Escape, glob!Reads
  <1>3. CASE glob!Skip
    <2>1. (s' = s \/ (s # <<>> /\ s' = Tail(s))) /\ UNCHANGED <<w, t>>
      <3>1. CASE pattern[1] = glob!matchAll
        BY Zenon, <1>3, <3>1 DEF glob!Skip
      <3>2. CASE pattern[1] # glob!matchAll
        BY Zenon, <1>3, <3>2 DEF glob!Skip, glob!AtWildcard, glob!matchAll, glob!matchOne
      <3> QED
        BY Zenon, <3>1, <3>2
    <2>2. s' \in Seq(InString) /\ UNCHANGED <<w, t>>
      BY <2>1
    <2>3. at' \in {"skip", "false"}
      BY Zenon, <1>3 DEF glob!Skip
    <2> QED
      BY Zenon, <2>2, <2>3
  <1>4. CASE glob!Save
    BY <1>4 DEF glob!Save
  <1>5. CASE glob!One
    BY <1>5 DEF glob!One, glob!Reads
  <1>6. CASE glob!Ordinary
    <2>1. s # <<>> /\ s' = Tail(s) /\ at = "next" /\ UNCHANGED <<w, t>>
      BY Zenon, <1>6 DEF glob!Ordinary
    <2>2. s' \in Seq(InString) /\ (w # <<>> => Len(s') <= Len(t) /\ t # <<>>)
      BY <2>1
    <2> QED
      BY Zenon, <2>1, <2>2
  <1>7. CASE glob!Backtrack
    <2>1. UNCHANGED <<w, t>> /\ at' \in {"true", "false", "skip"}
      BY Zenon, <1>7 DEF glob!Backtrack
    <2>2. s' \in Seq(InString)
      BY <1>7 DEF glob!Backtrack
    <2> QED
      BY Zenon, <2>1, <2>2
  <1> QED
    BY Zenon, <1>1, <1>2, <1>3, <1>4, <1>5, <1>6, <1>7 DEF glob!LikeNext

-----------------------------------------------------------------------------
(* A step of MCLoops is a step of one loop, and the others do not move.     *)
LEMMA OneLoopSteps ==
    ASSUME [LoopsNext]_<<loop, vars, driverVars, likeVars>>
    PROVE  /\ [NextStep]_vars
           /\ [driver!Next]_driver!vars
           /\ [glob!LikeNext]_likeVars
  BY Zenon DEF LoopsNext, vars, driverVars, driver!vars, likeVars

(* Every text the loops start with is a sequence of characters.             *)
LEMMA LoopsStart ==
    ASSUME LoopsInit
    PROVE  Init /\ driver!Init /\ LikeInv
  <1>1. CASE loop = "like"
    <2>1. s \in UNION {[1 .. n -> InString] : n \in 0 .. MaxString}
      BY Zenon, <1>1 DEF LoopsInit, glob!LikeInit
    <2>2. PICK n \in 0 .. MaxString : s \in [1 .. n -> InString]
      BY Zenon, <2>1
    <2>3. s \in Seq(InString)
      BY <2>2
    <2> QED
      BY <1>1, <2>3 DEF LoopsInit, glob!LikeInit, LikeInv, glob!CanStepForward
  <1>2. CASE loop # "like"
    BY <1>2 DEF LoopsInit, LikeInv, glob!CanStepForward
  <1> QED
    BY Zenon, <1>1, <1>2 DEF LoopsInit

(* The three inductive invariants hold together.                            *)
THEOREM LoopsInvariance == LoopsSpec => [](IInv /\ DriverInv /\ LikeInv)
  <1>1. LoopsSpec => Init /\ [][NextStep]_vars
    BY OneLoopSteps, LoopsStart, PTL DEF LoopsSpec
  <1>2. LoopsSpec => driver!Init /\ [][driver!Next]_driver!vars
    BY OneLoopSteps, LoopsStart, PTL DEF LoopsSpec
  <1>3. LoopsSpec => []LikeInv
    BY OneLoopSteps, LoopsStart, LikeStep, PTL DEF LoopsSpec
  <1> QED
    BY <1>1, <1>2, <1>3, Invariance, DriverInvariance, PTL DEF driver!Spec

(* The iterator and the rows have their types: a batch is never longer than *)
(* the buffer, and the driver is in one of the states its code has.         *)
THEOREM LoopsTyped == LoopsSpec => []LoopsTypeOK
  <1>1. IInv => TypeOK
    <2> SUFFICES ASSUME IInv
                 PROVE  TypeOK
      BY Zenon
    <2>1. cursor \in 0 .. itBufSize
      BY IteratorAssumptions DEF IInv, Buffer
    <2> QED
      BY Zenon, <2>1 DEF IInv, Buffer, Visited, TypeOK
  <1>2. IInv /\ DriverInv => LoopsTypeOK
    BY Zenon, <1>1 DEF DriverInv, LoopsTypeOK
  <1> QED
    BY <1>2, LoopsInvariance, PTL

(* documentStream.Next never sends on the channel that iterate has closed,  *)
(* and MatchLike never slices an empty text when it backtracks.             *)
THEOREM NothingPanics == LoopsSpec => []NoPanic
  <1>1. DriverInv /\ LikeInv => NoPanic
    BY Zenon DEF DriverInv, Rendezvous, LikeInv, NoPanic, driver!NeverPanics
  <1> QED
    BY <1>1, LoopsInvariance, PTL

(* documentStream.Next returns each document of the iteration once, and     *)
(* io.EOF only when there is no more and nothing has failed.                *)
THEOREM EOFIsTheEnd == LoopsSpec => []RowsAreDocs
  <1>1. DriverInv => RowsAreDocs
    BY Zenon DEF DriverInv, driver!TypeOK, driver!Goroutine, Counts, RowsAreDocs,
           driver!RowsAreDocs
  <1> QED
    BY <1>1, LoopsInvariance, PTL

(* After io.EOF, Close commits what the query wrote; after an error of the  *)
(* iteration it rolls it back, although no lock orders the goroutine's      *)
(* write of Result.err and the read of it in Close.                         *)
THEOREM CloseKeepsItsWord == LoopsSpec => []OutcomeIsKnown
  <1>1. DriverInv => OutcomeIsKnown
    BY Zenon DEF DriverInv, Outcome, OutcomeIsKnown
  <1> QED
    BY <1>1, LoopsInvariance, PTL
=============================================================================
