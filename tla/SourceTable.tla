---------------------------- MODULE SourceTable ----------------------------
(***************************************************************************)
(* The open-addressed hash table of buckets of src/ratequeue.c, as         *)
(* operators: a table is a record of `size', which is 1 << hashlen, and    *)
(* the array `buckets', whose slots hold a source, for the bucket of that  *)
(* source, or NULL.                                                        *)
(***************************************************************************)
EXTENDS Integers, FiniteSets

CONSTANTS Source,    \* the sources of requests
          Hash,      \* source -> its hash
          NoSource,  \* the null pointer in a slot
          MinSize    \* 1 << SBUCKETS, the smallest size

ASSUME TableAssumption == /\ NoSource \notin Source
                          /\ Hash \in [Source -> Nat]
                          /\ MinSize \in Nat /\ MinSize >= 2

EmptyTable == [size |-> MinSize, buckets |-> [i \in 0 .. MinSize - 1 |-> NoSource]]

Slots(T) == DOMAIN T.buckets
Held(T) == {T.buckets[i] : i \in Slots(T)} \ {NoSource}

\* The first free slot of an array b of n slots from the one that s hashes to.
FreeSlot(b, n, s) ==
  LET at(k) == (Hash[s] + k) % n
      first == CHOOSE k \in 0 .. n - 1 : /\ b[at(k)] = NoSource
                                         /\ \A j \in 0 .. k - 1 : b[at(j)] # NoSource
  IN  at(first)

\* The array with the bucket of s in it.
Place(b, n, s) == [b EXCEPT ![FreeSlot(b, n, s)] = s]

\* rehash(): every bucket, in the order of the old slots, into a new array.
Rehash(T, size) ==
  LET n == IF size <= MinSize THEN MinSize ELSE size
      New[i \in 0 .. T.size] ==
        IF i = 0 THEN [o \in 0 .. n - 1 |-> NoSource]
        ELSE LET b == New[i - 1]
                 s == T.buckets[i - 1]
             IN  IF s = NoSource THEN b ELSE Place(b, n, s)
  IN  IF n = T.size THEN T ELSE [size |-> n, buckets |-> New[T.size]]

\* hashget(): the table after the bucket of s is found or made.
HashGet(T, s) ==
  IF s \in Held(T) THEN T
  ELSE LET with == [T EXCEPT !.buckets = Place(@, T.size, s)] IN
         IF Cardinality(Held(with)) > T.size \div 2
         THEN Rehash(with, 2 * T.size)
         ELSE with

\* Mutant: nothing is moved into the hole.
HashDel_Hole(T, s) ==
  [T EXCEPT !.buckets = [i \in Slots(T) |-> IF T.buckets[i] = s THEN NoSource ELSE T.buckets[i]]]

\* hashdel(): empty the slot of s; then, up to the next free slot, move every
\* bucket that does not hash to between the hole (excluded) and where it is
\* into the hole, which moves on.
HashDel(T, s) ==
  LET N == T.size
      i == CHOOSE k \in Slots(T) : T.buckets[k] = s
      slot(k) == (i + k) % N
      run == CHOOSE k \in 0 .. N - 1 : /\ T.buckets[slot(k + 1)] \in {NoSource, s}
                                       /\ \A j \in 1 .. k : T.buckets[slot(j)] # NoSource
      Shift[k \in 0 .. run] ==
        IF k = 0 THEN [b |-> [T.buckets EXCEPT ![i] = NoSource], hole |-> i]
        ELSE LET h == Shift[k - 1].hole
                 b == Shift[k - 1].b
                 o == slot(k)
                 p == (Hash[b[o]] - h) % N
             IN  IF p = 0 \/ p > (o - h) % N
                 THEN [b |-> [b EXCEPT ![h] = b[o], ![o] = NoSource], hole |-> o]
                 ELSE [b |-> b, hole |-> h]
      rest == [T EXCEPT !.buckets = Shift[run].b]
  IN  IF Cardinality(Held(rest)) <= N \div 8        \* 1 << (hashlen - 3)
      THEN Rehash(rest, N \div 2)
      ELSE rest

\* No bucket is in the table twice, at most half of the slots are taken, and
\* no slot is free between the one a bucket hashes to and its own: the
\* assertions of hashdel() hold and every loop over the slots ends.
TableOK(T) ==
  /\ \A i, j \in Slots(T) : T.buckets[i] = T.buckets[j] /\ T.buckets[i] # NoSource => i = j
  /\ Slots(T) = 0 .. T.size - 1
  /\ 2 * Cardinality(Held(T)) <= T.size
  /\ \A i \in Slots(T) : T.buckets[i] # NoSource =>
       LET h == Hash[T.buckets[i]] IN
         \A k \in 0 .. ((i - h) % T.size) - 1 : T.buckets[(h + k) % T.size] # NoSource
=============================================================================
