----------------------------- MODULE HashTable ------------------------------
(***************************************************************************)
(* The chained hash table of the Pintos kernel (lib/kernel/hash.c).  An      *)
(* element has a key and an identity, so that two elements can be equal (to  *)
(* the table's `less') and distinct.  The buckets are sequences: the lists   *)
(* of module LinkedList, whose operations the table uses.  malloc() may      *)
(* fail, in hash_init() and in rehash().  `entries' is what the client       *)
(* believes: the element stored for each key, or None.                       *)
(***************************************************************************)
EXTENDS Integers, Sequences, FiniteSets, SequencesExt

CONSTANTS HKeys,        \* the keys
          HCopies,      \* the elements of one key
          HHash,        \* the hash of each key, any natural number
          MinBuckets,   \* 4 in the code
          BestPerBucket \* BEST_ELEMS_PER_BUCKET, 2 in the code

VARIABLES table,        \* <<>>, or a record of buckets and elem_cnt
          entries,      \* the element of each key
          destroyed     \* history: the last destructor pass: the elements it saw,
                        \* its calls, and what was stored

hashVars == <<table, entries, destroyed>>

None == [key |-> 0, copy |-> 0]
HElem == [key : HKeys, copy : HCopies]

BucketCnt(h) == Cardinality(DOMAIN h.buckets)
EmptyTable(n) == [buckets |-> [i \in 0..(n - 1) |-> <<>>], elem_cnt |-> 0]

(* `hash & (bucket_cnt - 1)' for a power of two. *)
FindBucket(h, key) == HHash[key] % BucketCnt(h)

FindElem(h, b, key) ==
  LET equal == SelectSeq(h.buckets[b], LAMBDA e : e.key = key)
  IN IF equal = <<>> THEN None ELSE equal[1]

HashFind(h, key) == FindElem(h, FindBucket(h, key), key)

InsertElem(h, e) == [h EXCEPT !.elem_cnt = @ + 1, !.buckets[FindBucket(h, e.key)] = <<e>> \o @]

RemoveElem(h, e) ==
  [h EXCEPT !.elem_cnt = @ - 1,
            !.buckets[FindBucket(h, e.key)] = SelectSeq(@, LAMBDA x : x # e)]

(* The largest power of two not above max(elem_cnt / BestPerBucket, MinBuckets):
   the loop turns off the lowest bit until one is left. *)
Powers == {2^i : i \in 0..10}
NewBucketCnt(h) ==
  LET want == Max({h.elem_cnt \div BestPerBucket, MinBuckets})
  IN Max({p \in Powers : p <= want})

(* hash_apply() and the iterator visit the buckets in order, each front to back. *)
Visit(h) == FlattenSeq([i \in 1..BucketCnt(h) |-> h.buckets[i - 1]])

(* A rehash that finds the new bucket with the old bucket count. *)
MovedStale(h, n) ==
  LET new == EmptyTable(n)
      place(b) == SelectSeq(Visit(h), LAMBDA e : FindBucket(h, e.key) = b)
  IN [new EXCEPT !.elem_cnt = h.elem_cnt,
                 !.buckets = [b \in DOMAIN new.buckets |-> IF b < BucketCnt(h) THEN Reverse(place(b)) ELSE <<>>]]

(* Every old element, in order, goes to the front of its new bucket. *)
Moved(h, n) ==
  LET new == EmptyTable(n)
      place(b) == SelectSeq(Visit(h), LAMBDA e : FindBucket(new, e.key) = b)
  IN [new EXCEPT !.elem_cnt = h.elem_cnt,
                 !.buckets = [b \in DOMAIN new.buckets |-> Reverse(place(b))]]

(* The tables rehash() can leave: it does nothing when malloc() fails. *)
Rehash(h) ==
  IF NewBucketCnt(h) = BucketCnt(h) THEN {h} ELSE {h, Moved(h, NewBucketCnt(h))}

---------------------------------------------------------------------------

HInit == /\ table = <<>> /\ entries = [k \in HKeys |-> None]
         /\ destroyed = [seen |-> {}, calls |-> 0, stored |-> {}]

Live == table # <<>>
Stored == {entries[k] : k \in HKeys} \ {None}

(* hash_init(): malloc() may fail and leave nothing. *)
HashInit ==
  /\ ~Live
  /\ table' = EmptyTable(MinBuckets)
  /\ UNCHANGED <<entries, destroyed>>

HashInsert(e) ==
  LET old == HashFind(table, e.key)
  IN /\ Live /\ e # entries[e.key]
     /\ table' \in Rehash(IF old = None THEN InsertElem(table, e) ELSE table)
     /\ entries' = [entries EXCEPT ![e.key] = IF @ = None THEN e ELSE @]
     /\ UNCHANGED destroyed

HashReplace(e) ==
  LET old == HashFind(table, e.key)
      rest == IF old = None THEN table ELSE RemoveElem(table, old)
  IN /\ Live /\ e # entries[e.key]
     /\ table' \in Rehash(InsertElem(rest, e))
     /\ entries' = [entries EXCEPT ![e.key] = e]
     /\ UNCHANGED destroyed

HashDelete(key) ==
  LET found == HashFind(table, key)
  IN /\ Live
     /\ table' \in IF found = None THEN {table} ELSE Rehash(RemoveElem(table, found))
     /\ entries' = [entries EXCEPT ![key] = None]
     /\ UNCHANGED destroyed

(* hash_clear() empties one bucket after the other. *)
Destructs ==
  destroyed' = [seen |-> ToSet(Visit(table)), calls |-> Len(Visit(table)), stored |-> Stored]

(* hash_clear() keeps the number of buckets. *)
HashClear ==
  /\ Live
  /\ table' = EmptyTable(BucketCnt(table))
  /\ Destructs
  /\ entries' = [k \in HKeys |-> None]

HashDestroy ==
  /\ Live
  /\ Destructs
  /\ table' = <<>>
  /\ entries' = [k \in HKeys |-> None]

HNext == \/ HashInit \/ HashClear \/ HashDestroy
         \/ \E e \in HElem : HashInsert(e) \/ HashReplace(e)
         \/ \E k \in HKeys : HashDelete(k)

---------------------------------------------------------------------------
(* Through every insertion, replacement, deletion and rehash, with or without
   memory: looking a key up finds the element stored for it, iterating visits
   every element once, and elem_cnt (hash_size()) is exact, so that the next
   rehash computes the right bucket count.  The destructor is called once for
   each element that was stored (hash.c). *)
HashExact ==
  /\ destroyed.seen = destroyed.stored /\ destroyed.calls = Cardinality(destroyed.stored)
  /\ Live =>
    /\ \A k \in HKeys : HashFind(table, k) = entries[k]
    /\ ToSet(Visit(table)) = Stored
    /\ table.elem_cnt = Len(Visit(table))
    /\ table.elem_cnt = Cardinality(ToSet(Visit(table)))
=============================================================================
