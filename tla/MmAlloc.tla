------------------------------ MODULE MmAlloc -------------------------------
(***************************************************************************)
(* The allocator of hw-memory/mm_alloc/mm_alloc.c: a doubly linked list of *)
(* blocks, each a metadata header followed by its contents, first fit,     *)
(* split on malloc, coalesced on free.                                     *)
(*                                                                         *)
(* An address is a number of units, `metasize' of them in a header.        *)
(* heap.meta is the memory read as headers: the fields of a header stay    *)
(* after its block is merged into another, until the contents that cover   *)
(* them are cleared.  Programs leave their blocks zero.                    *)
(***************************************************************************)
EXTENDS Integers, Sequences, FiniteSets, FiniteSetsExt, SequencesExt

CONSTANTS
  metasize,   \* units in a header
  HeapEnd,    \* sbrk() fails beyond this address
  Sizes       \* the sizes that programs ask for

VARIABLES
  heap,       \* header: the first block; meta: the memory; top: the end of the heap
  live,       \* history: contents address -> size, of the blocks in use
  crashed     \* a copy through a NULL pointer

mmVars == <<heap, live, crashed>>

NULL == 0
Cleared == [prev |-> NULL, next |-> NULL, free |-> FALSE, size |-> 0]
Addresses == 1..HeapEnd

MmInit ==
  /\ heap = [header |-> NULL, meta |-> [a \in Addresses |-> Cleared], top |-> 1]
  /\ live = <<>>
  /\ crashed = FALSE

Contents(a) == a + metasize

(* The blocks that a walk along `next' meets, from address a on.           *)
RECURSIVE Chain(_, _)
Chain(meta, a) == IF a = NULL THEN <<>> ELSE <<a>> \o Chain(meta, meta[a].next)

(* memset() of the contents: what was a header in there is zero.           *)
Memset(meta, from, size) ==
  [a \in Addresses |-> IF a >= from /\ a < from + size THEN Cleared ELSE meta[a]]

-----------------------------------------------------------------------------
(* mm_malloc() in the block that the walk finds: a rest that can hold a    *)
(* header becomes a free block of its own.                                 *)
Split(meta, cur, size) ==
  LET rest == meta[cur].size - size
      extra == Contents(cur) + size
      after == meta[cur].next
      linked == [meta EXCEPT
        ![extra] = [prev |-> cur, next |-> after, free |-> TRUE, size |-> rest - metasize],
        ![cur] = [@ EXCEPT !.size = size, !.next = extra]]
  IN  IF rest < metasize THEN meta
      ELSE IF after = NULL THEN linked ELSE [linked EXCEPT ![after].prev = extra]

Take(meta, cur) ==
  Memset([meta EXCEPT ![cur].free = FALSE], Contents(cur), meta[cur].size)

(* mm_malloc() with a block from sbrk() at the end of the list.            *)
Grow(h, last, size) ==
  LET cur == h.top
      linked == IF last = NULL THEN h.meta ELSE [h.meta EXCEPT ![last].next = cur]
  IN  [header |-> IF last = NULL THEN cur ELSE h.header,
       meta |-> Memset([linked EXCEPT ![cur] =
                   [prev |-> last, next |-> NULL, free |-> FALSE, size |-> size]],
                 Contents(cur), size),
       top |-> cur + metasize + size]

(* mm_malloc(): the heap afterwards and the address that it returns.       *)
Malloc(h, size) ==
  LET walk == Chain(h.meta, h.header)
      fit == SelectInSeq(walk, LAMBDA a : h.meta[a].free /\ h.meta[a].size >= size)
  IN  IF size = 0 THEN [heap |-> h, ptr |-> NULL]
      ELSE IF fit # 0
        THEN [heap |-> [h EXCEPT !.meta = Take(Split(@, walk[fit], size), walk[fit])],
              ptr |-> Contents(walk[fit])]
      ELSE IF h.top + metasize + size > HeapEnd + 1
        THEN [heap |-> h, ptr |-> NULL]
      ELSE [heap |-> Grow(h, IF walk = <<>> THEN NULL ELSE Last(walk), size),
            ptr |-> Contents(h.top)]

-----------------------------------------------------------------------------
(* mm_free(): the block joins the run of free blocks after it, then the    *)
(* walk along `prev' joins the run before it.  Sizes add up in cur->size;  *)
(* the block behind the merged run keeps its `prev'.                       *)
RECURSIVE Forward(_, _, _)
Forward(meta, m, size) ==
  IF m # NULL /\ meta[m].free
    THEN Forward(meta, meta[m].next, size + metasize + meta[m].size)
    ELSE [next |-> m, size |-> size]

RECURSIVE Backward(_, _, _)
Backward(meta, m, size) ==
  IF meta[m].prev # NULL /\ meta[meta[m].prev].free
    THEN Backward(meta, meta[m].prev, size + metasize + meta[meta[m].prev].size)
    ELSE [first |-> m, size |-> size]

Coalesce(meta, cur) ==
  LET fwd == Forward(meta, meta[cur].next, meta[cur].size)
      merged == [meta EXCEPT ![cur] =
                   [@ EXCEPT !.free = TRUE, !.next = fwd.next, !.size = fwd.size]]
      bwd == Backward(merged, cur, fwd.size)
  IN  [merged EXCEPT ![cur].size = bwd.size,
                     ![bwd.first] = [@ EXCEPT !.size = bwd.size, !.next = fwd.next]]

Free(h, ptr) ==
  LET walk == Chain(h.meta, h.header)
      found == SelectInSeq(walk, LAMBDA a : ~h.meta[a].free /\ Contents(a) = ptr)
  IN  IF found = 0 THEN h ELSE [h EXCEPT !.meta = Coalesce(@, walk[found])]

-----------------------------------------------------------------------------
(* The calls of a program, with the addresses it got and has not freed.    *)
Without(ptr) == [c \in DOMAIN live \ {ptr} |-> live[c]]

MmMalloc(size) ==
  LET m == Malloc(heap, size)
  IN  /\ heap' = m.heap
      /\ live' = IF m.ptr = NULL THEN live ELSE (m.ptr :> size) @@ live
      /\ UNCHANGED crashed

MmFree(ptr) ==
  /\ heap' = Free(heap, ptr)
  /\ live' = Without(ptr)
  /\ UNCHANGED crashed

(* mm_realloc() frees the block, allocates and copies: size 0 only frees,  *)
(* and a failed mm_malloc() is copied to all the same.                     *)
MmRealloc(ptr, size) ==
  LET m == Malloc(Free(heap, ptr), size)
  IN  /\ heap' = m.heap
      /\ live' = IF m.ptr = NULL THEN Without(ptr) ELSE (m.ptr :> size) @@ Without(ptr)
      /\ crashed' = (size # 0 /\ m.ptr = NULL)

MmNext ==
  /\ ~crashed
  /\ \E size \in Sizes :
       \/ MmMalloc(size)
       \/ \E ptr \in DOMAIN live : MmFree(ptr) \/ MmRealloc(ptr, size)

MmSpec == MmInit /\ [][MmNext]_mmVars

-----------------------------------------------------------------------------
(* mm_alloc.h: "A clone of the interface documented in man 3 malloc": no   *)
(* two blocks in use share memory, and none goes beyond the heap.          *)
NoOverlap ==
  \A p \in DOMAIN live :
    /\ p + live[p] <= heap.top
    /\ \A q \in DOMAIN live \ {p} : p + live[p] <= q \/ q + live[q] <= p
=============================================================================
