----------------------------- MODULE KernelHeap -----------------------------
(***************************************************************************)
(* The kernel's memory: malloc(), calloc(), realloc() and free() of        *)
(* threads/malloc.c on top of the page allocator of threads/palloc.c and   *)
(* the bitmap of lib/kernel/bitmap.c.                                      *)
(*                                                                         *)
(* Threads are preempted between any two steps.  malloc() and free() hold  *)
(* their descriptor's lock; palloc_get_multiple() holds the pool's lock    *)
(* around the scan of the bitmap, palloc_free_multiple() does not.         *)
(***************************************************************************)
EXTENDS Integers, Sequences, FiniteSets, SequencesExt, FiniteSetsExt

CONSTANTS
  HThread,    \* threads
  PoolSize,   \* pages in the kernel pool
  PageSize,   \* PGSIZE
  ArenaSize,  \* sizeof(struct arena)
  MinBlock,   \* the smallest block, 16 in the code
  HSizes,     \* the sizes that threads ask for
  MaxHeld     \* bound: blocks that a thread holds

HeapSizes ==
  /\ PoolSize \in Nat /\ MaxHeld \in Nat /\ HSizes \subseteq Nat
  /\ ArenaSize \in Nat \ {0} /\ MinBlock \in Nat \ {0} /\ PageSize > 2 * ArenaSize

VARIABLES
  usedMap,    \* kernel_pool.used_map, as the set of used pages
  poolLock,   \* holder of kernel_pool.lock, or NoThread
  descLock,   \* holder of each descriptor's lock, or NoThread
  freeList,   \* each descriptor's list of free blocks
  arena,      \* the struct arena at the start of a page
  hpc,        \* where each thread is
  req,        \* the size that a thread asks for
  found,      \* page_idx of the pages a thread is getting or giving back
  oldBlock,   \* the block that free() or realloc() was called with
  held        \* history: blocks that each thread was given and has not freed

heapVars == <<usedMap, poolLock, descLock, freeList, arena, hpc, req, found, oldBlock, held>>

NoThread == "none"
NoBlock == [page |-> -1, idx |-> 0]
NoArena == [desc |-> 0, freeCnt |-> 0, magic |-> FALSE]
Pages == 0..(PoolSize - 1)

(* malloc_init(): the sizes of the descriptors, and their blocks per arena.*)
Descs == {d \in 1..PageSize : 2 * d < PageSize /\ \E k \in 0..8 : d = MinBlock * 2^k}
BlocksPerArena(d) == (PageSize - ArenaSize) \div d
PageCount(size) == (size + ArenaSize + PageSize - 1) \div PageSize
DescFor(size) == Min({d \in Descs : d >= size})
IsBig(size) == \A d \in Descs : d < size

HeapInit ==
  /\ usedMap = {} /\ poolLock = NoThread
  /\ descLock = [d \in Descs |-> NoThread]
  /\ freeList = [d \in Descs |-> <<>>]
  /\ arena = [p \in Pages |-> NoArena]
  /\ hpc = [t \in HThread |-> "idle"]
  /\ req = [t \in HThread |-> 0] /\ found = [t \in HThread |-> -1]
  /\ oldBlock = [t \in HThread |-> NoBlock]
  /\ held = [t \in HThread |-> {}]

HGoes(t, from, to) == hpc[t] = from /\ hpc' = [hpc EXCEPT ![t] = to]
Done(t) == IF oldBlock[t] = NoBlock THEN "idle" ELSE "free"

(* block_to_arena() and arena_to_block(): a block is its arena's page and  *)
(* its index there; index 0 of an arena without descriptor is a big block. *)
ArenaBlocks(p, d) == [i \in 1..BlocksPerArena(d) |-> [page |-> p, idx |-> i - 1]]

(* bitmap_scan(): the first group of cnt clear bits, or -1.                *)
BitmapScan(used, cnt) ==
  LET free == {i \in Pages : i + cnt <= PoolSize /\ (i..(i + cnt - 1)) \cap used = {}}
  IN  IF free = {} THEN -1 ELSE Min(free)

-----------------------------------------------------------------------------
(* malloc(), calloc() and the first half of realloc().                     *)
CallMalloc(t, size) ==
  /\ hpc[t] = "idle" /\ size > 0 /\ Cardinality(held[t]) < MaxHeld
  /\ hpc' = [hpc EXCEPT ![t] = IF IsBig(size) THEN "poolLock" ELSE "descLock"]
  /\ req' = [req EXCEPT ![t] = size]
  /\ UNCHANGED <<usedMap, poolLock, descLock, freeList, arena, found, oldBlock, held>>

(* realloc() to a size > 0 keeps the old block until malloc() succeeded.   *)
CallRealloc(t, block, size) ==
  /\ hpc[t] = "idle" /\ block \in held[t] /\ size > 0
  /\ hpc' = [hpc EXCEPT ![t] = IF IsBig(size) THEN "poolLock" ELSE "descLock"]
  /\ req' = [req EXCEPT ![t] = size]
  /\ oldBlock' = [oldBlock EXCEPT ![t] = block]
  /\ UNCHANGED <<usedMap, poolLock, descLock, freeList, arena, found, held>>

MallocLock(t) ==
  LET d == DescFor(req[t])
  IN  /\ hpc[t] = "descLock" /\ descLock[d] = NoThread
      /\ HGoes(t, "descLock", IF freeList[d] = <<>> THEN "poolLock" ELSE "pop")
      /\ descLock' = [descLock EXCEPT ![d] = t]
      /\ UNCHANGED <<usedMap, poolLock, freeList, arena, req, found, oldBlock, held>>

(* Mutant: the scan does not wait for the pool's lock.                     *)
PoolAcquireUnlocked(t) ==
  /\ HGoes(t, "poolLock", "scan")
  /\ UNCHANGED <<usedMap, poolLock, descLock, freeList, arena, req, found, oldBlock, held>>

(* palloc_get_multiple(): the pool's lock, the scan, the bits, the lock.   *)
PoolAcquire(t) ==
  /\ HGoes(t, "poolLock", "scan") /\ poolLock = NoThread
  /\ poolLock' = t
  /\ UNCHANGED <<usedMap, descLock, freeList, arena, req, found, oldBlock, held>>

PagesWanted(t) == IF IsBig(req[t]) THEN PageCount(req[t]) ELSE 1

PoolScan(t) ==
  /\ HGoes(t, "scan", "flip")
  /\ found' = [found EXCEPT ![t] = BitmapScan(usedMap, PagesWanted(t))]
  /\ UNCHANGED <<usedMap, poolLock, descLock, freeList, arena, req, oldBlock, held>>

PoolFlip(t) ==
  /\ HGoes(t, "flip", "gotPages")
  /\ usedMap' = IF found[t] = -1 THEN usedMap
                ELSE usedMap \cup found[t]..(found[t] + PagesWanted(t) - 1)
  /\ poolLock' = NoThread
  /\ UNCHANGED <<descLock, freeList, arena, req, found, oldBlock, held>>

(* malloc() without a page: a null pointer; realloc() keeps the old block. *)
MallocFails(t) ==
  /\ HGoes(t, "gotPages", "idle") /\ found[t] = -1
  /\ descLock' = IF IsBig(req[t]) THEN descLock ELSE [descLock EXCEPT ![DescFor(req[t])] = NoThread]
  /\ oldBlock' = [oldBlock EXCEPT ![t] = NoBlock] /\ req' = [req EXCEPT ![t] = 0]
  /\ UNCHANGED <<usedMap, poolLock, freeList, arena, found, held>>

(* The arena header of a big block, which the caller gets.                 *)
MallocBig(t) ==
  /\ HGoes(t, "gotPages", Done(t)) /\ found[t] # -1 /\ IsBig(req[t])
  /\ arena' = [arena EXCEPT ![found[t]] = [desc |-> 0, freeCnt |-> PageCount(req[t]), magic |-> TRUE]]
  /\ held' = [held EXCEPT ![t] = @ \cup {[page |-> found[t], idx |-> 0]}]
  /\ found' = [found EXCEPT ![t] = -1] /\ req' = [req EXCEPT ![t] = 0]
  /\ UNCHANGED <<usedMap, poolLock, descLock, freeList, oldBlock>>

(* A new arena: all its blocks go to the end of the free list.             *)
MallocArena(t) ==
  LET d == DescFor(req[t])
  IN  /\ HGoes(t, "gotPages", "pop") /\ found[t] # -1 /\ ~IsBig(req[t])
      /\ arena' = [arena EXCEPT ![found[t]] =
                     [desc |-> d, freeCnt |-> BlocksPerArena(d), magic |-> TRUE]]
      /\ freeList' = [freeList EXCEPT ![d] = @ \o ArenaBlocks(found[t], d)]
      /\ found' = [found EXCEPT ![t] = -1]
      /\ UNCHANGED <<usedMap, poolLock, descLock, req, oldBlock, held>>

(* The first free block, and the descriptor's lock.                        *)
MallocPop(t) ==
  LET d == DescFor(req[t])
      b == Head(freeList[d])
  IN  /\ hpc[t] = "pop" /\ HGoes(t, "pop", Done(t))
      /\ freeList' = [freeList EXCEPT ![d] = Tail(@)]
      /\ arena' = [arena EXCEPT ![b.page].freeCnt = @ - 1]
      /\ descLock' = [descLock EXCEPT ![d] = NoThread]
      /\ held' = [held EXCEPT ![t] = @ \cup {b}]
      /\ req' = [req EXCEPT ![t] = 0]
      /\ UNCHANGED <<usedMap, poolLock, found, oldBlock>>

-----------------------------------------------------------------------------
(* free(), called by itself, by realloc(p, 0) or at the end of realloc().  *)
CallFree(t, block) ==
  /\ HGoes(t, "idle", "free") /\ block \in held[t]
  /\ oldBlock' = [oldBlock EXCEPT ![t] = block]
  /\ UNCHANGED <<usedMap, poolLock, descLock, freeList, arena, req, found, held>>

(* A big block goes straight to palloc_free_multiple().                    *)
FreeBig(t) ==
  LET b == oldBlock[t]
  IN  /\ HGoes(t, "free", "clear") /\ arena[b.page].desc = 0
      /\ held' = [held EXCEPT ![t] = @ \ {b}]
      /\ found' = [found EXCEPT ![t] = b.page]
      /\ req' = [req EXCEPT ![t] = arena[b.page].freeCnt]
      /\ UNCHANGED <<usedMap, poolLock, descLock, freeList, arena, oldBlock>>

FreeLock(t) ==
  LET d == arena[oldBlock[t].page].desc
  IN  /\ hpc[t] = "free" /\ d # 0 /\ HGoes(t, "free", "push") /\ descLock[d] = NoThread
      /\ descLock' = [descLock EXCEPT ![d] = t]
      /\ UNCHANGED <<usedMap, poolLock, freeList, arena, req, found, oldBlock, held>>

(* Mutant: the blocks of an unused arena stay on the free list.            *)
FreedListLeaves(list, b, unused) == <<b>> \o list

(* The block goes to the front of the list; an arena that is unused now    *)
(* takes all its blocks off the list.                                      *)
FreedList(list, b, unused) ==
  SelectSeq(<<b>> \o list, LAMBDA x : ~unused \/ x.page # b.page)

FreePush(t) ==
  LET b == oldBlock[t]
      d == arena[b.page].desc
      unused == arena[b.page].freeCnt + 1 >= BlocksPerArena(d)
  IN  /\ HGoes(t, "push", IF unused THEN "clear" ELSE "unlock")
      /\ held' = [held EXCEPT ![t] = @ \ {b}]
      /\ arena' = [arena EXCEPT ![b.page].freeCnt = @ + 1]
      /\ found' = [found EXCEPT ![t] = b.page]
      /\ req' = [req EXCEPT ![t] = 1]
      /\ freeList' = [freeList EXCEPT ![d] = FreedList(@, b, unused)]
      /\ UNCHANGED <<usedMap, poolLock, descLock, oldBlock>>

(* palloc_free_multiple(): memset() destroys the arena header, then one    *)
(* bit at a time is cleared, without the pool's lock.                      *)
ClearBit(t) ==
  /\ hpc[t] = "clear" /\ req[t] > 0
  /\ usedMap' = usedMap \ {found[t]}
  /\ arena' = [arena EXCEPT ![found[t]] = [@ EXCEPT !.magic = FALSE]]
  /\ found' = [found EXCEPT ![t] = @ + 1]
  /\ req' = [req EXCEPT ![t] = @ - 1]
  /\ UNCHANGED <<poolLock, descLock, freeList, hpc, oldBlock, held>>

(* free() returns; a normal block's descriptor is unlocked.                *)
FreeReturns(t) ==
  /\ hpc[t] = "unlock" \/ (hpc[t] = "clear" /\ req[t] = 0)
  /\ hpc' = [hpc EXCEPT ![t] = "idle"]
  /\ descLock' = [d \in Descs |-> IF descLock[d] = t THEN NoThread ELSE descLock[d]]
  /\ oldBlock' = [oldBlock EXCEPT ![t] = NoBlock]
  /\ found' = [found EXCEPT ![t] = -1] /\ req' = [req EXCEPT ![t] = 0]
  /\ UNCHANGED <<usedMap, poolLock, freeList, arena, held>>

HeapNext ==
  \E t \in HThread :
    \/ \E size \in HSizes : CallMalloc(t, size) \/ \E b \in held[t] : CallRealloc(t, b, size)
    \/ MallocLock(t) \/ PoolAcquire(t) \/ PoolScan(t) \/ PoolFlip(t)
    \/ MallocFails(t) \/ MallocBig(t) \/ MallocArena(t) \/ MallocPop(t)
    \/ \E b \in held[t] : CallFree(t, b)
    \/ FreeBig(t) \/ FreeLock(t) \/ FreePush(t) \/ ClearBit(t) \/ FreeReturns(t)

-----------------------------------------------------------------------------
BlockPages(b) ==
  IF arena[b.page].desc = 0 THEN b.page..(b.page + arena[b.page].freeCnt - 1) ELSE {b.page}
Held == UNION {held[t] : t \in HThread}

(* A block that malloc() returned belongs to one thread until it is freed: *)
(* no other thread has it, its pages are marked used, its arena's header   *)
(* is intact, it is not on a free list and shares no page with a big       *)
(* block, whoever is in malloc() or free() meanwhile.                      *)
BlocksSafe ==
  /\ \A t, u \in HThread : t # u => held[t] \cap held[u] = {}
  /\ \A b \in Held :
       /\ arena[b.page].magic /\ BlockPages(b) \subseteq usedMap
       /\ \A d \in Descs : ~ Contains(freeList[d], b)
       /\ \A c \in Held \ {b} : arena[b.page].desc = 0 => BlockPages(b) \cap BlockPages(c) = {}

(* A descriptor that nobody has locked: its free list has, once each, the  *)
(* blocks of its arenas that nobody holds, free_cnt counts them, and no    *)
(* arena is entirely free (its page would be lost to others).              *)
FreeListsExact ==
  \A d \in Descs : descLock[d] = NoThread =>
    LET mine == {p \in usedMap : arena[p].magic /\ arena[p].desc = d}
        freed == (UNION {Range(ArenaBlocks(p, d)) : p \in mine}) \ Held
    IN  /\ Range(freeList[d]) = freed /\ Len(freeList[d]) = Cardinality(freed)
        /\ \A p \in mine :
             /\ arena[p].freeCnt = Cardinality({b \in freed : b.page = p})
             /\ arena[p].freeCnt < BlocksPerArena(d)
=============================================================================
