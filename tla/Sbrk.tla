-------------------------------- MODULE Sbrk --------------------------------
(***************************************************************************)
(* User memory of hw-memory's Pintos: the system calls of                  *)
(* userprog/syscall.c, with what load() of userprog/process.c makes of the *)
(* segments of a program and what process_exit() gives back.               *)
(*                                                                         *)
(* Addresses are words of a small width: Word addresses, pages of PGSIZE   *)
(* bytes, user space below PHYS_BASE.  sbrk() compares addresses as signed *)
(* words.  The kernel is preemptible inside a system call, so a step of    *)
(* allocate() or unallocate() is one page, and the processes share the     *)
(* user pool.                                                              *)
(***************************************************************************)
EXTENDS Integers, FiniteSets

CONSTANTS
  SbrkProc,     \* the processes
  Word,         \* number of addresses: 2^32 in the code
  PGSIZE,       \* bytes in a page
  PHYS_BASE,    \* end of user space
  PoolPages,    \* pages in the user pool
  Increments,   \* the increments that programs pass to sbrk(), signed
  Programs      \* programs: sets of [vaddr, memsz] for the PT_LOAD segments

SbrkWord == Word \in Nat \ {0} /\ PGSIZE \in Nat \ {0} /\ PHYS_BASE \in 0..Word
SbrkAligned == Word % 2 = 0 /\ Word % PGSIZE = 0 /\ PHYS_BASE % PGSIZE = 0
SbrkSpace == Word \div 2 + PGSIZE <= PHYS_BASE
SbrkArguments == /\ Increments \subseteq -(Word \div 2)..(Word \div 2 - 1)
                 /\ \A prog \in Programs : prog \subseteq [vaddr : Nat, memsz : Nat]

VARIABLES
  spc,        \* where each process is
  heapStart, heapBreak,   \* t->heap_start and t->heap_break
  userLoaded,     \* pages that load() mapped
  userMapped,     \* all pages in t->pagedir
  userPool,       \* free user pages
  sbrkCall,       \* the sbrk() that runs: its next page, the range, the new break
  openFile,   \* t->open_file: TRUE if there is one
  sbrkPanic   \* an ASSERT of pagedir.c failed

sbrkVars == <<spc, heapStart, heapBreak, userLoaded, userMapped, userPool, sbrkCall,
              openFile, sbrkPanic>>

Idle == [at |-> 0, first |-> 0, last |-> 0, new |-> 0]

Signed(a) == IF a >= Word \div 2 THEN a - Word ELSE a
Wrap(a) == a % Word
PageOf(a) == a \div PGSIZE
RoundUp(a) == ((a + PGSIZE - 1) \div PGSIZE) * PGSIZE
Pages == Word \div PGSIZE

SbrkInit ==
  /\ spc = [p \in SbrkProc |-> "load"]
  /\ heapStart = [p \in SbrkProc |-> 0] /\ heapBreak = [p \in SbrkProc |-> 0]
  /\ userLoaded = [p \in SbrkProc |-> {}] /\ userMapped = [p \in SbrkProc |-> {}]
  /\ userPool = PoolPages
  /\ sbrkCall = [p \in SbrkProc |-> Idle]
  /\ openFile = [p \in SbrkProc |-> FALSE]
  /\ sbrkPanic = FALSE

Goes(p, from, to) == spc[p] = from /\ spc' = [spc EXCEPT ![p] = to]

-----------------------------------------------------------------------------
(* load(): segment_end is the page of p_vaddr plus p_memsz, while          *)
(* load_segment() maps the pages up to p_vaddr + p_memsz.                  *)
SegmentEnd(seg) == PageOf(seg.vaddr) * PGSIZE + seg.memsz
SegmentPages(seg) ==
  LET zeroEnd == RoundUp((seg.vaddr % PGSIZE) + seg.memsz)
  IN  PageOf(seg.vaddr)..(PageOf(seg.vaddr) + PageOf(zeroEnd) - 1)

(* The stack has the last page of user space: setup_stack().               *)
StackPage == PageOf(PHYS_BASE) - 1
ProgramPages(prog) == {StackPage} \cup UNION {SegmentPages(seg) : seg \in prog}

(* validate_segment(): in user space, above page 0, and not empty.         *)
ValidateSegment(seg) ==
  seg.memsz > 0 /\ seg.vaddr >= PGSIZE /\ seg.vaddr + seg.memsz < PHYS_BASE

(* install_page() refuses a page that another segment, or the stack, has.  *)
Loadable(prog) ==
  /\ \A seg \in prog : ValidateSegment(seg) /\ StackPage \notin SegmentPages(seg)
  /\ \A seg, other \in prog : seg # other => SegmentPages(seg) \cap SegmentPages(other) = {}

(* The heap starts at the page behind the end of the last segment.         *)
Load(p, prog) ==
  LET pages == ProgramPages(prog)
  IN  /\ Loadable(prog) /\ Cardinality(pages) <= userPool
      /\ Goes(p, "load", "user")
      /\ userLoaded' = [userLoaded EXCEPT ![p] = pages]
      /\ userMapped' = [userMapped EXCEPT ![p] = pages]
      /\ userPool' = userPool - Cardinality(pages)
      /\ \E last \in prog :
           /\ \A seg \in prog : SegmentEnd(seg) <= SegmentEnd(last)
           /\ heapStart' = [heapStart EXCEPT ![p] = RoundUp(SegmentEnd(last))]
           /\ heapBreak' = [heapBreak EXCEPT ![p] = RoundUp(SegmentEnd(last))]
      /\ UNCHANGED <<sbrkCall, openFile, sbrkPanic>>

(* load() fails, for a bad header, a segment that is refused, or memory    *)
(* that runs out (here at any time): process_exit() gives back what was    *)
(* mapped so far.                                                          *)
LoadFails(p) ==
  /\ Goes(p, "load", "dead")
  /\ UNCHANGED <<heapStart, heapBreak, userLoaded, userMapped, userPool, sbrkCall,
                 openFile, sbrkPanic>>

-----------------------------------------------------------------------------
(* syscall_sbrk(): the guards, and the loop over pages that it starts.     *)
Returns(p) ==
  /\ Goes(p, "user", "user")
  /\ UNCHANGED <<heapBreak, sbrkCall>>

(* The loop counts pages from the first, up to the signed difference of    *)
(* the two; the page it is at is Page(at).                                 *)
Page(n) == n % Pages
Gap(first, end) ==
  LET d == (end - first) % Pages IN IF d >= Pages \div 2 THEN d - Pages ELSE d

Loops(p, kind, before, end, new) ==
  LET first == Page(before + 1)
      last == first + Gap(first, end)
  IN  /\ Goes(p, "user", kind)
      /\ sbrkCall' = [sbrkCall EXCEPT ![p] = [at |-> first, first |-> first, last |-> last, new |-> new]]
      /\ UNCHANGED heapBreak

MovesBreak(p, new) ==
  /\ Goes(p, "user", "user")
  /\ heapBreak' = [heapBreak EXCEPT ![p] = new]
  /\ UNCHANGED sbrkCall

(* Mutant: the new break is compared as an unsigned word.                  *)
TooLowUnsigned(p, new) == new < heapStart[p]

(* syscall_sbrk() refuses a break below the start of the heap.             *)
TooLow(p, new) == Signed(new) < Signed(heapStart[p])

SyscallSbrk(p, increment) ==
  LET prev == heapBreak[p]
      new == Wrap(prev + increment)
      prevPage == PageOf(Wrap(prev - 1))
      newPage == PageOf(Wrap(new - 1))
  IN  /\ spc[p] = "user"
      /\ IF TooLow(p, new) THEN Returns(p)
         ELSE IF increment = 0 THEN Returns(p)
         ELSE IF increment > 0 /\ (prev = heapStart[p] \/ prevPage # newPage)
           THEN Loops(p, "allocate", prevPage, newPage, new)
         ELSE IF increment < 0 /\ (new = heapStart[p] \/ prevPage # newPage)
           THEN Loops(p, "unallocate", newPage, prevPage, new)
         ELSE MovesBreak(p, new)
      /\ UNCHANGED <<heapStart, userLoaded, userMapped, userPool, openFile, sbrkPanic>>

(* One page of allocate(): pagedir_set_page() asserts that the address is  *)
(* in user space and not mapped yet.                                       *)
AllocatePage(p) ==
  LET at == sbrkCall[p].at
      page == Page(at)
  IN  /\ spc[p] = "allocate" /\ at <= sbrkCall[p].last /\ userPool > 0
      /\ IF page \in userMapped[p] \/ page >= PageOf(PHYS_BASE)
           THEN sbrkPanic' = TRUE /\ UNCHANGED <<userMapped, userPool, sbrkCall>>
           ELSE /\ userMapped' = [userMapped EXCEPT ![p] = @ \cup {page}]
                /\ userPool' = userPool - 1
                /\ sbrkCall' = [sbrkCall EXCEPT ![p].at = at + 1]
                /\ UNCHANGED sbrkPanic
      /\ UNCHANGED <<spc, heapStart, heapBreak, userLoaded, openFile>>

(* Mutant: the pages that were mapped before the failure are kept.         *)
AllocateKeeps(p) ==
  /\ Goes(p, "allocate", "user") /\ sbrkCall[p].at <= sbrkCall[p].last
  /\ sbrkCall' = [sbrkCall EXCEPT ![p] = Idle]
  /\ UNCHANGED <<heapStart, heapBreak, userLoaded, userMapped, userPool, openFile, sbrkPanic>>

(* allocate() gets no page, or no page table for it: unallocate() goes     *)
(* over the whole range again.                                             *)
AllocateFails(p) ==
  /\ Goes(p, "allocate", "undo") /\ sbrkCall[p].at <= sbrkCall[p].last
  /\ sbrkCall' = [sbrkCall EXCEPT ![p].at = sbrkCall[p].first]
  /\ UNCHANGED <<heapStart, heapBreak, userLoaded, userMapped, userPool, openFile, sbrkPanic>>

(* One page of unallocate(): a page that is not mapped is passed over, and *)
(* pagedir_get_page() asserts that the address is in user space.           *)
UnallocatePage(p) ==
  LET at == sbrkCall[p].at
      page == Page(at)
  IN  /\ spc[p] \in {"undo", "unallocate"} /\ at <= sbrkCall[p].last
      /\ IF page >= PageOf(PHYS_BASE)
           THEN sbrkPanic' = TRUE /\ UNCHANGED <<userMapped, userPool, sbrkCall>>
           ELSE /\ userMapped' = [userMapped EXCEPT ![p] = @ \ {page}]
                /\ userPool' = IF page \in userMapped[p] THEN userPool + 1 ELSE userPool
                /\ sbrkCall' = [sbrkCall EXCEPT ![p].at = at + 1]
                /\ UNCHANGED sbrkPanic
      /\ UNCHANGED <<spc, heapStart, heapBreak, userLoaded, openFile>>

(* The end of syscall_sbrk(): the new break, or the old one after an undo. *)
SbrkReturns(p) ==
  /\ spc[p] \in {"allocate", "undo", "unallocate"} /\ sbrkCall[p].at > sbrkCall[p].last
  /\ spc' = [spc EXCEPT ![p] = "user"]
  /\ sbrkCall' = [sbrkCall EXCEPT ![p] = Idle]
  /\ heapBreak' = [heapBreak EXCEPT ![p] = IF spc[p] = "undo" THEN @ ELSE sbrkCall[p].new]
  /\ UNCHANGED <<heapStart, userLoaded, userMapped, userPool, openFile, sbrkPanic>>

-----------------------------------------------------------------------------
(* syscall_open() and syscall_close(): one file per process, descriptor 2. *)
SyscallOpen(p) ==
  /\ Goes(p, "user", "user") /\ ~openFile[p]
  /\ openFile' = [openFile EXCEPT ![p] = TRUE]
  /\ UNCHANGED <<heapStart, heapBreak, userLoaded, userMapped, userPool, sbrkCall, sbrkPanic>>

SyscallClose(p) ==
  /\ Goes(p, "user", "user") /\ openFile[p]
  /\ openFile' = [openFile EXCEPT ![p] = FALSE]
  /\ UNCHANGED <<heapStart, heapBreak, userLoaded, userMapped, userPool, sbrkCall, sbrkPanic>>

(* syscall_exit(), called by the program, by check_user_buffer() or        *)
(* check_user_string() when an argument is not in user space, or by        *)
(* page_fault() when it is not mapped: process_exit() gives all pages back *)
(* and nobody closes the open file, so its inode stays open.               *)
SyscallExit(p) ==
  /\ Goes(p, "user", "dead")
  /\ userMapped' = [userMapped EXCEPT ![p] = {}] /\ userLoaded' = [userLoaded EXCEPT ![p] = {}]
  /\ userPool' = userPool + Cardinality(userMapped[p])
  /\ UNCHANGED <<heapStart, heapBreak, openFile, sbrkCall, sbrkPanic>>

SbrkNext ==
  /\ ~sbrkPanic
  /\ \E p \in SbrkProc :
       \/ \E prog \in Programs : Load(p, prog)
       \/ LoadFails(p)
       \/ \E inc \in Increments : SyscallSbrk(p, inc)
       \/ AllocatePage(p) \/ AllocateFails(p) \/ UnallocatePage(p) \/ SbrkReturns(p)
       \/ SyscallOpen(p) \/ SyscallClose(p) \/ SyscallExit(p)

-----------------------------------------------------------------------------
SbrkSpec == SbrkInit /\ [][SbrkNext]_sbrkVars

(* A program whose heap has room of its own: nothing that was loaded lies  *)
(* at the heap's first page or above but the stack, and the heap starts in *)
(* the lower half.  load() also takes programs without: a segment that is  *)
(* not aligned may reach into the page at which the heap starts, as its    *)
(* end is computed from the beginning of its page, and a segment may lie   *)
(* in the upper half, where the signed comparison refuses no growth.       *)
HeapApart(p) ==
  /\ heapStart[p] < Word \div 2
  /\ \A page \in userLoaded[p] \ {StackPage} : page < PageOf(heapStart[p])

(* Between two calls the pages of [heap_start, heap_break) of such a       *)
(* program are mapped, and no others above it: a failed sbrk() leaves the  *)
(* heap as it was, whatever page of the request failed, and the heap stays *)
(* in user space.  Only the sbrk() of a program without such a heap makes  *)
(* the kernel panic.                                                       *)
HeapExact ==
  /\ \A p \in SbrkProc : spc[p] = "user" /\ HeapApart(p) =>
       /\ userMapped[p] \ userLoaded[p] = {PageOf(a) : a \in heapStart[p]..(heapBreak[p] - 1)}
       /\ userLoaded[p] \subseteq userMapped[p]
       /\ heapStart[p] <= heapBreak[p] /\ heapBreak[p] <= PHYS_BASE
  /\ sbrkPanic => \E p \in SbrkProc : spc[p] \in {"allocate", "undo", "unallocate"} /\ ~HeapApart(p)

(* The pool has every page that no process has mapped, also in the middle  *)
(* of a call that is undone and with two processes in it at once.          *)
MappedPages == UNION {{p} \X userMapped[p] : p \in SbrkProc}
PoolExact == userPool \in Nat /\ userPool + Cardinality(MappedPages) = PoolPages
=============================================================================
