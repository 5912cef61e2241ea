------------------------------- MODULE PageDir ------------------------------
(***************************************************************************)
(* Page directories and the TLB (userprog/pagedir.c, threads/pte.h and        *)
(* threads/vaddr.h).  A directory has page tables, created on demand from     *)
(* memory that can run out; an entry has the present, writable, accessed and  *)
(* dirty bits.  The CPU sets the accessed and dirty bits itself, and caches   *)
(* entries of the active directory: a cached dirty entry is not written back  *)
(* again.  What a page really was used for is recorded in `used'.             *)
(***************************************************************************)
EXTENDS Integers, FiniteSets

CONSTANTS Pds,         \* the page directories of user processes
          PdEntries,   \* user entries of a page directory
          PtEntries,   \* entries of a page table
          PageBytes,   \* PGSIZE
          Frames,      \* frame numbers
          FreeTables   \* the pages palloc_get_page() can still give

VARIABLES pde,         \* pde[pd][i]: an empty function, or the page table
          tlb,         \* the cached entries: virtual page -> entry
          activePd,         \* the active directory
          ptPages,     \* pages left for page tables
          mapping,     \* what the kernel asked for: mapping[pd][page] or -1
          used         \* used[pd][page]: subset of {"read", "written"} since last cleared

pdVars == <<pde, tlb, activePd, ptPages, mapping, used>>

VPages == 0..(PdEntries * PtEntries - 1)
VAddrs == 0..(PdEntries * PtEntries * PageBytes - 1)

(* vaddr.h and pte.h *)
PgOfs(va) == va % PageBytes
PgNo(va) == va \div PageBytes
PtNo(va) == PgNo(va) % PtEntries
PdNo(va) == PgNo(va) \div PtEntries
ZeroPte == [p |-> FALSE, w |-> FALSE, a |-> FALSE, d |-> FALSE, frame |-> 0]
PteCreateUser(frame, writable) ==
  [p |-> TRUE, w |-> writable, a |-> FALSE, d |-> FALSE, frame |-> frame]
EmptyPt == [j \in 0..(PtEntries - 1) |-> ZeroPte]
NoTable == [j \in {} |-> ZeroPte]

(* lookup_page() without `create': whether there is an entry, and the entry. *)
HasPte(pd, va) == pde[pd][PdNo(va)] # NoTable
Pte(pd, va) == pde[pd][PdNo(va)][PtNo(va)]
WithPte(pd, va, pte) == [pde EXCEPT ![pd][PdNo(va)][PtNo(va)] = pte]

(* invalidate_pagedir(): reloading CR3 empties the TLB. *)
Invalidated(pd) == IF activePd = pd THEN [v \in {} |-> ZeroPte] ELSE tlb

PdInit ==
  /\ pde = [pd \in Pds |-> [i \in 0..(PdEntries - 1) |-> NoTable]]
  /\ tlb = [v \in {} |-> ZeroPte] /\ activePd \in {CHOOSE pd \in Pds : TRUE} /\ ptPages = FreeTables
  /\ mapping = [pd \in Pds |-> [v \in VPages |-> -1]]
  /\ used = [pd \in Pds |-> [v \in VPages |-> {}]]

(* pagedir_set_page(): UPAGE must not be mapped; fails without memory. *)
PagedirSetPage(pd, v, frame, writable) ==
  LET va == v * PageBytes
      create == ~HasPte(pd, va)
      table == IF create THEN EmptyPt ELSE pde[pd][PdNo(va)]
  IN /\ mapping[pd][v] = -1
     /\ IF create /\ ptPages = 0 THEN UNCHANGED <<pde, ptPages, mapping, used>>
        ELSE /\ ptPages' = IF create THEN ptPages - 1 ELSE ptPages
             /\ pde' = [pde EXCEPT ![pd][PdNo(va)] =
                          [table EXCEPT ![PtNo(va)] = PteCreateUser(frame, writable)]]
             /\ mapping' = [mapping EXCEPT ![pd][v] = frame]
             /\ used' = [used EXCEPT ![pd][v] = {}]
     /\ UNCHANGED <<tlb, activePd>>

(* pagedir_get_page(): frame and offset, or -1. *)
PagedirGetPage(pd, va) ==
  IF HasPte(pd, va) /\ Pte(pd, va).p THEN Pte(pd, va).frame * PageBytes + PgOfs(va) ELSE -1

PagedirClearPage(pd, v) ==
  LET va == v * PageBytes
  IN /\ HasPte(pd, va) /\ Pte(pd, va).p
     /\ pde' = WithPte(pd, va, [Pte(pd, va) EXCEPT !.p = FALSE])
     /\ tlb' = Invalidated(pd)
     /\ mapping' = [mapping EXCEPT ![pd][v] = -1]
     /\ UNCHANGED <<activePd, ptPages, used>>

PagedirIsDirty(pd, va) == HasPte(pd, va) /\ Pte(pd, va).d
PagedirIsAccessed(pd, va) == HasPte(pd, va) /\ Pte(pd, va).a

(* A pagedir_set_dirty() that leaves the TLB as it is. *)
PagedirSetDirtyStale(pd, v, dirty) ==
  LET va == v * PageBytes
  IN /\ HasPte(pd, va)
     /\ pde' = WithPte(pd, va, [Pte(pd, va) EXCEPT !.d = dirty])
     /\ used' = [used EXCEPT ![pd][v] = IF dirty THEN @ ELSE @ \ {"written"}]
     /\ UNCHANGED <<tlb, activePd, ptPages, mapping>>

PagedirSetDirty(pd, v, dirty) ==
  LET va == v * PageBytes
  IN /\ HasPte(pd, va)
     /\ pde' = WithPte(pd, va, [Pte(pd, va) EXCEPT !.d = dirty])
     /\ tlb' = IF dirty THEN tlb ELSE Invalidated(pd)
     /\ used' = [used EXCEPT ![pd][v] = IF dirty THEN @ ELSE @ \ {"written"}]
     /\ UNCHANGED <<activePd, ptPages, mapping>>

PagedirSetAccessed(pd, v, accessed) ==
  LET va == v * PageBytes
  IN /\ HasPte(pd, va)
     /\ pde' = WithPte(pd, va, [Pte(pd, va) EXCEPT !.a = accessed])
     /\ tlb' = IF accessed THEN tlb ELSE Invalidated(pd)
     /\ used' = [used EXCEPT ![pd][v] = IF accessed THEN @ ELSE @ \ {"read"}]
     /\ UNCHANGED <<activePd, ptPages, mapping>>

(* pagedir_activate(): loading CR3 empties the TLB. *)
PagedirActivate(pd) ==
  /\ activePd' = pd
  /\ tlb' = [v \in {} |-> ZeroPte]
  /\ UNCHANGED <<pde, ptPages, mapping, used>>

(* The processor reads or writes a page of the active directory.  A cached
   entry is used as it is, except that the first write through it sets the
   dirty bit in memory; otherwise the tables are walked.  A fault changes
   nothing here. *)
CpuAccess(v, write) ==
  LET va == v * PageBytes
      hit == v \in DOMAIN tlb
      entry == IF hit THEN tlb[v] ELSE [Pte(activePd, va) EXCEPT !.a = TRUE]
      after == [entry EXCEPT !.d = @ \/ write]
      mem == IF hit /\ (~write \/ tlb[v].d) THEN pde
             ELSE WithPte(activePd, va, [Pte(activePd, va) EXCEPT !.a = TRUE, !.d = @ \/ write])
  IN /\ hit \/ (HasPte(activePd, va) /\ Pte(activePd, va).p)
     /\ write => entry.w
     /\ tlb' = [x \in DOMAIN tlb \cup {v} |-> IF x = v THEN after ELSE tlb[x]]
     /\ pde' = mem
     /\ used' = [used EXCEPT ![activePd][v] = @ \cup (IF write THEN {"read", "written"} ELSE {"read"})]
     /\ UNCHANGED <<activePd, ptPages, mapping>>

(* The processor may drop a cached entry at any time. *)
TlbEvict(v) ==
  /\ v \in DOMAIN tlb
  /\ tlb' = [x \in DOMAIN tlb \ {v} |-> tlb[x]]
  /\ UNCHANGED <<pde, activePd, ptPages, mapping, used>>

PdNext ==
  \/ \E pd \in Pds, v \in VPages : \E f \in Frames, w \in BOOLEAN : PagedirSetPage(pd, v, f, w)
  \/ \E pd \in Pds, v \in VPages, b \in BOOLEAN :
       PagedirClearPage(pd, v) \/ PagedirSetDirty(pd, v, b) \/ PagedirSetAccessed(pd, v, b)
  \/ \E pd \in Pds : PagedirActivate(pd)
  \/ \E v \in VPages, w \in BOOLEAN : CpuAccess(v, w)
  \/ \E v \in VPages : TlbEvict(v)

PdSpec == PdInit /\ [][PdNext]_pdVars

---------------------------------------------------------------------------
(* Every address translates to the frame it was mapped to, or to nothing, by
   lookup and by the processor through its TLB alike; and a page that was
   read or written since its bits were last cleared has the bits set, however
   the clearing, the processor's caching and the switches of directory
   interleave (pagedir.c). *)
TranslationExact ==
  \A pd \in Pds :
    /\ \A va \in VAddrs :
         PagedirGetPage(pd, va) =
           IF mapping[pd][PgNo(va)] = -1 THEN -1
           ELSE mapping[pd][PgNo(va)] * PageBytes + PgOfs(va)
    /\ pd = activePd => \A v \in DOMAIN tlb : tlb[v].frame = mapping[pd][v]
    /\ \A v \in VPages : mapping[pd][v] # -1 =>
         /\ "written" \in used[pd][v] => PagedirIsDirty(pd, v * PageBytes)
         /\ "read" \in used[pd][v] => PagedirIsAccessed(pd, v * PageBytes)
=============================================================================
