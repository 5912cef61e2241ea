------------------------------- MODULE Startup -------------------------------
(***************************************************************************)
(* From the loader's jump to the kernel to a kernel that runs on its own    *)
(* tables: the real-mode code (threads/start.S), the first calls of main()  *)
(* (threads/init.c), the two page pools (threads/palloc.c), the page        *)
(* directory (paging_init()), the task-state segment (userprog/tss.c) and   *)
(* the segment descriptors (userprog/gdt.c).                                *)
(*                                                                          *)
(* Memory is counted in pages and addresses are page numbers; the kernel    *)
(* sees physical page p at virtual page PhysBase + p.  A descriptor is its  *)
(* eight bytes, least significant first, so that nothing is scaled in it.   *)
(***************************************************************************)
EXTENDS Integers, Sequences, FiniteSets, SequencesExt

CONSTANTS RamSizes,      \* the sizes the BIOS may report above the first MB, in pages
          MB,            \* the pages of the first MB (256)
          PtEntries,     \* the entries of a page table (1024)
          TempTables,    \* the page tables start.S fills (16)
          BaseTable,     \* the directory entry of PHYS_BASE (768)
          TextStart, TextEnd,   \* the pages of the kernel's text
          UserLimits,    \* the values of -ul
          PageBytes,     \* PGSIZE (4096)
          ElemBits,      \* the bits of a bitmap's element (32), which has 4 bytes
          StackPage,     \* the page of main()'s stack, and of the initial thread (14)
          CommandLines,  \* the words of the command line: sequences of sequences
          ArgsLen        \* LOADER_ARGS_LEN

StartupSizes ==
  /\ {MB, PtEntries, TempTables, PageBytes, ElemBits} \subseteq Nat \ {0}
  /\ BaseTable > TempTables /\ StackPage < TextStart /\ TextStart <= TextEnd /\ TextEnd <= MB

VARIABLES stage,         \* where the start-up is
          ramPages,      \* init_ram_pages
          bss,           \* the BSS: "garbage" until bss_init()
          cr3,           \* the directory the processor uses: "none", "temp" or "final"
          tempDir,       \* start.S's directory: entry -> table
          loaderArgs,    \* the bytes at LOADER_ARGS, and their count of words
          argvAt,        \* argv: where each word starts
          pools,         \* the two pools, [base, count]
          taken,         \* kernel pages handed out
          pageDir,       \* init_page_dir: entry -> page of the table
          pageTables,    \* page of a table -> its entries
          tss,           \* [page, esp0, ss0]
          gdt            \* [descs, limit]: what GDTR points to

startVars == <<stage, ramPages, bss, cr3, tempDir, loaderArgs, argvAt, pools, taken, pageDir,
               pageTables, tss, gdt>>

PhysBase == BaseTable * PtEntries
Cap == TempTables * PtEntries          \* 64 MB
NoTable == 0
NoTss == [page |-> 0, esp0 |-> 0, ss0 |-> 0]

---------------------------------------------------------------------------
(* userprog/gdt.c *)

(* Mutant: the limit's high bits are forgotten. *)
MakeSegDescShort(base, limit, class, type, dpl, gran) ==
  <<limit % 256, (limit \div 256) % 256, base[1], base[2], base[3],
    type + 16 * class + 32 * dpl + 128, 64 + 128 * gran, base[4]>>

(* make_seg_desc(): base is four bytes, limit has 20 bits. *)
MakeSegDesc(base, limit, class, type, dpl, gran) ==
  <<limit % 256, (limit \div 256) % 256, base[1], base[2], base[3],
    type + 16 * class + 32 * dpl + 128, limit \div 65536 + 64 + 128 * gran, base[4]>>

Zeros == <<0, 0, 0, 0>>
MakeCodeDesc(dpl) == MakeSegDesc(Zeros, 1048575, 1, 10, dpl, 1)
MakeDataDesc(dpl) == MakeSegDesc(Zeros, 1048575, 1, 2, dpl, 1)
MakeTssDesc(base) == MakeSegDesc(base, 103, 0, 9, 0, 0)

(* The address of virtual page v, as four bytes: a page is 2^12 bytes. *)
AddressBytes(v) == <<0, (v % 16) * 16, (v \div 16) % 256, (v \div 4096) % 256>>

(* start.S's own table: the null, code and data descriptors. *)
BootGdt == <<<<0, 0, 0, 0, 0, 0, 0, 0>>, <<255, 255, 0, 0, 0, 154, 207, 0>>,
             <<255, 255, 0, 0, 0, 146, 207, 0>>>>

---------------------------------------------------------------------------
(* What the processor makes of the tables. *)

(* A table of start.S past the last one it fills is the kernel's image, which
   is no table: Garbage. *)
Garbage == -1
Unmapped == -2
TempEntry(t, e) == IF t \in 0..(TempTables - 1) THEN t * PtEntries + e ELSE Garbage

Translate(v) ==
  LET d == v \div PtEntries
      e == v % PtEntries
  IN IF cr3 = "temp"
     THEN IF d \in DOMAIN tempDir THEN TempEntry(tempDir[d], e) ELSE Unmapped
     ELSE IF pageDir[d] = NoTable THEN Unmapped ELSE pageTables[pageDir[d]][e].page

Writable(v) == pageTables[pageDir[v \div PtEntries]][v % PtEntries].w

(* A descriptor, decoded. *)
Decode(d) ==
  [base |-> <<d[3], d[4], d[5], d[8]>>,
   limit |-> d[1] + 256 * d[2] + 65536 * (d[7] % 16),
   type |-> d[6] % 16, class |-> (d[6] \div 16) % 2, dpl |-> (d[6] \div 32) % 4,
   present |-> d[6] \div 128, gran |-> d[7] \div 128]

---------------------------------------------------------------------------
(* The command line as the `pintos' script stores it: every word with a zero
   after it, the rest zero. *)
Stored(words) ==
  LET text == FlattenSeq([i \in 1..Len(words) |-> Append(words[i], 0)])
  IN text \o [i \in 1..(ArgsLen - Len(text)) |-> 0]

StartInit ==
  /\ stage = "size" /\ ramPages = 0 /\ bss = "garbage" /\ cr3 = "none" /\ tempDir = <<>>
  /\ loaderArgs = [count |-> 0, bytes |-> Stored(<<>>)]
  /\ argvAt = <<>> /\ taken = 0 /\ pageTables = <<>> /\ tss = NoTss
  /\ pools = [kernel |-> [base |-> 0, count |-> 0], user |-> [base |-> 0, count |-> 0]]
  /\ pageDir = [d \in 0..(BaseTable + TempTables) |-> NoTable]
  /\ gdt = [descs |-> <<>>, limit |-> 0]

(* Mutant: the cap is left out. *)
CapMemoryNot(pages) == MB + pages

(* Memory size: capped at what the temporary tables map. *)
CapMemory(pages) == IF MB + pages > Cap THEN Cap ELSE MB + pages

GetMemorySize(pages, words) ==
  /\ stage = "size"
  /\ ramPages' = CapMemory(pages)
  /\ loaderArgs' = [count |-> Len(words), bytes |-> Stored(words)]
  /\ stage' = "tables"
  /\ UNCHANGED <<bss, cr3, tempDir, argvAt, pools, taken, pageDir, pageTables, tss, gdt>>

(* A20, the page directory with one entry more than there are tables, at 0 and
   at PHYS_BASE, and CR3. *)
CreateTempTables ==
  /\ stage = "tables"
  /\ tempDir' = [d \in (0..TempTables) \cup (BaseTable..(BaseTable + TempTables)) |->
                   IF d <= TempTables THEN d ELSE d - BaseTable]
  /\ cr3' = "temp"
  /\ stage' = "protect"
  /\ UNCHANGED <<ramPages, bss, loaderArgs, argvAt, pools, taken, pageDir, pageTables, tss, gdt>>

(* CR0, the far jump through start.S's GDT, and the call of main(), which
   first clears the BSS; init_ram_pages is not in it. *)
EnterProtectedMode ==
  /\ stage = "protect"
  /\ gdt' = [descs |-> BootGdt, limit |-> 8 * Len(BootGdt) - 1]
  /\ bss' = "zero"
  /\ stage' = "args"
  /\ UNCHANGED <<ramPages, cr3, tempDir, loaderArgs, argvAt, pools, taken, pageDir, pageTables, tss>>

(* strnlen(p, end - p), for p an index of the bytes. *)
Strnlen(p) ==
  LET zeros == {i \in p..ArgsLen : loaderArgs.bytes[i] = 0}
  IN IF zeros = {} THEN ArgsLen + 1 - p ELSE (CHOOSE i \in zeros : \A j \in zeros : i <= j) - p

(* Mutant: the zero is not skipped. *)
NextWordAtZero(p) == p + Strnlen(p)

(* read_command_line(), one word for each step. *)
NextWord(p) == p + Strnlen(p) + 1

ReadCommandLine ==
  LET p == IF argvAt = <<>> THEN 1 ELSE NextWord(Last(argvAt))
  IN /\ stage = "args" /\ bss = "zero"
     /\ IF Len(argvAt) = loaderArgs.count
        THEN stage' = "palloc" /\ UNCHANGED argvAt
        ELSE IF p > ArgsLen THEN stage' = "panic" /\ UNCHANGED argvAt
        ELSE argvAt' = Append(argvAt, p) /\ UNCHANGED stage
     /\ UNCHANGED <<ramPages, bss, cr3, tempDir, loaderArgs, pools, taken, pageDir, pageTables, tss, gdt>>

---------------------------------------------------------------------------
(* threads/palloc.c: init_pool() puts the used_map in the pool's first pages. *)
DivRoundUp(a, b) == (a + b - 1) \div b
BmPages(n) == DivRoundUp(8 + 4 * DivRoundUp(n, ElemBits), PageBytes)
(* Mutant: the pool begins on its own map. *)
InitPoolOver(base, n) == [base |-> base, count |-> n - BmPages(n)]

InitPool(base, n) == [base |-> base + BmPages(n), count |-> n - BmPages(n)]

PallocInit(limit) ==
  LET free == ramPages - MB
      user == IF free \div 2 > limit THEN limit ELSE free \div 2
      kernel == free - user
  IN /\ stage = "palloc"
     /\ IF BmPages(kernel) > kernel \/ BmPages(user) > user
        THEN stage' = "panic" /\ UNCHANGED pools
        ELSE /\ pools' = [kernel |-> InitPool(MB, kernel), user |-> InitPool(MB + kernel, user)]
             /\ stage' = "paging"
     /\ UNCHANGED <<ramPages, bss, cr3, tempDir, loaderArgs, argvAt, taken, pageDir, pageTables, tss, gdt>>

(* Mutant: the text is mapped like the rest. *)
InKernelTextNot(p) == FALSE

(* The pages paging_init() takes: the directory, and a table when the page is
   the first of its span.  With PAL_ASSERT the kernel panics when the pool has
   none left. *)
InKernelText(p) == TextStart <= p /\ p < TextEnd

PagingInit ==
  LET spans == {p \div PtEntries : p \in 0..(ramPages - 1)}
      tableOf(s) == pools.kernel.base + 1 + s
      entries(s) == [e \in 0..(PtEntries - 1) |->
                       IF s * PtEntries + e < ramPages
                       THEN [page |-> s * PtEntries + e, w |-> ~InKernelText(s * PtEntries + e)]
                       ELSE [page |-> Unmapped, w |-> FALSE]]
  IN /\ stage = "paging"
     /\ IF 1 + Cardinality(spans) > pools.kernel.count
        THEN stage' = "panic" /\ UNCHANGED <<taken, pageDir, pageTables, cr3>>
        ELSE /\ taken' = 1 + Cardinality(spans)
             /\ pageDir' = [d \in DOMAIN pageDir |->
                              IF d - BaseTable \in spans THEN tableOf(d - BaseTable) ELSE NoTable]
             /\ pageTables' = [t \in {tableOf(s) : s \in spans} |->
                                 entries(t - pools.kernel.base - 1)]
             /\ cr3' = "final"
             /\ stage' = "tss"
     /\ UNCHANGED <<ramPages, bss, tempDir, loaderArgs, argvAt, pools, tss, gdt>>

(* Mutant: the stack pointer is the page itself. *)
TssUpdatePage(page) == [page |-> page, esp0 |-> PhysBase + StackPage, ss0 |-> 16]

(* tss_init() and tss_update(): the top of the running thread's page. *)
TssUpdate(page) == [page |-> page, esp0 |-> PhysBase + StackPage + 1, ss0 |-> 16]

TssInit ==
  /\ stage = "tss"
  /\ IF taken = pools.kernel.count
     THEN stage' = "panic" /\ UNCHANGED <<tss, taken>>
     ELSE /\ tss' = TssUpdate(pools.kernel.base + taken)
          /\ taken' = taken + 1
          /\ stage' = "gdt"
  /\ UNCHANGED <<ramPages, bss, cr3, tempDir, loaderArgs, argvAt, pools, pageDir, pageTables, gdt>>

(* gdt_init(): the selectors are 0x08, 0x10, 0x1b, 0x23 and 0x28. *)
GdtInit ==
  /\ stage = "gdt"
  /\ gdt' = [descs |-> <<BootGdt[1], MakeCodeDesc(0), MakeDataDesc(0), MakeCodeDesc(3),
                         MakeDataDesc(3), MakeTssDesc(AddressBytes(PhysBase + tss.page))>>,
             limit |-> 8 * 6 - 1]
  /\ stage' = "running"
  /\ UNCHANGED <<ramPages, bss, cr3, tempDir, loaderArgs, argvAt, pools, taken, pageDir,
                 pageTables, tss>>

StartNext ==
  \/ \E n \in RamSizes, words \in CommandLines : GetMemorySize(n, words)
  \/ CreateTempTables \/ EnterProtectedMode \/ ReadCommandLine
  \/ \E n \in UserLimits : PallocInit(n)
  \/ PagingInit \/ TssInit \/ GdtInit

---------------------------------------------------------------------------
(* As soon as paging is on, and across the change of directories, every page
   of RAM is seen at PHYS_BASE and nowhere is the kernel's image taken for a
   page table (start.S, paging_init()). *)
RamMapped == cr3 # "none" => \A p \in 0..(ramPages - 1) : Translate(PhysBase + p) = p

(* With the final directory only RAM is mapped, only at PHYS_BASE, and the
   kernel's text cannot be written (paging_init()). *)
TextProtected ==
  cr3 = "final" =>
    /\ \A v \in 0..(PhysBase - 1) : Translate(v) = Unmapped
    /\ \A p \in 0..(ramPages - 1) : Writable(PhysBase + p) <=> p \notin TextStart..(TextEnd - 1)

(* Pages the pools may hand out lie in RAM, above the first MB, outside both
   used_maps, and in one pool only; those handed out were the kernel's
   (palloc_init(), init_pool()). *)
PoolsApart ==
  stage \in {"paging", "tss", "gdt", "running"} =>
    LET k == pools.kernel
        u == pools.user
    IN /\ k.base > MB /\ k.base + k.count < u.base /\ u.base + u.count <= ramPages
       /\ taken <= k.count
       /\ \A d \in DOMAIN pageDir : pageDir[d] # NoTable => pageDir[d] # k.base

(* The words read are the words stored (read_command_line()). *)
WordsRead ==
  /\ \A i \in DOMAIN argvAt : argvAt[i] = 1 \/ loaderArgs.bytes[argvAt[i] - 1] = 0
  /\ stage = "palloc" =>
       \E words \in CommandLines :
         /\ loaderArgs.bytes = Stored(words)
         /\ Len(argvAt) = Len(words)
         /\ \A i \in DOMAIN words :
              SubSeq(loaderArgs.bytes, argvAt[i], argvAt[i] + Strnlen(argvAt[i]) - 1) = words[i]

(* The selectors the processor has cached stay valid when the table changes:
   code and data cover the 4 GB, for ring 0 and ring 3; the task register's
   segment is the TSS, whose stack is the top of the running thread's page
   (gdt_init(), tss_update()). *)
SegmentsRight ==
  /\ Len(gdt.descs) >= 3 =>
       \A i \in 2..(IF Len(gdt.descs) = 6 THEN 5 ELSE 3) :
         Decode(gdt.descs[i]) = [base |-> Zeros, limit |-> 1048575, class |-> 1, present |-> 1,
                                 gran |-> 1, type |-> IF i \in {2, 4} THEN 10 ELSE 2,
                                 dpl |-> IF i <= 3 THEN 0 ELSE 3]
  /\ stage = "running" =>
       LET t == Decode(gdt.descs[6])
       IN /\ gdt.limit + 1 = 8 * Len(gdt.descs)
          /\ t.base = AddressBytes(PhysBase + tss.page) /\ t.limit = 103 /\ t.class = 0
          /\ t.type = 9 /\ t.present = 1 /\ t.dpl = 0 /\ t.gran = 0
          /\ Translate(PhysBase + tss.page) = tss.page
          /\ Translate(tss.esp0 - 1) = StackPage /\ tss.ss0 = 16

StartRight == RamMapped /\ TextProtected /\ PoolsApart /\ WordsRead /\ SegmentsRight
=============================================================================
