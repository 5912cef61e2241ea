------------------------------- MODULE MCParts -------------------------------
(***************************************************************************)
(* Instances for TLC of the parts that are checked on their own: the       *)
(* kernel's allocators, boot code and devices, the libraries, and the      *)
(* programs that compute something.  A behaviour is one of one system; the *)
(* variable system says which, and the others stay in their initial        *)
(* states, so that an invariant of one system is one of all.               *)
(***************************************************************************)
EXTENDS Interrupts, PageDir, SectorIO, TLC

VARIABLES
  system,
  spc, heapStart, heapBreak, userLoaded, userMapped, userPool, sbrkCall,
  openFile, sbrkPanic,
  usedMap, poolLock, descLock, freeList, arena, hpc, req, found, oldBlock,
  held,
  phase, disks, argv, kernelAt, opt, blocks, role, ran,
  stage, ramPages, bss, startCr3, tempDir, loaderArgs, argvAt, pools,
  taken, pageDir, pageTables, tss, gdt,
  conHolder, conDepth, useLock, conFrames, conOut, msgs,
  fb, cx, cy, hwCursor, typed,
  ticks, sleeper, gate,
  timing,
  rtcClock, rtcRead, rtcSeen,
  devs, probing, busyDev, is_ata, known,
  links, contents,
  hashTable, entries, destroyed,
  utKind, utList, utOrder,
  libCall,
  operands,
  printCall,
  scratch, fsFiles, extractAt, appendAt, appended, boots, arPanic,
  bmCnt, bmWords, bmRef, bmFile, bmResult, bmOps,
  line, at, mode, token, tokens, aborted,
  wordsRun, cursor, letters, totalWords, wclist, failedAlloc,
  tpc, todo, hit, mutex, plist, printed, given,
  mrJob,
  ht, call, calls, requests, replies, putSent

-----------------------------------------------------------------------------
(* Programs in a space of 8 pages: of one and of two segments; one that    *)
(* reaches the heap's first page by its offset, one in the upper half, and *)
(* three that load() refuses.                                              *)
Seg(addr, n) == [vaddr |-> addr, memsz |-> n]
Segments == {{Seg(4, 3)}, {Seg(4, 4), Seg(8, 3)}, {Seg(6, 4)}, {Seg(16, 2)},
             {Seg(0, 2)}, {Seg(4, 4), Seg(6, 3)}, {Seg(19, 2)}}
Heaps == INSTANCE Sbrk WITH SbrkProc <- {"p1", "p2"}, Word <- 32, PGSIZE <- 4,
           PHYS_BASE <- 24, PoolPages <- 5, Increments <- {-14, -2, 0, 6},
           Programs <- Segments

KHeap == INSTANCE KernelHeap WITH HThread <- {"t1", "t2"}, PoolSize <- 2, PageSize <- 9,
           ArenaSize <- 1, MinBlock <- 4, HSizes <- {0, 3, 9}, MaxHeld <- 1

(* Disks of two partitions, and two that have no table; command lines that *)
(* name partitions, mistype options, repeat them, and lack arguments.      *)
Ent(t, b, o, s) == [type |-> t, bootable |-> b, offset |-> o, size |-> s]
Hd(n, a, b) == [size |-> n, tables |-> 0 :> [sig |-> 43605, parts |-> <<a, b>>]]
Kernel == Ent(32, TRUE, 1, 2)
Files == Ent(33, FALSE, 3, 2)
MCMachines ==
  {<<a, b>> : a \in {Hd(8, Kernel, Files), Hd(8, Files, Ent(34, FALSE, 5, 60)),
                     [size |-> 4, tables |-> <<>>],
                     [size |-> 4, tables |-> 0 :> [sig |-> 50000, parts |-> <<>>]]},
              b \in {Hd(8, Files, Kernel), Hd(8, Ent(35, FALSE, 3, 62), Kernel)}}
O(n, v) == [option |-> TRUE, name |-> n, value |-> v]
A(n) == [option |-> FALSE, name |-> n, value |-> <<>>]
MCCmdLines ==
  {<<o>> \o a : o \in {O("-q", <<>>), O("-r", <<>>), O("-f", <<>>), O("-h", <<>>),
                       O("-filesys", <<2, 1>>), O("-scratch", <<1, 1>>), O("-rs", <<7>>),
                       O("-rs", <<>>), O("-sched", <<"prio">>), O("-sched", <<"x">>),
                       O("-ul", <<3>>), O("-ul", <<>>), O("-x", <<>>)},
                a \in {<<A("run"), A("prog")>>, <<A("ls"), A("rm"), A("f")>>, <<A("append")>>,
                       <<A("nope")>>, <<>>}}
  \cup {<<O("-sched", <<"fifo">>), O("-sched", <<"fair">>)>>}
Bt == INSTANCE Boot WITH Machines <- MCMachines, CmdLines <- MCCmdLines, SectorMod <- 64,
        MaxNesting <- 4, RtcSeed <- 1

(* RAM up to and past the 64 MB that are used, here 16 pages of which the  *)
(* first MB has 4; command lines of up to the 6 bytes there is room for.   *)
MCWords == {<<>>, <<<<1>>, <<1>>, <<1>>>>, <<<<1, 1, 1, 1, 1>>>>, <<<<1, 1>>, <<1, 1>>>>,
            <<<<1>>, <<1, 1>>>>}
St == INSTANCE Startup WITH RamSizes <- {0, 1, 5, 9, 14, 20}, MB <- 4, PtEntries <- 4,
        TempTables <- 4, BaseTable <- 6, TextStart <- 1, TextEnd <- 3, UserLimits <- {0, 2, 99},
        PageBytes <- 12, ElemBits <- 2, StackPage <- 0, CommandLines <- MCWords, ArgsLen <- 6,
        cr3 <- startCr3

Dev == INSTANCE Devices WITH Printers <- {1, 2}, NoPrinter <- 0, MsgLen <- 2, MaxMsgs <- 2,
         Cols <- 3, Rows <- 2, Tab <- 2, MaxText <- 5, Sleeps <- {0, 2}, MaxTicks <- 5,
         ClockRadix <- 3, MaxBeats <- 2, frames <- conFrames

Ata == INSTANCE IdeProbe WITH Limit <- 5, SerialLen <- 2

Ls == INSTANCE LinkedList WITH LElems <- {1, 2, 3}, Lists <- {10, 20}, LVal <- <<1, 2, 1>>

Hs == INSTANCE HashTable WITH HKeys <- {1, 2, 3}, HCopies <- {1, 2},
        HHash <- <<4, 1, 6>>, MinBuckets <- 1, BestPerBucket <- 1, table <- hashTable

Ut == INSTANCE UtList WITH Cells <- {1, 2, 3}, CellValue <- <<1, 2, 1>>

Lib == INSTANCE LibC WITH MemSize <- 4, Chars <- {1, 2}, Delims <- {1}, IntBits <- 8,
         SortLen <- 5, RandSize <- 4

Ar == INSTANCE Arithmetic WITH W <- 4, Q <- 2, FixBits <- 5

(* Widths of int, of a char and of a long long; "not given" is -1.         *)
MCTypeBits == [t \in {"", "hh", "ll"} |-> CASE t = "" -> 12 [] t = "hh" -> 4 [] OTHER -> 16]
Std == INSTANCE Stdio WITH TypeBits <- MCTypeBits, PrintValues <- {-1300, 0, 2048},
         PrintWidths <- {-1, 7}, PrintPrecs <- {-1, 0, 5}, BufSizes <- {0, 4, 20},
         PerLine <- 3

MCNames == {<<"a">>, <<".", ".", "/", "/", "a">>, <<"b", "c", "c", "c">>}
Tar == INSTANCE Archive WITH SectorBytes <- 2, ScratchSize <- 6, FileNames <- MCNames,
         FileData <- {<<>>, <<1, 2, 3>>}, NameMax <- 3, OctalMax <- 31

Bm == INSTANCE Bitmap WITH ElemBits <- 2, BitCounts <- {0, 3, 4}, MaxOps <- 2

Tok == INSTANCE Tokenizer WITH MaxLine <- 4, NMax <- 4, i <- at

MCLetter == "a" :> 1 @@ "B" :> 2 @@ "." :> 0
MCTexts == {<<"a", "B", ".", "a", "B">>, <<"a", ".", "B", "a">>, <<>>, <<".", "a", "a">>,
            <<"a", "a", "B">>, <<"B", "a", "B", "a", ".">>}
Wc == INSTANCE WordCount WITH Letter <- MCLetter, Texts <- MCTexts, WordMax <- 3,
        Loads <- {<<"x", "y">>, <<"y">>, <<"x", "x">>}, Counters <- {"t1", "t2"},
        NoOne <- "none"

MCEdges == {<<>>, <<<<1, 2>>>>, <<<<0, 4>>, <<1, 0>>>>, <<<<8, 1>>>>,
            <<<<1, 2, 3>>, <<3, 3>>>>, <<<<3, -1>>>>, <<<<5, 6>>, <<6, 7>>>>}
Apps == INSTANCE MRApps WITH
          JobTexts <- {<<1, 2, 8, 5, 2>>, <<1, 9, 2, 2, 9, 1, 2, 9>>, <<>>, <<2, 2, 2>>, <<9, 6, 1>>},
          JobEdges <- MCEdges, Terms <- {<<2>>, <<2, 2>>},
          Packets <- {<<>>, <<<<>>>>, <<<<1, 2>>, <<>>, <<3>>>>, <<<<2>>, <<1, 1, 1>>>>},
          ReduceCounts <- {1, 2, 3}

Kv == INSTANCE KvStore WITH Callers <- {1}, Keys <- {"k", "l"}, Values <- {"a", "b"},
        Nothing <- "", MaxCalls <- 2, MaxSends <- 2

(* What the modules expect of their constants.                             *)
ASSUME PartConstants ==
  /\ SIOSizes /\ SIOFile /\ Heaps!SbrkWord /\ Heaps!SbrkAligned /\ Heaps!SbrkSpace
  /\ Heaps!SbrkArguments
  /\ KHeap!HeapSizes /\ Dev!BeatBound /\ St!StartupSizes

-----------------------------------------------------------------------------
sbrkState == <<spc, heapStart, heapBreak, userLoaded, userMapped, userPool,
    sbrkCall, openFile, sbrkPanic>>
heapState == <<usedMap, poolLock, descLock, freeList, arena, hpc, req,
    found, oldBlock, held>>
bootState == <<phase, disks, argv, kernelAt, opt, blocks, role, ran>>
startState == <<stage, ramPages, bss, startCr3, tempDir, loaderArgs, argvAt,
    pools, taken, pageDir, pageTables, tss, gdt>>
printingState == <<conHolder, conDepth, useLock, conFrames, conOut, msgs>>
screenState == <<fb, cx, cy, hwCursor, typed>>
timerState == <<ticks, sleeper, gate>>
rtcState == <<rtcClock, rtcRead, rtcSeen>>
probeState == <<devs, probing, busyDev, is_ata, known>>
listState == <<links, contents>>
hashState == <<hashTable, entries, destroyed>>
utState == <<utKind, utList, utOrder>>
archiveState == <<scratch, fsFiles, extractAt, appendAt, appended, boots,
    arPanic>>
bitmapState == <<bmCnt, bmWords, bmRef, bmFile, bmResult, bmOps>>
tokenState == <<line, at, mode, token, tokens, aborted>>
wordsState == <<wordsRun, cursor, letters, totalWords, wclist, failedAlloc>>
pwordsState == <<tpc, todo, hit, mutex, plist, printed, given>>
kvState == <<ht, call, calls, requests, replies, putSent>>
allState == <<system, sioVars, sbrkState, heapState, pdVars,
    bootState, startState, printingState, screenState, timerState, timing,
    rtcState, intrVars, probeState, listState, hashState, utState,
    libCall, operands, printCall, archiveState, bitmapState, tokenState,
    wordsState, pwordsState, mrJob, kvState>>

Systems == {"transfer", "sbrk", "heap", "pagedir", "boot", "startup", "printing", "screen",
            "timer", "timing", "rtc", "interrupts", "probe", "list", "hash", "utlist", "libc", "arithmetic",
            "stdio", "archive", "bitmap", "tokenizer", "words", "pwords", "jobs", "kv"}

Init ==
  /\ system \in Systems
  /\ SioInit /\ Heaps!SbrkInit /\ KHeap!HeapInit /\ PdInit /\ Bt!BootInit
  /\ St!StartInit
  /\ Dev!PrintInit /\ Dev!ScreenInit /\ Dev!TimerInit /\ Dev!TimingInit /\ Dev!RtcInit
  /\ InterruptsInit /\ Ls!LInit /\ Hs!HInit /\ Lib!LibInit /\ Ar!ArithInit
  /\ Std!PrintInit /\ Tar!ArchiveInit /\ Bm!BitmapInit /\ Wc!WordsInit /\ Wc!PwordsInit
  /\ Apps!MRInit /\ Kv!KvInit
  /\ Ata!ProbeInit /\ (system # "probe" => \A d \in DOMAIN devs : devs[d].kind = "none")
  /\ Ut!UtInit /\ (system # "utlist" => utKind = "DL")
  /\ Tok!TokenizerInit /\ (system # "tokenizer" => line = <<>>)

Next ==
  /\ UNCHANGED system
  /\ IF system = "transfer" THEN SioNext ELSE UNCHANGED sioVars
  /\ IF system = "sbrk" THEN Heaps!SbrkNext ELSE UNCHANGED sbrkState
  /\ IF system = "heap" THEN KHeap!HeapNext ELSE UNCHANGED heapState
  /\ IF system = "pagedir" THEN PdNext ELSE UNCHANGED pdVars
  /\ IF system = "boot" THEN Bt!BootNext ELSE UNCHANGED bootState
  /\ IF system = "startup" THEN St!StartNext ELSE UNCHANGED startState
  /\ IF system = "printing" THEN Dev!PrintNext ELSE UNCHANGED printingState
  /\ IF system = "screen" THEN Dev!ScreenNext ELSE UNCHANGED screenState
  /\ IF system = "timer" THEN Dev!TimerNext ELSE UNCHANGED timerState
  /\ IF system = "timing" THEN Dev!TimingNext ELSE UNCHANGED timing
  /\ IF system = "rtc" THEN Dev!RtcNext ELSE UNCHANGED rtcState
  /\ IF system = "interrupts" THEN InterruptsNext ELSE UNCHANGED intrVars
  /\ IF system = "probe" THEN Ata!ProbeNext ELSE UNCHANGED probeState
  /\ IF system = "list" THEN Ls!LNext ELSE UNCHANGED listState
  /\ IF system = "hash" THEN Hs!HNext ELSE UNCHANGED hashState
  /\ IF system = "utlist" THEN Ut!UtNext ELSE UNCHANGED utState
  /\ IF system = "libc" THEN Lib!LibNext ELSE UNCHANGED libCall
  /\ IF system = "arithmetic" THEN Ar!ArithNext ELSE UNCHANGED operands
  /\ IF system = "stdio" THEN Std!PrintNext ELSE UNCHANGED printCall
  /\ IF system = "archive" THEN Tar!ArchiveNext ELSE UNCHANGED archiveState
  /\ IF system = "bitmap" THEN Bm!BitmapNext ELSE UNCHANGED bitmapState
  /\ IF system = "tokenizer" THEN Tok!TokenizerNext ELSE UNCHANGED tokenState
  /\ IF system = "words" THEN Wc!WordsNext ELSE UNCHANGED wordsState
  /\ IF system = "pwords" THEN Wc!PwordsNext ELSE UNCHANGED pwordsState
  /\ IF system = "jobs" THEN Apps!MRNext ELSE UNCHANGED mrJob
  /\ IF system = "kv" THEN Kv!KvNext ELSE UNCHANGED kvState

Spec == Init /\ [][Next]_allState

-----------------------------------------------------------------------------
(* The kernel's memory and devices.  The user heap moved by sbrk() and its *)
(* pages (Sbrk); the blocks and free lists of malloc() and free() with     *)
(* concurrent callers (KernelHeap).  The machine boots from the right      *)
(* partition with the options given, its memory, page tables and segments  *)
(* are set up before they are used, and it finds its disks: BootRight of   *)
(* Boot, StartRight of Startup and ProbeRight of IdeProbe.  The console's  *)
(* messages stay whole, the screen shows what was typed, sleeps are long   *)
(* enough, and times are computed and read right: Devices.                 *)
KernelRight ==
  /\ system = "sbrk" => Heaps!HeapExact /\ Heaps!PoolExact
  /\ system = "heap" => KHeap!BlocksSafe /\ KHeap!FreeListsExact
  /\ system = "startup" => St!StartRight
  /\ system = "boot" => Bt!BootRight
  /\ system = "probe" => Ata!ProbeRight
  /\ system = "printing" => Dev!ConsoleWhole
  /\ system = "screen" => Dev!ScreenShows
  /\ system = "timer" => Dev!SleepsRight
  /\ system = "timing" => Dev!TimingRight
  /\ system = "rtc" => Dev!RtcSnapshot

(* The libraries compute what their comments promise: lists and hash       *)
(* tables (LinkedList, UtList, HashTable), strings, sorting and division   *)
(* (LibC, Arithmetic), printf() (Stdio), bitmaps (Bitmap) and archives     *)
(* (Archive).  So do the programs: the shell's tokens (Tokenizer), the     *)
(* word counts of `words' and of the threads of `pwords' (WordCount), the  *)
(* results of the MapReduce applications (MRApps), and the answers of the  *)
(* key-value store, whatever the network repeats (KvStore).                *)
ComputedRight ==
  /\ system = "list" => Ls!ListsLinked
  /\ system = "hash" => Hs!HashExact
  /\ system = "utlist" => Ut!UtLinked
  /\ system = "libc" => Lib!StringsRight /\ Lib!StdlibRight
  /\ system = "arithmetic" => Ar!DivisionRight /\ Ar!FixedRight
  /\ system = "stdio" => Std!PrintfRight
  /\ system = "bitmap" => Bm!BitmapRight
  /\ system = "archive" => Tar!ArchiveExact
  /\ system = "tokenizer" => Tok!TokensRight
  /\ system \in {"words", "pwords"} => Wc!CountsRight
  /\ system = "jobs" => Apps!AppsRight
  /\ system = "kv" => Kv!KvAnswers /\ Kv!KvPutKept
=============================================================================
