--------------------------- MODULE ProcessProofs ----------------------------
(****************************************************************************)
(* Proofs about processes and their address spaces.                         *)
(*                                                                          *)
(* Process.tla, for any number of processes and any sizes of the two page   *)
(* pools: no PCB and no page directory is used after it is freed, and no    *)
(* page is lost or freed twice.                                             *)
(*                                                                          *)
(* PageDir.tla, for page tables and directories of any size: whatever is    *)
(* mapped, unmapped or marked, memory is reached through the mapping made   *)
(* last, though the TLB keeps what it has read.  PdInv says what a page     *)
(* table entry of a mapped page holds (Mapped), and that an entry kept in   *)
(* the TLB differs from the one in memory only in the accessed and dirty    *)
(* bits (Cached).                                                           *)
(*                                                                          *)
(* Sbrk.tla, for words, pages and pools of any size: between two system     *)
(* calls exactly the pages of the heap are mapped.  HeapInv says which      *)
(* pages are mapped after each turn of the loops in between (HeapMapped),   *)
(* and that a heap grows only where nothing was loaded (HeapPlaced).  No    *)
(* page of the user pool is lost: PoolMoves balances every step.            *)
(****************************************************************************)
EXTENDS Process, PageDir, Sbrk, FiniteSetTheorems, TLAPS

ProcessConstants == ProcessTasks /\ ProcessMain /\ ProcessPages

(* The places of Main and of a process's thread.                           *)
MainPlace == {"execute", "create", "wait", "shutdown"}
StartPlace == {"pcb", "pagedir", "activate", "headers", "segment", "stack", "user",
               "loadFailed", "freeFailed", "cleanup"}
Ended == {"exit", "dying", "dead"}
TaskPlace == StartPlace \cup Ended
               \cup {"none", "userMode", "clearDir", "deactivate", "destroy", "detach",
                     "freePcb", "up"}

(* Where a thread's pcb field is set; and where its PCB names a directory. *)
WithPcb == {"pagedir", "activate", "headers", "segment", "stack", "user", "loadFailed",
            "userMode", "clearDir", "deactivate", "destroy", "detach"}
Loaded == {"activate", "headers", "segment", "stack", "user", "userMode", "clearDir"}

Types ==
  /\ ppc \in [PThread -> MainPlace \cup TaskPlace] /\ ppc[Main] \in MainPlace
  /\ \A t \in Task : ppc[t] \in TaskPlace
  /\ running \in PThread /\ cr3 \in PThread
  /\ hasPcb \subseteq PThread /\ pcbs \subseteq PThread /\ pcbDir \subseteq PThread
  /\ dirs \subseteq Task /\ failed \subseteq Task /\ task \in Task
  /\ upages \in [Task -> Nat] /\ tables \in [Task -> Nat]
  /\ kfree \in Nat /\ ufree \in Nat /\ temporary \in 0..1
  /\ Main \in pcbs /\ Main \notin pcbDir

(* What a process has at each place.                                       *)
Own(t) ==
  /\ t \in hasPcb <=> ppc[t] \in WithPcb
  /\ t \in pcbs <=> ppc[t] \in WithPcb \cup {"freeFailed", "freePcb"}
  /\ ppc[t] \in Loaded => t \in pcbDir
  /\ t \in pcbDir => t \in dirs /\ ppc[t] \in Loaded \cup {"loadFailed", "freeFailed"}
  /\ ppc[t] \in {"deactivate", "destroy"} => t \in dirs
  /\ t \in dirs => t \in failed \/ ppc[t] \in Loaded \cup {"loadFailed", "deactivate", "destroy"}
  /\ t \in failed => ppc[t] \in {"freeFailed", "cleanup"} \cup Ended
  /\ t \notin dirs => tables[t] = 0 /\ upages[t] = 0

(* The directory on the CPU is the running thread's or init_page_dir, and  *)
(* the latter while the former is destroyed.                               *)
ActiveDir ==
  /\ cr3 # Main => cr3 = running /\ cr3 \in dirs
  /\ ppc[running] = "destroy" => cr3 = Main

(* Main runs one process at a time, and the semaphore is up between the    *)
(* end of a process and process_wait()'s return.                           *)
InTurn ==
  /\ \A t \in Task : t > task => ppc[t] = "none"
  /\ \A t \in Task : t < task => ppc[t] \in Ended
  /\ ppc[Main] \in {"execute", "create"} => ppc[task] = "none" /\ temporary = 0
  /\ ppc[Main] = "wait" => (temporary = 1 <=> ppc[task] \in Ended)
  /\ ppc[Main] = "shutdown" => temporary = 0 /\ ppc[task] \in Ended

KernelSum == kfree + Names + Cardinality(Alive) + Cardinality(Held(dirs, 0, tables)) = KernelPages
UserSum == ufree + Cardinality(Held(Task, 1, upages)) = UserPages

ProcessInv ==
  Types /\ (\A t \in Task : Own(t)) /\ ActiveDir /\ InTurn /\ KernelSum /\ UserSum

-----------------------------------------------------------------------------
(* Counting pages                                                          *)

LEMMA HeldFinite ==
  ASSUME NEW S, IsFiniteSet(S), NEW first \in Int, NEW last, \A t \in S : last[t] \in Int
  PROVE  IsFiniteSet(Held(S, first, last)) /\ Cardinality(Held(S, first, last)) \in Nat
<1> DEFINE column == [t \in S |-> {t} \X (first .. last[t])]
<1>1. \A t \in S : IsFiniteSet(column[t])
  <2> SUFFICES ASSUME NEW t \in S PROVE IsFiniteSet({t} \X (first .. last[t]))
    OBVIOUS
  <2>1. IsFiniteSet({t}) /\ IsFiniteSet(first .. last[t])
    BY FS_Singleton, FS_Interval
  <2> QED BY <2>1, FS_Product
<1> DEFINE columns == {column[t] : t \in S}
<1>2. IsFiniteSet(columns)
  <2>1. column \in Surjection(S, columns)
    BY DEF Surjection
  <2> QED BY <2>1, FS_Surjection
<1>3. IsFiniteSet(UNION columns)
  BY <1>1, <1>2, FS_UNION
<1>4. Held(S, first, last) = UNION columns
  BY DEF Held
<1> QED BY <1>3, <1>4, FS_CardinalityType

(* The pages that one thread's directory holds.                            *)
Height(S, first, last, t) == IF t \in S THEN last[t] - first + 1 ELSE 0

(* Only the pages of thread t change.                                      *)
LEMMA HeldChanges ==
  ASSUME IsFiniteSet(Task), NEW t \in Task, NEW first \in Int,
         NEW S \in SUBSET Task, NEW last \in [Task -> Int], last[t] >= first - 1,
         NEW S2 \in SUBSET Task, NEW last2 \in [Task -> Int], last2[t] >= first - 1,
         \A u \in Task \ {t} : (u \in S <=> u \in S2) /\ last[u] = last2[u]
  PROVE  /\ Cardinality(Held(S, first, last)) \in Nat /\ Cardinality(Held(S2, first, last2)) \in Nat
         /\ Cardinality(Held(S2, first, last2)) - Height(S2, first, last2, t)
              = Cardinality(Held(S, first, last)) - Height(S, first, last, t)
<1> DEFINE Rest == Held(S \ {t}, first, last)
<1>1. ASSUME NEW R \in SUBSET Task, NEW l \in [Task -> Int], l[t] >= first - 1,
             Held(R \ {t}, first, l) = Rest
      PROVE  /\ Cardinality(Held(R, first, l)) \in Nat
             /\ Cardinality(Held(R, first, l)) = Cardinality(Rest) + Height(R, first, l, t)
             /\ Cardinality(Rest) \in Nat
  <2>1. IsFiniteSet(R) /\ IsFiniteSet(R \ {t})
    BY FS_Subset
  <2>2. IsFiniteSet(Rest) /\ Cardinality(Rest) \in Nat
    BY <1>1, <2>1, HeldFinite
  <2>3. CASE t \notin R
    <3>1. R \ {t} = R
      BY <2>3
    <3> QED BY <1>1, <2>2, <2>3, <3>1 DEF Height
  <2>4. CASE t \in R
    <3> DEFINE Mine == {t} \X (first .. l[t])
    <3>1. Held(R, first, l) = Rest \cup Mine
      <4>1. Held(R, first, l) = Held(R \ {t}, first, l) \cup Mine
        BY <2>4 DEF Held
      <4> QED BY <1>1, <4>1
    <3>2. Rest \cap Mine = {}
      <4>1. Held(R \ {t}, first, l) \cap Mine = {}
        BY DEF Held
      <4> QED BY <1>1, <4>1
    <3>3. IsFiniteSet({t}) /\ Cardinality({t}) = 1
      BY FS_Singleton
    <3>4. IsFiniteSet(first .. l[t]) /\ Cardinality(first .. l[t]) = l[t] - first + 1
      <4>1. PICK z \in Int : z = l[t]
        BY <1>1
      <4>2. IsFiniteSet(first .. z) /\ Cardinality(first .. z) = IF first > z THEN 0 ELSE z - first + 1
        BY FS_Interval
      <4> QED BY <1>1, <4>1, <4>2
    <3>5. IsFiniteSet(Mine) /\ Cardinality(Mine) = 1 * (l[t] - first + 1)
      <4>1. \A A, B : IsFiniteSet(A) /\ IsFiniteSet(B) =>
              IsFiniteSet(A \X B) /\ Cardinality(A \X B) = Cardinality(A) * Cardinality(B)
        BY FS_Product
      <4>2. /\ IsFiniteSet({t} \X (first .. l[t]))
            /\ Cardinality({t} \X (first .. l[t])) = Cardinality({t}) * Cardinality(first .. l[t])
        BY <3>3, <3>4, <4>1
      <4> QED BY <3>3, <3>4, <4>2
    <3>6. Cardinality(Rest \cup Mine) = Cardinality(Rest) + Cardinality(Mine) - Cardinality(Rest \cap Mine)
      BY <2>2, <3>5, FS_Union
    <3>7. Cardinality(Rest \cap Mine) = 0
      BY <3>2, FS_EmptySet
    <3> HIDE DEF Mine, Rest
    <3>8. Cardinality(Mine) = l[t] - first + 1 /\ l[t] - first + 1 \in Nat
      BY <1>1, <3>5
    <3> QED BY <2>2, <2>4, <3>1, <3>6, <3>7, <3>8 DEF Height
  <2> QED BY <2>3, <2>4
<1>2. Held(S2 \ {t}, first, last2) = Rest
  BY DEF Held
<1>3. /\ Cardinality(Held(S, first, last)) = Cardinality(Rest) + Height(S, first, last, t)
      /\ Cardinality(Held(S, first, last)) \in Nat /\ Cardinality(Rest) \in Nat
  BY <1>1
<1>4. /\ Cardinality(Held(S2, first, last2)) = Cardinality(Rest) + Height(S2, first, last2, t)
      /\ Cardinality(Held(S2, first, last2)) \in Nat
  BY <1>1, <1>2
<1> HIDE DEF Rest
<1>5. Height(S, first, last, t) \in Int /\ Height(S2, first, last2, t) \in Int
  BY DEF Height
<1> QED BY <1>3, <1>4, <1>5

(* Threads and names of programs: the pages change when a thread moves     *)
(* into or out of the places that need them.                               *)
One(b) == IF b THEN 1 ELSE 0

LEMMA ThreadPages ==
  ASSUME ProcessConstants
  PROVE  /\ IsFiniteSet(Alive) /\ Cardinality(Alive) \in Nat
         /\ IsFiniteSet(Starting) /\ Cardinality(Starting) \in Nat /\ Names \in Nat
<1>1. IsFiniteSet(Task) /\ Alive \in SUBSET Task /\ Starting \in SUBSET Task
  BY DEF ProcessConstants, ProcessTasks, Alive, Starting
<1>2. IsFiniteSet(Alive) /\ IsFiniteSet(Starting)
  BY <1>1, FS_Subset
<1>3. Cardinality(Alive) \in Nat /\ Cardinality(Starting) \in Nat
  BY <1>2, FS_CardinalityType
<1> QED BY <1>2, <1>3 DEF Names

LEMMA ThreadMoves ==
  ASSUME ProcessConstants, NEW t \in Task, NEW to, t # Main,
         ppc \in [PThread -> MainPlace \cup TaskPlace], ppc' = [ppc EXCEPT ![t] = to]
  PROVE  /\ Cardinality(Alive)' \in Nat /\ Names' \in Nat
         /\ Cardinality(Alive)' = Cardinality(Alive) - One(ppc[t] \notin {"none", "dead"})
                                    + One(to \notin {"none", "dead"})
         /\ Names' = Names - One(ppc[t] \in StartPlace) + One(to \in StartPlace)
<1>1. /\ ppc'[t] = to /\ ppc'[Main] = ppc[Main]
      /\ \A u \in Task : u # t => ppc'[u] = ppc[u]
  BY DEF PThread
<1>2. /\ IsFiniteSet(Alive) /\ Cardinality(Alive) \in Nat
      /\ IsFiniteSet(Starting) /\ Cardinality(Starting) \in Nat /\ Names \in Nat
  BY ThreadPages
<1>3. /\ Alive' = IF to \notin {"none", "dead"} THEN Alive \cup {t} ELSE Alive \ {t}
      /\ t \in Alive <=> ppc[t] \notin {"none", "dead"}
  BY <1>1 DEF Alive
<1>4. /\ Starting' = IF to \in StartPlace THEN Starting \cup {t} ELSE Starting \ {t}
      /\ t \in Starting <=> ppc[t] \in StartPlace
  BY <1>1 DEF Starting, StartPlace
<1>5. /\ Cardinality(Alive \cup {t}) = IF t \in Alive THEN Cardinality(Alive) ELSE Cardinality(Alive) + 1
      /\ Cardinality(Alive \ {t}) = IF t \in Alive THEN Cardinality(Alive) - 1 ELSE Cardinality(Alive)
      /\ Cardinality(Alive \cup {t}) \in Nat /\ Cardinality(Alive \ {t}) \in Nat
  BY <1>2, FS_AddElement, FS_RemoveElement, FS_CardinalityType
<1>6. /\ Cardinality(Starting \cup {t})
           = IF t \in Starting THEN Cardinality(Starting) ELSE Cardinality(Starting) + 1
      /\ Cardinality(Starting \ {t})
           = IF t \in Starting THEN Cardinality(Starting) - 1 ELSE Cardinality(Starting)
      /\ Cardinality(Starting \cup {t}) \in Nat /\ Cardinality(Starting \ {t}) \in Nat
  BY <1>2, FS_AddElement, FS_RemoveElement, FS_CardinalityType
<1>7. /\ Cardinality(Alive)' \in Nat
      /\ Cardinality(Alive)' = Cardinality(Alive) - One(ppc[t] \notin {"none", "dead"})
                                 + One(to \notin {"none", "dead"})
  BY <1>2, <1>3, <1>5 DEF One
<1>8. /\ Cardinality(Starting)' \in Nat
      /\ Cardinality(Starting)' = Cardinality(Starting) - One(ppc[t] \in StartPlace)
                                    + One(to \in StartPlace)
  BY <1>2, <1>4, <1>6 DEF One
<1>9. /\ Names' \in Nat
      /\ Names' = Names - One(ppc[t] \in StartPlace) + One(to \in StartPlace)
  <2> DEFINE copy == IF ppc[Main] = "create" THEN 1 ELSE 0
  <2>1. Names = Cardinality(Starting) + copy /\ Names' = Cardinality(Starting)' + copy
    BY <1>1 DEF Names
  <2>2. copy \in Nat
    OBVIOUS
  <2>3. One(ppc[t] \in StartPlace) \in Nat /\ One(to \in StartPlace) \in Nat
    BY DEF One
  <2> HIDE DEF copy
  <2> QED BY <1>2, <1>8, <2>1, <2>2, <2>3
<1> QED BY <1>7, <1>9

-----------------------------------------------------------------------------
LEMMA TasksAreNumbers ==
  ASSUME ProcessConstants
  PROVE  /\ IsFiniteSet(Task) /\ Task \subseteq Nat \ {0} /\ 1 \in Task
         /\ \A t, u \in Task : t < u => t + 1 \in Task
<1>1. IsFiniteSet(Task) /\ Task = 1..Cardinality(Task) /\ Task # {}
  BY DEF ProcessConstants, ProcessTasks
<1>2. PICK n \in Nat : n = Cardinality(Task)
  BY <1>1, FS_CardinalityType
<1>3. Task = 1..n
  BY <1>1, <1>2
<1> QED BY <1>1, <1>3

LEMMA ProcessInit ==
  ASSUME ProcessConstants, ProcInit
  PROVE  ProcessInv
<1>1. /\ IsFiniteSet(Task) /\ Task = 1..Cardinality(Task) /\ Task # {} /\ Main \notin Task
      /\ KernelPages \in Nat /\ UserPages \in Nat
  BY DEF ProcessConstants, ProcessTasks, ProcessMain, ProcessPages
<1>2. 1 \in Task /\ Task \subseteq Nat /\ \A t \in Task : t >= 1
  BY TasksAreNumbers
<1>3. ppc[Main] = "execute" /\ \A t \in Task : ppc[t] = "none"
  BY <1>1 DEF ProcInit, PThread
<1>4. Types
  <2>1. ppc \in [PThread -> MainPlace \cup TaskPlace]
    BY DEF ProcInit, MainPlace, TaskPlace
  <2>2. ppc[Main] \in MainPlace /\ \A t \in Task : ppc[t] \in TaskPlace
    BY <1>3 DEF MainPlace, TaskPlace
  <2>3. /\ running \in PThread /\ cr3 \in PThread
        /\ hasPcb \subseteq PThread /\ pcbs \subseteq PThread /\ pcbDir \subseteq PThread
        /\ dirs \subseteq Task /\ failed \subseteq Task /\ task \in Task
        /\ Main \in pcbs /\ Main \notin pcbDir
    BY <1>2 DEF ProcInit, PThread
  <2>4. /\ upages \in [Task -> Nat] /\ tables \in [Task -> Nat]
        /\ kfree \in Nat /\ ufree \in Nat /\ temporary \in 0..1
    BY <1>1 DEF ProcInit
  <2> QED BY <2>1, <2>2, <2>3, <2>4 DEF Types
<1>5. \A t \in Task : Own(t)
  BY <1>1, <1>3 DEF Own, ProcInit, WithPcb, Loaded
<1>6. ActiveDir
  BY <1>3 DEF ActiveDir, ProcInit
<1>7. InTurn
  BY <1>2, <1>3 DEF InTurn, ProcInit
<1>8. Alive = {} /\ Starting = {} /\ Held(dirs, 0, tables) = {}
  BY <1>3 DEF Alive, Starting, Held, ProcInit
<1>9. Held(Task, 1, upages) = {}
  <2>1. \A t \in Task : upages[t] = 0
    BY DEF ProcInit
  <2>2. 1..0 = {}
    OBVIOUS
  <2> QED BY <2>1, <2>2 DEF Held
<1>10. Names = 0 /\ Cardinality(Alive) = 0 /\ Cardinality(Held(dirs, 0, tables)) = 0
  BY <1>3, <1>8, FS_EmptySet DEF Names
<1>11. KernelSum
  BY <1>1, <1>10 DEF KernelSum, ProcInit
<1>12. UserSum
  <2>1. Cardinality(Held(Task, 1, upages)) = 0
    BY <1>9, FS_EmptySet
  <2> QED BY <1>1, <2>1 DEF UserSum, ProcInit
<1> QED BY <1>4, <1>5, <1>6, <1>7, <1>11, <1>12 DEF ProcessInv

-----------------------------------------------------------------------------
(* What the invariant says of the counts.                                  *)
LEMMA Counts ==
  ASSUME ProcessConstants, Types
  PROVE  /\ Cardinality(Held(dirs, 0, tables)) \in Nat
         /\ Cardinality(Held(Task, 1, upages)) \in Nat
         /\ Cardinality(Alive) \in Nat /\ Names \in Nat /\ kfree \in Nat /\ ufree \in Nat
<1>1. IsFiniteSet(Task) /\ dirs \in SUBSET Task
  BY DEF ProcessConstants, ProcessTasks, Types
<1>2. IsFiniteSet(dirs)
  BY <1>1, FS_Subset
<1>3. (\A t \in dirs : tables[t] \in Int) /\ (\A t \in Task : upages[t] \in Int)
  BY <1>1 DEF Types
<1>4. Cardinality(Held(dirs, 0, tables)) \in Nat
  BY <1>2, <1>3, HeldFinite
<1>5. Cardinality(Held(Task, 1, upages)) \in Nat
  BY <1>1, <1>3, HeldFinite
<1>6. Cardinality(Alive) \in Nat /\ Names \in Nat
  BY ThreadPages
<1> QED BY <1>4, <1>5, <1>6 DEF Types

(* A step of one thread keeps the sums if what it takes from a pool is     *)
(* what it holds more.                                                     *)
LEMMA KernelSumKept ==
  ASSUME ProcessConstants, Types, Types', KernelSum, NEW t \in Task, NEW to,
         ppc' = [ppc EXCEPT ![t] = to], ppc[t] \notin {"none", "dead"},
         \A u \in Task \ {t} : (u \in dirs <=> u \in dirs') /\ tables[u] = tables'[u],
         kfree' = kfree + One(ppc[t] \in StartPlace) - One(to \in StartPlace)
                    + 1 - One(to \notin {"none", "dead"})
                    + Height(dirs, 0, tables, t) - Height(dirs', 0, tables', t)
  PROVE  KernelSum'
<1>1. t # Main
  BY DEF ProcessConstants, ProcessMain
<1>2. /\ Cardinality(Alive)' \in Nat /\ Names' \in Nat
      /\ Cardinality(Alive)' = Cardinality(Alive) - 1 + One(to \notin {"none", "dead"})
      /\ Names' = Names - One(ppc[t] \in StartPlace) + One(to \in StartPlace)
  <2>1. One(ppc[t] \notin {"none", "dead"}) = 1
    BY DEF One
  <2> QED BY <1>1, <2>1, ThreadMoves DEF Types
<1>3. PICK before \in Nat, after \in Nat :
        /\ before = Cardinality(Held(dirs, 0, tables)) /\ after = Cardinality(Held(dirs, 0, tables))'
        /\ after - Height(dirs', 0, tables', t) = before - Height(dirs, 0, tables, t)
  <2>1. /\ dirs \in SUBSET Task /\ dirs' \in SUBSET Task
        /\ tables \in [Task -> Int] /\ tables' \in [Task -> Int]
        /\ tables[t] >= 0 - 1 /\ tables'[t] >= 0 - 1 /\ IsFiniteSet(Task)
    BY TasksAreNumbers DEF Types
  <2>2. /\ Cardinality(Held(dirs, 0, tables)) \in Nat /\ Cardinality(Held(dirs', 0, tables')) \in Nat
        /\ Cardinality(Held(dirs', 0, tables')) - Height(dirs', 0, tables', t)
              = Cardinality(Held(dirs, 0, tables)) - Height(dirs, 0, tables, t)
    BY <2>1, HeldChanges
  <2> QED BY <2>2
<1>4. /\ One(ppc[t] \in StartPlace) \in Nat /\ One(to \in StartPlace) \in Nat
      /\ One(to \notin {"none", "dead"}) \in Nat
  BY DEF One
<1>5. Height(dirs, 0, tables, t) \in Int /\ Height(dirs', 0, tables', t) \in Int
  BY DEF Height, Types
<1>6. Cardinality(Alive) \in Nat /\ Names \in Nat /\ kfree \in Nat /\ kfree' \in Nat
  BY Counts DEF Types
<1>7. kfree' + Names' + Cardinality(Alive)' + after = kfree + Names + Cardinality(Alive) + before
  BY <1>2, <1>3, <1>4, <1>5, <1>6
<1>8. kfree + Names + Cardinality(Alive) + before = KernelPages
  BY <1>3 DEF KernelSum
<1> QED BY <1>3, <1>7, <1>8 DEF KernelSum

LEMMA UserSumKept ==
  ASSUME ProcessConstants, Types, Types', UserSum, NEW t \in Task,
         \A u \in Task \ {t} : upages[u] = upages'[u],
         ufree' = ufree + upages[t] - upages'[t]
  PROVE  UserSum'
<1>1. PICK before \in Nat, after \in Nat :
        /\ before = Cardinality(Held(Task, 1, upages)) /\ after = Cardinality(Held(Task, 1, upages))'
        /\ after - Height(Task, 1, upages', t) = before - Height(Task, 1, upages, t)
  <2>1. /\ Task \in SUBSET Task /\ upages \in [Task -> Int] /\ upages' \in [Task -> Int]
        /\ upages[t] >= 1 - 1 /\ upages'[t] >= 1 - 1 /\ IsFiniteSet(Task)
    BY TasksAreNumbers DEF Types
  <2>2. /\ Cardinality(Held(Task, 1, upages)) \in Nat /\ Cardinality(Held(Task, 1, upages')) \in Nat
        /\ Cardinality(Held(Task, 1, upages')) - Height(Task, 1, upages', t)
              = Cardinality(Held(Task, 1, upages)) - Height(Task, 1, upages, t)
    BY <2>1, HeldChanges
  <2> QED BY <2>2
<1>2. /\ Height(Task, 1, upages, t) = upages[t] /\ Height(Task, 1, upages', t) = upages'[t]
      /\ upages[t] \in Nat /\ upages'[t] \in Nat /\ ufree \in Nat /\ ufree' \in Nat
  BY DEF Height, Types
<1> QED BY <1>1, <1>2 DEF UserSum

(* A thread of a process moves on, and ends with an up() of the semaphore. *)
LEMMA TurnKept ==
  ASSUME ProcessConstants, Types, InTurn, NEW t \in Task, NEW to, to # "none",
         ppc[t] # "none", ppc' = [ppc EXCEPT ![t] = to], task' = task,
         \/ (ppc[t] \in Ended <=> to \in Ended) /\ temporary' = temporary
         \/ ppc[t] \notin Ended /\ to \in Ended /\ temporary' = temporary + 1
  PROVE  InTurn' /\ temporary' \in 0..1
<1>1. /\ ppc'[t] = to /\ ppc'[Main] = ppc[Main] /\ ppc[Main] \in MainPlace
      /\ \A u \in Task : u # t => ppc'[u] = ppc[u]
  BY DEF ProcessConstants, ProcessMain, Types, PThread
<1>2. Task \subseteq Nat /\ task \in Task
  BY TasksAreNumbers DEF Types
<1>3. t <= task
  BY <1>2 DEF InTurn
<1>4. temporary \in 0..1
  BY DEF Types
<1>5. CASE (ppc[t] \in Ended <=> to \in Ended) /\ temporary' = temporary
  <2>1. (\A u \in Task : u > task => ppc'[u] = "none") /\ \A u \in Task : u < task => ppc'[u] \in Ended
    BY <1>1, <1>2, <1>3, <1>5 DEF InTurn
  <2>2. ppc'[task] \in Ended <=> ppc[task] \in Ended
    BY <1>1, <1>2, <1>5
  <2>3. ppc'[task] = "none" <=> ppc[task] = "none"
    BY <1>1, <1>2
  <2> QED BY <1>1, <1>4, <1>5, <2>1, <2>2, <2>3 DEF InTurn
<1>6. CASE ppc[t] \notin Ended /\ to \in Ended /\ temporary' = temporary + 1
  <2>1. t = task
    BY <1>2, <1>3, <1>6 DEF InTurn
  <2>2. ppc[Main] = "wait"
    BY <1>1, <1>6, <2>1 DEF InTurn, MainPlace
  <2>3. temporary = 0
    BY <1>4, <1>6, <2>1, <2>2 DEF InTurn
  <2>4. (\A u \in Task : u > task => ppc'[u] = "none") /\ \A u \in Task : u < task => ppc'[u] \in Ended
    BY <1>1, <1>2, <2>1 DEF InTurn
  <2> QED BY <1>1, <1>6, <2>1, <2>2, <2>3, <2>4 DEF InTurn
<1> QED BY <1>5, <1>6

-----------------------------------------------------------------------------
(* The steps of a process's thread                                         *)
ChildMove(t) == ChildStep(t) \/ Syscall(t, FALSE)

(* It is on the CPU, moves and leaves the other threads' things alone.     *)
LEMMA ChildFrame ==
  ASSUME ProcessConstants, Types, NEW t \in Task, ChildMove(t)
  PROVE  /\ t # Main /\ running = t /\ running' = t /\ task' = task
         /\ ppc[t] \in StartPlace \cup {"userMode", "clearDir", "deactivate", "destroy", "detach",
                                        "freePcb", "up", "exit"}
         /\ \E to \in TaskPlace \ {"none", "dead"} : ppc' = [ppc EXCEPT ![t] = to]
         /\ \A u : u # t => /\ u \in hasPcb' <=> u \in hasPcb
                            /\ u \in pcbs' <=> u \in pcbs
                            /\ u \in pcbDir' <=> u \in pcbDir
                            /\ u \in dirs' <=> u \in dirs
                            /\ u \in failed' <=> u \in failed
         /\ \A u \in Task : u # t => upages'[u] = upages[u] /\ tables'[u] = tables[u]
<1> USE DEF pcbVars, dirVars, pools
<1>1. t # Main
  BY DEF ProcessConstants, ProcessMain
<1>2. running = t /\ running' = t /\ task' = task
  BY DEF On, ChildMove, ChildStep, StartPcb, LoadPagedir, LoadActivate, LoadHeaders, LoadPage,
         SetupStack, PageMapped, PageFails, DetachFailed, FreeFailed, StartFails, FreeName,
         Syscall, Kill, ExitClearDir, ExitDeactivate, PagedirDestroy, ExitDetach, ExitFreePcb,
         ExitUp, ThreadExits
<1>3. /\ ppc[t] \in StartPlace \cup {"userMode", "clearDir", "deactivate", "destroy", "detach",
                                     "freePcb", "up", "exit"}
      /\ \E to \in TaskPlace \ {"none", "dead"} : ppc' = [ppc EXCEPT ![t] = to]
  <2> USE DEF On, TaskPlace, StartPlace, Ended
  <2>1. CASE StartPcb(t)
    BY <2>1 DEF StartPcb
  <2>2. CASE LoadPagedir(t)
    BY <2>2 DEF LoadPagedir
  <2>3. CASE LoadActivate(t)
    BY <2>3 DEF LoadActivate, ProcessActivate
  <2>4. CASE LoadHeaders(t)
    BY <2>4 DEF LoadHeaders
  <2>5. CASE LoadPage(t) \/ SetupStack(t)
    BY <2>5 DEF LoadPage, SetupStack, PageMapped, PageFails
  <2>6. CASE DetachFailed(t)
    BY <2>6 DEF DetachFailed
  <2>7. CASE FreeFailed(t)
    BY <2>7 DEF FreeFailed
  <2>8. CASE StartFails(t)
    BY <2>8 DEF StartFails
  <2>9. CASE FreeName(t)
    BY <2>9 DEF FreeName
  <2>10. CASE Syscall(t, TRUE) \/ Syscall(t, FALSE) \/ Kill(t)
    BY <2>10 DEF Syscall, Kill
  <2>11. CASE ExitClearDir(t)
    BY <2>11 DEF ExitClearDir
  <2>12. CASE ExitDeactivate(t)
    BY <2>12 DEF ExitDeactivate
  <2>13. CASE PagedirDestroy(t)
    BY <2>13 DEF PagedirDestroy
  <2>14. CASE ExitDetach(t)
    BY <2>14 DEF ExitDetach
  <2>15. CASE ExitFreePcb(t)
    BY <2>15 DEF ExitFreePcb
  <2>16. CASE ExitUp(t)
    BY <2>16 DEF ExitUp
  <2>17. CASE ThreadExits(t)
    BY <2>17 DEF ThreadExits
  <2> QED BY <2>1, <2>2, <2>3, <2>4, <2>5, <2>6, <2>7, <2>8, <2>9, <2>10, <2>11,
         <2>12, <2>13, <2>14, <2>15, <2>16, <2>17
         DEF ChildMove, ChildStep
<1>4. /\ \A u : u # t => /\ u \in hasPcb' <=> u \in hasPcb
                         /\ u \in pcbs' <=> u \in pcbs
                         /\ u \in pcbDir' <=> u \in pcbDir
                         /\ u \in dirs' <=> u \in dirs
                         /\ u \in failed' <=> u \in failed
      /\ \A u \in Task : u # t => upages'[u] = upages[u] /\ tables'[u] = tables[u]
  <2>1. CASE StartPcb(t)
    BY <2>1 DEF StartPcb, Types
  <2>2. CASE LoadPagedir(t)
    BY <2>2 DEF LoadPagedir, Types
  <2>3. CASE LoadActivate(t)
    BY <2>3 DEF LoadActivate, ProcessActivate, Types
  <2>4. CASE LoadHeaders(t)
    BY <2>4 DEF LoadHeaders, Types
  <2>5. CASE LoadPage(t) \/ SetupStack(t)
    BY <2>5 DEF LoadPage, SetupStack, PageMapped, PageFails, Types
  <2>6. CASE DetachFailed(t)
    BY <2>6 DEF DetachFailed, Types
  <2>7. CASE FreeFailed(t)
    BY <2>7 DEF FreeFailed, Types
  <2>8. CASE StartFails(t)
    BY <2>8 DEF StartFails, Types
  <2>9. CASE FreeName(t)
    BY <2>9 DEF FreeName, Types
  <2>10. CASE Syscall(t, TRUE) \/ Syscall(t, FALSE) \/ Kill(t)
    BY <2>10 DEF Syscall, Kill, Types
  <2>11. CASE ExitClearDir(t)
    BY <2>11 DEF ExitClearDir, Types
  <2>12. CASE ExitDeactivate(t)
    BY <2>12 DEF ExitDeactivate, Types
  <2>13. CASE PagedirDestroy(t)
    BY <2>13 DEF PagedirDestroy, Types
  <2>14. CASE ExitDetach(t)
    BY <2>14 DEF ExitDetach, Types
  <2>15. CASE ExitFreePcb(t)
    BY <2>15 DEF ExitFreePcb, Types
  <2>16. CASE ExitUp(t)
    BY <2>16 DEF ExitUp, Types
  <2>17. CASE ThreadExits(t)
    BY <2>17 DEF ThreadExits, Types
  <2> QED BY <2>1, <2>2, <2>3, <2>4, <2>5, <2>6, <2>7, <2>8, <2>9, <2>10, <2>11,
         <2>12, <2>13, <2>14, <2>15, <2>16, <2>17
         DEF ChildMove, ChildStep
<1> QED BY <1>1, <1>2, <1>3, <1>4

LEMMA ChildTypes ==
  ASSUME ProcessConstants, Types, InTurn, NEW t \in Task, ChildMove(t), temporary' \in 0..1
  PROVE  Types'
<1> USE DEF pcbVars, dirVars, pools
<1>1. PICK to \in TaskPlace \ {"none", "dead"} : ppc' = [ppc EXCEPT ![t] = to]
  BY ChildFrame
<1>2. /\ ppc' \in [PThread -> MainPlace \cup TaskPlace] /\ ppc'[Main] \in MainPlace
      /\ \A u \in Task : ppc'[u] \in TaskPlace
  BY <1>1, ChildFrame DEF Types, PThread
<1>3. running' \in PThread /\ task' \in Task /\ t \in PThread /\ Main \in PThread
  BY ChildFrame DEF Types, PThread
<1>4. Main \in pcbs' /\ Main \notin pcbDir'
  BY ChildFrame DEF Types
<1>5. /\ hasPcb' \subseteq PThread /\ pcbs' \subseteq PThread /\ pcbDir' \subseteq PThread
      /\ dirs' \subseteq Task /\ failed' \subseteq Task
  BY <1>3, ChildFrame DEF Types
<1>6. cr3' \in PThread
  <2>1. CASE StartPcb(t)
    BY <1>3, <2>1 DEF StartPcb, Types
  <2>2. CASE LoadPagedir(t)
    BY <1>3, <2>2 DEF LoadPagedir, Types
  <2>3. CASE LoadActivate(t)
    BY <1>3, <2>3 DEF LoadActivate, ProcessActivate, Types
  <2>4. CASE LoadHeaders(t)
    BY <1>3, <2>4 DEF LoadHeaders, Types
  <2>5. CASE LoadPage(t) \/ SetupStack(t)
    BY <1>3, <2>5 DEF LoadPage, SetupStack, PageMapped, PageFails, Types
  <2>6. CASE DetachFailed(t)
    BY <1>3, <2>6 DEF DetachFailed, Types
  <2>7. CASE FreeFailed(t)
    BY <1>3, <2>7 DEF FreeFailed, Types
  <2>8. CASE StartFails(t)
    BY <1>3, <2>8 DEF StartFails, Types
  <2>9. CASE FreeName(t)
    BY <1>3, <2>9 DEF FreeName, Types
  <2>10. CASE Syscall(t, TRUE) \/ Syscall(t, FALSE) \/ Kill(t)
    BY <1>3, <2>10 DEF Syscall, Kill, Types
  <2>11. CASE ExitClearDir(t)
    BY <1>3, <2>11 DEF ExitClearDir, Types
  <2>12. CASE ExitDeactivate(t)
    BY <1>3, <2>12 DEF ExitDeactivate, Types
  <2>13. CASE PagedirDestroy(t)
    BY <1>3, <2>13 DEF PagedirDestroy, Types
  <2>14. CASE ExitDetach(t)
    BY <1>3, <2>14 DEF ExitDetach, Types
  <2>15. CASE ExitFreePcb(t)
    BY <1>3, <2>15 DEF ExitFreePcb, Types
  <2>16. CASE ExitUp(t)
    BY <1>3, <2>16 DEF ExitUp, Types
  <2>17. CASE ThreadExits(t)
    BY <1>3, <2>17 DEF ThreadExits, Types
  <2> QED BY <2>1, <2>2, <2>3, <2>4, <2>5, <2>6, <2>7, <2>8, <2>9, <2>10, <2>11,
         <2>12, <2>13, <2>14, <2>15, <2>16, <2>17
         DEF ChildMove, ChildStep
<1>7. upages' \in [Task -> Nat] /\ tables' \in [Task -> Nat] /\ kfree' \in Nat /\ ufree' \in Nat
  <2>1. CASE StartPcb(t)
    BY <2>1 DEF StartPcb, Types
  <2>2. CASE LoadPagedir(t)
    BY <2>2 DEF LoadPagedir, Types
  <2>3. CASE LoadActivate(t)
    BY <2>3 DEF LoadActivate, ProcessActivate, Types
  <2>4. CASE LoadHeaders(t)
    BY <2>4 DEF LoadHeaders, Types
  <2>5. CASE LoadPage(t) \/ SetupStack(t)
    BY <2>5 DEF LoadPage, SetupStack, PageMapped, PageFails, Types
  <2>6. CASE DetachFailed(t)
    BY <2>6 DEF DetachFailed, Types
  <2>7. CASE FreeFailed(t)
    BY <2>7 DEF FreeFailed, Types
  <2>8. CASE StartFails(t)
    BY <2>8 DEF StartFails, Types
  <2>9. CASE FreeName(t)
    BY <2>9 DEF FreeName, Types
  <2>10. CASE Syscall(t, TRUE) \/ Syscall(t, FALSE) \/ Kill(t)
    BY <2>10 DEF Syscall, Kill, Types
  <2>11. CASE ExitClearDir(t)
    BY <2>11 DEF ExitClearDir, Types
  <2>12. CASE ExitDeactivate(t)
    BY <2>12 DEF ExitDeactivate, Types
  <2>13. CASE PagedirDestroy(t)
    BY <2>13 DEF PagedirDestroy, Types
  <2>14. CASE ExitDetach(t)
    BY <2>14 DEF ExitDetach, Types
  <2>15. CASE ExitFreePcb(t)
    BY <2>15 DEF ExitFreePcb, Types
  <2>16. CASE ExitUp(t)
    BY <2>16 DEF ExitUp, Types
  <2>17. CASE ThreadExits(t)
    BY <2>17 DEF ThreadExits, Types
  <2> QED BY <2>1, <2>2, <2>3, <2>4, <2>5, <2>6, <2>7, <2>8, <2>9, <2>10, <2>11,
         <2>12, <2>13, <2>14, <2>15, <2>16, <2>17
         DEF ChildMove, ChildStep
<1> QED BY <1>2, <1>3, <1>4, <1>5, <1>6, <1>7 DEF Types

LEMMA ChildOwn ==
  ASSUME ProcessConstants, Types, \A u \in Task : Own(u), NEW t \in Task, ChildMove(t)
  PROVE  \A u \in Task : Own(u)'
<1> USE DEF pcbVars, dirVars, pools
<1>1. ASSUME NEW u \in Task, u # t PROVE Own(u)'
  <2>1. ppc'[u] = ppc[u]
    BY <1>1, ChildFrame DEF PThread, Types
  <2> QED BY <1>1, <2>1, ChildFrame DEF Own
<1>2. Own(t)'
  <2>1. Own(t) /\ \A to : ppc' = [ppc EXCEPT ![t] = to] => ppc'[t] = to
    BY DEF Types, PThread
  <2>2. CASE StartPcb(t)
    BY <2>1, <2>2 DEF StartPcb, On, Own, WithPcb, Loaded, Ended, Types
  <2>3. CASE LoadPagedir(t)
    BY <2>1, <2>3 DEF LoadPagedir, On, Own, WithPcb, Loaded, Ended, Types
  <2>4. CASE LoadActivate(t)
    BY <2>1, <2>4 DEF LoadActivate, ProcessActivate, On, Own, WithPcb, Loaded, Ended, Types
  <2>5. CASE LoadHeaders(t)
    BY <2>1, <2>5 DEF LoadHeaders, On, Own, WithPcb, Loaded, Ended, Types
  <2>6. CASE LoadPage(t) \/ SetupStack(t)
    BY <2>1, <2>6 DEF LoadPage, SetupStack, PageMapped, PageFails, On, Own, WithPcb, Loaded, Ended, Types
  <2>7. CASE DetachFailed(t)
    BY <2>1, <2>7 DEF DetachFailed, On, Own, WithPcb, Loaded, Ended, Types
  <2>8. CASE FreeFailed(t)
    BY <2>1, <2>8 DEF FreeFailed, On, Own, WithPcb, Loaded, Ended, Types
  <2>9. CASE StartFails(t)
    BY <2>1, <2>9 DEF StartFails, On, Own, WithPcb, Loaded, Ended, Types
  <2>10. CASE FreeName(t)
    BY <2>1, <2>10 DEF FreeName, On, Own, WithPcb, Loaded, Ended, Types
  <2>11. CASE Syscall(t, TRUE) \/ Syscall(t, FALSE) \/ Kill(t)
    BY <2>1, <2>11 DEF Syscall, Kill, On, Own, WithPcb, Loaded, Ended, Types
  <2>12. CASE ExitClearDir(t)
    BY <2>1, <2>12 DEF ExitClearDir, On, Own, WithPcb, Loaded, Ended, Types
  <2>13. CASE ExitDeactivate(t)
    BY <2>1, <2>13 DEF ExitDeactivate, On, Own, WithPcb, Loaded, Ended, Types
  <2>14. CASE PagedirDestroy(t)
    BY <2>1, <2>14 DEF PagedirDestroy, On, Own, WithPcb, Loaded, Ended, Types
  <2>15. CASE ExitDetach(t)
    BY <2>1, <2>15 DEF ExitDetach, On, Own, WithPcb, Loaded, Ended, Types
  <2>16. CASE ExitFreePcb(t)
    BY <2>1, <2>16 DEF ExitFreePcb, On, Own, WithPcb, Loaded, Ended, Types
  <2>17. CASE ExitUp(t)
    BY <2>1, <2>17 DEF ExitUp, On, Own, WithPcb, Loaded, Ended, Types
  <2>18. CASE ThreadExits(t)
    BY <2>1, <2>18 DEF ThreadExits, On, Own, WithPcb, Loaded, Ended, Types
  <2> QED BY <2>2, <2>3, <2>4, <2>5, <2>6, <2>7, <2>8, <2>9, <2>10, <2>11, <2>12,
         <2>13, <2>14, <2>15, <2>16, <2>17, <2>18
         DEF ChildMove, ChildStep
<1> QED BY <1>1, <1>2

LEMMA ChildDir ==
  ASSUME ProcessConstants, Types, \A u \in Task : Own(u), ActiveDir, NEW t \in Task, ChildMove(t)
  PROVE  ActiveDir'
<1> USE DEF pcbVars, dirVars, pools
<1>1. running = t /\ running' = t /\ Own(t) /\ \A to : ppc' = [ppc EXCEPT ![t] = to] => ppc'[t] = to
  BY ChildFrame DEF Types, PThread
<1>2. CASE StartPcb(t)
  BY <1>1, <1>2 DEF StartPcb, On, ActiveDir, Own, WithPcb, Loaded
<1>3. CASE LoadPagedir(t)
  BY <1>1, <1>3 DEF LoadPagedir, On, ActiveDir, Own, WithPcb, Loaded
<1>4. CASE LoadActivate(t)
  BY <1>1, <1>4 DEF LoadActivate, ProcessActivate, On, ActiveDir, Own, WithPcb, Loaded
<1>5. CASE LoadHeaders(t)
  BY <1>1, <1>5 DEF LoadHeaders, On, ActiveDir, Own, WithPcb, Loaded
<1>6. CASE LoadPage(t) \/ SetupStack(t)
  BY <1>1, <1>6 DEF LoadPage, SetupStack, PageMapped, PageFails, On, ActiveDir, Own, WithPcb, Loaded
<1>7. CASE DetachFailed(t)
  BY <1>1, <1>7 DEF DetachFailed, On, ActiveDir, Own, WithPcb, Loaded
<1>8. CASE FreeFailed(t)
  BY <1>1, <1>8 DEF FreeFailed, On, ActiveDir, Own, WithPcb, Loaded
<1>9. CASE StartFails(t)
  BY <1>1, <1>9 DEF StartFails, On, ActiveDir, Own, WithPcb, Loaded
<1>10. CASE FreeName(t)
  BY <1>1, <1>10 DEF FreeName, On, ActiveDir, Own, WithPcb, Loaded
<1>11. CASE Syscall(t, TRUE) \/ Syscall(t, FALSE) \/ Kill(t)
  BY <1>1, <1>11 DEF Syscall, Kill, On, ActiveDir, Own, WithPcb, Loaded
<1>12. CASE ExitClearDir(t)
  BY <1>1, <1>12 DEF ExitClearDir, On, ActiveDir, Own, WithPcb, Loaded
<1>13. CASE ExitDeactivate(t)
  BY <1>1, <1>13 DEF ExitDeactivate, On, ActiveDir, Own, WithPcb, Loaded
<1>14. CASE PagedirDestroy(t)
  BY <1>1, <1>14 DEF PagedirDestroy, On, ActiveDir, Own, WithPcb, Loaded
<1>15. CASE ExitDetach(t)
  BY <1>1, <1>15 DEF ExitDetach, On, ActiveDir, Own, WithPcb, Loaded
<1>16. CASE ExitFreePcb(t)
  BY <1>1, <1>16 DEF ExitFreePcb, On, ActiveDir, Own, WithPcb, Loaded
<1>17. CASE ExitUp(t)
  BY <1>1, <1>17 DEF ExitUp, On, ActiveDir, Own, WithPcb, Loaded
<1>18. CASE ThreadExits(t)
  BY <1>1, <1>18 DEF ThreadExits, On, ActiveDir, Own, WithPcb, Loaded
<1> QED BY <1>2, <1>3, <1>4, <1>5, <1>6, <1>7, <1>8, <1>9, <1>10, <1>11, <1>12,
       <1>13, <1>14, <1>15, <1>16, <1>17, <1>18
       DEF ChildMove, ChildStep

LEMMA ChildTurn ==
  ASSUME ProcessConstants, Types, InTurn, NEW t \in Task, ChildMove(t)
  PROVE  InTurn' /\ temporary' \in 0..1
<1> USE DEF pcbVars, dirVars, pools
<1>1. task' = task /\ ppc[t] # "none"
  BY ChildFrame DEF StartPlace
<1>2. \A to : ppc' = [ppc EXCEPT ![t] = to] => ppc'[t] = to
  BY DEF Types, PThread
<1>3. \/ (ppc[t] \in Ended <=> ppc'[t] \in Ended) /\ temporary' = temporary
      \/ ppc[t] \notin Ended /\ ppc'[t] \in Ended /\ temporary' = temporary + 1
  <2>1. CASE StartPcb(t)
    BY <1>2, <2>1 DEF StartPcb, On, Ended
  <2>2. CASE LoadPagedir(t)
    BY <1>2, <2>2 DEF LoadPagedir, On, Ended
  <2>3. CASE LoadActivate(t)
    BY <1>2, <2>3 DEF LoadActivate, ProcessActivate, On, Ended
  <2>4. CASE LoadHeaders(t)
    BY <1>2, <2>4 DEF LoadHeaders, On, Ended
  <2>5. CASE LoadPage(t) \/ SetupStack(t)
    BY <1>2, <2>5 DEF LoadPage, SetupStack, PageMapped, PageFails, On, Ended
  <2>6. CASE DetachFailed(t)
    BY <1>2, <2>6 DEF DetachFailed, On, Ended
  <2>7. CASE FreeFailed(t)
    BY <1>2, <2>7 DEF FreeFailed, On, Ended
  <2>8. CASE StartFails(t)
    BY <1>2, <2>8 DEF StartFails, On, Ended
  <2>9. CASE FreeName(t)
    BY <1>2, <2>9 DEF FreeName, On, Ended
  <2>10. CASE Syscall(t, TRUE) \/ Syscall(t, FALSE) \/ Kill(t)
    BY <1>2, <2>10 DEF Syscall, Kill, On, Ended
  <2>11. CASE ExitClearDir(t)
    BY <1>2, <2>11 DEF ExitClearDir, On, Ended
  <2>12. CASE ExitDeactivate(t)
    BY <1>2, <2>12 DEF ExitDeactivate, On, Ended
  <2>13. CASE PagedirDestroy(t)
    BY <1>2, <2>13 DEF PagedirDestroy, On, Ended
  <2>14. CASE ExitDetach(t)
    BY <1>2, <2>14 DEF ExitDetach, On, Ended
  <2>15. CASE ExitFreePcb(t)
    BY <1>2, <2>15 DEF ExitFreePcb, On, Ended
  <2>16. CASE ExitUp(t)
    BY <1>2, <2>16 DEF ExitUp, On, Ended
  <2>17. CASE ThreadExits(t)
    BY <1>2, <2>17 DEF ThreadExits, On, Ended
  <2> QED BY <2>1, <2>2, <2>3, <2>4, <2>5, <2>6, <2>7, <2>8, <2>9, <2>10, <2>11,
         <2>12, <2>13, <2>14, <2>15, <2>16, <2>17
         DEF ChildMove, ChildStep
<1>4. PICK to \in TaskPlace \ {"none", "dead"} : ppc' = [ppc EXCEPT ![t] = to]
  BY ChildFrame
<1> QED BY <1>1, <1>2, <1>3, <1>4, TurnKept

LEMMA ChildSums ==
  ASSUME ProcessConstants, Types, Types', \A u \in Task : Own(u), KernelSum, UserSum,
         NEW t \in Task, ChildMove(t)
  PROVE  KernelSum' /\ UserSum'
<1> USE DEF pcbVars, dirVars, pools
<1>1. /\ Own(t) /\ tables[t] \in Nat /\ upages[t] \in Nat /\ kfree \in Nat /\ ufree \in Nat
      /\ tables \in [Task -> Nat] /\ upages \in [Task -> Nat]
      /\ \A to : ppc' = [ppc EXCEPT ![t] = to] => ppc'[t] = to
  BY DEF Types, PThread
<1>2. /\ kfree' = kfree + One(ppc[t] \in StartPlace) - One(ppc'[t] \in StartPlace)
                    + 1 - One(ppc'[t] \notin {"none", "dead"})
                    + Height(dirs, 0, tables, t) - Height(dirs', 0, tables', t)
      /\ ufree' = ufree + upages[t] - upages'[t]
  <2>1. CASE StartPcb(t)
    BY <1>1, <2>1 DEF StartPcb, On, One, Height, StartPlace
  <2>2. CASE LoadPagedir(t)
    <3>1. /\ ppc[t] = "pagedir" /\ ppc'[t] \in {"activate", "loadFailed"} /\ t \notin dirs
          /\ UNCHANGED <<ufree, upages, tables>> /\ tables[t] = 0
      BY <1>1, <2>2 DEF LoadPagedir, On, Own, Loaded, Ended
    <3>2. \/ kfree' = kfree - 1 /\ t \in dirs'
          \/ UNCHANGED <<kfree, dirs>>
      BY <2>2 DEF LoadPagedir
    <3> QED BY <1>1, <3>1, <3>2 DEF One, Height, StartPlace
  <2>3. CASE LoadActivate(t)
    BY <1>1, <2>3 DEF LoadActivate, ProcessActivate, On, One, Height, StartPlace
  <2>4. CASE LoadHeaders(t)
    <3>1. ppc[t] = "headers" /\ ppc'[t] \in {"loadFailed", "stack", "segment"}
      BY <1>1, <2>4 DEF LoadHeaders, On
    <3>2. UNCHANGED <<kfree, ufree, dirs, upages, tables>>
      BY <2>4 DEF LoadHeaders
    <3> QED BY <1>1, <3>1, <3>2 DEF One, Height, StartPlace
  <2>5. CASE LoadPage(t) \/ SetupStack(t)
    <3>1. /\ ppc[t] \in {"segment", "stack"} /\ ppc'[t] \in {"headers", "user", "loadFailed"}
          /\ dirs' = dirs
      BY <1>1, <2>5 DEF LoadPage, SetupStack, PageMapped, PageFails, On
    <3>2. t \in dirs
      BY <1>1, <3>1 DEF Own, Loaded
    <3>3. One(ppc[t] \in StartPlace) = 1 /\ One(ppc'[t] \in StartPlace) = 1
          /\ One(ppc'[t] \notin {"none", "dead"}) = 1
      BY <3>1 DEF One, StartPlace
    <3>4. CASE PageFails(t, "segment") \/ PageFails(t, "stack")
      BY <1>1, <3>1, <3>3, <3>4 DEF PageFails, Height
    <3>5. CASE PageMapped(t, "segment", "headers") \/ PageMapped(t, "stack", "user")
      <4>1. ufree' = ufree - 1 /\ upages'[t] = upages[t] + 1
        BY <1>1, <3>5 DEF PageMapped
      <4>2. \/ tables'[t] = tables[t] /\ kfree' = kfree
            \/ tables'[t] = tables[t] + 1 /\ kfree' = kfree - 1
        BY <1>1, <3>5 DEF PageMapped
      <4> QED BY <1>1, <3>1, <3>2, <3>3, <4>1, <4>2 DEF Height
    <3> QED BY <2>5, <3>4, <3>5 DEF LoadPage, SetupStack
  <2>6. CASE DetachFailed(t)
    BY <1>1, <2>6 DEF DetachFailed, On, One, Height, StartPlace
  <2>7. CASE FreeFailed(t)
    BY <1>1, <2>7 DEF FreeFailed, On, One, Height, StartPlace
  <2>8. CASE StartFails(t)
    <3>1. /\ ppc[t] = "cleanup" /\ ppc'[t] = "exit" /\ kfree' = kfree + 1
          /\ UNCHANGED <<ufree, dirs, upages, tables>>
      BY <1>1, <2>8 DEF StartFails, On
    <3>2. /\ One(ppc[t] \in StartPlace) = 1 /\ One(ppc'[t] \in StartPlace) = 0
          /\ One(ppc'[t] \notin {"none", "dead"}) = 1
      BY <3>1 DEF One, StartPlace
    <3> QED BY <1>1, <3>1, <3>2 DEF Height
  <2>9. CASE FreeName(t)
    <3>1. /\ ppc[t] = "user" /\ ppc'[t] = "userMode" /\ kfree' = kfree + 1
          /\ UNCHANGED <<ufree, dirs, upages, tables>>
      BY <1>1, <2>9 DEF FreeName, On
    <3>2. /\ One(ppc[t] \in StartPlace) = 1 /\ One(ppc'[t] \in StartPlace) = 0
          /\ One(ppc'[t] \notin {"none", "dead"}) = 1
      BY <3>1 DEF One, StartPlace
    <3> QED BY <1>1, <3>1, <3>2 DEF Height
  <2>10. CASE Syscall(t, TRUE) \/ Syscall(t, FALSE) \/ Kill(t)
    BY <1>1, <2>10 DEF Syscall, Kill, On, One, Height, StartPlace
  <2>11. CASE ExitClearDir(t)
    BY <1>1, <2>11 DEF ExitClearDir, On, One, Height, StartPlace
  <2>12. CASE ExitDeactivate(t)
    BY <1>1, <2>12 DEF ExitDeactivate, On, One, Height, StartPlace
  <2>13. CASE PagedirDestroy(t)
    <3>1. /\ ppc[t] = "destroy" /\ ppc'[t] = "detach" /\ t \in dirs /\ t \notin dirs'
          /\ kfree' = kfree + tables[t] + 1 /\ ufree' = ufree + upages[t] /\ upages'[t] = 0
      BY <1>1, <2>13 DEF PagedirDestroy, On, Own
    <3>2. /\ One(ppc[t] \in StartPlace) = 0 /\ One(ppc'[t] \in StartPlace) = 0
          /\ One(ppc'[t] \notin {"none", "dead"}) = 1
      BY <3>1 DEF One, StartPlace
    <3> QED BY <1>1, <3>1, <3>2 DEF Height
  <2>14. CASE ExitDetach(t)
    BY <1>1, <2>14 DEF ExitDetach, On, One, Height, StartPlace
  <2>15. CASE ExitFreePcb(t)
    BY <1>1, <2>15 DEF ExitFreePcb, On, One, Height, StartPlace
  <2>16. CASE ExitUp(t)
    BY <1>1, <2>16 DEF ExitUp, On, One, Height, StartPlace
  <2>17. CASE ThreadExits(t)
    BY <1>1, <2>17 DEF ThreadExits, On, One, Height, StartPlace
  <2> QED BY <2>1, <2>2, <2>3, <2>4, <2>5, <2>6, <2>7, <2>8, <2>9, <2>10, <2>11,
         <2>12, <2>13, <2>14, <2>15, <2>16, <2>17
         DEF ChildMove, ChildStep
<1>3. PICK to \in TaskPlace \ {"none", "dead"} : ppc' = [ppc EXCEPT ![t] = to]
  BY ChildFrame
<1>4. ppc'[t] = to /\ ppc[t] \notin {"none", "dead"}
  BY <1>1, <1>3, ChildFrame DEF StartPlace
<1>5. /\ \A u \in Task \ {t} : (u \in dirs <=> u \in dirs') /\ tables[u] = tables'[u]
      /\ \A u \in Task \ {t} : upages[u] = upages'[u]
  BY ChildFrame
<1>6. KernelSum'
  BY <1>2, <1>3, <1>4, <1>5, KernelSumKept
<1>7. UserSum'
  BY <1>2, <1>5, UserSumKept
<1> QED BY <1>6, <1>7

LEMMA ChildKeeps ==
  ASSUME ProcessConstants, ProcessInv, NEW t \in Task, ChildMove(t)
  PROVE  ProcessInv'
<1>1. /\ Types /\ (\A u \in Task : Own(u)) /\ ActiveDir /\ InTurn /\ KernelSum /\ UserSum
  BY DEF ProcessInv
<1>2. InTurn' /\ temporary' \in 0..1
  BY <1>1, ChildTurn
<1>3. Types'
  BY <1>1, <1>2, ChildTypes
<1>4. \A u \in Task : Own(u)'
  BY <1>1, ChildOwn
<1>5. ActiveDir'
  BY <1>1, ChildDir
<1>6. KernelSum' /\ UserSum'
  BY <1>1, <1>3, ChildSums
<1> QED BY <1>2, <1>3, <1>4, <1>5, <1>6 DEF ProcessInv

-----------------------------------------------------------------------------
(* The steps of Main                                                       *)
LEMMA ExecuteCopyKeeps ==
  ASSUME ProcessConstants, ProcessInv, ExecuteCopy
  PROVE  ProcessInv'
<1> USE DEF pcbVars, dirVars, On
<1>1. /\ Types /\ (\A u \in Task : Own(u)) /\ ActiveDir /\ InTurn /\ KernelSum /\ UserSum
      /\ Main \notin Task
  BY DEF ProcessInv, ProcessConstants, ProcessMain
<1>2. /\ running = Main /\ ppc[Main] = "execute" /\ ppc'[Main] \in {"create", "wait"}
      /\ \A u \in Task : ppc'[u] = ppc[u]
      /\ ppc' \in [PThread -> MainPlace \cup TaskPlace]
  BY <1>1 DEF ExecuteCopy, Types, PThread, MainPlace
<1>3. \/ ppc'[Main] = "create" /\ kfree > 0 /\ kfree' = kfree - 1
      \/ ppc'[Main] = "wait" /\ kfree' = kfree
  BY <1>1 DEF ExecuteCopy, Types, PThread
<1>4. /\ UNCHANGED <<running, cr3, hasPcb, pcbs, pcbDir, dirs, upages, tables, ufree, task, failed>>
      /\ temporary' = 0
  BY DEF ExecuteCopy
<1>5. Types'
  BY <1>1, <1>2, <1>3, <1>4 DEF Types, MainPlace
<1>6. \A u \in Task : Own(u)'
  BY <1>1, <1>2, <1>4 DEF Own
<1>7. ActiveDir'
  BY <1>1, <1>2, <1>4 DEF ActiveDir
<1>8. InTurn'
  <2>1. ppc[task] = "none" /\ ppc'[task] = "none"
    BY <1>1, <1>2 DEF InTurn, Types
  <2> QED BY <1>1, <1>2, <1>4, <2>1 DEF InTurn, Ended
<1>9. KernelSum'
  <2>1. Alive' = Alive /\ Starting' = Starting
    BY <1>2 DEF Alive, Starting
  <2>2. Cardinality(Starting) \in Nat
    BY ThreadPages
  <2>3. Names' = Names + (IF ppc'[Main] = "create" THEN 1 ELSE 0)
    BY <1>2, <2>1, <2>2 DEF Names
  <2>4. kfree' + Names' = kfree + Names
    BY <1>1, <1>3, <2>3, Counts
  <2>5. /\ Names \in Nat /\ Names' \in Nat /\ kfree \in Nat /\ kfree' \in Nat
        /\ Cardinality(Alive) \in Nat /\ Cardinality(Held(dirs, 0, tables)) \in Nat
        /\ Cardinality(Held(dirs', 0, tables')) = Cardinality(Held(dirs, 0, tables))
        /\ Cardinality(Alive)' = Cardinality(Alive)
    BY <1>1, <1>4, <1>5, <2>1, <2>2, <2>3, Counts DEF Types
  <2> QED BY <1>1, <2>4, <2>5 DEF KernelSum
<1>10. UserSum'
  BY <1>1, <1>4 DEF UserSum, Held
<1> QED BY <1>5, <1>6, <1>7, <1>8, <1>9, <1>10 DEF ProcessInv

LEMMA ExecuteCreateKeeps ==
  ASSUME ProcessConstants, ProcessInv, ExecuteCreate
  PROVE  ProcessInv'
<1> USE DEF pcbVars, dirVars
<1>1. /\ Types /\ (\A u \in Task : Own(u)) /\ ActiveDir /\ InTurn /\ KernelSum /\ UserSum
      /\ Main \notin Task /\ task \in Task
  BY DEF ProcessInv, ProcessConstants, ProcessMain, Types
<1>2. /\ running = Main /\ ppc[Main] = "create" /\ ppc'[Main] = "wait"
      /\ ppc[task] = "none" /\ temporary = 0
      /\ \A u \in Task : u # task => ppc'[u] = ppc[u]
      /\ ppc' \in [PThread -> MainPlace \cup TaskPlace]
  BY <1>1 DEF ExecuteCreate, Types, PThread, MainPlace, TaskPlace, StartPlace, InTurn
<1>3. \/ ppc'[task] = "pcb" /\ kfree > 0 /\ kfree' = kfree - 1
      \/ ppc'[task] = "none" /\ kfree' = kfree + 1
  BY <1>1, <1>2 DEF ExecuteCreate, Types, PThread
<1>4. UNCHANGED <<running, cr3, hasPcb, pcbs, pcbDir, dirs, upages, tables, ufree, temporary, task,
                  failed>>
  BY DEF ExecuteCreate
<1>5. Types'
  BY <1>1, <1>2, <1>3, <1>4 DEF Types, MainPlace, TaskPlace, StartPlace
<1>6. \A u \in Task : Own(u)'
  <2>1. ASSUME NEW u \in Task, u # task PROVE Own(u)'
    BY <1>1, <1>2, <1>4, <2>1 DEF Own
  <2>2. Own(task)'
    BY <1>1, <1>2, <1>3, <1>4 DEF Own, WithPcb, Loaded, Ended
  <2> QED BY <1>4, <2>1, <2>2
<1>7. ActiveDir'
  BY <1>1, <1>2, <1>4 DEF ActiveDir
<1>8. InTurn'
  BY <1>1, <1>2, <1>3, <1>4, TasksAreNumbers DEF InTurn, Ended
<1>9. KernelSum'
  <2>1. /\ IsFiniteSet(Alive) /\ IsFiniteSet(Starting)
        /\ Cardinality(Alive) \in Nat /\ Cardinality(Starting) \in Nat
    BY ThreadPages
  <2>2. /\ kfree \in Nat /\ Cardinality(Held(dirs, 0, tables)) \in Nat
        /\ Cardinality(Held(dirs', 0, tables')) = Cardinality(Held(dirs, 0, tables))
    BY <1>1, <1>4, Counts
  <2>3. Names = Cardinality(Starting) + 1 /\ Names' = Cardinality(Starting)'
    <3>1. Cardinality(Starting)' \in Nat
      BY <1>5, ThreadPages, FS_Subset, FS_CardinalityType, TasksAreNumbers DEF Starting
    <3> QED BY <1>2, <3>1 DEF Names
  <2>4. CASE ppc'[task] = "none" /\ kfree' = kfree + 1
    <3>1. Alive' = Alive /\ Starting' = Starting
      BY <1>1, <1>2, <2>4 DEF Alive, Starting
    <3> QED BY <1>1, <2>1, <2>2, <2>3, <2>4, <3>1 DEF KernelSum
  <2>5. CASE ppc'[task] = "pcb" /\ kfree > 0 /\ kfree' = kfree - 1
    <3>1. /\ Alive' = Alive \cup {task} /\ task \notin Alive
          /\ Starting' = Starting \cup {task} /\ task \notin Starting
      BY <1>1, <1>2, <2>5 DEF Alive, Starting
    <3>2. /\ Cardinality(Alive)' = Cardinality(Alive) + 1
          /\ Cardinality(Starting)' = Cardinality(Starting) + 1
      BY <2>1, <3>1, FS_AddElement
    <3> QED BY <1>1, <2>1, <2>2, <2>3, <2>5, <3>2 DEF KernelSum
  <2> QED BY <1>3, <2>4, <2>5
<1>10. UserSum'
  BY <1>1, <1>4 DEF UserSum, Held
<1> QED BY <1>5, <1>6, <1>7, <1>8, <1>9, <1>10 DEF ProcessInv

LEMMA ProcessWaitKeeps ==
  ASSUME ProcessConstants, ProcessInv, ProcessWait
  PROVE  ProcessInv'
<1> USE DEF pcbVars, dirVars, pools, On
<1>1. /\ Types /\ (\A u \in Task : Own(u)) /\ ActiveDir /\ InTurn /\ KernelSum /\ UserSum
      /\ Main \notin Task /\ task \in Task /\ temporary \in 0..1
  BY DEF ProcessInv, ProcessConstants, ProcessMain, Types
<1>2. /\ running = Main /\ ppc[Main] = "wait"
      /\ \A u \in Task : ppc'[u] = ppc[u]
      /\ ppc' \in [PThread -> MainPlace \cup TaskPlace]
      /\ ppc'[Main] = IF task + 1 \in Task THEN "execute" ELSE "shutdown"
      /\ task' = IF task + 1 \in Task THEN task + 1 ELSE task
  BY <1>1 DEF ProcessWait, Types, PThread, MainPlace
<1>3. temporary = 1 /\ temporary' = 0
  BY <1>1 DEF ProcessWait
<1>4. UNCHANGED <<running, cr3, hasPcb, pcbs, pcbDir, dirs, upages, tables, kfree, ufree, failed>>
  BY DEF ProcessWait
<1>5. Types'
  BY <1>1, <1>2, <1>3, <1>4 DEF Types, MainPlace
<1>6. \A u \in Task : Own(u)'
  BY <1>1, <1>2, <1>4 DEF Own
<1>7. ActiveDir'
  BY <1>1, <1>2, <1>4 DEF ActiveDir
<1>8. InTurn'
  <2>1. ppc[task] \in Ended
    BY <1>1, <1>2, <1>3 DEF InTurn
  <2>2. Task \subseteq Nat
    BY TasksAreNumbers
  <2>3. CASE task + 1 \in Task
    BY <1>1, <1>2, <1>3, <2>1, <2>2, <2>3 DEF InTurn
  <2>4. CASE task + 1 \notin Task
    BY <1>1, <1>2, <1>3, <2>1, <2>2, <2>4 DEF InTurn
  <2> QED BY <2>3, <2>4
<1>9. KernelSum'
  <2>1. Alive' = Alive /\ Starting' = Starting
    BY <1>2 DEF Alive, Starting
  <2>2. Names' = Names
    BY <1>2, <2>1 DEF Names
  <2> QED BY <1>1, <1>4, <2>1, <2>2 DEF KernelSum
<1>10. UserSum'
  BY <1>1, <1>4 DEF UserSum, Held
<1> QED BY <1>5, <1>6, <1>7, <1>8, <1>9, <1>10 DEF ProcessInv

(* Another thread gets the CPU; the page of one that died is freed.        *)
LEMMA SwitchKeeps ==
  ASSUME ProcessConstants, ProcessInv, NEW t \in PThread, Switch(t)
  PROVE  ProcessInv'
<1> USE DEF pcbVars, dirVars
<1>1. /\ Types /\ (\A u \in Task : Own(u)) /\ ActiveDir /\ InTurn /\ KernelSum /\ UserSum
      /\ Main \notin Task
  BY DEF ProcessInv, ProcessConstants, ProcessMain
<1>2. /\ running' = t /\ t # running /\ cr3' = ProcessActivate(t)
      /\ UNCHANGED <<hasPcb, pcbs, pcbDir, dirs, upages, tables, ufree, temporary, task, failed>>
  BY DEF Switch
<1>3. \/ UNCHANGED <<ppc, kfree>>
      \/ /\ running \in Task /\ ppc[running] = "dying"
         /\ ppc' = [ppc EXCEPT ![running] = "dead"] /\ kfree' = kfree + 1
  BY <1>1 DEF Switch, Types, PThread, MainPlace
<1>4. /\ ppc' \in [PThread -> MainPlace \cup TaskPlace] /\ ppc'[Main] = ppc[Main]
      /\ \A u \in Task : ppc'[u] = ppc[u] \/ (ppc[u] = "dying" /\ ppc'[u] = "dead")
      /\ ppc'[t] = ppc[t]
  BY <1>1, <1>2, <1>3 DEF Types, PThread, TaskPlace, Ended
<1>5. Types'
  BY <1>1, <1>2, <1>3, <1>4 DEF Types, ProcessActivate, PThread, TaskPlace, Ended
<1>6. \A u \in Task : Own(u)'
  BY <1>1, <1>2, <1>4 DEF Own, WithPcb, Loaded, Ended
<1>7. ActiveDir'
  <2>1. cr3' # Main => t \in pcbDir /\ t \in Task /\ cr3' = t
    BY <1>1, <1>2 DEF ProcessActivate, Types, PThread
  <2> QED BY <1>1, <1>2, <1>4, <2>1 DEF ActiveDir, Own, Loaded
<1>8. InTurn'
  <2>1. \A u \in Task : /\ ppc'[u] = "none" <=> ppc[u] = "none"
                        /\ ppc'[u] \in Ended <=> ppc[u] \in Ended
    BY <1>4 DEF Ended
  <2> QED BY <1>1, <1>2, <1>4, <2>1 DEF InTurn, Types
<1>9. KernelSum'
  <2>1. CASE UNCHANGED <<ppc, kfree>>
    BY <1>1, <1>2, <2>1 DEF KernelSum, Names, Alive, Starting
  <2>2. CASE /\ running \in Task /\ ppc[running] = "dying"
             /\ ppc' = [ppc EXCEPT ![running] = "dead"] /\ kfree' = kfree + 1
    <3>1. One(ppc[running] \in StartPlace) = 0 /\ One("dead" \in StartPlace) = 0
          /\ One("dead" \notin {"none", "dead"}) = 0
      BY <2>2 DEF One, StartPlace
    <3>2. /\ Height(dirs', 0, tables', running) = Height(dirs, 0, tables, running)
          /\ Height(dirs, 0, tables, running) \in Int /\ kfree \in Nat
      BY <1>1, <1>2, <2>2 DEF Height, Types
    <3>3. kfree' = kfree + One(ppc[running] \in StartPlace) - One("dead" \in StartPlace)
                     + 1 - One("dead" \notin {"none", "dead"})
                     + Height(dirs, 0, tables, running) - Height(dirs', 0, tables', running)
      BY <2>2, <3>1, <3>2
    <3> QED BY <1>1, <1>2, <1>5, <2>2, <3>3, KernelSumKept
  <2> QED BY <1>3, <2>1, <2>2
<1>10. UserSum'
  BY <1>1, <1>2 DEF UserSum, Held
<1> QED BY <1>5, <1>6, <1>7, <1>8, <1>9, <1>10 DEF ProcessInv

-----------------------------------------------------------------------------
(* What the invariant promises.                                            *)
LEMMA ProcessPromises ==
  ASSUME ProcessConstants, ProcessInv
  PROVE  ProcTypeOK /\ AddressSpacesSafe /\ PagesAccounted
<1>1. /\ Types /\ (\A u \in Task : Own(u)) /\ ActiveDir /\ InTurn /\ KernelSum /\ UserSum
  BY DEF ProcessInv
<1>2. KernelPages \in Nat /\ UserPages \in Nat /\ Main \notin Task
  BY DEF ProcessConstants, ProcessPages, ProcessMain
<1>3. kfree \in 0..KernelPages /\ ufree \in 0..UserPages
  BY <1>1, <1>2, Counts DEF KernelSum, UserSum
<1>4. ProcTypeOK
  BY <1>1, <1>3 DEF Types, ProcTypeOK
<1>5. AddressSpacesSafe
  BY <1>1 DEF AddressSpacesSafe, Types, Own, ActiveDir, PThread
<1>6. \A t \in dirs : t \in failed \/ ppc[t] \notin {"none", "up", "exit", "dying", "dead"}
  BY <1>1 DEF Types, Own, Loaded
<1>7. \A t \in Task : (t < task \/ ppc[Main] = "shutdown") => t \notin pcbs /\ t \notin (dirs \ failed)
  <2> SUFFICES ASSUME NEW t \in Task, t < task \/ ppc[Main] = "shutdown"
               PROVE  t \notin pcbs /\ t \notin (dirs \ failed)
    OBVIOUS
  <2>1. ppc[t] \in Ended \cup {"none"}
    <3>1. Task \subseteq Nat /\ task \in Task
      BY <1>1, TasksAreNumbers DEF Types
    <3> QED BY <1>1, <3>1 DEF InTurn
  <2> QED BY <1>1, <2>1 DEF Own, Ended, WithPcb, Loaded
<1>8. PagesAccounted
  BY <1>1, <1>6, <1>7 DEF PagesAccounted, KernelSum, UserSum
<1> QED BY <1>4, <1>5, <1>8

-----------------------------------------------------------------------------
(* The invariant is inductive.                                             *)
THEOREM ProcessInductive ==
  ASSUME ProcessConstants
  PROVE  ProcSpec => []ProcessInv
<1>1. ProcInit => ProcessInv
  BY ProcessInit
<1>2. ProcessInv /\ [ProcNext]_procVars => ProcessInv'
  <2> SUFFICES ASSUME ProcessInv, [ProcNext]_procVars PROVE ProcessInv'
    OBVIOUS
  <2>1. CASE MainStep
    BY <2>1, ExecuteCopyKeeps, ExecuteCreateKeeps, ProcessWaitKeeps DEF MainStep
  <2>2. ASSUME NEW t \in Task, ChildStep(t) \/ Syscall(t, FALSE) PROVE ProcessInv'
    BY <2>2, ChildKeeps DEF ChildMove
  <2>3. ASSUME NEW t \in PThread, Switch(t) PROVE ProcessInv'
    BY <2>3, SwitchKeeps
  <2>4. CASE UNCHANGED procVars
    BY <2>4 DEF procVars, ProcessInv, Types, Own, ActiveDir, InTurn, KernelSum, UserSum, Names,
                Alive, Starting, Held
  <2> QED BY <2>1, <2>2, <2>3, <2>4 DEF ProcNext
<1> QED BY <1>1, <1>2, PTL DEF ProcSpec

(* Address spaces (process_exit(), start_process(), process_activate()):   *)
(* whenever the timer comes, no thread's pcb is freed memory, no PCB names *)
(* a directory that is freed, and the directory in CR3 is allocated.       *)
THEOREM AddressSpacesAreSafe ==
  ASSUME ProcessConstants
  PROVE  ProcSpec => []AddressSpacesSafe
<1>1. ProcessInv => AddressSpacesSafe
  BY ProcessPromises
<1> QED BY <1>1, ProcessInductive, PTL

(* Every page of both pools is free or held exactly once, so free pages    *)
(* never exceed a pool, and a process that process_wait() has waited for   *)
(* holds nothing but the directory that a failed load() leaks.             *)
THEOREM PagesAreAccounted ==
  ASSUME ProcessConstants
  PROVE  ProcSpec => [](ProcTypeOK /\ PagesAccounted)
<1>1. ProcessInv => ProcTypeOK /\ PagesAccounted
  BY ProcessPromises
<1> QED BY <1>1, ProcessInductive, PTL

(* Both, with the types: the property that the runs check.                 *)
THEOREM ProcessesAlwaysRight ==
  ASSUME ProcessConstants
  PROVE  ProcSpec => []ProcessesRight
<1>1. ProcessInv => ProcessesRight
  BY ProcessPromises DEF ProcessesRight
<1> QED BY <1>1, ProcessInductive, PTL

-----------------------------------------------------------------------------
(* Page directories and the TLB: pagedir_set_page(), pagedir_clear_page(),  *)
(* the bits, pagedir_activate(), and the CPU's own reads and writes.        *)
PdConstants ==
  /\ Pds # {} /\ PdEntries \in Nat /\ PtEntries \in Nat \ {0} /\ PageBytes \in Nat \ {0}
  /\ Frames \subseteq Nat

(* Page table entries, page tables, and the entry of a page.               *)
Entries == [p : BOOLEAN, w : BOOLEAN, a : BOOLEAN, d : BOOLEAN, frame : Nat]
PageTables == [0..(PtEntries - 1) -> Entries]
Table(pd, v) == pde[pd][v \div PtEntries]
Entry(pd, v) == Table(pd, v)[v % PtEntries]
Present(pd, v) == Table(pd, v) # NoTable /\ Entry(pd, v).p

PdTypes ==
  /\ pde \in [Pds -> [0..(PdEntries - 1) -> PageTables \cup {NoTable}]]
  /\ activePd \in Pds
  /\ mapping \in [Pds -> [VPages -> Frames \cup {-1}]]
  /\ used \in [Pds -> [VPages -> SUBSET {"read", "written"}]]
  /\ DOMAIN tlb \subseteq VPages /\ \A v \in DOMAIN tlb : tlb[v] \in Entries

(* A page is mapped exactly when its entry is present, and the entry has   *)
(* the frame and the bits of what the page was used for.                   *)
Mapped ==
  \A pd \in Pds, v \in VPages :
    /\ mapping[pd][v] # -1 <=> Present(pd, v)
    /\ Present(pd, v) =>
         /\ Entry(pd, v).frame = mapping[pd][v]
         /\ "written" \in used[pd][v] => Entry(pd, v).d
         /\ "read" \in used[pd][v] => Entry(pd, v).a

(* A cached entry is one of the active directory's, and not ahead of it:   *)
(* a write through a clean one sets the bit in memory, one through a dirty *)
(* one need not.                                                           *)
Cached ==
  \A v \in DOMAIN tlb :
    /\ Present(activePd, v) /\ Entry(activePd, v).a
    /\ tlb[v].d => Entry(activePd, v).d
    /\ tlb[v].frame = mapping[activePd][v]

PdInv == PdTypes /\ Mapped /\ Cached

-----------------------------------------------------------------------------
(* Division with a remainder.                                              *)
LEMMA DivMod ==
  ASSUME NEW x \in Nat, NEW b \in Nat \ {0}
  PROVE  /\ x \div b \in Nat /\ x % b \in 0..(b - 1) /\ x = (b * (x \div b)) + (x % b)
OBVIOUS

LEMMA DivOfMul ==
  ASSUME NEW x \in Nat, NEW b \in Nat \ {0}
  PROVE  /\ x * b \in Nat /\ (x * b) \div b = x /\ (x * b) % b = 0
OBVIOUS

LEMMA MulGrows ==
  ASSUME NEW q \in Nat, NEW n \in Nat, NEW b \in Nat, q >= n
  PROVE  b * q >= b * n /\ b * n = n * b
OBVIOUS

LEMMA DivBelow ==
  ASSUME NEW x \in Nat, NEW b \in Nat \ {0}, NEW n \in Nat, x < n * b
  PROVE  x \div b \in 0..(n - 1)
<1> DEFINE q == x \div b
           r == x % b
<1>1. q \in Nat /\ r \in 0..(b - 1) /\ x = (b * q) + r
  BY DivMod
<1> HIDE DEF q, r
<1>2. ASSUME q >= n PROVE FALSE
  BY <1>1, <1>2, MulGrows
<1>3. q \in 0..(n - 1)
  BY <1>1, <1>2
<1> QED BY <1>3 DEF q

(* The page number and the two indexes of an address (vaddr.h and pte.h).  *)
LEMMA PageNumbers ==
  ASSUME PdConstants
  PROVE  /\ VPages \subseteq Nat
         /\ \A v \in VPages : /\ v \div PtEntries \in 0..(PdEntries - 1)
                              /\ v % PtEntries \in 0..(PtEntries - 1)
                              /\ v * PageBytes \in Nat
                              /\ PgNo(v * PageBytes) = v
         /\ \A u, v \in VPages : u \div PtEntries = v \div PtEntries /\ u % PtEntries = v % PtEntries
                                   => u = v
<1>1. PdEntries * PtEntries \in Nat
  BY DEF PdConstants
<1>2. \A v \in VPages : v \in Nat /\ v < PdEntries * PtEntries
  BY <1>1 DEF VPages
<1>3. \A v \in VPages : v \div PtEntries \in 0..(PdEntries - 1)
  BY <1>2, DivBelow DEF PdConstants
<1>4. \A v \in VPages : /\ v % PtEntries \in 0..(PtEntries - 1)
                        /\ v = (PtEntries * (v \div PtEntries)) + (v % PtEntries)
  BY <1>2, DivMod DEF PdConstants
<1>5. \A v \in VPages : v * PageBytes \in Nat /\ PgNo(v * PageBytes) = v
  BY <1>2, DivOfMul DEF PdConstants, PgNo
<1> QED BY <1>2, <1>3, <1>4, <1>5

(* An address is one of its page.                                          *)
LEMMA PageOfAddress ==
  ASSUME PdConstants, NEW va \in VAddrs
  PROVE  PgNo(va) \in VPages
<1>1. PdEntries * PtEntries \in Nat
  BY DEF PdConstants
<1>2. va \in Nat /\ va < (PdEntries * PtEntries) * PageBytes
  <2>1. (PdEntries * PtEntries) * PageBytes \in Nat
    BY <1>1 DEF PdConstants
  <2> QED BY <2>1 DEF VAddrs
<1> QED BY <1>1, <1>2, DivBelow DEF PdConstants, PgNo, VPages

(* lookup_page() finds the entry of the page.                              *)
LEMMA LookupFinds ==
  ASSUME PdConstants, NEW pd, NEW va, PgNo(va) \in VPages
  PROVE  /\ Pte(pd, va) = Entry(pd, PgNo(va))
         /\ HasPte(pd, va) <=> Table(pd, PgNo(va)) # NoTable
BY DEF Pte, HasPte, Entry, Table, PdNo, PtNo

LEMMA TableOrNone == PdConstants => NoTable \notin PageTables
<1> SUFFICES ASSUME PdConstants, NoTable \in PageTables PROVE FALSE
  OBVIOUS
<1>1. DOMAIN NoTable = {} /\ 0 \in 0..(PtEntries - 1)
  BY DEF NoTable, PdConstants
<1> QED BY <1>1 DEF PageTables

(* What an assignment to the entry of one page leaves to the others,       *)
(* whether its table was there or is a new one.                            *)
LEMMA WriteEntry ==
  ASSUME PdConstants, PdTypes, NEW pd \in Pds, NEW v \in VPages, NEW e \in Entries,
         NEW t, t = IF Table(pd, v) = NoTable THEN EmptyPt ELSE Table(pd, v),
         pde' = [pde EXCEPT ![pd][v \div PtEntries] = [t EXCEPT ![v % PtEntries] = e]]
  PROVE  /\ pde' \in [Pds -> [0..(PdEntries - 1) -> PageTables \cup {NoTable}]]
         /\ Table(pd, v)' # NoTable /\ Entry(pd, v)' = e
         /\ \A q \in Pds, u \in VPages : q # pd \/ u # v =>
              /\ Present(q, u)' = Present(q, u)
              /\ Present(q, u) => Entry(q, u)' = Entry(q, u)
<1> DEFINE i == v \div PtEntries
           j == v % PtEntries
           n == [t EXCEPT ![j] = e]
<1>1. i \in 0..(PdEntries - 1) /\ j \in 0..(PtEntries - 1)
  BY PageNumbers
<1>2. pde[pd] \in [0..(PdEntries - 1) -> PageTables \cup {NoTable}]
  BY DEF PdTypes
<1>3. ZeroPte \in Entries /\ EmptyPt \in PageTables
  BY DEF ZeroPte, Entries, EmptyPt, PageTables
<1>4. t \in PageTables
  BY <1>1, <1>2, <1>3 DEF Table
<1>5. n \in PageTables /\ n # NoTable /\ n[j] = e /\ \A k \in 0..(PtEntries - 1) \ {j} : n[k] = t[k]
  BY <1>1, <1>4, TableOrNone DEF PageTables
<1>6. pde' = [pde EXCEPT ![pd] = [pde[pd] EXCEPT ![i] = n]]
  <2>1. pde' = [pde EXCEPT ![pd][i] = n]
    OBVIOUS
  <2> HIDE DEF n, i
  <2> QED BY <2>1 DEF PdTypes
<1> HIDE DEF n
<1>7. pde' \in [Pds -> [0..(PdEntries - 1) -> PageTables \cup {NoTable}]]
  BY <1>1, <1>2, <1>5, <1>6 DEF PdTypes
<1>8. /\ pde'[pd][i] = n
      /\ \A q \in Pds, k \in 0..(PdEntries - 1) : q # pd \/ k # i => pde'[q][k] = pde[q][k]
  <2>1. pd \in DOMAIN pde /\ DOMAIN pde = Pds
    BY DEF PdTypes
  <2>2. pde'[pd] = [pde[pd] EXCEPT ![i] = n] /\ \A q \in Pds \ {pd} : pde'[q] = pde[q]
    BY <1>6, <2>1, Zenon
  <2>3. pde'[pd][i] = n /\ \A k \in 0..(PdEntries - 1) \ {i} : pde'[pd][k] = pde[pd][k]
    <3> DEFINE f == pde[pd]
               g == pde'[pd]
    <3>1. f \in [0..(PdEntries - 1) -> PageTables \cup {NoTable}]
          /\ g = [f EXCEPT ![i] = n] /\ i \in 0..(PdEntries - 1)
      BY <1>1, <1>2, <2>2
    <3>2. g[i] = n /\ \A k \in 0..(PdEntries - 1) \ {i} : g[k] = f[k]
      <4> HIDE DEF f, g, i
      <4> QED BY <3>1
    <3> QED BY <3>2
  <2> QED BY <2>2, <2>3
<1>9. Table(pd, v)' # NoTable /\ Entry(pd, v)' = e
  BY <1>5, <1>8 DEF Table, Entry
<1>10. ASSUME NEW q \in Pds, NEW u \in VPages, q # pd \/ u # v
       PROVE  /\ Present(q, u)' = Present(q, u)
              /\ Present(q, u) => Entry(q, u)' = Entry(q, u)
  <2>1. u \div PtEntries \in 0..(PdEntries - 1) /\ u % PtEntries \in 0..(PtEntries - 1)
    BY PageNumbers
  <2>2. CASE q # pd \/ u \div PtEntries # i
    <3>1. Table(q, u)' = Table(q, u)
      BY <1>8, <2>1, <2>2 DEF Table
    <3> QED BY <3>1 DEF Present, Entry
  <2>3. CASE q = pd /\ u \div PtEntries = i
    <3>1. u % PtEntries # j
      BY <1>10, <2>3, PageNumbers
    <3>2. Table(q, u)' = n /\ n # NoTable /\ Entry(q, u)' = t[u % PtEntries]
      BY <1>5, <1>8, <2>1, <2>3, <3>1 DEF Table, Entry
    <3>3. CASE Table(q, u) # NoTable
      <4>1. t = Table(q, u)
        BY <2>3, <3>3 DEF Table
      <4> QED BY <3>2, <3>3, <4>1 DEF Present, Entry
    <3>4. CASE Table(q, u) = NoTable
      <4>1. t = EmptyPt
        BY <2>3, <3>4 DEF Table
      <4>2. Entry(q, u)' = ZeroPte
        BY <3>2, <4>1, <2>1 DEF EmptyPt
      <4>3. ~ZeroPte.p
        BY DEF ZeroPte
      <4> QED BY <3>4, <4>2, <4>3 DEF Present
    <3> QED BY <3>3, <3>4
  <2> QED BY <2>2, <2>3
<1> QED BY <1>7, <1>9, <1>10

(* An assignment to one value of a table of tables.                        *)
LEMMA UpdateAt ==
  ASSUME NEW D, NEW R, NEW S, NEW f \in [D -> [R -> S]], NEW x \in D, NEW y \in R, NEW z \in S,
         NEW g, g = [f EXCEPT ![x][y] = z]
  PROVE  /\ g \in [D -> [R -> S]] /\ g[x][y] = z
         /\ \A a \in D, b \in R : a # x \/ b # y => g[a][b] = f[a][b]
<1>1. f[x] \in [R -> S] /\ g = [f EXCEPT ![x] = [f[x] EXCEPT ![y] = z]]
  OBVIOUS
<1> DEFINE h == [f[x] EXCEPT ![y] = z]
<1>2. h \in [R -> S] /\ h[y] = z /\ \A b \in R : b # y => h[b] = f[x][b]
  BY <1>1
<1> HIDE DEF h
<1>3. g = [f EXCEPT ![x] = h]
  BY <1>1 DEF h
<1>4. g \in [D -> [R -> S]] /\ g[x] = h /\ \A a \in D : a # x => g[a] = f[a]
  BY <1>2, <1>3
<1> QED BY <1>2, <1>4

(* What is known of page V of PD afterwards: the entry E, that the kernel  *)
(* has mapped it to M and that it was used for U; the others are as before.*)
Assigned(pd, v, e, m, u) ==
  /\ pde' \in [Pds -> [0..(PdEntries - 1) -> PageTables \cup {NoTable}]]
  /\ Table(pd, v)' # NoTable /\ Entry(pd, v)' = e
  /\ \A q \in Pds, w \in VPages : q # pd \/ w # v =>
       /\ Present(q, w)' = Present(q, w)
       /\ Present(q, w) => Entry(q, w)' = Entry(q, w)
  /\ mapping' = [mapping EXCEPT ![pd][v] = m] /\ used' = [used EXCEPT ![pd][v] = u]

LEMMA AssignedKeeps ==
  ASSUME PdConstants, PdInv, NEW pd \in Pds, NEW v \in VPages, NEW e \in Entries,
         NEW m \in Frames \cup {-1}, NEW u \in SUBSET {"read", "written"},
         Assigned(pd, v, e, m, u), activePd' \in Pds,
         DOMAIN tlb' \subseteq VPages, \A x \in DOMAIN tlb' : tlb'[x] \in Entries,
         m # -1 <=> e.p,
         e.p => e.frame = m /\ ("written" \in u => e.d) /\ ("read" \in u => e.a)
  PROVE  PdTypes' /\ Mapped' /\ mapping'[pd][v] = m
         /\ \A q \in Pds, w \in VPages : q # pd \/ w # v => mapping'[q][w] = mapping[q][w]
<1>1. /\ mapping' \in [Pds -> [VPages -> Frames \cup {-1}]] /\ mapping'[pd][v] = m
      /\ \A q \in Pds, w \in VPages : q # pd \/ w # v => mapping'[q][w] = mapping[q][w]
  BY UpdateAt DEF Assigned, PdInv, PdTypes
<1>2. /\ used' \in [Pds -> [VPages -> SUBSET {"read", "written"}]] /\ used'[pd][v] = u
      /\ \A q \in Pds, w \in VPages : q # pd \/ w # v => used'[q][w] = used[q][w]
  BY UpdateAt DEF Assigned, PdInv, PdTypes
<1>3. PdTypes'
  BY <1>1, <1>2 DEF PdTypes, Assigned
<1>4. ASSUME NEW q \in Pds, NEW w \in VPages
      PROVE  /\ mapping'[q][w] # -1 <=> Present(q, w)'
             /\ Present(q, w)' =>
                  /\ Entry(q, w)'.frame = mapping'[q][w]
                  /\ "written" \in used'[q][w] => Entry(q, w)'.d
                  /\ "read" \in used'[q][w] => Entry(q, w)'.a
  <2>1. CASE q = pd /\ w = v
    <3>1. Present(pd, v)' = e.p /\ Entry(pd, v)' = e
      BY DEF Assigned, Present, Entries
    <3> QED BY <2>1, <3>1, <1>1, <1>2
  <2>2. CASE q # pd \/ w # v
    <3>1. /\ Present(q, w)' = Present(q, w)
          /\ Present(q, w) => Entry(q, w)' = Entry(q, w)
      BY <2>2 DEF Assigned
    <3>2. mapping'[q][w] = mapping[q][w] /\ used'[q][w] = used[q][w]
      BY <1>1, <1>2, <2>2
    <3>3. /\ mapping[q][w] # -1 <=> Present(q, w)
          /\ Present(q, w) =>
               /\ Entry(q, w).frame = mapping[q][w]
               /\ "written" \in used[q][w] => Entry(q, w).d
               /\ "read" \in used[q][w] => Entry(q, w).a
      BY DEF PdInv, Mapped
    <3> QED BY <3>1, <3>2, <3>3
  <2> QED BY <2>1, <2>2
<1>5. Mapped'
  BY <1>4 DEF Mapped
<1> QED BY <1>1, <1>3, <1>5

(* An assignment through WithPte() to an entry that has a table.           *)
LEMMA WithPteAssigns ==
  ASSUME PdConstants, PdInv, NEW pd \in Pds, NEW v \in VPages, NEW e \in Entries,
         HasPte(pd, v * PageBytes), pde' = WithPte(pd, v * PageBytes, e)
  PROVE  /\ pde' \in [Pds -> [0..(PdEntries - 1) -> PageTables \cup {NoTable}]]
         /\ Table(pd, v)' # NoTable /\ Entry(pd, v)' = e
         /\ \A q \in Pds, u \in VPages : q # pd \/ u # v =>
              /\ Present(q, u)' = Present(q, u)
              /\ Present(q, u) => Entry(q, u)' = Entry(q, u)
<1>1. PgNo(v * PageBytes) = v /\ PdNo(v * PageBytes) = v \div PtEntries
      /\ PtNo(v * PageBytes) = v % PtEntries
  BY PageNumbers DEF PdNo, PtNo
<1>2. Table(pd, v) # NoTable
  BY <1>1, LookupFinds
<1>3. v \div PtEntries \in 0..(PdEntries - 1)
  BY PageNumbers
<1>4. pde' = [pde EXCEPT ![pd][v \div PtEntries] = [Table(pd, v) EXCEPT ![v % PtEntries] = e]]
  <2>1. pde' = [pde EXCEPT ![pd][v \div PtEntries][v % PtEntries] = e]
    BY <1>1 DEF WithPte
  <2> QED BY <2>1 DEF Table
<1> QED BY <1>2, <1>4, WriteEntry DEF PdInv

LEMMA EntryTyped ==
  ASSUME PdConstants, PdInv, NEW pd \in Pds, NEW v \in VPages, Table(pd, v) # NoTable
  PROVE  Entry(pd, v) \in Entries
<1>1. v \div PtEntries \in 0..(PdEntries - 1) /\ v % PtEntries \in 0..(PtEntries - 1)
  BY PageNumbers
<1>2. Table(pd, v) \in PageTables
  BY <1>1 DEF Table, PdInv, PdTypes
<1> QED BY <1>1, <1>2 DEF Entry, PageTables

-----------------------------------------------------------------------------
(* pagedir_set_page(): a new entry has no bit set, and none was cached.    *)
LEMMA SetPageKeeps ==
  ASSUME PdConstants, PdInv, NEW pd \in Pds, NEW v \in VPages, NEW f \in Frames,
         NEW w \in BOOLEAN, PagedirSetPage(pd, v, f, w)
  PROVE  PdInv'
<1> DEFINE va == v * PageBytes
           e == PteCreateUser(f, w)
           t == IF Table(pd, v) = NoTable THEN EmptyPt ELSE Table(pd, v)
<1>1. /\ PgNo(va) = v /\ PdNo(va) = v \div PtEntries /\ PtNo(va) = v % PtEntries
      /\ HasPte(pd, va) <=> Table(pd, v) # NoTable
  BY PageNumbers, LookupFinds DEF PdNo, PtNo
<1>2. /\ mapping[pd][v] = -1 /\ UNCHANGED <<tlb, activePd>>
  BY DEF PagedirSetPage
<1>3. CASE ~HasPte(pd, va) /\ ptPages = 0
  <2>1. UNCHANGED <<pde, mapping, used>>
    BY <1>3 DEF PagedirSetPage
  <2> QED BY <1>2, <2>1 DEF PdInv, PdTypes, Mapped, Cached, Present, Entry, Table
<1>4. CASE ~(~HasPte(pd, va) /\ ptPages = 0)
  <2>1. /\ pde' = [pde EXCEPT ![pd][PdNo(va)] =
                     [(IF ~HasPte(pd, va) THEN EmptyPt ELSE pde[pd][PdNo(va)])
                        EXCEPT ![PtNo(va)] = e]]
        /\ mapping' = [mapping EXCEPT ![pd][v] = f]
        /\ used' = [used EXCEPT ![pd][v] = {}]
    BY <1>4 DEF PagedirSetPage
  <2>2. t = IF ~HasPte(pd, va) THEN EmptyPt ELSE pde[pd][PdNo(va)]
    BY <1>1 DEF Table
  <2>3. e \in Entries /\ e.p /\ e.frame = f
    BY DEF PteCreateUser, Entries, PdConstants
  <2> HIDE DEF e, t
  <2>4. pde' = [pde EXCEPT ![pd][v \div PtEntries] = [t EXCEPT ![v % PtEntries] = e]]
    BY <1>1, <2>1, <2>2
  <2>5. Assigned(pd, v, e, f, {})
    <3>1. t = IF Table(pd, v) = NoTable THEN EmptyPt ELSE Table(pd, v)
      BY DEF t
    <3>2. PdTypes
      BY DEF PdInv
    <3>3. /\ pde' \in [Pds -> [0..(PdEntries - 1) -> PageTables \cup {NoTable}]]
          /\ Table(pd, v)' # NoTable /\ Entry(pd, v)' = e
          /\ \A q \in Pds, x \in VPages : q # pd \/ x # v =>
               /\ Present(q, x)' = Present(q, x)
               /\ Present(q, x) => Entry(q, x)' = Entry(q, x)
      BY <2>3, <2>4, <3>1, <3>2, WriteEntry
    <3> QED BY <2>1, <3>3 DEF Assigned
  <2>6. f # -1 /\ f \in Frames \cup {-1} /\ {} \in SUBSET {"read", "written"}
    BY DEF PdConstants
  <2>7. PdTypes' /\ Mapped'
        /\ \A q \in Pds, x \in VPages : q # pd \/ x # v => mapping'[q][x] = mapping[q][x]
    <3>1. /\ activePd' \in Pds /\ DOMAIN tlb' \subseteq VPages
          /\ \A x \in DOMAIN tlb' : tlb'[x] \in Entries
      BY <1>2 DEF PdInv, PdTypes
    <3> QED BY <2>3, <2>5, <2>6, <3>1, AssignedKeeps
  <2>8. ~Present(pd, v)
    BY <1>2 DEF PdInv, Mapped
  <2>9. Cached'
    <3> SUFFICES ASSUME NEW x \in DOMAIN tlb
                 PROVE  /\ Present(activePd, x)' /\ Entry(activePd, x)'.a
                        /\ tlb[x].d => Entry(activePd, x)'.d
                        /\ tlb[x].frame = mapping'[activePd][x]
      BY <1>2 DEF Cached
    <3>1. x \in VPages /\ activePd \in Pds /\ activePd' = activePd
      BY <1>2 DEF PdInv, PdTypes
    <3>2. /\ Present(activePd, x) /\ Entry(activePd, x).a
          /\ tlb[x].d => Entry(activePd, x).d
          /\ tlb[x].frame = mapping[activePd][x]
      BY DEF PdInv, Cached
    <3>3. activePd # pd \/ x # v
      BY <2>8, <3>2
    <3>4. /\ Present(activePd, x)' = Present(activePd, x)
          /\ Present(activePd, x) => Entry(activePd, x)' = Entry(activePd, x)
      BY <3>1, <3>3, <2>5 DEF Assigned, Present, Entry, Table
    <3> QED BY <2>7, <3>1, <3>2, <3>3, <3>4
  <2> QED BY <2>7, <2>9 DEF PdInv
<1> QED BY <1>3, <1>4

(* pagedir_clear_page(), pagedir_set_dirty() and pagedir_set_accessed()    *)
(* assign an entry and empty the TLB when it may hold the page's, unless   *)
(* they only set a bit.                                                    *)
LEMMA EntryStepKeeps ==
  ASSUME PdConstants, PdInv, NEW pd \in Pds, NEW v \in VPages, NEW e \in Entries,
         NEW m \in Frames \cup {-1}, NEW u \in SUBSET {"read", "written"},
         Assigned(pd, v, e, m, u), activePd' = activePd,
         m # -1 <=> e.p,
         e.p => e.frame = m /\ ("written" \in u => e.d) /\ ("read" \in u => e.a),
         \/ tlb' = Invalidated(pd)
         \/ /\ tlb' = tlb /\ m = mapping[pd][v]
            /\ Present(pd, v) => (Entry(pd, v).a => e.a) /\ (Entry(pd, v).d => e.d)
  PROVE  PdInv'
<1>1. activePd \in Pds /\ DOMAIN tlb \subseteq VPages /\ \A x \in DOMAIN tlb : tlb[x] \in Entries
  BY DEF PdInv, PdTypes
<1>2. DOMAIN [x \in {} |-> ZeroPte] = {}
  OBVIOUS
<1>3. tlb' = tlb \/ (activePd = pd /\ DOMAIN tlb' = {})
  BY <1>2 DEF Invalidated
<1>4. DOMAIN tlb' \subseteq VPages /\ \A x \in DOMAIN tlb' : tlb'[x] \in Entries
  BY <1>1, <1>3
<1>5. PdTypes' /\ Mapped' /\ mapping'[pd][v] = m
      /\ \A q \in Pds, x \in VPages : q # pd \/ x # v => mapping'[q][x] = mapping[q][x]
  BY <1>1, <1>4, AssignedKeeps
<1>6. ASSUME NEW x \in DOMAIN tlb'
      PROVE  /\ Present(activePd, x)' /\ Entry(activePd, x)'.a
             /\ tlb'[x].d => Entry(activePd, x)'.d
             /\ tlb'[x].frame = mapping'[activePd][x]
  <2>1. tlb' = tlb /\ x \in VPages
    BY <1>1, <1>3, <1>6
  <2>2. /\ Present(activePd, x) /\ Entry(activePd, x).a
        /\ tlb[x].d => Entry(activePd, x).d
        /\ tlb[x].frame = mapping[activePd][x]
    BY <1>6, <2>1 DEF PdInv, Cached
  <2>3. CASE activePd # pd \/ x # v
    <3>1. /\ Present(activePd, x)' = Present(activePd, x)
          /\ Present(activePd, x) => Entry(activePd, x)' = Entry(activePd, x)
      BY <1>1, <2>1, <2>3 DEF Assigned, Present, Entry, Table
    <3>2. mapping'[activePd][x] = mapping[activePd][x]
      BY <1>1, <1>5, <2>1, <2>3
    <3> QED BY <2>1, <2>2, <3>1, <3>2
  <2>4. CASE activePd = pd /\ x = v
    <3>1. m = mapping[pd][v] /\ (Entry(pd, v).a => e.a) /\ (Entry(pd, v).d => e.d)
      <4>1. ~(activePd = pd /\ DOMAIN tlb' = {})
        BY <1>6
      <4>2. tlb' # Invalidated(pd)
        BY <1>2, <2>4, <4>1 DEF Invalidated
      <4> QED BY <2>2, <2>4, <4>2
    <3>2. Table(pd, v)' # NoTable /\ Entry(pd, v)' = e /\ e.p
      <4>1. m # -1
        BY <2>2, <2>4, <3>1 DEF PdInv, Mapped
      <4> QED BY <4>1 DEF Assigned
    <3>3. Present(activePd, x)' /\ Entry(activePd, x)' = e
      BY <2>4, <3>2 DEF Present, Entry, Table
    <3> QED BY <1>5, <2>1, <2>2, <2>4, <3>1, <3>3
  <2> QED BY <2>3, <2>4
<1>7. Cached'
  BY <1>6 DEF Cached
<1> QED BY <1>5, <1>7 DEF PdInv

LEMMA Unassigned ==
  ASSUME NEW D, NEW R, NEW S, NEW f \in [D -> [R -> S]], NEW x \in D, NEW y \in R
  PROVE  f = [f EXCEPT ![x][y] = f[x][y]]
OBVIOUS

(* pagedir_clear_page()                                                    *)
LEMMA ClearPageKeeps ==
  ASSUME PdConstants, PdInv, NEW pd \in Pds, NEW v \in VPages, PagedirClearPage(pd, v)
  PROVE  PdInv'
<1> DEFINE o == Entry(pd, v)
           e == [o EXCEPT !.p = FALSE]
<1>1. HasPte(pd, v * PageBytes) /\ Table(pd, v) # NoTable /\ Pte(pd, v * PageBytes) = o
  BY PageNumbers, LookupFinds DEF PagedirClearPage
<1>2. /\ pde' = WithPte(pd, v * PageBytes, e) /\ tlb' = Invalidated(pd)
      /\ mapping' = [mapping EXCEPT ![pd][v] = -1]
      /\ UNCHANGED <<activePd, used>>
  BY <1>1 DEF PagedirClearPage
<1>3. e \in Entries /\ ~e.p
  BY <1>1, EntryTyped DEF Entries
<1> HIDE DEF e
<1>4. used[pd][v] \in SUBSET {"read", "written"} /\ used' = [used EXCEPT ![pd][v] = used[pd][v]]
  BY <1>2, Unassigned DEF PdInv, PdTypes
<1>5. Assigned(pd, v, e, -1, used[pd][v])
  BY <1>1, <1>2, <1>3, <1>4, WithPteAssigns DEF Assigned
<1> QED BY <1>2, <1>3, <1>4, <1>5, EntryStepKeeps

(* pagedir_set_dirty()                                                     *)
LEMMA SetDirtyKeeps ==
  ASSUME PdConstants, PdInv, NEW pd \in Pds, NEW v \in VPages, NEW b \in BOOLEAN,
         PagedirSetDirty(pd, v, b)
  PROVE  PdInv'
<1> DEFINE o == Entry(pd, v)
           e == [o EXCEPT !.d = b]
           u == IF b THEN used[pd][v] ELSE used[pd][v] \ {"written"}
<1>1. HasPte(pd, v * PageBytes) /\ Table(pd, v) # NoTable /\ Pte(pd, v * PageBytes) = o
  BY PageNumbers, LookupFinds DEF PagedirSetDirty
<1>2. /\ pde' = WithPte(pd, v * PageBytes, e) /\ tlb' = IF b THEN tlb ELSE Invalidated(pd)
      /\ used' = [used EXCEPT ![pd][v] = u]
      /\ UNCHANGED <<activePd, mapping>>
  BY <1>1 DEF PagedirSetDirty
<1>3. o \in Entries /\ e \in Entries /\ e.d = b /\ e.a = o.a /\ e.p = o.p /\ e.frame = o.frame
  BY <1>1, EntryTyped DEF Entries
<1> HIDE DEF e
<1>4. /\ used[pd][v] \in SUBSET {"read", "written"} /\ u \in SUBSET {"read", "written"}
      /\ mapping[pd][v] \in Frames \cup {-1}
      /\ mapping' = [mapping EXCEPT ![pd][v] = mapping[pd][v]]
  BY <1>2, Unassigned DEF PdInv, PdTypes
<1>5. Assigned(pd, v, e, mapping[pd][v], u)
  BY <1>1, <1>2, <1>3, <1>4, WithPteAssigns DEF Assigned
<1>6. /\ mapping[pd][v] # -1 <=> e.p
      /\ e.p => /\ e.frame = mapping[pd][v]
                /\ "written" \in u => e.d
                /\ "read" \in u => e.a
  BY <1>1, <1>3 DEF PdInv, Mapped, Present
<1>7. \/ tlb' = Invalidated(pd)
      \/ tlb' = tlb /\ (o.a => e.a) /\ (o.d => e.d)
  BY <1>2, <1>3
<1> HIDE DEF u
<1> QED BY <1>2, <1>3, <1>4, <1>5, <1>6, <1>7, EntryStepKeeps

(* pagedir_set_accessed()                                                  *)
LEMMA SetAccessedKeeps ==
  ASSUME PdConstants, PdInv, NEW pd \in Pds, NEW v \in VPages, NEW b \in BOOLEAN,
         PagedirSetAccessed(pd, v, b)
  PROVE  PdInv'
<1> DEFINE o == Entry(pd, v)
           e == [o EXCEPT !.a = b]
           u == IF b THEN used[pd][v] ELSE used[pd][v] \ {"read"}
<1>1. HasPte(pd, v * PageBytes) /\ Table(pd, v) # NoTable /\ Pte(pd, v * PageBytes) = o
  BY PageNumbers, LookupFinds DEF PagedirSetAccessed
<1>2. /\ pde' = WithPte(pd, v * PageBytes, e) /\ tlb' = IF b THEN tlb ELSE Invalidated(pd)
      /\ used' = [used EXCEPT ![pd][v] = u]
      /\ UNCHANGED <<activePd, mapping>>
  BY <1>1 DEF PagedirSetAccessed
<1>3. o \in Entries /\ e \in Entries /\ e.a = b /\ e.d = o.d /\ e.p = o.p /\ e.frame = o.frame
  BY <1>1, EntryTyped DEF Entries
<1> HIDE DEF e
<1>4. /\ used[pd][v] \in SUBSET {"read", "written"} /\ u \in SUBSET {"read", "written"}
      /\ mapping[pd][v] \in Frames \cup {-1}
      /\ mapping' = [mapping EXCEPT ![pd][v] = mapping[pd][v]]
  BY <1>2, Unassigned DEF PdInv, PdTypes
<1>5. Assigned(pd, v, e, mapping[pd][v], u)
  BY <1>1, <1>2, <1>3, <1>4, WithPteAssigns DEF Assigned
<1>6. /\ mapping[pd][v] # -1 <=> e.p
      /\ e.p => /\ e.frame = mapping[pd][v]
                /\ "written" \in u => e.d
                /\ "read" \in u => e.a
  BY <1>1, <1>3 DEF PdInv, Mapped, Present
<1>7. \/ tlb' = Invalidated(pd)
      \/ tlb' = tlb /\ (o.a => e.a) /\ (o.d => e.d)
  BY <1>2, <1>3
<1> HIDE DEF u
<1> QED BY <1>2, <1>3, <1>4, <1>5, <1>6, <1>7, EntryStepKeeps

(* pagedir_activate() empties the TLB.                                     *)
LEMMA ActivateKeeps ==
  ASSUME PdInv, NEW pd \in Pds, PagedirActivate(pd)
  PROVE  PdInv'
<1>1. DOMAIN tlb' = {} /\ activePd' = pd /\ UNCHANGED <<pde, mapping, used>>
  BY DEF PagedirActivate
<1>2. PdTypes' /\ Mapped' /\ Cached'
  BY <1>1 DEF PdInv, PdTypes, Mapped, Cached, Present, Entry, Table
<1> QED BY <1>2 DEF PdInv

LEMMA EvictKeeps ==
  ASSUME PdInv, NEW v \in VPages, TlbEvict(v)
  PROVE  PdInv'
<1>1. /\ DOMAIN tlb' = DOMAIN tlb \ {v} /\ \A x \in DOMAIN tlb \ {v} : tlb'[x] = tlb[x]
      /\ UNCHANGED <<activePd, pde, mapping, used>>
  BY DEF TlbEvict
<1>2. PdTypes' /\ Mapped' /\ Cached'
  BY <1>1 DEF PdInv, PdTypes, Mapped, Cached, Present, Entry, Table
<1> QED BY <1>2 DEF PdInv

(* The processor uses a page: its entry in memory gets the accessed bit    *)
(* and, at the first write, the dirty bit.                                 *)
LEMMA AccessKeeps ==
  ASSUME PdConstants, PdInv, NEW v \in VPages, NEW b \in BOOLEAN, CpuAccess(v, b)
  PROVE  PdInv'
<1> DEFINE o == Entry(activePd, v)
           hit == v \in DOMAIN tlb
           entry == IF hit THEN tlb[v] ELSE [o EXCEPT !.a = TRUE]
           after == [entry EXCEPT !.d = @ \/ b]
           kept == hit /\ (~b \/ tlb[v].d)
           e == IF kept THEN o ELSE [o EXCEPT !.a = TRUE, !.d = @ \/ b]
           u == used[activePd][v] \cup (IF b THEN {"read", "written"} ELSE {"read"})
<1>1. /\ activePd \in Pds /\ DOMAIN tlb \subseteq VPages
      /\ \A x \in DOMAIN tlb : tlb[x] \in Entries
      /\ used[activePd][v] \in SUBSET {"read", "written"}
      /\ mapping[activePd][v] \in Frames \cup {-1}
  BY DEF PdInv, PdTypes
<1>2. Pte(activePd, v * PageBytes) = o
      /\ (HasPte(activePd, v * PageBytes) <=> Table(activePd, v) # NoTable)
  BY PageNumbers, LookupFinds
<1>3. Present(activePd, v) /\ HasPte(activePd, v * PageBytes) /\ (hit => o.a)
      /\ (hit => (tlb[v].d => o.d) /\ tlb[v].frame = mapping[activePd][v])
  BY <1>2 DEF CpuAccess, PdInv, Cached, Present
<1>4. o \in Entries
  BY <1>1, <1>3, EntryTyped DEF Present
<1>5. /\ tlb' = [x \in DOMAIN tlb \cup {v} |-> IF x = v THEN after ELSE tlb[x]]
      /\ used' = [used EXCEPT ![activePd][v] = u]
      /\ UNCHANGED <<activePd, mapping>>
      /\ pde' = IF kept THEN pde
                ELSE WithPte(activePd, v * PageBytes, [o EXCEPT !.a = TRUE, !.d = @ \/ b])
  BY <1>2 DEF CpuAccess
<1>6. /\ e \in Entries /\ e.p = o.p /\ e.frame = o.frame /\ e.a
      /\ o.d => e.d
      /\ b => e.d
      /\ after \in Entries /\ after.frame = mapping[activePd][v] /\ (after.d => e.d)
  <2>1. o.p /\ o.frame = mapping[activePd][v]
    BY <1>1, <1>3 DEF PdInv, Mapped, Present
  <2>2. CASE hit /\ kept
    <3>1. tlb[v] \in Entries /\ e = o /\ after = [tlb[v] EXCEPT !.d = @ \/ b]
      BY <1>1, <2>2
    <3> QED BY <1>3, <1>4, <2>1, <2>2, <3>1 DEF Entries
  <2>3. CASE hit /\ ~kept
    <3>1. /\ tlb[v] \in Entries /\ e = [o EXCEPT !.a = TRUE, !.d = @ \/ b]
          /\ after = [tlb[v] EXCEPT !.d = @ \/ b]
      BY <1>1, <2>3
    <3> QED BY <1>3, <1>4, <2>1, <2>3, <3>1 DEF Entries
  <2>4. CASE ~hit
    <3>1. /\ e = [o EXCEPT !.a = TRUE, !.d = @ \/ b]
          /\ after = [[o EXCEPT !.a = TRUE] EXCEPT !.d = @ \/ b]
      BY <2>4
    <3> QED BY <1>3, <1>4, <2>1, <2>4, <3>1 DEF Entries
  <2> QED BY <2>2, <2>3, <2>4
<1> HIDE DEF after, e
<1>7. mapping' = [mapping EXCEPT ![activePd][v] = mapping[activePd][v]]
  BY <1>1, <1>5, Unassigned DEF PdInv, PdTypes
<1>8. Assigned(activePd, v, e, mapping[activePd][v], u)
  <2>1. CASE kept
    <3>1. pde' = pde /\ e = o
      BY <1>5, <2>1 DEF e
    <3> QED BY <1>3, <1>5, <1>7, <3>1
            DEF Assigned, PdInv, PdTypes, Present, Entry, Table
  <2>2. CASE ~kept
    <3>1. pde' = WithPte(activePd, v * PageBytes, e)
      BY <1>5, <2>2 DEF e
    <3> QED BY <1>1, <1>3, <1>5, <1>6, <1>7, <3>1, WithPteAssigns DEF Assigned
  <2> QED BY <2>1, <2>2
<1>9. u \in SUBSET {"read", "written"} /\ ("written" \in u => b \/ "written" \in used[activePd][v])
  BY <1>1
<1> HIDE DEF u
<1>10. /\ mapping[activePd][v] # -1 /\ e.p /\ e.frame = mapping[activePd][v]
       /\ "written" \in u => e.d
  BY <1>1, <1>3, <1>6, <1>9 DEF PdInv, Mapped, Present
<1>11. /\ DOMAIN tlb' = DOMAIN tlb \cup {v} /\ tlb'[v] = after
       /\ \A x \in DOMAIN tlb \ {v} : tlb'[x] = tlb[x]
  BY <1>5
<1>12. DOMAIN tlb' \subseteq VPages /\ \A x \in DOMAIN tlb' : tlb'[x] \in Entries
  BY <1>1, <1>6, <1>11
<1>13. PdTypes' /\ Mapped'
  BY <1>1, <1>5, <1>6, <1>8, <1>9, <1>10, <1>12, AssignedKeeps
<1>14. ASSUME NEW x \in DOMAIN tlb'
       PROVE  /\ Present(activePd, x)' /\ Entry(activePd, x)'.a
              /\ tlb'[x].d => Entry(activePd, x)'.d
              /\ tlb'[x].frame = mapping'[activePd][x]
  <2>1. CASE x = v
    <3>1. Present(activePd, v)' /\ Entry(activePd, v)' = e
      BY <1>5, <1>8, <1>10 DEF Assigned, Present, Entry, Table
    <3> QED BY <1>5, <1>6, <1>11, <2>1, <3>1
  <2>2. CASE x # v
    <3>1. x \in VPages /\ x \in DOMAIN tlb /\ tlb'[x] = tlb[x]
      BY <1>1, <1>11, <1>14, <2>2
    <3>2. /\ Present(activePd, x) /\ Entry(activePd, x).a
          /\ tlb[x].d => Entry(activePd, x).d
          /\ tlb[x].frame = mapping[activePd][x]
      BY <3>1 DEF PdInv, Cached
    <3>3. /\ Present(activePd, x)' = Present(activePd, x)
          /\ Present(activePd, x) => Entry(activePd, x)' = Entry(activePd, x)
      BY <1>1, <1>5, <1>8, <2>2, <3>1 DEF Assigned, Present, Entry, Table
    <3> QED BY <1>5, <3>1, <3>2, <3>3
  <2> QED BY <2>1, <2>2
<1>15. Cached'
  BY <1>5, <1>14 DEF Cached
<1> QED BY <1>13, <1>15 DEF PdInv

(* pagedir_create() of every process, and nothing cached.                  *)
LEMMA PdStart ==
  ASSUME PdConstants, PdInit
  PROVE  PdInv
<1>1. NoTable \in PageTables \cup {NoTable} /\ -1 \in Frames \cup {-1}
      /\ DOMAIN [x \in {} |-> ZeroPte] = {}
  OBVIOUS
<1>2. PdTypes
  BY <1>1, PageNumbers DEF PdInit, PdTypes, PdConstants
<1>3. \A pd \in Pds, v \in VPages : Table(pd, v) = NoTable /\ mapping[pd][v] = -1
  BY PageNumbers DEF PdInit, Table
<1>4. Mapped
  BY <1>3 DEF Mapped, Present
<1>5. Cached
  BY <1>1 DEF PdInit, Cached
<1> QED BY <1>2, <1>4, <1>5 DEF PdInv

LEMMA PdInvExact ==
  ASSUME PdConstants, PdInv
  PROVE  TranslationExact
<1>1. ASSUME NEW pd \in Pds, NEW va \in VAddrs
      PROVE  PagedirGetPage(pd, va) =
               IF mapping[pd][PgNo(va)] = -1 THEN -1
               ELSE mapping[pd][PgNo(va)] * PageBytes + PgOfs(va)
  <2>1. PgNo(va) \in VPages
    BY PageOfAddress
  <2>2. /\ Pte(pd, va) = Entry(pd, PgNo(va))
        /\ HasPte(pd, va) /\ Pte(pd, va).p <=> Present(pd, PgNo(va))
    BY <2>1, LookupFinds DEF Present
  <2>3. /\ mapping[pd][PgNo(va)] # -1 <=> Present(pd, PgNo(va))
        /\ Present(pd, PgNo(va)) => Entry(pd, PgNo(va)).frame = mapping[pd][PgNo(va)]
    BY <2>1 DEF PdInv, Mapped
  <2> QED BY <2>2, <2>3 DEF PagedirGetPage
<1>2. \A v \in DOMAIN tlb : tlb[v].frame = mapping[activePd][v]
  BY DEF PdInv, Cached
<1>3. ASSUME NEW pd \in Pds, NEW v \in VPages, mapping[pd][v] # -1
      PROVE  /\ "written" \in used[pd][v] => PagedirIsDirty(pd, v * PageBytes)
             /\ "read" \in used[pd][v] => PagedirIsAccessed(pd, v * PageBytes)
  <2>1. /\ Pte(pd, v * PageBytes) = Entry(pd, v)
        /\ HasPte(pd, v * PageBytes) <=> Table(pd, v) # NoTable
    BY PageNumbers, LookupFinds
  <2>2. /\ Present(pd, v)
        /\ "written" \in used[pd][v] => Entry(pd, v).d
        /\ "read" \in used[pd][v] => Entry(pd, v).a
    BY <1>3 DEF PdInv, Mapped
  <2> QED BY <2>1, <2>2 DEF PagedirIsDirty, PagedirIsAccessed, Present
<1> QED BY <1>1, <1>2, <1>3 DEF TranslationExact

(* pagedir.c: every address translates to the frame it was mapped to, by   *)
(* lookup and through the TLB, and a page used since its bits were cleared *)
(* has them set, for directories and pages of any number and size.         *)
THEOREM TranslationAlwaysExact ==
  ASSUME PdConstants
  PROVE  PdSpec => []TranslationExact
<1>1. PdInit => PdInv
  BY PdStart
<1>2. PdInv /\ [PdNext]_pdVars => PdInv'
  <2> SUFFICES ASSUME PdInv, [PdNext]_pdVars
               PROVE  PdInv'
    OBVIOUS
  <2>1. CASE PdNext
    BY <2>1, SetPageKeeps, ClearPageKeeps, SetDirtyKeeps, SetAccessedKeeps, ActivateKeeps,
       AccessKeeps, EvictKeeps DEF PdNext
  <2>2. CASE UNCHANGED pdVars
    BY <2>2 DEF pdVars, PdInv, PdTypes, Mapped, Cached, Present, Entry, Table
  <2> QED BY <2>1, <2>2
<1>3. PdInv => TranslationExact
  BY PdInvExact
<1> QED BY <1>1, <1>2, <1>3, PTL DEF PdSpec

-----------------------------------------------------------------------------
(* The heap of hw-memory's Pintos: Sbrk.                                   *)
HeapConstants == SbrkWord /\ SbrkAligned /\ SbrkSpace /\ SbrkArguments

Half == Word \div 2

(* The last page of a heap that ends at a break, and the last that any has.*)
Top(break) == PageOf(break - 1)
LowPage == PageOf(Half - 1)

InCall == {"allocate", "undo", "unallocate"}

HeapTypes ==
  /\ spc \in [SbrkProc -> {"load", "user", "dead"} \cup InCall]
  /\ heapStart \in [SbrkProc -> Nat] /\ heapBreak \in [SbrkProc -> Nat]
  /\ userLoaded \in [SbrkProc -> SUBSET Nat] /\ userMapped \in [SbrkProc -> SUBSET Nat]
  /\ sbrkCall \in [SbrkProc -> [at : Int, first : Nat, last : Int, new : Nat]]

(* The heap of a process lies in the lower half of the address space, and  *)
(* nothing that was loaded lies where it may grow.                         *)
HeapPlaced(p) ==
  spc[p] \in {"user"} \cup InCall =>
    /\ heapStart[p] \in 1..heapBreak[p] /\ heapBreak[p] < Half
    /\ heapStart[p] % PGSIZE = 0
    /\ userLoaded[p] \cap (PageOf(heapStart[p])..LowPage) = {}

(* The pages that a loop of sbrk() goes over.                              *)
CallRange(p) ==
  LET c == sbrkCall[p]
  IN  spc[p] \in InCall =>
        /\ c.new \in heapStart[p]..(Half - 1)
        /\ c.at \in c.first..(c.last + 1)
        /\ spc[p] \in {"allocate", "undo"} => c.first = Top(heapBreak[p]) + 1 /\ c.last = Top(c.new)
        /\ spc[p] = "unallocate" => c.first = Top(c.new) + 1 /\ c.last = Top(heapBreak[p])

(* The pages that are mapped before and after each turn of the loops.      *)
HeapMapped(p) ==
  LET c == sbrkCall[p]
      Heap(last) == userLoaded[p] \cup (PageOf(heapStart[p])..last)
  IN  /\ spc[p] = "user" => userMapped[p] = Heap(Top(heapBreak[p]))
      /\ spc[p] = "allocate" => userMapped[p] = Heap(c.at - 1)
      /\ spc[p] = "undo" => userMapped[p] \ (c.at..c.last) = Heap(Top(heapBreak[p]))
      /\ spc[p] = "unallocate" => userMapped[p] = Heap(Top(c.new)) \cup (c.at..c.last)

(* What holds of a program whose heap has room of its own.                 *)
HeapKept(p) == HeapApart(p) => HeapPlaced(p) /\ CallRange(p) /\ HeapMapped(p)

PanicsFor == sbrkPanic => \E p \in SbrkProc : spc[p] \in InCall /\ ~HeapApart(p)

HeapInv ==
  /\ HeapTypes /\ PanicsFor
  /\ \A p \in SbrkProc : HeapKept(p)

-----------------------------------------------------------------------------
LEMMA HeapNumbers ==
  ASSUME HeapConstants
  PROVE  /\ Word \in Nat /\ PGSIZE \in Nat \ {0} /\ PHYS_BASE \in Nat /\ PHYS_BASE <= Word
         /\ Half \in Nat \ {0} /\ Word = 2 * Half /\ Half + PGSIZE <= PHYS_BASE
BY DEF HeapConstants, SbrkWord, SbrkAligned, SbrkSpace, Half

(* A page is not past that of an address when it does not begin past it.   *)
LEMMA PageBegins ==
  ASSUME HeapConstants, NEW a \in Nat, NEW q \in Nat
  PROVE  /\ PageOf(a) \in Nat /\ PGSIZE * q \in Nat
         /\ q <= PageOf(a) <=> PGSIZE * q <= a
         /\ a % PGSIZE = 0 => a = PGSIZE * PageOf(a)
<1> DEFINE n == PageOf(a)
           r == a % PGSIZE
<1>1. PGSIZE \in Nat \ {0}
  BY HeapNumbers
<1>2. n \in Nat /\ r \in 0..(PGSIZE - 1) /\ a = (PGSIZE * n) + r
  BY <1>1, DivMod DEF PageOf
<1> HIDE DEF n, r
<1>3. PGSIZE * n \in Nat /\ PGSIZE * q \in Nat /\ PGSIZE * (n + 1) = (PGSIZE * n) + PGSIZE
  BY <1>1, <1>2
<1>4. ASSUME q <= n PROVE PGSIZE * q <= a
  <2>1. PGSIZE * n >= PGSIZE * q
    BY <1>1, <1>2, <1>4, MulGrows
  <2> QED BY <1>2, <1>3, <2>1
<1>5. ASSUME ~(q <= n) PROVE ~(PGSIZE * q <= a)
  <2>1. PGSIZE * q >= PGSIZE * (n + 1)
    BY <1>1, <1>2, <1>5, MulGrows
  <2> QED BY <1>1, <1>2, <1>3, <2>1
<1>6. r = 0 => a = PGSIZE * n
  BY <1>2, <1>3
<1> QED BY <1>2, <1>3, <1>4, <1>5, <1>6 DEF n, r

LEMMA PagesOrdered ==
  ASSUME HeapConstants, NEW a \in Nat, NEW b \in Nat, a <= b
  PROVE  PageOf(a) \in Nat /\ PageOf(b) \in Nat /\ PageOf(a) <= PageOf(b)
<1>1. PageOf(a) \in Nat /\ PageOf(b) \in Nat
  BY PageBegins
<1>2. PGSIZE * PageOf(a) <= a /\ PGSIZE * PageOf(a) \in Nat
  BY <1>1, PageBegins
<1>3. PGSIZE * PageOf(a) <= b
  BY <1>2
<1> QED BY <1>1, <1>3, PageBegins

(* The heap begins with a page of its own.                                 *)
LEMMA HeapBegins ==
  ASSUME HeapConstants, NEW s \in Nat \ {0}, s % PGSIZE = 0
  PROVE  /\ PageOf(s) \in Nat \ {0} /\ Top(s) = PageOf(s) - 1 /\ s = PGSIZE * PageOf(s)
<1> DEFINE k == PageOf(s)
<1>1. k \in Nat /\ s = PGSIZE * k /\ PGSIZE \in Nat \ {0}
  BY PageBegins, HeapNumbers
<1>2. k \in Nat \ {0}
  BY <1>1
<1>3. PGSIZE * (k - 1) = (PGSIZE * k) - PGSIZE
  BY <1>1, <1>2
<1>4. PageOf(s - 1) \in Nat /\ k - 1 <= PageOf(s - 1) /\ ~(k <= PageOf(s - 1))
  <2>1. s - 1 \in Nat /\ k - 1 \in Nat /\ PGSIZE * (k - 1) <= s - 1 /\ ~(PGSIZE * k <= s - 1)
    <3> HIDE DEF k
    <3>1. PGSIZE * k \in Nat
      BY <1>1
    <3> QED BY <1>1, <1>2, <1>3, <3>1
  <2> HIDE DEF k
  <2> QED BY <1>2, <2>1, PageBegins
<1>5. PageOf(s - 1) = k - 1
  <2> HIDE DEF k
  <2> QED BY <1>2, <1>4
<1> QED BY <1>1, <1>2, <1>5 DEF Top

(* The pages of the heap's addresses.                                      *)
LEMMA HeapPages ==
  ASSUME HeapConstants, NEW s \in Nat \ {0}, NEW b \in Nat, s <= b, s % PGSIZE = 0
  PROVE  {PageOf(a) : a \in s..(b - 1)} = PageOf(s)..Top(b)
<1>1. PageOf(s) \in Nat /\ Top(b) \in Nat /\ s = PGSIZE * PageOf(s) /\ PGSIZE \in Nat \ {0}
  <2>1. b - 1 \in Nat
    OBVIOUS
  <2> QED BY <2>1, PageBegins, HeapBegins, HeapNumbers DEF Top
<1>2. ASSUME NEW a \in s..(b - 1) PROVE PageOf(a) \in PageOf(s)..Top(b)
  <2>1. PageOf(s) <= PageOf(a) /\ PageOf(a) <= PageOf(b - 1) /\ PageOf(a) \in Nat
    BY <1>2, PagesOrdered
  <2> QED BY <1>1, <2>1 DEF Top
<1>3. ASSUME NEW q \in PageOf(s)..Top(b) PROVE \E a \in s..(b - 1) : PageOf(a) = q
  <2>1. q \in Nat /\ PageOf(s) <= q /\ q <= Top(b)
    BY <1>1, <1>3
  <2>2. PGSIZE * q \in Nat /\ PGSIZE * q <= b - 1
    BY <2>1, PageBegins DEF Top
  <2>3. s <= PGSIZE * q
    BY <1>1, <2>1, <2>2, MulGrows
  <2>4. PageOf(PGSIZE * q) = q
    <3>1. PageOf(PGSIZE * q) \in Nat /\ q <= PageOf(PGSIZE * q)
      BY <2>1, <2>2, PageBegins
    <3>2. PGSIZE * (q + 1) = (PGSIZE * q) + PGSIZE
      BY <1>1, <2>1
    <3>3. ~(q + 1 <= PageOf(PGSIZE * q))
      BY <1>1, <2>1, <2>2, <3>2, PageBegins
    <3> QED BY <2>1, <3>1, <3>3
  <2>5. PGSIZE * q \in s..(b - 1)
    BY <2>2, <2>3
  <2> QED BY <2>4, <2>5
<1> QED BY <1>2, <1>3

(* The stack is past every page that a heap can have.                      *)
LEMMA StackAbove ==
  ASSUME HeapConstants
  PROVE  LowPage \in Nat /\ StackPage \in Nat /\ LowPage < StackPage /\ StackPage < PageOf(PHYS_BASE)
<1>1. /\ PHYS_BASE \in Nat \ {0} /\ PHYS_BASE % PGSIZE = 0 /\ PGSIZE \in Nat \ {0}
      /\ Half \in Nat \ {0} /\ Half + PGSIZE <= PHYS_BASE
  BY HeapNumbers DEF HeapConstants, SbrkAligned
<1>2. PageOf(PHYS_BASE) \in Nat \ {0} /\ PHYS_BASE = PGSIZE * PageOf(PHYS_BASE)
  BY <1>1, HeapBegins
<1>3. StackPage \in Nat /\ PGSIZE * StackPage = PHYS_BASE - PGSIZE
  <2> DEFINE m == PageOf(PHYS_BASE)
  <2>1. m \in Nat \ {0} /\ PHYS_BASE = PGSIZE * m /\ StackPage = m - 1
    BY <1>2 DEF StackPage
  <2> HIDE DEF m
  <2>2. PGSIZE * (m - 1) = (PGSIZE * m) - PGSIZE
    BY <1>1, <2>1
  <2> QED BY <2>1, <2>2
<1>4. LowPage \in Nat /\ ~(StackPage <= LowPage)
  BY <1>1, <1>3, PageBegins DEF LowPage
<1> QED BY <1>2, <1>3, <1>4 DEF StackPage

(* The heap starts on a page's first byte, at or past the program's end.   *)
LEMMA RoundedUp ==
  ASSUME HeapConstants, NEW a \in Nat
  PROVE  /\ RoundUp(a) \in Nat /\ RoundUp(a) % PGSIZE = 0
         /\ a <= RoundUp(a) /\ RoundUp(a) <= (a + PGSIZE) - 1
         /\ PageOf(RoundUp(a)) \in Nat /\ PGSIZE * PageOf(RoundUp(a)) = RoundUp(a)
<1> DEFINE b == (a + PGSIZE) - 1
           k == b \div PGSIZE
           r == b % PGSIZE
<1>1. PGSIZE \in Nat \ {0} /\ b \in Nat /\ RoundUp(a) = k * PGSIZE
  BY HeapNumbers DEF RoundUp
<1>2. k \in Nat /\ r \in 0..(PGSIZE - 1) /\ b = (PGSIZE * k) + r
  BY <1>1, DivMod
<1>3. k * PGSIZE \in Nat /\ (k * PGSIZE) \div PGSIZE = k /\ (k * PGSIZE) % PGSIZE = 0
  BY <1>1, <1>2, DivOfMul
<1>4. PGSIZE * k = k * PGSIZE
  BY <1>1, <1>2, MulGrows
<1>5. a <= k * PGSIZE /\ k * PGSIZE <= (a + PGSIZE) - 1
  <2>1. b = (a + PGSIZE) - 1
    OBVIOUS
  <2> HIDE DEF b, k, r
  <2>2. b = (k * PGSIZE) + r
    BY <1>2, <1>4
  <2> QED BY <1>1, <1>2, <1>3, <2>1, <2>2
<1> HIDE DEF b, k, r
<1> QED BY <1>1, <1>2, <1>3, <1>4, <1>5 DEF PageOf

(* A loop over pages of the lower half counts them as they are.            *)
LEMMA LoopPages ==
  ASSUME HeapConstants
  PROVE  /\ \A n \in 0..(LowPage + 1) : Page(n) = n
         /\ \A before \in Nat, end \in Nat :
              before <= end /\ end <= LowPage => Gap(before + 1, end) = end - (before + 1)
<1>1. /\ LowPage \in Nat /\ StackPage \in Nat /\ LowPage < StackPage
      /\ PageOf(PHYS_BASE) \in Nat /\ StackPage < PageOf(PHYS_BASE)
  BY StackAbove, PageBegins, HeapNumbers
<1>2. Pages \in Nat /\ PageOf(PHYS_BASE) <= Pages
  BY HeapNumbers, PagesOrdered DEF Pages, PageOf
<1>3. LowPage + 2 <= Pages
  BY <1>1, <1>2
<1>4. 2 * LowPage <= Pages
  <2>1. /\ Half \in Nat \ {0} /\ Word = 2 * Half /\ PGSIZE \in Nat \ {0} /\ Word \in Nat
    BY HeapNumbers
  <2>2. PGSIZE * LowPage \in Nat /\ PGSIZE * LowPage <= Half - 1
    BY <1>1, <2>1, PageBegins DEF LowPage
  <2>3. PGSIZE * (2 * LowPage) = 2 * (PGSIZE * LowPage)
    BY <1>1, <2>1
  <2>4. PGSIZE * (2 * LowPage) <= Word /\ 2 * LowPage \in Nat
    BY <1>1, <2>1, <2>2, <2>3
  <2>5. 2 * LowPage <= PageOf(Word)
    BY <2>1, <2>4, PageBegins
  <2> QED BY <2>5 DEF Pages, PageOf
<1>5. \A x \in 0..(Pages - 1) : x % Pages = x
  BY <1>2
<1>6. (-1) % Pages = Pages - 1
  <2>1. Pages \in Nat \ {0}
    BY <1>1, <1>2, <1>3
  <2>2. \A x \in (-Pages)..(-1) : x % Pages = x + Pages
    BY <2>1
  <2> QED BY <2>1, <2>2
<1>7. ASSUME NEW n \in 0..(LowPage + 1) PROVE Page(n) = n
  BY <1>1, <1>2, <1>3, <1>5 DEF Page
<1>8. ASSUME NEW before \in Nat, NEW end \in Nat, before <= end, end <= LowPage
      PROVE  Gap(before + 1, end) = end - (before + 1)
  <2> DEFINE d == end - (before + 1)
  <2>1. d \in Int /\ (d = -1 \/ (d \in 0..(LowPage - 1)))
    BY <1>1, <1>8
  <2>2. Pages \div 2 \in Nat /\ LowPage <= Pages \div 2 /\ Pages \div 2 <= Pages - 1
    BY <1>1, <1>2, <1>3, <1>4
  <2> HIDE DEF d
  <2>3. CASE d = -1
    BY <1>2, <1>6, <2>2, <2>3 DEF Gap, d
  <2>4. CASE d \in 0..(LowPage - 1)
    <3>1. d % Pages = d /\ ~(d >= Pages \div 2)
      BY <1>1, <1>2, <1>3, <1>5, <2>2, <2>4
    <3> QED BY <3>1 DEF Gap, d
  <2> QED BY <2>1, <2>3, <2>4 DEF d
<1> QED BY <1>7, <1>8
-----------------------------------------------------------------------------
(* What is said of a process changes only with its own state.              *)
LEMMA OthersKeep ==
  ASSUME HeapInv, NEW p \in SbrkProc, HeapTypes', PanicsFor',
         \A q \in SbrkProc \ {p} :
           /\ spc'[q] = spc[q] /\ heapStart'[q] = heapStart[q] /\ heapBreak'[q] = heapBreak[q]
           /\ userLoaded'[q] = userLoaded[q] /\ userMapped'[q] = userMapped[q]
           /\ sbrkCall'[q] = sbrkCall[q],
         HeapKept(p)'
  PROVE  HeapInv'
<1>1. ASSUME NEW q \in SbrkProc \ {p} PROVE HeapKept(q)'
  BY DEF HeapInv, HeapKept, HeapApart, HeapPlaced, CallRange, HeapMapped
<1> QED BY <1>1 DEF HeapInv

(* The last pages of a heap that ends at b, and where it may grow.         *)
LEMMA HeapTops ==
  ASSUME HeapConstants, NEW s \in Nat \ {0}, NEW b \in s..(Half - 1), s % PGSIZE = 0
  PROVE  /\ PageOf(s) \in Nat \ {0} /\ Top(s) = PageOf(s) - 1
         /\ Top(b) \in Nat /\ Top(s) <= Top(b) /\ Top(b) <= LowPage /\ LowPage \in Nat
<1>1. Half \in Nat \ {0} /\ b \in Nat /\ s - 1 \in Nat /\ b - 1 \in Nat /\ Half - 1 \in Nat
  BY HeapNumbers
<1>2. PageOf(s) \in Nat \ {0} /\ Top(s) = PageOf(s) - 1
  BY HeapBegins
<1>3. PageOf(b - 1) \in Nat /\ PageOf(s - 1) <= PageOf(b - 1)
  BY <1>1, PagesOrdered
<1>4. PageOf(b - 1) <= PageOf(Half - 1) /\ PageOf(Half - 1) \in Nat
  BY <1>1, PagesOrdered
<1> QED BY <1>2, <1>3, <1>4 DEF Top, LowPage

(* What load() maps ends at the stack, and the heap starts past page 0.    *)
LEMMA SegmentPlaced ==
  ASSUME HeapConstants, NEW seg \in [vaddr : Nat, memsz : Nat], ValidateSegment(seg)
  PROVE  /\ SegmentPages(seg) \subseteq 0..PageOf(PHYS_BASE)
         /\ SegmentEnd(seg) \in Nat \ {0}
<1> DEFINE v == seg.vaddr
           m == seg.memsz
           n == PageOf(v)
           r == v % PGSIZE
           x == r + m
           z == PageOf(RoundUp(x))
<1>1. /\ v \in Nat /\ m \in Nat \ {0} /\ v + m < PHYS_BASE
      /\ PGSIZE \in Nat \ {0} /\ PHYS_BASE \in Nat
  BY HeapNumbers DEF ValidateSegment
<1>2. n \in Nat /\ r \in 0..(PGSIZE - 1) /\ v = (PGSIZE * n) + r
  BY <1>1, DivMod DEF PageOf
<1>3. x \in Nat
  BY <1>1, <1>2
<1>4. z \in Nat /\ PGSIZE * z <= (x + PGSIZE) - 1
  <2> HIDE DEF x, z
  <2>1. RoundUp(x) \in Nat /\ RoundUp(x) <= (x + PGSIZE) - 1 /\ PGSIZE * z = RoundUp(x) /\ z \in Nat
    BY <1>3, RoundedUp DEF z
  <2> QED BY <1>1, <1>3, <2>1
<1>5. SegmentPages(seg) = n..(n + (z - 1))
  BY DEF SegmentPages
<1>6. SegmentEnd(seg) = (n * PGSIZE) + m
  BY DEF SegmentEnd
<1>7. x = r + m
  OBVIOUS
<1> HIDE DEF v, m, n, r, x, z
<1>8. ASSUME NEW q \in n..(n + (z - 1)) PROVE q \in 0..PageOf(PHYS_BASE)
  <2>1. q \in Nat /\ q - n \in Nat /\ z >= (q - n) + 1
    BY <1>2, <1>4
  <2>2. PGSIZE * z >= PGSIZE * ((q - n) + 1)
    BY <1>1, <1>4, <2>1, MulGrows
  <2>3. PGSIZE * ((q - n) + 1) = (PGSIZE * q) - (PGSIZE * n) + PGSIZE
    BY <1>1, <1>2, <2>1
  <2>4. PGSIZE * q \in Nat /\ PGSIZE * n \in Nat /\ PGSIZE * z \in Nat
    BY <1>1, <1>2, <1>4, <2>1
  <2>5. PGSIZE * q <= PHYS_BASE
    BY <1>1, <1>2, <1>3, <1>4, <1>7, <2>2, <2>3, <2>4
  <2>6. q <= PageOf(PHYS_BASE) /\ PageOf(PHYS_BASE) \in Nat
    BY <1>1, <2>1, <2>5, PageBegins
  <2> QED BY <2>1, <2>6
<1>9. n * PGSIZE \in Nat
  BY <1>1, <1>2
<1> QED BY <1>1, <1>5, <1>6, <1>8, <1>9

LEMMA ProgramPlaced ==
  ASSUME HeapConstants, NEW prog \in Programs, Loadable(prog)
  PROVE  /\ ProgramPages(prog) \subseteq 0..PageOf(PHYS_BASE)
         /\ \A seg \in prog : LET s == RoundUp(SegmentEnd(seg))
                               IN  s \in Nat \ {0} /\ s % PGSIZE = 0
<1>1. ASSUME NEW seg \in prog
      PROVE  SegmentPages(seg) \subseteq 0..PageOf(PHYS_BASE) /\ SegmentEnd(seg) \in Nat \ {0}
  <2>1. seg \in [vaddr : Nat, memsz : Nat] /\ ValidateSegment(seg)
    BY DEF HeapConstants, SbrkArguments, Loadable
  <2> QED BY <2>1, SegmentPlaced
<1>2. StackPage \in 0..PageOf(PHYS_BASE)
  BY StackAbove, PageBegins, HeapNumbers
<1>3. ProgramPages(prog) \subseteq 0..PageOf(PHYS_BASE)
  BY <1>1, <1>2 DEF ProgramPages
<1>4. ASSUME NEW seg \in prog
      PROVE  RoundUp(SegmentEnd(seg)) \in Nat \ {0} /\ RoundUp(SegmentEnd(seg)) % PGSIZE = 0
  <2>1. SegmentEnd(seg) \in Nat \ {0}
    BY <1>1
  <2>2. /\ RoundUp(SegmentEnd(seg)) \in Nat /\ RoundUp(SegmentEnd(seg)) % PGSIZE = 0
        /\ SegmentEnd(seg) <= RoundUp(SegmentEnd(seg))
    BY <2>1, RoundedUp
  <2> QED BY <2>1, <2>2
<1> QED BY <1>3, <1>4

LEMMA LoadKeeps ==
  ASSUME HeapConstants, HeapInv, ~sbrkPanic, NEW p \in SbrkProc, NEW prog \in Programs,
         Load(p, prog)
  PROVE  HeapInv'
<1>1. PICK last \in prog : /\ heapStart' = [heapStart EXCEPT ![p] = RoundUp(SegmentEnd(last))]
                           /\ heapBreak' = [heapBreak EXCEPT ![p] = RoundUp(SegmentEnd(last))]
  BY DEF Load
<1> DEFINE s == RoundUp(SegmentEnd(last))
           L == ProgramPages(prog)
<1>2. s \in Nat \ {0} /\ s % PGSIZE = 0 /\ L \subseteq Nat
  <2>1. PageOf(PHYS_BASE) \in Nat
    BY HeapNumbers, PageBegins
  <2> QED BY <2>1, ProgramPlaced DEF Load
<1>3. /\ spc' = [spc EXCEPT ![p] = "user"] /\ sbrkCall' = sbrkCall /\ ~sbrkPanic'
      /\ userLoaded' = [userLoaded EXCEPT ![p] = L] /\ userMapped' = [userMapped EXCEPT ![p] = L]
      /\ heapStart' = [heapStart EXCEPT ![p] = s] /\ heapBreak' = [heapBreak EXCEPT ![p] = s]
  BY <1>1 DEF Load, Goes
<1>4. /\ StackPage \in Nat /\ LowPage \in Nat /\ LowPage < StackPage
      /\ PageOf(s) \in Nat \ {0} /\ Top(s) = PageOf(s) - 1 /\ Half \in Nat
  <2> HIDE DEF s
  <2> QED BY <1>2, StackAbove, HeapBegins, HeapNumbers
<1> HIDE DEF s, L
<1>5. HeapTypes'
  BY <1>2, <1>3 DEF HeapInv, HeapTypes
<1>6. /\ spc'[p] = "user" /\ heapStart'[p] = s /\ heapBreak'[p] = s
      /\ userLoaded'[p] = L /\ userMapped'[p] = L
  BY <1>3 DEF HeapInv, HeapTypes
<1>7. ASSUME HeapApart(p)' PROVE (HeapPlaced(p) /\ CallRange(p) /\ HeapMapped(p))'
  <2>1. s < Half /\ \A page \in L \ {StackPage} : page < PageOf(s)
    BY <1>6, <1>7 DEF HeapApart, Half
  <2>2. L \cap (PageOf(s)..LowPage) = {} /\ PageOf(s)..Top(s) = {} /\ s \in 1..s
    BY <1>2, <1>4, <2>1
  <2> QED BY <1>2, <1>6, <2>1, <2>2 DEF HeapPlaced, CallRange, HeapMapped, InCall
<1>8. \A q \in SbrkProc \ {p} :
        /\ spc'[q] = spc[q] /\ heapStart'[q] = heapStart[q] /\ heapBreak'[q] = heapBreak[q]
        /\ userLoaded'[q] = userLoaded[q] /\ userMapped'[q] = userMapped[q]
        /\ sbrkCall'[q] = sbrkCall[q]
  BY <1>3 DEF HeapInv, HeapTypes
<1>9. PanicsFor' /\ HeapKept(p)'
  BY <1>3, <1>7 DEF PanicsFor, HeapKept
<1> QED BY <1>5, <1>8, <1>9, OthersKeep

(* A break that is not refused is the sum of the old one and the increment:*)
(* a sum that wraps, or passes the middle, is below the heap as a signed   *)
(* number.                                                                 *)
LEMMA NewBreak ==
  ASSUME HeapConstants, NEW s \in Nat \ {0}, NEW b \in s..(Half - 1), NEW inc \in Increments
  PROVE  LET new == Wrap(b + inc)
         IN  /\ inc \in Int
             /\ ~(Signed(new) < Signed(s)) => new = b + inc /\ new \in s..(Half - 1)
             /\ Wrap(b - 1) = b - 1
             /\ new \in s..(Half - 1) => Wrap(new - 1) = new - 1
<1>1. /\ Word \in Nat \ {0} /\ Half \in Nat \ {0} /\ Word = 2 * Half /\ Word \div 2 = Half
      /\ inc \in -Half..(Half - 1)
  BY HeapNumbers DEF HeapConstants, SbrkArguments, Half
<1>2. \A x \in 0..(Word - 1) : x % Word = x
  BY <1>1
<1>3. \A x \in (-Word)..(-1) : x % Word = x + Word
  BY <1>1
<1>4. Wrap(b - 1) = b - 1
  BY <1>1, <1>2 DEF Wrap
<1>5. CASE b + inc < 0
  <2>1. Wrap(b + inc) = b + inc + Word
    BY <1>1, <1>3, <1>5 DEF Wrap
  <2> QED BY <1>1, <1>4, <1>5, <2>1 DEF Signed
<1>6. CASE b + inc >= 0
  <2>1. Wrap(b + inc) = b + inc
    BY <1>1, <1>2, <1>6 DEF Wrap
  <2>2. b + inc \in s..(Half - 1) => Wrap((b + inc) - 1) = (b + inc) - 1
    BY <1>1, <1>2 DEF Wrap
  <2> QED BY <1>1, <1>4, <1>6, <2>1, <2>2 DEF Signed
<1> QED BY <1>1, <1>5, <1>6
(* syscall_sbrk() starts with the pages of the heap mapped, and its loop   *)
(* covers those in which the two breaks differ.                            *)
LEMMA SbrkKeeps ==
  ASSUME HeapConstants, HeapInv, ~sbrkPanic, NEW p \in SbrkProc, HeapApart(p),
         NEW inc \in Increments, SyscallSbrk(p, inc)
  PROVE  HeapInv'
<1> DEFINE s == heapStart[p]
           b == heapBreak[p]
           new == Wrap(b + inc)
           L == userLoaded[p]
           M == userMapped[p]
           moved == s \in Nat \ {0} /\ new \in s..(Half - 1)
<1>1. /\ spc[p] = "user" /\ s \in Nat \ {0} /\ b \in s..(Half - 1) /\ s % PGSIZE = 0
      /\ L \cap (PageOf(s)..LowPage) = {} /\ M = L \cup (PageOf(s)..Top(b))
      /\ Half \in Nat \ {0}
  <2>1. spc[p] = "user" /\ s \in Nat /\ b \in Nat
    BY DEF SyscallSbrk, HeapInv, HeapTypes
  <2> QED BY <2>1, HeapNumbers DEF HeapInv, HeapKept, HeapPlaced, HeapMapped
<1>2. /\ inc \in Int /\ Wrap(b - 1) = b - 1
      /\ ~TooLow(p, new) => /\ new = b + inc /\ new \in s..(Half - 1)
                            /\ Wrap(new - 1) = new - 1
  BY <1>1, NewBreak DEF TooLow
<1>3. /\ heapStart' = heapStart /\ userLoaded' = userLoaded /\ userMapped' = userMapped
      /\ sbrkPanic' = sbrkPanic
  BY DEF SyscallSbrk
<1>4. \/ Returns(p)
      \/ ~TooLow(p, new) /\ inc > 0 /\ Loops(p, "allocate", Top(b), Top(new), new)
      \/ ~TooLow(p, new) /\ inc < 0 /\ Loops(p, "unallocate", Top(new), Top(b), new)
      \/ ~TooLow(p, new) /\ Top(new) = Top(b) /\ MovesBreak(p, new)
  BY <1>1, <1>2 DEF SyscallSbrk, Top
<1> HIDE DEF s, b, new, L, M
<1>5. CASE Returns(p)
  <2>1. UNCHANGED <<spc, heapStart, heapBreak, userLoaded, userMapped, sbrkCall, sbrkPanic>>
    BY <1>3, <1>5 DEF Returns, Goes, HeapInv, HeapTypes
  <2> QED BY <2>1 DEF HeapInv, HeapTypes, PanicsFor, HeapKept, HeapApart, HeapPlaced, CallRange,
                     HeapMapped
<1>6. ASSUME ~TooLow(p, new)
      PROVE  /\ PageOf(s) \in Nat \ {0} /\ Top(b) \in Nat /\ Top(new) \in Nat /\ LowPage \in Nat
             /\ new = b + inc /\ new \in Nat /\ new \in s..(Half - 1)
             /\ PageOf(s) - 1 <= Top(b) /\ PageOf(s) - 1 <= Top(new)
             /\ Top(b) <= LowPage /\ Top(new) <= LowPage
             /\ inc > 0 => Top(b) <= Top(new)
             /\ inc < 0 => Top(new) <= Top(b)
  <2>1. new = b + inc /\ new \in s..(Half - 1) /\ new \in Nat /\ b \in Nat
    BY <1>1, <1>2, <1>6
  <2>2. /\ PageOf(s) \in Nat \ {0} /\ Top(s) = PageOf(s) - 1 /\ LowPage \in Nat
        /\ Top(b) \in Nat /\ Top(s) <= Top(b) /\ Top(b) <= LowPage
    BY <1>1, HeapTops
  <2>3. Top(new) \in Nat /\ Top(s) <= Top(new) /\ Top(new) <= LowPage
    BY <1>1, <2>1, HeapTops
  <2>4. b - 1 \in Nat /\ new - 1 \in Nat /\ (inc > 0 => b - 1 <= new - 1) /\ (inc < 0 => new - 1 <= b - 1)
    BY <1>1, <1>2, <2>1
  <2>5. (inc > 0 => Top(b) <= Top(new)) /\ (inc < 0 => Top(new) <= Top(b))
    BY <2>4, PagesOrdered DEF Top
  <2> QED BY <2>1, <2>2, <2>3, <2>5
<1>7. ASSUME NEW kind \in {"allocate", "unallocate"}, NEW before \in Nat, NEW end \in Nat,
             before <= end, end <= LowPage, new \in Nat, Loops(p, kind, before, end, new)
      PROVE  /\ HeapTypes' /\ ~sbrkPanic' /\ spc'[p] = kind /\ heapBreak'[p] = b
             /\ heapStart'[p] = s /\ userLoaded'[p] = L /\ userMapped'[p] = M
             /\ sbrkCall'[p] = [at |-> before + 1, first |-> before + 1, last |-> end, new |-> new]
             /\ \A q \in SbrkProc \ {p} :
                  /\ spc'[q] = spc[q] /\ heapStart'[q] = heapStart[q] /\ heapBreak'[q] = heapBreak[q]
                  /\ userLoaded'[q] = userLoaded[q] /\ userMapped'[q] = userMapped[q]
                  /\ sbrkCall'[q] = sbrkCall[q]
  <2>0. Page(before + 1) = before + 1 /\ (before + 1) + Gap(before + 1, end) = end
    <3>1. LowPage \in Nat /\ before + 1 \in 0..(LowPage + 1)
      BY <1>7, StackAbove
    <3>2. Page(before + 1) = before + 1 /\ Gap(before + 1, end) = end - (before + 1)
      BY <1>7, <3>1, LoopPages
    <3> QED BY <3>2
  <2>1. /\ spc' = [spc EXCEPT ![p] = kind] /\ heapBreak' = heapBreak
        /\ sbrkCall' = [sbrkCall EXCEPT ![p] =
                          [at |-> before + 1, first |-> before + 1, last |-> end, new |-> new]]
    BY <1>7, <2>0 DEF Loops, Goes
  <2>2. kind \in InCall
    BY DEF InCall
  <2> QED BY <1>3, <1>7, <2>1, <2>2 DEF HeapInv, HeapTypes, s, b, L, M
<1>8. CASE ~TooLow(p, new) /\ inc > 0 /\ Loops(p, "allocate", Top(b), Top(new), new)
  <2>1. /\ HeapTypes' /\ ~sbrkPanic' /\ spc'[p] = "allocate" /\ heapBreak'[p] = b
        /\ heapStart'[p] = s /\ userLoaded'[p] = L /\ userMapped'[p] = M
        /\ sbrkCall'[p] = [at |-> Top(b) + 1, first |-> Top(b) + 1, last |-> Top(new), new |-> new]
        /\ \A q \in SbrkProc \ {p} :
             /\ spc'[q] = spc[q] /\ heapStart'[q] = heapStart[q] /\ heapBreak'[q] = heapBreak[q]
             /\ userLoaded'[q] = userLoaded[q] /\ userMapped'[q] = userMapped[q]
             /\ sbrkCall'[q] = sbrkCall[q]
    BY <1>6, <1>7, <1>8
  <2>2. (HeapPlaced(p) /\ CallRange(p) /\ HeapMapped(p))'
    BY <1>1, <1>6, <1>8, <2>1 DEF HeapPlaced, CallRange, HeapMapped, InCall
  <2> QED BY <2>1, <2>2, OthersKeep DEF PanicsFor, HeapKept
<1>9. CASE ~TooLow(p, new) /\ inc < 0 /\ Loops(p, "unallocate", Top(new), Top(b), new)
  <2>1. /\ HeapTypes' /\ ~sbrkPanic' /\ spc'[p] = "unallocate" /\ heapBreak'[p] = b
        /\ heapStart'[p] = s /\ userLoaded'[p] = L /\ userMapped'[p] = M
        /\ sbrkCall'[p] = [at |-> Top(new) + 1, first |-> Top(new) + 1, last |-> Top(b), new |-> new]
        /\ \A q \in SbrkProc \ {p} :
             /\ spc'[q] = spc[q] /\ heapStart'[q] = heapStart[q] /\ heapBreak'[q] = heapBreak[q]
             /\ userLoaded'[q] = userLoaded[q] /\ userMapped'[q] = userMapped[q]
             /\ sbrkCall'[q] = sbrkCall[q]
    BY <1>6, <1>7, <1>9
  <2>2. M = (L \cup (PageOf(s)..Top(new))) \cup ((Top(new) + 1)..Top(b))
    BY <1>1, <1>6, <1>9
  <2>3. (HeapPlaced(p) /\ CallRange(p) /\ HeapMapped(p))'
    BY <1>1, <1>6, <1>9, <2>1, <2>2 DEF HeapPlaced, CallRange, HeapMapped, InCall
  <2> QED BY <2>1, <2>3, OthersKeep DEF PanicsFor, HeapKept
<1>10. CASE ~TooLow(p, new) /\ Top(new) = Top(b) /\ MovesBreak(p, new)
  <2>1. /\ spc' = [spc EXCEPT ![p] = "user"] /\ heapBreak' = [heapBreak EXCEPT ![p] = new]
        /\ sbrkCall' = sbrkCall
    BY <1>10 DEF MovesBreak, Goes
  <2>2. /\ HeapTypes' /\ ~sbrkPanic' /\ spc'[p] = "user" /\ heapBreak'[p] = new
        /\ heapStart'[p] = s /\ userLoaded'[p] = L /\ userMapped'[p] = M
        /\ \A q \in SbrkProc \ {p} :
             /\ spc'[q] = spc[q] /\ heapStart'[q] = heapStart[q] /\ heapBreak'[q] = heapBreak[q]
             /\ userLoaded'[q] = userLoaded[q] /\ userMapped'[q] = userMapped[q]
             /\ sbrkCall'[q] = sbrkCall[q]
    BY <1>3, <1>6, <1>10, <2>1 DEF HeapInv, HeapTypes, s, L, M
  <2>3. (HeapPlaced(p) /\ CallRange(p) /\ HeapMapped(p))'
    BY <1>1, <1>6, <1>10, <2>2 DEF HeapPlaced, CallRange, HeapMapped, InCall
  <2> QED BY <2>2, <2>3, OthersKeep DEF PanicsFor, HeapKept
<1> QED BY <1>4, <1>5, <1>8, <1>9, <1>10
(* What the steps of a call need: the numbers of the call of p.            *)
LEMMA CallNumbers ==
  ASSUME HeapConstants, HeapInv, NEW p \in SbrkProc, HeapApart(p), spc[p] \in InCall
  PROVE  LET s == heapStart[p]
             c == sbrkCall[p]
         IN  /\ s \in Nat \ {0} /\ heapBreak[p] \in s..(Half - 1) /\ c.new \in s..(Half - 1)
             /\ c.at \in Nat /\ c.first \in Nat /\ c.last \in Nat /\ c.new \in Nat
             /\ c.first <= c.at /\ c.at <= c.last + 1
             /\ PageOf(s) \in Nat \ {0} /\ PageOf(s) <= c.first /\ c.last <= LowPage
             /\ LowPage \in Nat /\ Top(heapBreak[p]) \in Nat /\ Top(c.new) \in Nat
             /\ spc[p] \in {"allocate", "undo"}
                  => c.first = Top(heapBreak[p]) + 1 /\ c.last = Top(c.new)
             /\ spc[p] = "unallocate" => c.first = Top(c.new) + 1 /\ c.last = Top(heapBreak[p])
             /\ userLoaded[p] \cap (PageOf(s)..LowPage) = {}
             /\ userLoaded[p] \subseteq Nat /\ userMapped[p] \subseteq Nat
             /\ c.at <= c.last => Page(c.at) = c.at /\ ~(c.at >= PageOf(PHYS_BASE))
<1> DEFINE s == heapStart[p]
           b == heapBreak[p]
           c == sbrkCall[p]
<1>1. /\ s \in Nat /\ b \in Nat /\ userLoaded[p] \subseteq Nat /\ userMapped[p] \subseteq Nat
      /\ c.at \in Int /\ c.first \in Nat /\ c.last \in Int /\ c.new \in Nat
  BY DEF HeapInv, HeapTypes
<1>2. /\ s \in Nat \ {0} /\ b \in s..(Half - 1) /\ s % PGSIZE = 0
      /\ userLoaded[p] \cap (PageOf(s)..LowPage) = {}
  BY <1>1, HeapNumbers DEF HeapInv, HeapKept, HeapPlaced
<1>3. /\ c.new \in s..(Half - 1) /\ c.first <= c.at /\ c.at <= c.last + 1
      /\ spc[p] \in {"allocate", "undo"} => c.first = Top(b) + 1 /\ c.last = Top(c.new)
      /\ spc[p] = "unallocate" => c.first = Top(c.new) + 1 /\ c.last = Top(b)
  BY <1>1 DEF HeapInv, HeapKept, CallRange
<1> HIDE DEF s, b, c
<1>4. /\ PageOf(s) \in Nat \ {0} /\ Top(s) = PageOf(s) - 1 /\ LowPage \in Nat
      /\ Top(b) \in Nat /\ Top(s) <= Top(b) /\ Top(b) <= LowPage
  BY <1>2, HeapTops
<1>5. Top(c.new) \in Nat /\ Top(s) <= Top(c.new) /\ Top(c.new) <= LowPage
  BY <1>2, <1>3, HeapTops
<1>6. PageOf(s) <= c.first /\ c.last <= LowPage /\ c.last \in Nat /\ c.at \in Nat
  BY <1>1, <1>3, <1>4, <1>5 DEF InCall
<1>7. ASSUME c.at <= c.last PROVE Page(c.at) = c.at /\ ~(c.at >= PageOf(PHYS_BASE))
  <2>1. c.at \in 0..(LowPage + 1) /\ c.at <= LowPage
    BY <1>4, <1>6, <1>7
  <2>2. LowPage < PageOf(PHYS_BASE) /\ PageOf(PHYS_BASE) \in Nat
    BY StackAbove, HeapNumbers, PageBegins
  <2> QED BY <1>4, <1>6, <2>1, <2>2, LoopPages
<1> QED BY <1>1, <1>2, <1>3, <1>4, <1>5, <1>6, <1>7 DEF s, b, c

(* allocate() meets no page that is mapped: what is loaded is not where    *)
(* the heap grows.                                                         *)
LEMMA AllocatePageKeeps ==
  ASSUME HeapConstants, HeapInv, ~sbrkPanic, NEW p \in SbrkProc, HeapApart(p), AllocatePage(p)
  PROVE  HeapInv'
<1> DEFINE s == heapStart[p]
           c == sbrkCall[p]
           L == userLoaded[p]
<1>1. spc[p] = "allocate" /\ c.at <= c.last
  BY DEF AllocatePage
<1>2. /\ s \in Nat \ {0} /\ c.at \in Nat /\ c.first \in Nat /\ c.last \in Nat
      /\ c.first <= c.at /\ PageOf(s) \in Nat \ {0} /\ PageOf(s) <= c.first
      /\ c.last <= LowPage /\ LowPage \in Nat
      /\ L \cap (PageOf(s)..LowPage) = {} /\ userMapped[p] \subseteq Nat
      /\ Page(c.at) = c.at /\ ~(c.at >= PageOf(PHYS_BASE))
  BY <1>1, CallNumbers DEF InCall
<1>3. userMapped[p] = L \cup (PageOf(s)..(c.at - 1))
  BY <1>1 DEF HeapInv, HeapKept, HeapMapped
<1>4. c.at \notin userMapped[p] /\ ~(c.at >= PageOf(PHYS_BASE))
  <2>1. c.at \in PageOf(s)..LowPage
    BY <1>1, <1>2
  <2> HIDE DEF s, c, L
  <2> QED BY <1>2, <1>3, <2>1
<1>5. /\ userMapped' = [userMapped EXCEPT ![p] = @ \cup {c.at}]
      /\ sbrkCall' = [sbrkCall EXCEPT ![p].at = c.at + 1]
      /\ UNCHANGED <<spc, heapStart, heapBreak, userLoaded, sbrkPanic>>
  BY <1>2, <1>4 DEF AllocatePage
<1>6. /\ userMapped'[p] = L \cup (PageOf(s)..c.at)
      /\ sbrkCall'[p] = [c EXCEPT !.at = c.at + 1]
  <2>1. userMapped'[p] = userMapped[p] \cup {c.at}
    BY <1>5 DEF HeapInv, HeapTypes
  <2>2. sbrkCall'[p] = [c EXCEPT !.at = c.at + 1]
    BY <1>5 DEF HeapInv, HeapTypes
  <2> HIDE DEF s, c, L
  <2>3. (PageOf(s)..(c.at - 1)) \cup {c.at} = PageOf(s)..c.at
    BY <1>1, <1>2
  <2> QED BY <1>3, <2>1, <2>2, <2>3
<1>7. HeapTypes' /\ ~sbrkPanic'
  BY <1>2, <1>5 DEF HeapInv, HeapTypes
<1>8. (HeapPlaced(p) /\ CallRange(p) /\ HeapMapped(p))'
  <2>1. HeapPlaced(p) /\ CallRange(p) /\ c \in [at : Int, first : Nat, last : Int, new : Nat]
    BY DEF HeapInv, HeapKept, HeapTypes
  <2>2. /\ sbrkCall'[p].at = c.at + 1 /\ sbrkCall'[p].first = c.first
        /\ sbrkCall'[p].last = c.last /\ sbrkCall'[p].new = c.new
    BY <1>6, <2>1
  <2>3. HeapPlaced(p)'
    BY <1>5, <2>1 DEF HeapPlaced
  <2>4. CallRange(p)'
    BY <1>1, <1>2, <1>5, <2>1, <2>2 DEF CallRange, InCall
  <2>5. (c.at + 1) - 1 = c.at
    BY <1>2
  <2>6. HeapMapped(p)'
    BY <1>1, <1>5, <1>6, <2>2, <2>5 DEF HeapMapped
  <2> QED BY <2>3, <2>4, <2>6
<1>9. \A q \in SbrkProc \ {p} :
        /\ spc'[q] = spc[q] /\ heapStart'[q] = heapStart[q] /\ heapBreak'[q] = heapBreak[q]
        /\ userLoaded'[q] = userLoaded[q] /\ userMapped'[q] = userMapped[q]
        /\ sbrkCall'[q] = sbrkCall[q]
  BY <1>5 DEF HeapInv, HeapTypes
<1> QED BY <1>7, <1>8, <1>9, OthersKeep DEF PanicsFor, HeapKept

(* When allocate() fails, unallocate() goes over what was allocated.       *)
LEMMA AllocateFailsKeeps ==
  ASSUME HeapConstants, HeapInv, ~sbrkPanic, NEW p \in SbrkProc, HeapApart(p), AllocateFails(p)
  PROVE  HeapInv'
<1> DEFINE s == heapStart[p]
           c == sbrkCall[p]
           L == userLoaded[p]
<1>1. /\ spc[p] = "allocate" /\ c.at <= c.last /\ spc' = [spc EXCEPT ![p] = "undo"]
      /\ sbrkCall' = [sbrkCall EXCEPT ![p].at = c.first]
      /\ UNCHANGED <<heapStart, heapBreak, userLoaded, userMapped, sbrkPanic>>
  BY DEF AllocateFails, Goes
<1>2. /\ c.at \in Nat /\ c.first \in Nat /\ c.last \in Nat /\ c.first <= c.at
      /\ PageOf(s) \in Nat \ {0} /\ PageOf(s) <= c.first /\ c.last <= LowPage
      /\ LowPage \in Nat /\ L \cap (PageOf(s)..LowPage) = {}
      /\ c.first = Top(heapBreak[p]) + 1 /\ Top(heapBreak[p]) \in Nat
  BY <1>1, CallNumbers DEF InCall
<1>3. userMapped[p] = L \cup (PageOf(s)..(c.at - 1))
  BY <1>1 DEF HeapInv, HeapKept, HeapMapped
<1>4. userMapped[p] \ (c.first..c.last) = L \cup (PageOf(s)..Top(heapBreak[p]))
  <2> DEFINE t == Top(heapBreak[p])
  <2>1. t \in Nat /\ c.first = t + 1
    BY <1>2
  <2> HIDE DEF s, c, L, t
  <2>2. (PageOf(s)..(c.at - 1)) \ (c.first..c.last) = PageOf(s)..t
    BY <1>1, <1>2, <2>1
  <2>3. L \cap (c.first..c.last) = {}
    BY <1>2
  <2> QED BY <1>3, <2>2, <2>3 DEF t
<1>5. HeapTypes' /\ ~sbrkPanic'
  BY <1>1, <1>2 DEF HeapInv, HeapTypes, InCall
<1>6. (HeapPlaced(p) /\ CallRange(p) /\ HeapMapped(p))'
  <2>1. HeapPlaced(p) /\ CallRange(p) /\ c \in [at : Int, first : Nat, last : Int, new : Nat]
        /\ spc'[p] = "undo" /\ sbrkCall'[p] = [c EXCEPT !.at = c.first]
    BY <1>1 DEF HeapInv, HeapKept, HeapTypes
  <2>2. /\ sbrkCall'[p].at = c.first /\ sbrkCall'[p].first = c.first
        /\ sbrkCall'[p].last = c.last /\ sbrkCall'[p].new = c.new
    BY <2>1
  <2>3. HeapPlaced(p)'
    BY <1>1, <2>1 DEF HeapPlaced, InCall
  <2>4. CallRange(p)'
    BY <1>1, <1>2, <2>1, <2>2 DEF CallRange, InCall
  <2>5. HeapMapped(p)'
    BY <1>1, <1>4, <2>1, <2>2 DEF HeapMapped
  <2> QED BY <2>3, <2>4, <2>5
<1>7. \A q \in SbrkProc \ {p} :
        /\ spc'[q] = spc[q] /\ heapStart'[q] = heapStart[q] /\ heapBreak'[q] = heapBreak[q]
        /\ userLoaded'[q] = userLoaded[q] /\ userMapped'[q] = userMapped[q]
        /\ sbrkCall'[q] = sbrkCall[q]
  BY <1>1 DEF HeapInv, HeapTypes
<1> QED BY <1>5, <1>6, <1>7, OthersKeep DEF PanicsFor, HeapKept

(* unallocate() takes the pages of its range away, in order.               *)
LEMMA UnallocatePageKeeps ==
  ASSUME HeapConstants, HeapInv, ~sbrkPanic, NEW p \in SbrkProc, HeapApart(p), UnallocatePage(p)
  PROVE  HeapInv'
<1> DEFINE s == heapStart[p]
           c == sbrkCall[p]
           L == userLoaded[p]
           M == userMapped[p]
<1>0. /\ spc[p] \in {"undo", "unallocate"} /\ c.at <= c.last
      /\ Page(c.at) = c.at /\ ~(c.at >= PageOf(PHYS_BASE))
  <2>1. spc[p] \in InCall /\ spc[p] \in {"undo", "unallocate"} /\ c.at <= c.last
    BY DEF UnallocatePage, InCall
  <2> QED BY <2>1, CallNumbers
<1>1. /\ spc[p] \in {"undo", "unallocate"} /\ c.at <= c.last
      /\ userMapped' = [userMapped EXCEPT ![p] = @ \ {c.at}]
      /\ sbrkCall' = [sbrkCall EXCEPT ![p].at = c.at + 1]
      /\ UNCHANGED <<spc, heapStart, heapBreak, userLoaded, sbrkPanic>>
  BY <1>0 DEF UnallocatePage
<1>2. /\ c.at \in Nat /\ c.first \in Nat /\ c.last \in Nat /\ c.first <= c.at
      /\ PageOf(s) \in Nat \ {0} /\ PageOf(s) <= c.first /\ c.last <= LowPage
      /\ LowPage \in Nat /\ L \cap (PageOf(s)..LowPage) = {} /\ Top(c.new) \in Nat
      /\ spc[p] = "unallocate" => c.first = Top(c.new) + 1
  BY <1>1, CallNumbers DEF InCall
<1>3. /\ spc[p] = "undo" => M \ (c.at..c.last) = L \cup (PageOf(s)..Top(heapBreak[p]))
      /\ spc[p] = "unallocate" => M = (L \cup (PageOf(s)..Top(c.new))) \cup (c.at..c.last)
  BY DEF HeapInv, HeapKept, HeapMapped
<1>4. /\ c \in [at : Int, first : Nat, last : Int, new : Nat]
      /\ userMapped'[p] = M \ {c.at} /\ sbrkCall'[p] = [c EXCEPT !.at = c.at + 1]
  BY <1>1 DEF HeapInv, HeapTypes
<1>5. /\ sbrkCall'[p].at = c.at + 1 /\ sbrkCall'[p].first = c.first
      /\ sbrkCall'[p].last = c.last /\ sbrkCall'[p].new = c.new
  BY <1>4
<1>6. HeapTypes' /\ ~sbrkPanic'
  BY <1>1, <1>2 DEF HeapInv, HeapTypes
<1>7. HeapMapped(p)'
  <2> DEFINE t == Top(c.new)
  <2>1. t \in Nat /\ (spc[p] = "unallocate" => c.first = t + 1)
        /\ (spc[p] = "unallocate" => M = (L \cup (PageOf(s)..t)) \cup (c.at..c.last))
    BY <1>2, <1>3
  <2> HIDE DEF s, c, L, M, t
  <2>2. (M \ {c.at}) \ ((c.at + 1)..c.last) = M \ (c.at..c.last)
    <3>1. {c.at} \cup ((c.at + 1)..c.last) = c.at..c.last
      BY <1>1, <1>2
    <3> QED BY <3>1
  <2>3. ASSUME spc[p] = "unallocate"
        PROVE  M \ {c.at} = (L \cup (PageOf(s)..t)) \cup ((c.at + 1)..c.last)
    <3>1. /\ (c.at..c.last) \ {c.at} = (c.at + 1)..c.last
          /\ c.at \notin PageOf(s)..t /\ c.at \in PageOf(s)..LowPage
      BY <1>1, <1>2, <2>1, <2>3
    <3>2. c.at \notin L
      BY <1>2, <3>1
    <3> QED BY <2>1, <2>3, <3>1, <3>2
  <2> USE DEF s, c, L, M, t
  <2>4. CASE spc[p] = "undo"
    BY <1>1, <1>3, <1>4, <1>5, <2>2, <2>4 DEF HeapMapped
  <2>5. CASE spc[p] = "unallocate"
    BY <1>1, <1>4, <1>5, <2>3, <2>5 DEF HeapMapped
  <2> QED BY <1>1, <2>4, <2>5
<1>8. HeapPlaced(p)' /\ CallRange(p)'
  <2>1. HeapPlaced(p) /\ CallRange(p)
    BY DEF HeapInv, HeapKept
  <2>2. HeapPlaced(p)'
    BY <1>1, <2>1 DEF HeapPlaced
  <2>3. CallRange(p)'
    BY <1>1, <1>2, <1>5, <2>1 DEF CallRange, InCall
  <2> QED BY <2>2, <2>3
<1>9. \A q \in SbrkProc \ {p} :
        /\ spc'[q] = spc[q] /\ heapStart'[q] = heapStart[q] /\ heapBreak'[q] = heapBreak[q]
        /\ userLoaded'[q] = userLoaded[q] /\ userMapped'[q] = userMapped[q]
        /\ sbrkCall'[q] = sbrkCall[q]
  BY <1>1 DEF HeapInv, HeapTypes
<1> QED BY <1>6, <1>7, <1>8, <1>9, OthersKeep DEF PanicsFor, HeapKept

(* A call ends with the pages below the break that it sets mapped.         *)
LEMMA SbrkReturnsKeeps ==
  ASSUME HeapConstants, HeapInv, ~sbrkPanic, NEW p \in SbrkProc, HeapApart(p), SbrkReturns(p)
  PROVE  HeapInv'
<1> DEFINE s == heapStart[p]
           b == heapBreak[p]
           c == sbrkCall[p]
           L == userLoaded[p]
           M == userMapped[p]
           break == IF spc[p] = "undo" THEN b ELSE c.new
<1>1. /\ spc[p] \in InCall /\ c.at > c.last /\ spc' = [spc EXCEPT ![p] = "user"]
      /\ sbrkCall' = [sbrkCall EXCEPT ![p] = Idle]
      /\ heapBreak' = [heapBreak EXCEPT ![p] = break]
      /\ UNCHANGED <<heapStart, userLoaded, userMapped, sbrkPanic>>
  BY DEF SbrkReturns, InCall, HeapInv, HeapTypes
<1>2. /\ s \in Nat \ {0} /\ b \in s..(Half - 1) /\ c.new \in s..(Half - 1) /\ c.new \in Nat
      /\ c.at \in Nat /\ c.last \in Nat /\ c.at <= c.last + 1
      /\ spc[p] \in {"allocate", "undo"} => c.last = Top(c.new)
      /\ PageOf(s) \in Nat \ {0} /\ L \cap (PageOf(s)..LowPage) = {}
      /\ s % PGSIZE = 0 /\ Half \in Nat
  BY <1>1, CallNumbers, HeapNumbers DEF HeapInv, HeapKept, HeapPlaced, InCall
<1>3. break \in s..(Half - 1) /\ break \in Nat
  BY <1>2
<1>4. M = L \cup (PageOf(s)..Top(break))
  <2>1. c.at..c.last = {} /\ c.at - 1 = c.last
    BY <1>1, <1>2
  <2>2. CASE spc[p] = "undo"
    BY <2>1, <2>2 DEF HeapInv, HeapKept, HeapMapped
  <2>3. CASE spc[p] = "allocate"
    BY <1>2, <2>1, <2>3 DEF HeapInv, HeapKept, HeapMapped
  <2>4. CASE spc[p] = "unallocate"
    BY <2>1, <2>4 DEF HeapInv, HeapKept, HeapMapped
  <2> QED BY <1>1, <2>2, <2>3, <2>4 DEF InCall
<1> HIDE DEF break
<1>5. HeapTypes' /\ ~sbrkPanic'
  BY <1>1, <1>3 DEF HeapInv, HeapTypes, Idle
<1>6. spc'[p] = "user" /\ heapBreak'[p] = break
  BY <1>1 DEF HeapInv, HeapTypes
<1>7. (HeapPlaced(p) /\ CallRange(p) /\ HeapMapped(p))'
  BY <1>1, <1>2, <1>3, <1>4, <1>6 DEF HeapPlaced, CallRange, HeapMapped, InCall
<1>8. \A q \in SbrkProc \ {p} :
        /\ spc'[q] = spc[q] /\ heapStart'[q] = heapStart[q] /\ heapBreak'[q] = heapBreak[q]
        /\ userLoaded'[q] = userLoaded[q] /\ userMapped'[q] = userMapped[q]
        /\ sbrkCall'[q] = sbrkCall[q]
  BY <1>1 DEF HeapInv, HeapTypes
<1> QED BY <1>5, <1>7, <1>8, OthersKeep DEF PanicsFor, HeapKept

(* The other calls leave the heaps alone, or end the process.              *)
LEMMA OtherCallsKeep ==
  ASSUME HeapInv, ~sbrkPanic, NEW p \in SbrkProc,
         SyscallOpen(p) \/ SyscallClose(p) \/ SyscallExit(p) \/ LoadFails(p)
  PROVE  HeapInv'
<1>1. CASE SyscallOpen(p) \/ SyscallClose(p)
  <2>1. UNCHANGED <<spc, heapStart, heapBreak, userLoaded, userMapped, sbrkCall, sbrkPanic>>
    BY <1>1 DEF SyscallOpen, SyscallClose, Goes, HeapInv, HeapTypes
  <2> QED BY <2>1 DEF HeapInv, HeapTypes, PanicsFor, HeapKept, HeapApart, HeapPlaced, CallRange,
                     HeapMapped
<1>2. CASE SyscallExit(p) \/ LoadFails(p)
  <2>1. /\ spc' = [spc EXCEPT ![p] = "dead"]
        /\ \/ /\ userMapped' = [userMapped EXCEPT ![p] = {}]
              /\ userLoaded' = [userLoaded EXCEPT ![p] = {}]
           \/ UNCHANGED <<userMapped, userLoaded>>
        /\ UNCHANGED <<heapStart, heapBreak, sbrkCall, sbrkPanic>>
    BY <1>2 DEF SyscallExit, LoadFails, Goes
  <2>2. HeapTypes' /\ ~sbrkPanic' /\ spc'[p] = "dead"
    BY <2>1 DEF HeapInv, HeapTypes
  <2>3. (HeapPlaced(p) /\ CallRange(p) /\ HeapMapped(p))'
    BY <2>2 DEF HeapPlaced, CallRange, HeapMapped, InCall
  <2>4. \A q \in SbrkProc \ {p} :
          /\ spc'[q] = spc[q] /\ heapStart'[q] = heapStart[q] /\ heapBreak'[q] = heapBreak[q]
          /\ userLoaded'[q] = userLoaded[q] /\ userMapped'[q] = userMapped[q]
          /\ sbrkCall'[q] = sbrkCall[q]
    BY <2>1 DEF HeapInv, HeapTypes
  <2> QED BY <2>2, <2>3, <2>4, OthersKeep DEF PanicsFor, HeapKept
<1> QED BY <1>1, <1>2

(* The calls of a program whose heap has no room of its own: it stays such,*)
(* and the panics are its own.                                             *)
LEMMA CrowdedKeeps ==
  ASSUME HeapConstants, HeapInv, ~sbrkPanic, NEW p \in SbrkProc, ~HeapApart(p),
         \/ \E inc \in Increments : SyscallSbrk(p, inc)
         \/ AllocatePage(p) \/ AllocateFails(p) \/ UnallocatePage(p) \/ SbrkReturns(p)
  PROVE  HeapInv'
<1> DEFINE c == sbrkCall[p]
<1>1. /\ Word \in Nat \ {0} /\ PGSIZE \in Nat \ {0} /\ Pages \in Nat \ {0}
  <2>1. Word \in Nat \ {0} /\ PGSIZE \in Nat \ {0} /\ Word = 2 * Half /\ Half + PGSIZE <= Word
        /\ Half \in Nat
    BY HeapNumbers
  <2>2. Pages \in Nat /\ 1 <= PageOf(Word) <=> PGSIZE * 1 <= Word
    BY <2>1, PageBegins DEF Pages, PageOf
  <2> QED BY <2>1, <2>2 DEF Pages, PageOf
<1>2. \A n \in Int : n % Pages \in Nat /\ n % Word \in Nat
  BY <1>1
<1>3. c \in [at : Int, first : Nat, last : Int, new : Nat]
  BY DEF HeapInv, HeapTypes
<1>4. UNCHANGED <<heapStart, userLoaded>>
  BY DEF SyscallSbrk, AllocatePage, AllocateFails, UnallocatePage, SbrkReturns
<1> DEFINE Calls == [at : Int, first : Nat, last : Int, new : Nat]
           Others == \A q \in SbrkProc \ {p} :
             /\ spc'[q] = spc[q] /\ heapBreak'[q] = heapBreak[q]
             /\ userMapped'[q] = userMapped[q] /\ sbrkCall'[q] = sbrkCall[q]
<1>5. ASSUME NEW inc \in Increments, SyscallSbrk(p, inc)
      PROVE  HeapTypes' /\ Others /\ ~sbrkPanic'
  <2> DEFINE b == heapBreak[p]
             new == Wrap(b + inc)
             prevPage == PageOf(Wrap(b - 1))
             newPage == PageOf(Wrap(new - 1))
  <2>1. b \in Nat /\ inc \in Int
    BY <1>1 DEF HeapInv, HeapTypes, HeapConstants, SbrkArguments
  <2>2. new \in Nat /\ Wrap(b - 1) \in Nat
    BY <1>2, <2>1 DEF Wrap
  <2>3. Wrap(new - 1) \in Nat
    <3> HIDE DEF new
    <3> QED BY <1>2, <2>2 DEF Wrap
  <2>4. prevPage \in Nat /\ newPage \in Nat
    <3> HIDE DEF new, b
    <3> QED BY <2>2, <2>3, PageBegins
  <2>5. \/ Returns(p) \/ MovesBreak(p, new)
        \/ Loops(p, "allocate", prevPage, newPage, new)
        \/ Loops(p, "unallocate", newPage, prevPage, new)
    BY <1>5 DEF SyscallSbrk
  <2>6. userMapped' = userMapped /\ ~sbrkPanic'
    BY <1>5 DEF SyscallSbrk
  <2> HIDE DEF b, new, prevPage, newPage
  <2>7. ASSUME NEW kind \in InCall, NEW before \in Nat, NEW end \in Nat,
               Loops(p, kind, before, end, new)
        PROVE  \E call \in Calls : sbrkCall' = [sbrkCall EXCEPT ![p] = call]
    <3> DEFINE first == Page(before + 1)
               last == first + Gap(first, end)
    <3>1. first \in Nat
      BY <1>2 DEF Page
    <3>2. Gap(first, end) \in Int
      <4> HIDE DEF first
      <4>1. (end - first) % Pages \in Nat
        BY <1>2, <3>1
      <4> QED BY <1>1, <4>1 DEF Gap
    <3>3. sbrkCall' = [sbrkCall EXCEPT ![p] =
                        [at |-> first, first |-> first, last |-> last, new |-> new]]
      BY <2>7 DEF Loops
    <3> HIDE DEF first
    <3>4. [at |-> first, first |-> first, last |-> last, new |-> new] \in Calls
      BY <2>2, <3>1, <3>2
    <3> QED BY <3>3, <3>4
  <2>8. \E call \in Calls \cup {c} : sbrkCall' = [sbrkCall EXCEPT ![p] = call]
    <3>1. CASE Returns(p) \/ MovesBreak(p, new)
      BY <1>3, <3>1 DEF Returns, MovesBreak, HeapInv, HeapTypes
    <3>2. CASE Loops(p, "allocate", prevPage, newPage, new)
      BY <2>4, <2>7, <3>2 DEF InCall
    <3>3. CASE Loops(p, "unallocate", newPage, prevPage, new)
      BY <2>4, <2>7, <3>3 DEF InCall
    <3> QED BY <2>5, <3>1, <3>2, <3>3
  <2>9. \E to \in {"user"} \cup InCall : spc' = [spc EXCEPT ![p] = to]
    BY <2>5 DEF Returns, MovesBreak, Loops, Goes, InCall
  <2>10. heapBreak' = heapBreak \/ heapBreak' = [heapBreak EXCEPT ![p] = new]
    BY <2>5 DEF Returns, MovesBreak, Loops
  <2> QED BY <1>3, <1>4, <2>2, <2>6, <2>8, <2>9, <2>10 DEF HeapInv, HeapTypes
<1>6. CASE AllocatePage(p) \/ UnallocatePage(p)
  <2>1. /\ spc' = spc /\ spc[p] \in InCall /\ heapBreak' = heapBreak
        /\ \/ UNCHANGED <<userMapped, sbrkCall>>
           \/ /\ \/ userMapped' = [userMapped EXCEPT ![p] = userMapped[p] \cup {Page(c.at)}]
                 \/ userMapped' = [userMapped EXCEPT ![p] = userMapped[p] \ {Page(c.at)}]
              /\ sbrkCall' = [sbrkCall EXCEPT ![p].at = c.at + 1]
    BY <1>6 DEF AllocatePage, UnallocatePage, InCall
  <2>2. Page(c.at) \in Nat /\ [c EXCEPT !.at = c.at + 1] \in Calls
    BY <1>2, <1>3 DEF Page
  <2>3. /\ \E pages \in SUBSET Nat : userMapped' = [userMapped EXCEPT ![p] = pages]
        /\ \E call \in Calls : sbrkCall' = [sbrkCall EXCEPT ![p] = call]
    <3>1. /\ userMapped[p] \subseteq Nat /\ userMapped = [userMapped EXCEPT ![p] = userMapped[p]]
          /\ sbrkCall = [sbrkCall EXCEPT ![p] = c] /\ c \in Calls
      BY <1>3 DEF HeapInv, HeapTypes
    <3>2. [sbrkCall EXCEPT ![p].at = c.at + 1] = [sbrkCall EXCEPT ![p] = [c EXCEPT !.at = c.at + 1]]
      OBVIOUS
    <3> HIDE DEF c
    <3>3. CASE UNCHANGED <<userMapped, sbrkCall>>
      BY <3>1, <3>3
    <3>4. CASE sbrkCall' = [sbrkCall EXCEPT ![p].at = c.at + 1]
      BY <2>1, <2>2, <3>1, <3>2, <3>4
    <3> QED BY <2>1, <3>3, <3>4
  <2>4. HeapTypes' /\ Others
    BY <1>4, <2>1, <2>3 DEF HeapInv, HeapTypes
  <2> QED BY <1>4, <2>1, <2>4, OthersKeep DEF PanicsFor, HeapKept, HeapApart
<1>7. CASE AllocateFails(p) \/ SbrkReturns(p)
  <2>1. /\ \E to \in {"user"} \cup InCall : spc' = [spc EXCEPT ![p] = to]
        /\ \E call \in Calls : sbrkCall' = [sbrkCall EXCEPT ![p] = call]
        /\ \E new \in Nat : heapBreak' = [heapBreak EXCEPT ![p] = new]
        /\ userMapped' = userMapped /\ ~sbrkPanic'
    <3>1. CASE AllocateFails(p)
      <4>1. [c EXCEPT !.at = c.first] \in Calls /\ heapBreak[p] \in Nat
        BY <1>3 DEF HeapInv, HeapTypes
      <4>2. /\ spc' = [spc EXCEPT ![p] = "undo"] /\ heapBreak' = [heapBreak EXCEPT ![p] = heapBreak[p]]
            /\ sbrkCall' = [sbrkCall EXCEPT ![p] = [c EXCEPT !.at = c.first]]
            /\ userMapped' = userMapped /\ ~sbrkPanic'
        BY <3>1 DEF AllocateFails, Goes, HeapInv, HeapTypes
      <4> QED BY <4>1, <4>2 DEF InCall
    <3>2. CASE SbrkReturns(p)
      <4>1. Idle \in Calls /\ (IF spc[p] = "undo" THEN heapBreak[p] ELSE c.new) \in Nat
        BY <1>3 DEF HeapInv, HeapTypes, Idle
      <4> QED BY <3>2, <4>1 DEF SbrkReturns
    <3> QED BY <1>7, <3>1, <3>2
  <2>2. HeapTypes' /\ Others
    BY <1>4, <2>1 DEF HeapInv, HeapTypes
  <2> QED BY <1>4, <2>1, <2>2, OthersKeep DEF PanicsFor, HeapKept, HeapApart
<1>8. CASE \E inc \in Increments : SyscallSbrk(p, inc)
  BY <1>4, <1>5, <1>8, OthersKeep DEF PanicsFor, HeapKept, HeapApart
<1> QED BY <1>6, <1>7, <1>8

LEMMA HeapInvExact ==
  ASSUME HeapConstants, HeapInv
  PROVE  HeapExact
<1>0. sbrkPanic => \E p \in SbrkProc : spc[p] \in {"allocate", "undo", "unallocate"} /\ ~HeapApart(p)
  BY DEF HeapInv, PanicsFor, InCall
<1> SUFFICES ASSUME NEW p \in SbrkProc, spc[p] = "user", HeapApart(p)
             PROVE  /\ userMapped[p] \ userLoaded[p]
                         = {PageOf(a) : a \in heapStart[p]..(heapBreak[p] - 1)}
                    /\ userLoaded[p] \subseteq userMapped[p]
                    /\ heapStart[p] <= heapBreak[p] /\ heapBreak[p] <= PHYS_BASE
  BY <1>0 DEF HeapExact
<1> DEFINE s == heapStart[p]
           b == heapBreak[p]
           L == userLoaded[p]
<1>1. /\ s \in Nat \ {0} /\ b \in s..(Half - 1) /\ b \in Nat /\ s % PGSIZE = 0
      /\ L \cap (PageOf(s)..LowPage) = {} /\ userMapped[p] = L \cup (PageOf(s)..Top(b))
      /\ PHYS_BASE \in Nat /\ Half \in Nat /\ Half <= PHYS_BASE
  <2>1. s \in Nat /\ b \in Nat
    BY DEF HeapInv, HeapTypes
  <2> QED BY <2>1, HeapNumbers DEF HeapInv, HeapKept, HeapPlaced, HeapMapped
<1> HIDE DEF s, b, L
<1>2. {PageOf(a) : a \in s..(b - 1)} = PageOf(s)..Top(b)
  BY <1>1, HeapPages
<1>3. PageOf(s) \in Nat /\ Top(b) \in Nat /\ Top(b) <= LowPage /\ LowPage \in Nat
  BY <1>1, HeapTops
<1>4. L \cap (PageOf(s)..Top(b)) = {}
  BY <1>1, <1>3
<1>5. userMapped[p] \ L = PageOf(s)..Top(b)
  BY <1>1, <1>4
<1> QED BY <1>1, <1>2, <1>5 DEF s, b, L

LEMMA HeapStarts ==
  ASSUME SbrkInit
  PROVE  HeapInv
BY DEF SbrkInit, HeapInv, HeapTypes, PanicsFor, HeapKept, HeapPlaced, CallRange, HeapMapped, InCall,
       Idle

LEMMA HeapSteps ==
  ASSUME HeapConstants, HeapInv, [SbrkNext]_sbrkVars
  PROVE  HeapInv'
<1>1. ASSUME ~sbrkPanic, NEW p \in SbrkProc,
             \/ \E prog \in Programs : Load(p, prog)
             \/ LoadFails(p)
             \/ \E inc \in Increments : SyscallSbrk(p, inc)
             \/ AllocatePage(p) \/ AllocateFails(p) \/ UnallocatePage(p) \/ SbrkReturns(p)
             \/ SyscallOpen(p) \/ SyscallClose(p) \/ SyscallExit(p)
      PROVE  HeapInv'
  <2>1. CASE \/ LoadFails(p) \/ SyscallOpen(p) \/ SyscallClose(p) \/ SyscallExit(p)
            \/ \E prog \in Programs : Load(p, prog)
    BY <1>1, <2>1, LoadKeeps, OtherCallsKeep
  <2>2. CASE \/ \E inc \in Increments : SyscallSbrk(p, inc)
            \/ AllocatePage(p) \/ AllocateFails(p) \/ UnallocatePage(p) \/ SbrkReturns(p)
    <3>1. CASE ~HeapApart(p)
      BY <1>1, <2>2, <3>1, CrowdedKeeps
    <3>2. CASE HeapApart(p)
      BY <1>1, <2>2, <3>2, SbrkKeeps, AllocatePageKeeps, AllocateFailsKeeps, UnallocatePageKeeps,
         SbrkReturnsKeeps
    <3> QED BY <3>1, <3>2
  <2> QED BY <1>1, <2>1, <2>2
<1>2. CASE SbrkNext
  BY <1>1, <1>2 DEF SbrkNext
<1>3. CASE UNCHANGED sbrkVars
  BY <1>3 DEF sbrkVars, HeapInv, HeapTypes, PanicsFor, HeapKept, HeapApart, HeapPlaced, CallRange,
              HeapMapped
<1> QED BY <1>2, <1>3

(* syscall.c of hw-memory: whatever the programs ask for, and whenever the *)
(* pages run out, the pages of [heap_start, heap_break) are mapped between *)
(* two calls and no others are, for every program with nothing loaded      *)
(* where its heap begins and the heap in the lower half; and no ASSERT     *)
(* fails but for a call of a program that is not such.  This holds for any *)
(* number of processes, any pool, any size of words and pages, and for all *)
(* programs that load() takes.                                             *)
THEOREM HeapAlwaysExact ==
  ASSUME HeapConstants
  PROVE  SbrkSpec => []HeapExact
<1>1. SbrkInit => HeapInv
  BY HeapStarts
<1>2. HeapInv /\ [SbrkNext]_sbrkVars => HeapInv'
  BY HeapSteps
<1>3. HeapInv => HeapExact
  BY HeapInvExact
<1> QED BY <1>1, <1>2, <1>3, PTL DEF SbrkSpec
-----------------------------------------------------------------------------
(* The pool of user pages, which the heaps share.                          *)
PoolInv ==
  /\ IsFiniteSet(MappedPages) /\ PoolExact
  /\ \A p \in SbrkProc : IsFiniteSet(userMapped[p]) /\ (spc[p] = "load" => userMapped[p] = {})

LEMMA PagesOfOne ==
  ASSUME NEW p, NEW S, IsFiniteSet(S)
  PROVE  IsFiniteSet({p} \X S) /\ Cardinality({p} \X S) = Cardinality(S)
<1>1. IsFiniteSet({p}) /\ Cardinality({p}) = 1
  BY FS_Singleton
<1>2. IsFiniteSet({p} \X S) /\ Cardinality({p} \X S) = Cardinality({p}) * Cardinality(S)
  BY <1>1, FS_Product
<1>3. Cardinality(S) \in Nat
  BY FS_CardinalityType
<1> QED BY <1>1, <1>2, <1>3

(* A step that changes the pages of one process, and the pool by as many.  *)
LEMMA PoolMoves ==
  ASSUME HeapInv, PoolInv, NEW p \in SbrkProc, NEW N, IsFiniteSet(N),
         userMapped' = [userMapped EXCEPT ![p] = N], userPool' \in Nat,
         userPool' + Cardinality(N) = userPool + Cardinality(userMapped[p]),
         \A q \in SbrkProc : spc'[q] = "load" => spc[q] = "load" /\ (q = p => N = {})
  PROVE  PoolInv'
<1> DEFINE old == {p} \X userMapped[p]
           Rest == MappedPages \ old
           new == {p} \X N
<1>1. /\ IsFiniteSet(old) /\ Cardinality(old) = Cardinality(userMapped[p]) /\ Cardinality(old) \in Nat
      /\ IsFiniteSet(new) /\ Cardinality(new) = Cardinality(N) /\ Cardinality(new) \in Nat
  BY PagesOfOne, FS_CardinalityType DEF PoolInv
<1>2. /\ old \subseteq MappedPages /\ IsFiniteSet(MappedPages) /\ Cardinality(MappedPages) \in Nat
      /\ userPool \in Nat /\ userPool + Cardinality(MappedPages) = PoolPages
  BY FS_CardinalityType DEF MappedPages, PoolInv, PoolExact
<1>3. userMapped'[p] = N /\ \A q \in SbrkProc \ {p} : userMapped'[q] = userMapped[q]
  BY DEF HeapInv, HeapTypes
<1>4. MappedPages' = Rest \cup new /\ Rest \cap new = {}
  BY <1>3 DEF MappedPages
<1>5. IsFiniteSet(Rest) /\ Cardinality(Rest) = Cardinality(MappedPages) - Cardinality(old)
  <2>1. MappedPages \cap old = old
    BY <1>2
  <2> HIDE DEF old
  <2>2. /\ IsFiniteSet(MappedPages \ old)
        /\ Cardinality(MappedPages \ old) = Cardinality(MappedPages) - Cardinality(MappedPages \cap old)
    BY <1>2, FS_Difference
  <2> QED BY <2>1, <2>2
<1> HIDE DEF old, Rest, new
<1>6. /\ IsFiniteSet(MappedPages')
      /\ Cardinality(MappedPages') = Cardinality(Rest) + Cardinality(new)
  <2>1. Cardinality(Rest \cap new) = 0 /\ Cardinality(Rest) \in Nat
    BY <1>4, <1>5, FS_EmptySet, FS_CardinalityType
  <2>2. /\ IsFiniteSet(Rest \cup new)
        /\ Cardinality(Rest \cup new) = Cardinality(Rest) + Cardinality(new) - Cardinality(Rest \cap new)
    BY <1>1, <1>5, FS_Union
  <2>3. Cardinality(Rest \cup new) = Cardinality(Rest) + Cardinality(new)
    BY <1>1, <2>1, <2>2
  <2> QED BY <1>4, <2>2, <2>3
<1>7. PoolExact'
  <2>1. userPool' + Cardinality(MappedPages') = PoolPages
    BY <1>1, <1>2, <1>5, <1>6
  <2> QED BY <2>1 DEF PoolExact
<1>8. \A q \in SbrkProc : IsFiniteSet(userMapped'[q]) /\ (spc'[q] = "load" => userMapped'[q] = {})
  BY <1>3 DEF PoolInv
<1> QED BY <1>6, <1>7, <1>8 DEF PoolInv

(* A step that changes no pages.                                           *)
LEMMA PoolStays ==
  ASSUME PoolInv, UNCHANGED <<userMapped, userPool>>,
         \A q \in SbrkProc : spc'[q] = "load" => spc[q] = "load"
  PROVE  PoolInv'
BY DEF PoolInv, PoolExact, MappedPages

LEMMA PoolStep ==
  ASSUME HeapConstants, HeapInv, PoolInv, NEW p \in SbrkProc,
         \/ \E prog \in Programs : Load(p, prog)
         \/ LoadFails(p)
         \/ \E inc \in Increments : SyscallSbrk(p, inc)
         \/ AllocatePage(p) \/ AllocateFails(p) \/ UnallocatePage(p) \/ SbrkReturns(p)
         \/ SyscallOpen(p) \/ SyscallClose(p) \/ SyscallExit(p)
  PROVE  PoolInv'
<1>1. /\ spc \in [SbrkProc -> {"load", "user", "dead"} \cup InCall]
      /\ IsFiniteSet(userMapped[p]) /\ Cardinality(userMapped[p]) \in Nat /\ userPool \in Nat
      /\ spc[p] = "load" => userMapped[p] = {} /\ Cardinality(userMapped[p]) = 0
  BY FS_CardinalityType, FS_EmptySet DEF HeapInv, HeapTypes, PoolInv, PoolExact
<1>2. ASSUME NEW prog \in Programs, Load(p, prog)
      PROVE  PoolInv'
  <2> DEFINE pages == ProgramPages(prog)
  <2>1. IsFiniteSet(pages) /\ Cardinality(pages) \in Nat
    <3>1. pages \subseteq 0..PageOf(PHYS_BASE) /\ PageOf(PHYS_BASE) \in Int
      BY <1>2, ProgramPlaced, HeapNumbers, PageBegins DEF Load
    <3> HIDE DEF pages
    <3>2. IsFiniteSet(0..PageOf(PHYS_BASE))
      BY <3>1, FS_Interval
    <3> QED BY <3>1, <3>2, FS_Subset, FS_CardinalityType
  <2>2. /\ spc[p] = "load" /\ spc' = [spc EXCEPT ![p] = "user"]
        /\ userMapped' = [userMapped EXCEPT ![p] = pages]
        /\ userPool' = userPool - Cardinality(pages) /\ Cardinality(pages) <= userPool
    BY <1>2 DEF Load, Goes
  <2> HIDE DEF pages
  <2>3. userPool' \in Nat /\ userPool' + Cardinality(pages) = userPool + Cardinality(userMapped[p])
    BY <1>1, <2>1, <2>2
  <2>4. \A q \in SbrkProc : spc'[q] = "load" => spc[q] = "load" /\ (q = p => pages = {})
    BY <1>1, <2>2
  <2> QED BY <2>1, <2>2, <2>3, <2>4, PoolMoves
<1>3. ASSUME NEW inc \in Increments, SyscallSbrk(p, inc)
      PROVE  PoolInv'
  <2>1. UNCHANGED <<userMapped, userPool>> /\ spc[p] = "user"
    BY <1>3 DEF SyscallSbrk
  <2>2. \E to \in {"user", "allocate", "unallocate"} : spc' = [spc EXCEPT ![p] = to]
    BY <1>3 DEF SyscallSbrk, Returns, Loops, MovesBreak, Goes
  <2> QED BY <1>1, <2>1, <2>2, PoolStays
<1>4. CASE AllocatePage(p)
  <2> DEFINE at == Page(sbrkCall[p].at)
             N == userMapped[p] \cup {at}
  <2>1. spc' = spc /\ spc[p] = "allocate" /\ userPool > 0
    BY <1>4 DEF AllocatePage
  <2>2. CASE at \in userMapped[p] \/ at >= PageOf(PHYS_BASE)
    BY <1>4, <2>1, <2>2, PoolStays DEF AllocatePage
  <2>3. CASE ~(at \in userMapped[p] \/ at >= PageOf(PHYS_BASE))
    <3>1. userMapped' = [userMapped EXCEPT ![p] = N] /\ userPool' = userPool - 1
      BY <1>4, <2>3 DEF AllocatePage
    <3>2. IsFiniteSet(N) /\ Cardinality(N) = Cardinality(userMapped[p]) + 1
      BY <1>1, <2>3, FS_AddElement
    <3> HIDE DEF N
    <3>3. userPool' \in Nat /\ userPool' + Cardinality(N) = userPool + Cardinality(userMapped[p])
      BY <1>1, <2>1, <3>1, <3>2
    <3> QED BY <2>1, <3>1, <3>2, <3>3, PoolMoves
  <2> QED BY <2>2, <2>3
<1>5. CASE AllocateFails(p) \/ SbrkReturns(p) \/ SyscallOpen(p) \/ SyscallClose(p) \/ LoadFails(p)
  <2>1. UNCHANGED <<userMapped, userPool>>
    BY <1>5 DEF AllocateFails, SbrkReturns, SyscallOpen, SyscallClose, LoadFails
  <2>2. \E to \in {"user", "undo", "dead"} : spc' = [spc EXCEPT ![p] = to]
    BY <1>5 DEF AllocateFails, SbrkReturns, SyscallOpen, SyscallClose, LoadFails, Goes
  <2> QED BY <1>1, <2>1, <2>2, PoolStays
<1>6. CASE UnallocatePage(p)
  <2> DEFINE at == Page(sbrkCall[p].at)
             N == userMapped[p] \ {at}
  <2>0. CASE at >= PageOf(PHYS_BASE)
    <3>1. spc' = spc /\ UNCHANGED <<userMapped, userPool>>
      BY <1>6, <2>0 DEF UnallocatePage
    <3> QED BY <3>1, PoolStays
  <2> SUFFICES ASSUME ~(at >= PageOf(PHYS_BASE)) PROVE PoolInv'
    BY <2>0
  <2>1. /\ spc' = spc /\ spc[p] \in {"undo", "unallocate"}
        /\ userMapped' = [userMapped EXCEPT ![p] = N]
        /\ userPool' = IF at \in userMapped[p] THEN userPool + 1 ELSE userPool
    BY <1>6 DEF UnallocatePage
  <2>2. /\ IsFiniteSet(N)
        /\ Cardinality(N) = IF at \in userMapped[p] THEN Cardinality(userMapped[p]) - 1
                                                   ELSE Cardinality(userMapped[p])
    BY <1>1, FS_RemoveElement
  <2> HIDE DEF N
  <2>3. userPool' \in Nat /\ userPool' + Cardinality(N) = userPool + Cardinality(userMapped[p])
    BY <1>1, <2>1, <2>2
  <2> QED BY <2>1, <2>2, <2>3, PoolMoves
<1>7. CASE SyscallExit(p)
  <2>1. /\ spc[p] = "user" /\ spc' = [spc EXCEPT ![p] = "dead"]
        /\ userMapped' = [userMapped EXCEPT ![p] = {}]
        /\ userPool' = userPool + Cardinality(userMapped[p])
    BY <1>7 DEF SyscallExit, Goes
  <2>2. IsFiniteSet({}) /\ Cardinality({}) = 0
    BY FS_EmptySet
  <2>3. userPool' \in Nat /\ userPool' + Cardinality({}) = userPool + Cardinality(userMapped[p])
    BY <1>1, <2>1, <2>2
  <2>4. \A q \in SbrkProc : spc'[q] = "load" => spc[q] = "load" /\ (q = p => {} = {})
    BY <1>1, <2>1
  <2> QED BY <2>1, <2>2, <2>3, <2>4, PoolMoves
<1> QED BY <1>2, <1>3, <1>4, <1>5, <1>6, <1>7

LEMMA PoolStart ==
  ASSUME PoolPages \in Nat, SbrkInit
  PROVE  PoolInv
<1>1. \A p \in SbrkProc : userMapped[p] = {}
  BY DEF SbrkInit
<1>2. MappedPages = {}
  BY <1>1 DEF MappedPages
<1> QED BY <1>1, <1>2, FS_EmptySet DEF PoolInv, PoolExact, SbrkInit

(* palloc.c and syscall.c of hw-memory: no user page is lost or given to   *)
(* two processes, whatever calls run at once and are undone, for any       *)
(* number of processes and pages.                                          *)
THEOREM UserPagesAccounted ==
  ASSUME HeapConstants, PoolPages \in Nat
  PROVE  SbrkSpec => []PoolExact
<1>1. SbrkInit => HeapInv /\ PoolInv
  BY PoolStart, HeapStarts
<1>2. HeapInv /\ PoolInv /\ [SbrkNext]_sbrkVars => (HeapInv /\ PoolInv)'
  <2> SUFFICES ASSUME HeapInv, PoolInv, [SbrkNext]_sbrkVars
               PROVE  (HeapInv /\ PoolInv)'
    OBVIOUS
  <2>1. HeapInv'
    BY HeapSteps
  <2>2. CASE SbrkNext
    BY <2>1, <2>2, PoolStep DEF SbrkNext
  <2>3. CASE UNCHANGED sbrkVars
    BY <2>1, <2>3, PoolStays DEF sbrkVars
  <2> QED BY <2>2, <2>3
<1>3. PoolInv => PoolExact
  BY DEF PoolInv
<1> QED BY <1>1, <1>2, <1>3, PTL DEF SbrkSpec
=============================================================================
