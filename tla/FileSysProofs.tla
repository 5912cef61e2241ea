--------------------------- MODULE FileSysProofs ----------------------------
(***************************************************************************)
(* Proofs about the file system of FileSys.tla, for every number of files, *)
(* sectors, entries and crashes.                                           *)
(*                                                                         *)
(* FileSysInv is inductive: the marked sectors are divided among metadata, *)
(* the files that are listed or open, the operation in progress and what   *)
(* was lost.  A step of an operation that is no file's business yet (or no *)
(* longer) is covered by OffFiles; a step on entries and open files by     *)
(* FilesStep, where a file that ceases to exist leaves its sectors to the  *)
(* release that follows.                                                   *)
(***************************************************************************)
EXTENDS FileSys, FiniteSetTheorems, WellFoundedInduction, TLAPS

(* The smallest of some natural numbers.                                   *)
LEMMA MinNat ==
  ASSUME NEW S \in SUBSET Nat, S # {}
  PROVE  Min(S) \in S /\ \A x \in S : Min(S) <= x
<1> DEFINE Upto(m) == S \cap (0..m)
           F == {Upto(m) : m \in S}
<1>1. F \subseteq FiniteSubsetsOf(Nat) /\ F # {}
  <2>1. \A m \in S : IsFiniteSet(Upto(m))
    <3> SUFFICES ASSUME NEW m \in S PROVE IsFiniteSet(Upto(m))
      OBVIOUS
    <3>1. IsFiniteSet(0..m)
      BY FS_Interval
    <3> QED BY <3>1, FS_Subset
  <2> QED BY <2>1 DEF FiniteSubsetsOf
<1>2. \E T \in F : \A U \in F : ~(<<U, T>> \in StrictSubsetOrdering(Nat))
  <2> HIDE DEF F
  <2> QED BY <1>1, FS_StrictSubsetOrderingWellFounded, WFMin
<1>3. PICK m \in S : \A n \in S : ~(<<Upto(n), Upto(m)>> \in StrictSubsetOrdering(Nat))
  BY <1>2
<1>4. \A n \in S : m <= n
  <2> SUFFICES ASSUME NEW n \in S, n < m PROVE FALSE
    OBVIOUS
  <2>1. Upto(n) \subseteq Upto(m) /\ m \in Upto(m) /\ m \notin Upto(n)
    OBVIOUS
  <2> QED BY <1>3, <2>1 DEF StrictSubsetOrdering
<1> QED BY <1>4 DEF Min

(* bitmap_scan_and_flip() finds sectors of the device that are free.       *)
LEMMA FirstRun ==
  ASSUME NEW cnt \in Nat, Runs(cnt) # {}
  PROVE  /\ Min(Runs(cnt)) \in Sector
         /\ SectorRun(Min(Runs(cnt)), cnt) \subseteq Sector \ free_map
         /\ cnt = 1 => SectorRun(Min(Runs(cnt)), cnt) = {Min(Runs(cnt))}
<1>1. Runs(cnt) \in SUBSET Nat
  BY FSSectors DEF Runs
<1>2. Min(Runs(cnt)) \in Runs(cnt) /\ \A x \in Runs(cnt) : Min(Runs(cnt)) <= x
  BY <1>1, MinNat
<1> DEFINE s == Min(Runs(cnt))
<1> HIDE DEF s
<1>3. s \in 0 .. NSectors - cnt /\ SectorRun(s, cnt) \cap free_map = {}
  BY <1>2 DEF Runs, s
<1>4. SectorRun(s, cnt) \subseteq Sector
  BY <1>3, FSSectors DEF SectorRun, Sector
<1>5. s \in Sector
  <2>1. CASE cnt = 0
    <3>1. 0 \in Runs(cnt)
      BY <2>1, FSSectors DEF Runs, SectorRun
    <3> QED BY <1>2, <1>3, <3>1, FSSectors DEF s, Sector
  <2>2. CASE cnt > 0
    BY <1>3, <2>2, FSSectors DEF Sector
  <2> QED BY <2>1, <2>2
<1>6. cnt = 1 => SectorRun(s, cnt) = {s}
  BY <1>3, FSSectors DEF SectorRun
<1> QED BY <1>3, <1>4, <1>5, <1>6 DEF s

(* The fields of the operation in progress, and its next step.             *)
LEMMA OpFields ==
  ASSUME OpType
  PROVE  /\ op.at \in Labels /\ (op.at = "idle" <=> op = Idle)
         /\ op.at \in Creating => /\ op.name \in Name /\ op.size \in Sizes
                                  /\ op.sector \in Sector /\ op.start \in Sector
                                  /\ \A l \in Creating :
                                       [op EXCEPT !.at = l] =
                                         [at |-> l, name |-> op.name, size |-> op.size,
                                          sector |-> op.sector, start |-> op.start]
         /\ op.at \in Releasing => /\ op.size \in Sizes \cup {0}
                                   /\ op.sector \in Sector /\ op.start \in Sector
                                   /\ \A l \in Releasing :
                                        [op EXCEPT !.at = l] =
                                          [at |-> l, size |-> op.size,
                                           sector |-> op.sector, start |-> op.start]
<1>1. CASE op = Idle
  BY <1>1 DEF Idle, Labels, Creating, Releasing
<1>2. CASE op \in [at : Creating, name : Name, size : Sizes, sector : Sector, start : Sector]
  BY <1>2 DEF Idle, Labels, Creating, Releasing
<1>3. CASE op \in [at : Releasing, size : Sizes \cup {0}, sector : Sector, start : Sector]
  BY <1>3 DEF Idle, Labels, Creating, Releasing
<1> QED BY <1>1, <1>2, <1>3 DEF OpType

LEMMA OpGoto ==
  ASSUME OpType, NEW l, Goto(l),
         (op.at \in Creating /\ l \in Creating) \/ (op.at \in Releasing /\ l \in Releasing)
  PROVE  /\ OpType' /\ op'.at = l /\ op'.sector = op.sector
         /\ op'.start = op.start /\ op'.size = op.size /\ OpRun' = OpRun
         /\ op.at \in Creating => op'.name = op.name
<1>1. CASE op.at \in Creating /\ l \in Creating
  <2>1. op' = [at |-> l, name |-> op.name, size |-> op.size,
               sector |-> op.sector, start |-> op.start]
    BY <1>1, OpFields DEF Goto
  <2> QED BY <1>1, <2>1, OpFields DEF OpType, OpRun, SectorRun, Sector
<1>2. CASE op.at \in Releasing /\ l \in Releasing
  <2>1. op' = [at |-> l, size |-> op.size, sector |-> op.sector, start |-> op.start]
    BY <1>2, OpFields DEF Goto
  <2>2. op.at \notin Creating
    BY <1>2 DEF Creating, Releasing
  <2> QED BY <1>2, <2>1, <2>2, OpFields DEF OpType, OpRun, SectorRun, Sector
<1> QED BY <1>1, <1>2

LEMMA OpNextAt ==
  ASSUME OpType'
  PROVE  op'.at \in Labels
BY DEF OpType, Labels, Creating, Releasing, Idle

LEMMA OpReturn ==
  ASSUME Return
  PROVE  /\ OpType' /\ op' = Idle /\ op'.at = "idle" /\ OpSectors' = {}
BY DEF Return, OpType, Idle, OpSectors

-----------------------------------------------------------------------------
(* Files.                                                                  *)
LEMMA ExtentIs ==
  ASSUME NEW s
  PROVE  Extent(s) = {s} \cup DataRun(s)
BY DEF Extent, DataRun

LEMMA FilesSame ==
  ASSUME UNCHANGED <<dinode, dir>>
  PROVE  /\ Listed' = Listed
         /\ \A s : Extent(s)' = Extent(s) /\ DataRun(s)' = DataRun(s)
<1>1. \A s : Extent(s)' = Extent(s) /\ DataRun(s)' = DataRun(s)
  BY DEF Extent, DataRun, SectorRun
<1>2. Listed' = Listed
  BY DEF Listed
<1> QED BY <1>1, <1>2

LEMMA ListedType ==
  ASSUME TypeOK
  PROVE  /\ Listed \subseteq Sector /\ Live \subseteq Sector
         /\ \A i \in 1..DirEntries : dir[i].in_use => dir[i].sector \in Listed
         /\ \A s \in Listed : \E i \in 1..DirEntries : dir[i].in_use /\ dir[i].sector = s
<1>1. \A i \in 1..DirEntries : dir[i].sector \in Sector
  BY DEF TypeOK
<1>2. Listed \subseteq Sector
  BY <1>1 DEF Listed
<1> QED BY <1>2 DEF TypeOK, Listed, Live

(* Steps that leave the open files alone.                                  *)
LEMMA OpenSame ==
  ASSUME FileSysInv, UNCHANGED <<open_inodes, file>>,
         \A s \in DOMAIN open_inodes : dinode'[s] = dinode[s] /\ (s \in Listed' <=> s \in Listed)
  PROVE  InodesCurrent' /\ CountsExact'
<1>1. InodesCurrent'
  BY DEF FileSysInv, InodesCurrent
<1>2. CountsExact'
  BY DEF FileSysInv, CountsExact, Users, Free, NoFile
<1> QED BY <1>1, <1>2

(* Steps that leave the files and their data alone but mark, write or      *)
(* release sectors for the operation in progress.                          *)
LEMMA OffFiles ==
  ASSUME FileSysInv, UNCHANGED <<dir, open_inodes, file, crashes>>,
         dinode' \in [Sector -> [start : Sector, length : Sizes \cup {0}, magic : BOOLEAN]],
         content' \in [Sector -> Sector],
         \A s \in Live : dinode'[s] = dinode[s],
         \A s \in Listed : \A d \in DataRun(s) : content'[d] = content[d],
         OpType', OpOrdered', dmap' = free_map', lost' \subseteq free_map',
         free_map' \subseteq Sector,
         free_map \ OpSectors \subseteq free_map',
         lost \subseteq lost', OpSectors' \subseteq free_map',
         lost' \cap OpSectors' = {},
         \A d \in free_map' : d \in free_map \ OpSectors \/ d \in lost' \/ d \in OpSectors',
         \A d \in OpSectors' : d \in OpSectors \/ d \notin free_map,
         \A d \in lost' : d \in OpSectors \/ d \in lost
  PROVE  FileSysInv'
<1>0. /\ TypeOK /\ OpType /\ SpaceDivided /\ NamesUnique /\ InodesCurrent /\ OpOrdered
      /\ CountsExact /\ NoForeignData
  BY DEF FileSysInv
<1>1. /\ Listed' = Listed /\ Live' = Live
      /\ \A s \in Live : Extent(s)' = Extent(s) /\ DataRun(s)' = DataRun(s)
  <2>1. Listed' = Listed
    BY DEF Listed
  <2>2. \A s \in Live : Extent(s)' = Extent(s) /\ DataRun(s)' = DataRun(s)
    BY DEF Extent, DataRun, SectorRun
  <2> QED BY <2>1, <2>2 DEF Live
<1>2. TypeOK'
  <2>1. lost' \subseteq Sector /\ dmap' \subseteq Sector /\ free_map' \subseteq Sector
    OBVIOUS
  <2>2. op'.at \in Labels
    BY OpNextAt
  <2> QED BY <1>0, <2>1, <2>2 DEF TypeOK
<1>3. SpaceDivided'
  <2>1. dmap' = free_map' /\ MetaSectors \subseteq free_map'
    BY <1>0 DEF SpaceDivided
  <2>2. ASSUME NEW s \in Live
        PROVE  /\ Extent(s) \subseteq free_map' \ MetaSectors /\ s \notin DataRun(s)
               /\ Extent(s) \cap OpSectors' = {} /\ Extent(s) \cap lost' = {}
    <3>1. /\ Extent(s) \subseteq free_map \ MetaSectors /\ s \notin DataRun(s)
          /\ Extent(s) \cap OpSectors = {} /\ Extent(s) \cap lost = {}
      BY <1>0 DEF SpaceDivided
    <3> QED BY <3>1
  <2>3. \A s, t \in Live : s # t => Extent(s) \cap Extent(t) = {}
    BY <1>0 DEF SpaceDivided
  <2>4. OpSectors' \subseteq free_map' \ MetaSectors /\ lost' \subseteq free_map' \ MetaSectors
    BY <1>0 DEF SpaceDivided
  <2>5. ASSUME NEW d \in free_map'
        PROVE  d \in MetaSectors \cup lost' \cup OpSectors' \/ \E s \in Live : d \in Extent(s)
    BY <1>0 DEF SpaceDivided
  <2> QED BY <1>1, <2>1, <2>2, <2>3, <2>4, <2>5 DEF SpaceDivided, MetaSectors
<1>4. NamesUnique'
  BY <1>0, <1>1 DEF NamesUnique, Live
<1>5. InodesCurrent' /\ CountsExact'
  BY <1>1, OpenSame DEF Live
<1>6. NoForeignData'
  <2>1. \A s \in Listed : dinode'[s] = dinode[s]
    BY DEF Live
  <2> QED BY <1>0, <1>1, <2>1 DEF NoForeignData, SectorRun, DataRun
<1> QED BY <1>2, <1>3, <1>4, <1>5, <1>6 DEF FileSysInv

(* The same, when no sector but the free map is written.                   *)
LEMMA OpStep ==
  ASSUME FileSysInv, UNCHANGED <<dinode, dir, content, open_inodes, file, crashes>>,
         OpType', OpOrdered', dmap' = free_map', lost' \subseteq free_map',
         free_map' \subseteq Sector,
         free_map \ OpSectors \subseteq free_map',
         lost \subseteq lost', OpSectors' \subseteq free_map',
         lost' \cap OpSectors' = {},
         \A d \in free_map' : d \in free_map \ OpSectors \/ d \in lost' \/ d \in OpSectors',
         \A d \in OpSectors' : d \in OpSectors \/ d \notin free_map,
         \A d \in lost' : d \in OpSectors \/ d \in lost
  PROVE  FileSysInv'
<1>1. /\ dinode' \in [Sector -> [start : Sector, length : Sizes \cup {0}, magic : BOOLEAN]]
      /\ content' \in [Sector -> Sector]
  BY DEF FileSysInv, TypeOK
<1> QED BY <1>1, OffFiles

LEMMA CreateStep ==
  ASSUME FileSysInv, NEW n \in Name, NEW size \in Sizes, Create(n, size)
  PROVE  FileSysInv'
<1>0. /\ TypeOK /\ OpType /\ SpaceDivided /\ op = Idle
      /\ UNCHANGED <<dinode, dir, content, open_inodes, file, lost, crashes>>
      /\ OpSectors = {} /\ dmap = free_map /\ free_map \subseteq Sector
      /\ lost \subseteq free_map
  BY DEF FileSysInv, Create, OpSectors, Idle, SpaceDivided, TypeOK
<1>1. CASE Runs(1) = {}
  <2>1. UNCHANGED <<free_map, dmap, op>>
    BY <1>1 DEF Create
  <2>2. OpType' /\ OpOrdered' /\ OpSectors' = {}
    BY <1>0, <2>1 DEF OpType, OpOrdered, OpSectors, Idle, Sector
  <2> QED BY <1>0, <2>1, <2>2, OpStep
<1>2. CASE Runs(1) # {}
  <2> DEFINE s == Min(Runs(1))
  <2>1. s \in Sector /\ s \notin free_map
    BY <1>2, FirstRun
  <2>2. /\ Mark({s})
        /\ op' = [at |-> "data", name |-> n, size |-> size, sector |-> s, start |-> 0]
    BY <1>2 DEF Create
  <2> HIDE DEF s
  <2>3. free_map' = free_map \cup {s} /\ dmap' = free_map'
    BY <2>2 DEF Mark
  <2>4. OpType' /\ OpOrdered' /\ OpSectors' = {s}
    BY <2>1, <2>2, FSSectors DEF OpType, OpOrdered, OpSectors, Creating, Sector
  <2> QED BY <1>0, <2>1, <2>3, <2>4, OpStep
<1> QED BY <1>1, <1>2

LEMMA AllocateStep ==
  ASSUME FileSysInv, AllocateData
  PROVE  FileSysInv'
<1>0. /\ TypeOK /\ OpType /\ SpaceDivided /\ op.at = "data" /\ op.at \in Creating
      /\ UNCHANGED <<dinode, dir, content, open_inodes, file, lost, crashes>>
      /\ OpSectors = {op.sector} /\ dmap = free_map /\ free_map \subseteq Sector
      /\ lost \subseteq free_map /\ lost \cap OpSectors = {} /\ OpSectors \subseteq free_map
  BY DEF FileSysInv, AllocateData, At, OpSectors, Creating, SpaceDivided, TypeOK
<1>1. CASE Goto("fail") /\ UNCHANGED <<free_map, dmap>>
  <2>1. OpType' /\ op'.at = "fail" /\ op'.sector = op.sector
    <3>1. "fail" \in Creating /\ Goto("fail") /\ OpType /\ op.at \in Creating
      BY <1>0, <1>1 DEF Creating
    <3> DEFINE l == "fail"
    <3>2. l \in Creating /\ Goto(l)
      BY <3>1
    <3>3. (op.at \in Creating /\ l \in Creating) \/ (op.at \in Releasing /\ l \in Releasing)
      BY <3>1, <3>2
    <3> HIDE DEF l
    <3>4. OpType' /\ op'.at = l /\ op'.sector = op.sector
      BY <3>1, <3>2, <3>3, OpGoto
    <3> QED BY <3>4 DEF l
  <2>2. OpOrdered' /\ OpSectors' = {op.sector}
    BY <2>1 DEF OpOrdered, OpSectors
  <2> QED BY <1>0, <1>1, <2>1, <2>2, OpStep
<1>2. CASE /\ Runs(op.size) # {}
           /\ Mark(SectorRun(Min(Runs(op.size)), op.size))
           /\ op' = [op EXCEPT !.at = "inode", !.start = Min(Runs(op.size))]
  <2> DEFINE s == Min(Runs(op.size))
             run == SectorRun(s, op.size)
  <2>1. op.size \in Nat /\ op.name \in Name /\ op.size \in Sizes /\ op.sector \in Sector
    BY <1>0, OpFields, FSSizes
  <2>2. s \in Sector /\ run \subseteq Sector \ free_map
    BY <1>2, <2>1, FirstRun
  <2>3. /\ free_map' = free_map \cup run /\ dmap' = free_map'
        /\ op' = [op EXCEPT !.at = "inode", !.start = s]
    BY <1>2 DEF Mark
  <2> HIDE DEF s
  <2>4. op' = [at |-> "inode", name |-> op.name, size |-> op.size,
               sector |-> op.sector, start |-> s]
    <3>1. op \in [at : Creating, name : Name, size : Sizes, sector : Sector, start : Sector]
      BY <1>0 DEF OpType, Creating, Releasing, Idle
    <3> QED BY <2>3, <3>1
  <2>5. OpType' /\ op'.at = "inode" /\ op'.sector = op.sector /\ OpRun' = run
    BY <2>1, <2>2, <2>4 DEF OpType, Creating, OpRun, SectorRun, Sector
  <2> HIDE DEF run
  <2>6. op.sector \notin run
    BY <1>0, <2>2
  <2>7. OpOrdered' /\ OpSectors' = {op.sector} \cup run
    BY <2>5, <2>6 DEF OpOrdered, OpSectors
  <2> QED BY <1>0, <2>2, <2>3, <2>5, <2>7, OpStep
<1> QED BY <1>1, <1>2 DEF AllocateData

(* A failed creation, and the two steps of a release.                      *)
LEMMA ReleaseSteps ==
  ASSUME FileSysInv, CreateFails \/ ReleaseInode \/ ReleaseData
  PROVE  FileSysInv'
<1>0. /\ TypeOK /\ OpType /\ SpaceDivided /\ OpOrdered /\ op.at \in {"fail", "release", "releaseData"}
      /\ UNCHANGED <<dinode, dir, content, open_inodes, file, lost, crashes>>
      /\ dmap = free_map /\ free_map \subseteq Sector
      /\ lost \subseteq free_map /\ lost \cap OpSectors = {} /\ OpSectors \subseteq free_map
  BY DEF FileSysInv, CreateFails, ReleaseInode, ReleaseData, At, SpaceDivided, TypeOK
<1>1. CASE CreateFails \/ ReleaseData
  <2>1. Release(OpSectors) /\ Return
    BY <1>1 DEF CreateFails, ReleaseData, At, OpSectors, OpRun
  <2>2. OpType' /\ OpSectors' = {} /\ OpOrdered'
    BY <2>1, OpReturn DEF OpOrdered
  <2>3. free_map' = free_map \ OpSectors /\ dmap' = free_map'
    BY <2>1 DEF Release
  <2> QED BY <1>0, <2>2, <2>3, OpStep
<1>2. CASE ReleaseInode
  <2>1. op.at = "release" /\ Release({op.sector}) /\ Goto("releaseData")
    BY <1>2 DEF ReleaseInode, At
  <2>2. OpType' /\ op'.at = "releaseData" /\ OpRun' = OpRun
    BY <1>0, <2>1, OpGoto DEF Releasing
  <2>3. OpSectors = {op.sector} \cup OpRun /\ op.sector \notin OpRun /\ OpSectors' = OpRun
    BY <1>0, <2>1, <2>2 DEF OpSectors, OpOrdered
  <2>4. OpOrdered'
    BY <2>2 DEF OpOrdered
  <2>5. free_map' = free_map \ {op.sector} /\ dmap' = free_map'
    BY <2>1 DEF Release
  <2> QED BY <1>0, <2>2, <2>3, <2>4, <2>5, OpStep
<1> QED BY <1>1, <1>2
(* The writes of inode_create(): the inode and the data of the new file    *)
(* are no other file's.                                                    *)
LEMMA NewFileApart ==
  ASSUME FileSysInv, op.at \in {"inode", "zero", "add"}
  PROVE  /\ OpType /\ TypeOK /\ op.at \in Creating /\ OpSectors = {op.sector} \cup OpRun
         /\ op.sector \in Sector /\ op.start \in Sector /\ op.size \in Sizes
         /\ op.name \in Name /\ op.sector \notin OpRun /\ op.sector \notin Live
         /\ \A s \in Live : Extent(s) \cap OpSectors = {} /\ s # op.sector
         /\ dmap = free_map /\ free_map \subseteq Sector
         /\ lost \subseteq free_map /\ lost \cap OpSectors = {} /\ OpSectors \subseteq free_map
<1>1. TypeOK /\ OpType /\ SpaceDivided /\ OpOrdered
  BY DEF FileSysInv
<1>2. op.at \in Creating
  BY DEF Creating
<1>3. OpSectors = {op.sector} \cup OpRun /\ op.sector \notin OpRun
  BY <1>1 DEF OpSectors, OpOrdered
<1>4. \A s \in Live : Extent(s) \cap OpSectors = {} /\ s \in Extent(s)
  BY <1>1 DEF SpaceDivided, Extent
<1>5. /\ dmap = free_map /\ free_map \subseteq Sector
      /\ lost \subseteq free_map /\ lost \cap OpSectors = {} /\ OpSectors \subseteq free_map
  BY <1>1 DEF SpaceDivided, TypeOK
<1>6. /\ op.sector \in Sector /\ op.start \in Sector /\ op.size \in Sizes /\ op.name \in Name
  BY <1>1, <1>2, OpFields
<1> QED BY <1>1, <1>2, <1>3, <1>4, <1>5, <1>6

LEMMA CreatingGoto ==
  ASSUME OpType, op.at \in Creating, NEW l \in Creating, Goto(l)
  PROVE  /\ OpType' /\ op'.at = l /\ op'.sector = op.sector
         /\ op'.start = op.start /\ op'.size = op.size /\ OpRun' = OpRun
BY OpGoto

LEMMA WriteInodeStep ==
  ASSUME FileSysInv, WriteInode
  PROVE  FileSysInv'
<1>1. /\ op.at = "inode" /\ Goto("zero")
      /\ UNCHANGED <<dmap, dir, content, free_map, open_inodes, file, lost, crashes>>
  BY DEF WriteInode, At, memory
<1> DEFINE rec == [start |-> op.start, length |-> op.size, magic |-> TRUE]
<1>2. /\ OpType /\ TypeOK /\ op.at \in Creating /\ OpSectors = {op.sector} \cup OpRun
      /\ op.sector \in Sector /\ op.start \in Sector /\ op.size \in Sizes
      /\ op.sector \notin OpRun /\ op.sector \notin Live
      /\ dmap = free_map /\ free_map \subseteq Sector
      /\ lost \subseteq free_map /\ lost \cap OpSectors = {} /\ OpSectors \subseteq free_map
  BY <1>1, NewFileApart
<1>3. rec \in [start : Sector, length : Sizes \cup {0}, magic : BOOLEAN]
  BY <1>2
<1>4. dinode' = [dinode EXCEPT ![op.sector] = rec]
  BY DEF WriteInode
<1>5. OpType' /\ op'.at = "zero" /\ op'.sector = op.sector /\ OpRun' = OpRun
      /\ op'.start = op.start /\ op'.size = op.size
  <2>1. "zero" \in Creating
    BY DEF Creating
  <2> QED BY <1>1, <1>2, <2>1, CreatingGoto
<1> DEFINE Inode == [start : Sector, length : Sizes \cup {0}, magic : BOOLEAN]
<1>6. dinode \in [Sector -> Inode] /\ content' \in [Sector -> Sector]
  BY <1>1, <1>2 DEF TypeOK
<1>7. dinode'[op.sector] = rec
  BY <1>2, <1>4, <1>6
<1>8. OpOrdered' /\ OpSectors' = OpSectors
  BY <1>2, <1>5, <1>7 DEF OpOrdered, OpSectors
<1> HIDE DEF rec
<1>9. dinode' \in [Sector -> Inode] /\ \A s \in Live : dinode'[s] = dinode[s]
  <2>1. \A s \in Live : s \in Sector /\ s # op.sector
    BY <1>2, ListedType
  <2> HIDE DEF Inode
  <2>2. rec \in Inode
    BY <1>3 DEF Inode
  <2> QED BY <1>2, <1>4, <1>6, <2>1, <2>2
<1> QED BY <1>1, <1>2, <1>5, <1>6, <1>8, <1>9, OffFiles

LEMMA WriteZerosStep ==
  ASSUME FileSysInv, WriteZeros
  PROVE  FileSysInv'
<1>1. /\ op.at = "zero" /\ Goto("add")
      /\ UNCHANGED <<dmap, dir, dinode, free_map, open_inodes, file, lost, crashes>>
  BY DEF WriteZeros, At, memory
<1>2. /\ OpType /\ TypeOK /\ op.at \in Creating /\ OpSectors = {op.sector} \cup OpRun
      /\ op.sector \in Sector /\ op.start \in Sector /\ op.size \in Sizes
      /\ op.sector \notin OpRun /\ op.sector \notin Live
      /\ dmap = free_map /\ free_map \subseteq Sector
      /\ lost \subseteq free_map /\ lost \cap OpSectors = {} /\ OpSectors \subseteq free_map
      /\ \A s \in Live : Extent(s) \cap OpSectors = {}
  BY <1>1, NewFileApart
<1>3. content' = [s \in Sector |-> IF s \in OpRun THEN 0 ELSE content[s]]
  BY DEF WriteZeros, OpRun
<1>4. /\ OpType' /\ op'.at = "add" /\ op'.sector = op.sector /\ OpRun' = OpRun
      /\ op'.start = op.start /\ op'.size = op.size
  <2>1. "add" \in Creating
    BY DEF Creating
  <2> QED BY <1>1, <1>2, <2>1, CreatingGoto
<1>5. /\ content' \in [Sector -> Sector] /\ dinode' = dinode
      /\ dinode' \in [Sector -> [start : Sector, length : Sizes \cup {0}, magic : BOOLEAN]]
  <2>0. 0 \in Sector
    BY FSSectors DEF Sector
  <2>1. 0 \in Sector /\ content \in [Sector -> Sector]
    BY <1>2, <2>0 DEF TypeOK
  <2>2. content' \in [Sector -> Sector]
    BY <1>3, <2>1
  <2> QED BY <1>1, <1>2, <2>2 DEF TypeOK
<1>6. dinode[op.sector] = [start |-> op.start, length |-> op.size, magic |-> TRUE]
  BY <1>1 DEF FileSysInv, OpOrdered
<1>7. OpOrdered' /\ OpSectors' = OpSectors
  <2>1. OpRun \subseteq Sector
    BY <1>2
  <2>2. \A d \in OpRun : content'[d] = 0
    BY <1>3, <2>1
  <2> QED BY <1>1, <1>2, <1>4, <1>6, <2>2 DEF OpOrdered, OpSectors
<1>8. \A s \in Listed : \A d \in DataRun(s) : content'[d] = content[d]
  <2> SUFFICES ASSUME NEW s \in Listed, NEW d \in DataRun(s) PROVE content'[d] = content[d]
    OBVIOUS
  <2>1. s \in Live /\ d \in Extent(s)
    BY ExtentIs DEF Live
  <2>2. d \notin OpRun
    BY <1>2, <2>1
  <2>3. d \in Sector
    BY <2>1, <1>2 DEF FileSysInv, SpaceDivided
  <2> QED BY <1>3, <2>2, <2>3
<1> QED BY <1>1, <1>2, <1>4, <1>5, <1>7, <1>8, OffFiles
-----------------------------------------------------------------------------
(* dir_add().                                                              *)
LEMMA FreeSlot ==
  ASSUME FreeSlots # {}
  PROVE  Min(FreeSlots) \in 1..DirEntries /\ ~dir[Min(FreeSlots)].in_use
<1>1. FreeSlots \in SUBSET Nat
  BY FSEntries DEF FreeSlots
<1>2. Min(FreeSlots) \in FreeSlots
  BY <1>1, MinNat
<1> QED BY <1>2 DEF FreeSlots

(* Filling an unused entry and erasing an entry.                           *)
DirWith(k, e) == [dir EXCEPT ![k] = e]
LEMMA EntryAdded ==
  ASSUME TypeOK, NEW k \in 1..DirEntries, ~dir[k].in_use,
         NEW n \in Name, NEW s \in Sector,
         dir' = DirWith(k, [name |-> n, sector |-> s, in_use |-> TRUE])
  PROVE  /\ dir' \in [1..DirEntries -> [name : Name \cup {""}, sector : Sector, in_use : BOOLEAN]]
         /\ Listed' = Listed \cup {s}
         /\ \A i \in 1..DirEntries : i # k => dir'[i] = dir[i]
         /\ dir'[k].in_use /\ dir'[k].name = n /\ dir'[k].sector = s
<1> DEFINE E == [name : Name \cup {""}, sector : Sector, in_use : BOOLEAN]
           e == [name |-> n, sector |-> s, in_use |-> TRUE]
<1>1. dir \in [1..DirEntries -> E] /\ e \in E
  BY DEF TypeOK
<1>2. e.in_use /\ e.name = n /\ e.sector = s
  OBVIOUS
<1>3. dir' = [dir EXCEPT ![k] = e]
  BY DEF DirWith
<1> HIDE DEF E, e
<1>4. /\ dir' \in [1..DirEntries -> E] /\ dir'[k] = e
      /\ \A i \in 1..DirEntries : i # k => dir'[i] = dir[i]
  BY <1>1, <1>3
<1>5. Listed' = Listed \cup {s}
  <2>1. \A x : x \in Listed' <=> \E i \in 1..DirEntries : dir'[i].in_use /\ dir'[i].sector = x
    BY DEF Listed
  <2>2. \A x : x \in Listed <=> \E i \in 1..DirEntries : dir[i].in_use /\ dir[i].sector = x
    BY DEF Listed
  <2>3. s \in Listed'
    <3>1. dir'[k].in_use
      BY <1>2, <1>4, Zenon
    <3>2. dir'[k].sector = s
      BY <1>2, <1>4, Zenon
    <3> QED BY <2>1, <3>1, <3>2, Zenon
  <2>4. ASSUME NEW x \in Listed PROVE x \in Listed'
    <3>1. PICK i \in 1..DirEntries : dir[i].in_use /\ dir[i].sector = x
      BY <2>2
    <3>2. i # k
      BY <3>1
    <3> QED BY <1>4, <2>1, <3>1, <3>2
  <2>5. ASSUME NEW x \in Listed', x # s PROVE x \in Listed
    <3>1. PICK i \in 1..DirEntries : dir'[i].in_use /\ dir'[i].sector = x
      BY <2>1
    <3>2. i # k
      BY <1>2, <1>4, <2>5, <3>1
    <3> QED BY <1>4, <2>2, <3>1, <3>2
  <2> QED BY <2>3, <2>4, <2>5
<1> QED BY <1>2, <1>4, <1>5 DEF E

LEMMA EntryErased ==
  ASSUME TypeOK, NamesUnique, NEW k \in 1..DirEntries, dir[k].in_use,
         dir' = DirWith(k, FreeEntry)
  PROVE  /\ dir' \in [1..DirEntries -> [name : Name \cup {""}, sector : Sector, in_use : BOOLEAN]]
         /\ Listed' = Listed \ {dir[k].sector} /\ dir[k].sector \in Listed
         /\ \A i \in 1..DirEntries : i # k => dir'[i] = dir[i]
         /\ ~dir'[k].in_use
<1> DEFINE E == [name : Name \cup {""}, sector : Sector, in_use : BOOLEAN]
<1>1. dir \in [1..DirEntries -> E] /\ FreeEntry \in E /\ ~FreeEntry.in_use
  <2>1. 0 \in Sector
    BY FSSectors DEF Sector
  <2> QED BY <2>1 DEF TypeOK, FreeEntry
<1>2. dir' = [dir EXCEPT ![k] = FreeEntry]
  BY DEF DirWith
<1> HIDE DEF E
<1>3. /\ dir' \in [1..DirEntries -> E] /\ dir'[k] = FreeEntry
      /\ \A i \in 1..DirEntries : i # k => dir'[i] = dir[i]
  BY <1>1, <1>2
<1>4. Listed' = Listed \ {dir[k].sector} /\ dir[k].sector \in Listed
  <2>1. \A x : x \in Listed' <=> \E i \in 1..DirEntries : dir'[i].in_use /\ dir'[i].sector = x
    BY DEF Listed
  <2>2. \A x : x \in Listed <=> \E i \in 1..DirEntries : dir[i].in_use /\ dir[i].sector = x
    BY DEF Listed
  <2>3. \A i \in 1..DirEntries : dir[i].in_use /\ i # k => dir[i].sector # dir[k].sector
    BY DEF NamesUnique
  <2> QED BY <1>1, <1>3, <2>1, <2>2, <2>3
<1> QED BY <1>1, <1>3, <1>4 DEF E

LEMMA AddEntryStep ==
  ASSUME FileSysInv, AddEntry
  PROVE  FileSysInv'
<1>1. /\ op.at = "add"
      /\ UNCHANGED <<dmap, dinode, content, free_map, open_inodes, file, crashes>>
  BY DEF AddEntry, At, memory
<1>2. /\ OpType /\ TypeOK /\ op.at \in Creating /\ OpSectors = {op.sector} \cup OpRun
      /\ op.sector \in Sector /\ op.name \in Name
      /\ op.sector \notin OpRun /\ op.sector \notin Live
      /\ dmap = free_map /\ free_map \subseteq Sector
      /\ lost \subseteq free_map /\ lost \cap OpSectors = {} /\ OpSectors \subseteq free_map
      /\ \A s \in Live : Extent(s) \cap OpSectors = {} /\ s # op.sector
  BY <1>1, NewFileApart
<1>3. CASE Entry(op.name) # {} \/ FreeSlots = {}
  <2>1. Goto("fail") /\ dir' = dir /\ lost' = lost \cup OpRun
    BY <1>3 DEF AddEntry, OpRun
  <2>2. OpType' /\ op'.at = "fail" /\ op'.sector = op.sector
    <3>1. "fail" \in Creating
      BY DEF Creating
    <3> QED BY <1>2, <2>1, <3>1, CreatingGoto
  <2>3. OpSectors' = {op.sector} /\ OpOrdered'
    BY <2>2 DEF OpSectors, OpOrdered
  <2> QED BY <1>1, <1>2, <2>1, <2>2, <2>3, OpStep
<1>4. CASE Entry(op.name) = {} /\ FreeSlots # {}
  <2> DEFINE k == Min(FreeSlots)
  <2>1. /\ dir' = DirWith(k, [name |-> op.name, sector |-> op.sector, in_use |-> TRUE])
        /\ Return /\ lost' = lost
    BY <1>4 DEF AddEntry, DirWith
  <2>2. k \in 1..DirEntries /\ ~dir[k].in_use
    BY <1>4, FreeSlot
  <2> HIDE DEF k
  <2>3. /\ dir' \in [1..DirEntries -> [name : Name \cup {""}, sector : Sector, in_use : BOOLEAN]]
        /\ Listed' = Listed \cup {op.sector}
        /\ \A i \in 1..DirEntries : i # k => dir'[i] = dir[i]
        /\ dir'[k].in_use /\ dir'[k].name = op.name /\ dir'[k].sector = op.sector
    BY <1>2, <2>1, <2>2, EntryAdded
  <2>4. OpType' /\ op' = Idle /\ op'.at = "idle" /\ OpSectors' = {}
    BY <2>1, OpReturn
  <2>5. /\ dinode[op.sector] = [start |-> op.start, length |-> op.size, magic |-> TRUE]
        /\ \A d \in OpRun : content[d] = 0
    BY <1>1 DEF FileSysInv, OpOrdered
  <2>6. DataRun(op.sector) = OpRun /\ Extent(op.sector) = OpSectors
    BY <1>2, <2>5, ExtentIs DEF DataRun, OpRun
  <2>7. /\ Live' = Live \cup {op.sector}
        /\ \A s : Extent(s)' = Extent(s) /\ DataRun(s)' = DataRun(s)
    BY <1>1, <2>3 DEF Live, Extent, DataRun, SectorRun
  <2>8. TypeOK'
    BY <1>1, <1>2, <2>1, <2>3, <2>4 DEF TypeOK, Labels
  <2>9. SpaceDivided'
    <3>1. SpaceDivided
      BY DEF FileSysInv
    <3>2. dmap' = free_map' /\ MetaSectors \subseteq free_map'
      BY <1>1, <3>1 DEF SpaceDivided
    <3>3. ASSUME NEW s \in Live'
          PROVE  /\ Extent(s) \subseteq free_map' \ MetaSectors /\ s \notin DataRun(s)
                 /\ Extent(s) \cap lost' = {}
      BY <1>1, <1>2, <2>1, <2>6, <2>7, <3>1 DEF SpaceDivided
    <3>4. ASSUME NEW s \in Live', NEW t \in Live', s # t
          PROVE  Extent(s) \cap Extent(t) = {}
      <4>1. \A u, v \in Live : u # v => Extent(u) \cap Extent(v) = {}
        BY <3>1 DEF SpaceDivided
      <4>2. \A u \in Live : Extent(u) \cap Extent(op.sector) = {}
        BY <1>2, <2>6
      <4>3. s \in Live \cup {op.sector} /\ t \in Live \cup {op.sector}
        BY <2>7
      <4> QED BY <3>4, <4>1, <4>2, <4>3
    <3>5. ASSUME NEW d \in free_map'
          PROVE  d \in MetaSectors \cup lost' \cup OpSectors' \/ \E s \in Live' : d \in Extent(s)
      BY <1>1, <2>1, <2>6, <2>7, <3>1 DEF SpaceDivided
    <3>6. lost' \subseteq free_map' \ MetaSectors
      BY <1>1, <2>1, <3>1 DEF SpaceDivided
    <3> QED BY <2>4, <2>7, <3>2, <3>3, <3>4, <3>5, <3>6 DEF SpaceDivided, MetaSectors
  <2>10. NamesUnique'
    <3>1. NamesUnique
      BY DEF FileSysInv
    <3>2. \A i \in 1..DirEntries : dir[i].in_use => dir[i].name # op.name
      BY <1>4 DEF Entry
    <3>3. \A i \in 1..DirEntries : dir[i].in_use => dir[i].sector # op.sector
      BY <1>2, ListedType DEF Live
    <3>4. \A s \in Listed' : dinode'[s].magic
      <4>1. \A s \in Listed : dinode[s].magic
        BY <3>1 DEF NamesUnique
      <4>2. dinode[op.sector].magic
        BY <2>5
      <4> QED BY <1>1, <2>3, <4>1, <4>2
    <3>5. ASSUME NEW i \in 1..DirEntries, NEW j \in 1..DirEntries,
                 dir'[i].in_use, dir'[j].in_use, i # j
          PROVE  dir'[i].name # dir'[j].name /\ dir'[i].sector # dir'[j].sector
      <4>1. CASE i # k /\ j # k
        <5>1. dir'[i] = dir[i] /\ dir'[j] = dir[j]
          BY <2>3, <4>1
        <5>2. dir[i].in_use /\ dir[j].in_use
          BY <3>5, <5>1, Zenon
        <5>3. dir[i].name # dir[j].name /\ dir[i].sector # dir[j].sector
          BY <3>1, <3>5, <5>2 DEF NamesUnique
        <5> QED BY <5>1, <5>3
      <4>2. CASE i = k
        <5>1. dir'[j] = dir[j]
          BY <2>3, <3>5, <4>2
        <5> QED BY <2>3, <3>2, <3>3, <3>5, <4>2, <5>1
      <4>3. CASE j = k
        <5>1. dir'[i] = dir[i]
          BY <2>3, <3>5, <4>3
        <5> QED BY <2>3, <3>2, <3>3, <3>5, <4>3, <5>1
      <4> QED BY <4>1, <4>2, <4>3
    <3> QED BY <3>4, <3>5 DEF NamesUnique
  <2>11. InodesCurrent' /\ CountsExact'
    BY <1>1, <1>2, <2>3, OpenSame DEF Live
  <2>12. OpOrdered'
    BY <2>4 DEF OpOrdered
  <2>13. NoForeignData'
    BY <1>1, <2>3, <2>5, <2>6, <2>7 DEF FileSysInv, NoForeignData, DataRun, SectorRun
  <2> QED BY <2>4, <2>8, <2>9, <2>10, <2>11, <2>12, <2>13 DEF FileSysInv
<1> QED BY <1>3, <1>4
-----------------------------------------------------------------------------
(* Steps on open files and entries, which write no inode and no data.  A   *)
(* file that ceases to exist leaves its sectors to the operation.          *)
InodeRecord == [open_cnt : Nat, deny : Nat, removed : BOOLEAN,
                start : Sector, length : Sizes \cup {0}]
OpenTypes ==
  /\ DOMAIN open_inodes \subseteq Sector
  /\ \A s \in DOMAIN open_inodes : open_inodes[s] \in InodeRecord
  /\ file \in [Handle -> [sector : Sector, deny : BOOLEAN]]

LEMMA FilesStep ==
  ASSUME FileSysInv, op = Idle,
         UNCHANGED <<dmap, dinode, content, free_map, lost, crashes>>,
         OpType', OpOrdered', OpenTypes',
         dir' \in [1..DirEntries -> [name : Name \cup {""}, sector : Sector, in_use : BOOLEAN]],
         Listed' \subseteq Listed, Live' \subseteq Live,
         NamesUnique', InodesCurrent', CountsExact',
         \A s \in Live : s \notin Live' => Extent(s) \subseteq OpSectors',
         \A d \in OpSectors' : \E s \in Live \ Live' : d \in Extent(s)
  PROVE  FileSysInv'
<1>0. TypeOK /\ SpaceDivided /\ NoForeignData /\ OpSectors = {}
  BY DEF FileSysInv, OpSectors, Idle
<1>1. \A s : Extent(s)' = Extent(s) /\ DataRun(s)' = DataRun(s)
  BY DEF Extent, DataRun, SectorRun
<1>2. TypeOK'
  <2>1. op'.at \in Labels
    BY OpNextAt
  <2> QED BY <1>0, <2>1 DEF TypeOK, OpenTypes, InodeRecord
<1>3. SpaceDivided'
  <2>1. /\ \A s \in Live : Extent(s) \subseteq free_map \ MetaSectors /\ s \notin DataRun(s)
        /\ \A s, t \in Live : s # t => Extent(s) \cap Extent(t) = {}
        /\ \A s \in Live : Extent(s) \cap lost = {}
        /\ \A d \in free_map : d \in MetaSectors \cup lost \/ \E s \in Live : d \in Extent(s)
        /\ dmap = free_map /\ MetaSectors \subseteq free_map
        /\ lost \subseteq free_map \ MetaSectors
    BY <1>0 DEF SpaceDivided
  <2>2. \A s \in Live' : Extent(s) \subseteq free_map \ MetaSectors /\ s \notin DataRun(s)
    BY <2>1
  <2>3. \A s, t \in Live' : s # t => Extent(s) \cap Extent(t) = {}
    BY <2>1
  <2>4. ASSUME NEW s \in Live' PROVE Extent(s) \cap OpSectors' = {} /\ Extent(s) \cap lost = {}
    <3>1. ASSUME NEW d \in Extent(s), d \in OpSectors' PROVE FALSE
      <4>1. PICK t \in Live \ Live' : d \in Extent(t)
        BY <3>1
      <4>2. s # t /\ s \in Live /\ t \in Live
        OBVIOUS
      <4> QED BY <2>1, <4>1, <4>2
    <3> QED BY <2>1, <3>1
  <2>5. OpSectors' \subseteq free_map \ MetaSectors /\ lost \cap OpSectors' = {}
    BY <2>1
  <2>6. ASSUME NEW d \in free_map
        PROVE  d \in MetaSectors \cup lost \cup OpSectors' \/ \E s \in Live' : d \in Extent(s)
    <3>1. CASE d \in MetaSectors \cup lost
      BY <3>1
    <3>2. CASE \E s \in Live : d \in Extent(s)
      <4>1. PICK s \in Live : d \in Extent(s)
        BY <3>2
      <4> QED BY <4>1
    <3> QED BY <2>1, <3>1, <3>2
  <2> QED BY <1>1, <2>1, <2>2, <2>3, <2>4, <2>5, <2>6 DEF SpaceDivided, MetaSectors
<1>4. NoForeignData'
  BY <1>0, <1>1 DEF NoForeignData, SectorRun
<1> QED BY <1>2, <1>3, <1>4 DEF FileSysInv

(* The users of an inode, and those who deny writes to it.                 *)
Denying(s) == {h \in Users(s) : file[h].deny}

LEMMA UsersFinite ==
  ASSUME NEW s
  PROVE  /\ IsFiniteSet(Users(s)) /\ IsFiniteSet(Denying(s))
         /\ Cardinality(Users(s)) \in Nat /\ Cardinality(Denying(s)) \in Nat
<1>1. Users(s) \subseteq Handle /\ Denying(s) \subseteq Handle
  BY DEF Users, Denying
<1>2. IsFiniteSet(Users(s)) /\ IsFiniteSet(Denying(s))
  BY <1>1, FSHandles, FS_Subset
<1> QED BY <1>2, FS_CardinalityType

LEMMA LiveFacts ==
  ASSUME FileSysInv
  PROVE  /\ \A s \in Live : s \in Sector /\ s # 0
         /\ \A s \in DOMAIN open_inodes :
              /\ s \in Live /\ open_inodes[s] \in InodeRecord
              /\ open_inodes[s].open_cnt = Cardinality(Users(s)) /\ open_inodes[s].open_cnt > 0
              /\ open_inodes[s].deny = Cardinality(Denying(s))
              /\ open_inodes[s].start = dinode[s].start
              /\ open_inodes[s].length = dinode[s].length
              /\ open_inodes[s].removed <=> s \notin Listed
         /\ \A h \in Handle : file[h] # NoFile => file[h].sector \in DOMAIN open_inodes
<1>1. TypeOK /\ SpaceDivided /\ InodesCurrent /\ CountsExact
  BY DEF FileSysInv
<1>2. \A s \in Live : s \in Sector /\ s # 0
  <2>1. \A s \in Live : s \in Extent(s) /\ Extent(s) \cap MetaSectors = {}
    BY <1>1 DEF SpaceDivided, Extent
  <2>2. 0 \in MetaSectors
    BY DEF MetaSectors
  <2> QED BY <1>1, <2>1, <2>2, ListedType
<1>3. \A s \in DOMAIN open_inodes : open_inodes[s] \in InodeRecord
  BY <1>1 DEF TypeOK, InodeRecord
<1>4. \A h \in Handle : file[h] # NoFile => file[h].sector \in DOMAIN open_inodes
  BY <1>1 DEF CountsExact, Free
<1> QED BY <1>1, <1>2, <1>3, <1>4 DEF InodesCurrent, CountsExact, Live, Denying

(* file[h] changes.                                                        *)
FileWith(h, f) == [file EXCEPT ![h] = f]
LEMMA UsersChange ==
  ASSUME TypeOK, NEW h \in Handle, NEW s \in Sector, NEW d \in BOOLEAN,
         file' = FileWith(h, [sector |-> s, deny |-> d])
  PROVE  /\ file' \in [Handle -> [sector : Sector, deny : BOOLEAN]]
         /\ file'[h].sector = s /\ file'[h].deny = d
         /\ \A g \in Handle : g # h => file'[g] = file[g]
         /\ \A t : t # s => Users(t)' = Users(t) \ {h} /\ Denying(t)' = Denying(t) \ {h}
         /\ s # 0 => /\ Users(s)' = Users(s) \cup {h}
                     /\ d => Denying(s)' = Denying(s) \cup {h}
                     /\ ~d => Denying(s)' = Denying(s) \ {h}
<1> DEFINE f == [sector |-> s, deny |-> d]
           F == [sector : Sector, deny : BOOLEAN]
<1>1. f \in F /\ f.sector = s /\ f.deny = d /\ (s # 0 => f # NoFile)
  BY DEF NoFile
<1>2. file \in [Handle -> F] /\ file' = [file EXCEPT ![h] = f]
  BY DEF TypeOK, FileWith
<1> HIDE DEF f, F
<1>3. file' \in [Handle -> F] /\ file'[h] = f /\ \A g \in Handle : g # h => file'[g] = file[g]
  BY <1>1, <1>2
<1>4. \A t : /\ \A g \in Handle : g # h => (g \in Users(t)' <=> g \in Users(t))
             /\ Users(t)' \subseteq Handle /\ Users(t) \subseteq Handle
  BY <1>3 DEF Users, NoFile
<1>5. \A t : /\ \A g \in Handle : g # h => (g \in Denying(t)' <=> g \in Denying(t))
             /\ Denying(t)' \subseteq Users(t)' /\ Denying(t) \subseteq Users(t)
  BY <1>3, <1>4 DEF Denying
<1>6. \A t : h \in Users(t)' => t = s
  BY <1>1, <1>3 DEF Users
<1>7. \A t : t # s => Users(t)' = Users(t) \ {h} /\ Denying(t)' = Denying(t) \ {h}
  BY <1>4, <1>5, <1>6
<1>8. ASSUME s # 0 PROVE Users(s)' = Users(s) \cup {h}
  <2>1. h \in Users(s)'
    BY <1>1, <1>3, <1>8 DEF Users, NoFile
  <2> QED BY <1>4, <2>1
<1>9. ASSUME s # 0, d PROVE Denying(s)' = Denying(s) \cup {h}
  <2>1. h \in Denying(s)'
    <3>1. h \in Users(s)'
      BY <1>8, <1>9
    <3>2. file'[h].deny
      BY <1>1, <1>3, <1>9, Zenon
    <3> QED BY <3>1, <3>2, Zenon DEF Denying
  <2> QED BY <1>4, <1>5, <2>1
<1>10. ASSUME ~d PROVE Denying(s)' = Denying(s) \ {h}
  <2>1. h \notin Denying(s)'
    <3>2. ~file'[h].deny
      BY <1>1, <1>3, <1>10, Zenon
    <3> QED BY <3>2, Zenon DEF Denying
  <2> QED BY <1>4, <1>5, <2>1
<1> QED BY <1>1, <1>3, <1>7, <1>8, <1>9, <1>10 DEF F
-----------------------------------------------------------------------------
(* inode_open() on behalf of the file h: of a file that is listed or open. *)
LEMMA OpenedStep ==
  ASSUME FileSysInv, op = Idle, NEW s \in Live, NEW h \in Handle, file[h] = NoFile,
         open_inodes' = OpenedInodes(s),
         file' = FileWith(h, [sector |-> s, deny |-> FALSE]),
         UNCHANGED <<dmap, dinode, dir, content, free_map, op, lost, crashes>>
  PROVE  FileSysInv'
<1>0. /\ TypeOK /\ OpType /\ NamesUnique /\ s \in Sector /\ s # 0
      /\ \A t \in DOMAIN open_inodes :
              /\ t \in Sector /\ open_inodes[t] \in InodeRecord
              /\ open_inodes[t].open_cnt = Cardinality(Users(t)) /\ open_inodes[t].open_cnt > 0
              /\ open_inodes[t].deny = Cardinality(Denying(t))
              /\ open_inodes[t].start = dinode[t].start
              /\ open_inodes[t].length = dinode[t].length
              /\ open_inodes[t].removed <=> t \notin Listed
      /\ \A g \in Handle : file[g] # NoFile => file[g].sector \in DOMAIN open_inodes
  BY LiveFacts DEF FileSysInv
<1>1. /\ file' \in [Handle -> [sector : Sector, deny : BOOLEAN]]
      /\ file'[h].sector = s
      /\ \A g \in Handle : g # h => file'[g] = file[g]
      /\ \A t : t # s => Users(t)' = Users(t) \ {h} /\ Denying(t)' = Denying(t) \ {h}
      /\ Users(s)' = Users(s) \cup {h} /\ Denying(s)' = Denying(s) \ {h}
  <2> DEFINE no == FALSE
  <2>1. no \in BOOLEAN /\ ~no /\ file' = FileWith(h, [sector |-> s, deny |-> no])
    OBVIOUS
  <2> HIDE DEF no
  <2> QED BY <1>0, <2>1, UsersChange
<1>2. \A t : h \notin Users(t) /\ h \notin Denying(t)
  BY DEF Users, Denying
<1>3. \A t : Denying(t)' = Denying(t) /\ (t # s => Users(t)' = Users(t))
  <2> SUFFICES ASSUME NEW t PROVE Denying(t)' = Denying(t) /\ (t # s => Users(t)' = Users(t))
    OBVIOUS
  <2>1. h \notin Users(t) /\ h \notin Denying(t)
    BY <1>2
  <2>2. Denying(t)' = Denying(t) \ {h} /\ (t # s => Users(t)' = Users(t) \ {h})
    BY <1>1
  <2> QED BY <2>1, <2>2
<1>4. Cardinality(Users(s)') = Cardinality(Users(s)) + 1
  <2>1. IsFiniteSet(Users(s)) /\ h \notin Users(s)
    BY <1>2, UsersFinite
  <2>2. Cardinality(Users(s) \cup {h}) = Cardinality(Users(s)) + 1
    BY <2>1, FS_AddElement
  <2> QED BY <1>1, <2>2
<1>5. Cardinality(Users(s)) \in Nat /\ Cardinality(Denying(s)) \in Nat
  BY UsersFinite
<1>6. /\ DOMAIN open_inodes' = DOMAIN open_inodes \cup {s}
      /\ \A t \in DOMAIN open_inodes : t # s => open_inodes'[t] = open_inodes[t]
      /\ open_inodes'[s] \in InodeRecord
      /\ open_inodes'[s].open_cnt = Cardinality(Users(s)) + 1
      /\ open_inodes'[s].deny = Cardinality(Denying(s))
      /\ open_inodes'[s].start = dinode[s].start /\ open_inodes'[s].length = dinode[s].length
      /\ open_inodes'[s].removed <=> s \notin Listed
  <2>1. CASE s \in DOMAIN open_inodes
    <3>1. open_inodes' = [open_inodes EXCEPT ![s].open_cnt = @ + 1]
      BY <2>1 DEF OpenedInodes
    <3>2. /\ DOMAIN open_inodes' = DOMAIN open_inodes
          /\ \A t \in DOMAIN open_inodes : t # s => open_inodes'[t] = open_inodes[t]
          /\ open_inodes'[s] = [open_inodes[s] EXCEPT !.open_cnt = @ + 1]
      BY <2>1, <3>1
    <3>3. open_inodes[s] \in InodeRecord
      BY <1>0, <2>1
    <3>4. /\ open_inodes'[s] \in InodeRecord
          /\ open_inodes'[s].open_cnt = open_inodes[s].open_cnt + 1
          /\ open_inodes'[s].deny = open_inodes[s].deny
          /\ open_inodes'[s].start = open_inodes[s].start
          /\ open_inodes'[s].length = open_inodes[s].length
          /\ open_inodes'[s].removed = open_inodes[s].removed
      BY <3>2, <3>3 DEF InodeRecord
    <3> QED BY <1>0, <2>1, <3>2, <3>4
  <2>2. CASE s \notin DOMAIN open_inodes
    <3> DEFINE r == [open_cnt |-> 1, deny |-> 0, removed |-> FALSE,
                     start |-> dinode[s].start, length |-> dinode[s].length]
    <3>1. /\ DOMAIN open_inodes' = DOMAIN open_inodes \cup {s} /\ open_inodes'[s] = r
          /\ \A t \in DOMAIN open_inodes : t # s => open_inodes'[t] = open_inodes[t]
      BY <2>2 DEF OpenedInodes
    <3>2. Users(s) = {} /\ Denying(s) = {}
      BY <1>0, <2>2 DEF Users, Denying
    <3>3. Cardinality(Users(s)) = 0 /\ Cardinality(Denying(s)) = 0
      BY <3>2, FS_EmptySet
    <3>4. dinode[s] \in [start : Sector, length : Sizes \cup {0}, magic : BOOLEAN]
      BY <1>0 DEF TypeOK
    <3>5. r \in InodeRecord
      BY <3>4 DEF InodeRecord
    <3>6. s \in Listed
      BY <2>2 DEF Live
    <3> QED BY <3>1, <3>3, <3>5, <3>6
  <2> QED BY <2>1, <2>2
<1>7. Listed' = Listed /\ Live' = Live
  BY <1>6 DEF Listed, Live
<1>8. OpenTypes'
  BY <1>0, <1>1, <1>6 DEF OpenTypes
<1>9. InodesCurrent'
  <2> SUFFICES ASSUME NEW t \in DOMAIN open_inodes'
               PROVE  /\ open_inodes'[t].start = dinode[t].start
                      /\ open_inodes'[t].length = dinode[t].length
                      /\ open_inodes'[t].removed <=> t \notin Listed
                      /\ open_inodes'[t].open_cnt > 0
    BY <1>7 DEF InodesCurrent
  <2>1. CASE t = s
    BY <1>5, <1>6, <2>1
  <2>2. CASE t # s
    BY <1>0, <1>6, <2>2
  <2> QED BY <2>1, <2>2
<1>10. CountsExact'
  <2>1. ASSUME NEW t \in DOMAIN open_inodes'
        PROVE  /\ open_inodes'[t].open_cnt = Cardinality(Users(t)')
               /\ open_inodes'[t].deny = Cardinality(Denying(t)')
    <3>1. CASE t = s
      BY <1>3, <1>4, <1>6, <3>1
    <3>2. CASE t # s
      BY <1>0, <1>3, <1>6, <3>2
    <3> QED BY <3>1, <3>2
  <2>2. ASSUME NEW g \in Handle, file'[g] # NoFile
        PROVE  file'[g].sector \in DOMAIN open_inodes'
    BY <1>0, <1>1, <1>6, <2>2
  <2> QED BY <2>1, <2>2 DEF CountsExact, Free, NoFile, Denying
<1>11. NamesUnique' /\ OpType' /\ OpOrdered' /\ OpSectors' = {}
  BY <1>0, <1>7 DEF NamesUnique, OpType, OpOrdered, OpSectors, Idle, Sector
<1>12. dir' \in [1..DirEntries -> [name : Name \cup {""}, sector : Sector, in_use : BOOLEAN]]
  BY <1>0 DEF TypeOK
<1> QED BY <1>7, <1>8, <1>9, <1>10, <1>11, <1>12, FilesStep

LEMMA OpenSteps ==
  ASSUME FileSysInv, NEW h \in Handle,
         (\E n \in Name : Open(n, h)) \/ (\E g \in Handle : Reopen(g, h))
  PROVE  FileSysInv'
<1>1. CASE \E n \in Name : Open(n, h)
  <2>1. PICK n \in Name : Open(n, h)
    BY <1>1
  <2>2. PICK i \in Entry(n) :
          /\ open_inodes' = OpenedInodes(dir[i].sector)
          /\ file' = [file EXCEPT ![h] = [sector |-> dir[i].sector, deny |-> FALSE]]
    BY <2>1 DEF Open
  <2>3. dir[i].sector \in Live
    BY <2>2, ListedType DEF Entry, FileSysInv, Live
  <2>4. /\ op = Idle /\ file[h] = NoFile
        /\ UNCHANGED <<dmap, dinode, dir, content, free_map, op, lost, crashes>>
    BY <2>1 DEF Open, Free, disk
  <2>5. file' = FileWith(h, [sector |-> dir[i].sector, deny |-> FALSE])
    BY <2>2 DEF FileWith
  <2> QED BY <2>2, <2>3, <2>4, <2>5, OpenedStep
<1>2. CASE \E g \in Handle : Reopen(g, h)
  <2>1. PICK g \in Handle : Reopen(g, h)
    BY <1>2
  <2>2. /\ op = Idle /\ file[h] = NoFile /\ file[g] # NoFile
        /\ open_inodes' = OpenedInodes(file[g].sector)
        /\ file' = FileWith(h, [sector |-> file[g].sector, deny |-> FALSE])
        /\ UNCHANGED <<dmap, dinode, dir, content, free_map, op, lost, crashes>>
    BY <2>1 DEF Reopen, Free, disk, FileWith
  <2>3. file[g].sector \in Live
    BY <2>2, LiveFacts
  <2> QED BY <2>2, <2>3, OpenedStep
<1> QED BY <1>1, <1>2
-----------------------------------------------------------------------------
(* What is left to inode_close()'s last closer of a removed file.          *)
ReleaseOf(s) == [at |-> "release", sector |-> s, start |-> dinode[s].start,
                 size |-> dinode[s].length]
LEMMA ReleaseBegins ==
  ASSUME FileSysInv, NEW s \in Live, op' = ReleaseOf(s)
  PROVE  OpType' /\ OpOrdered' /\ OpSectors' = Extent(s)
<1>1. TypeOK /\ s \in Sector /\ s \notin DataRun(s)
  BY LiveFacts DEF FileSysInv, SpaceDivided
<1>2. dinode[s] \in [start : Sector, length : Sizes \cup {0}, magic : BOOLEAN]
  BY <1>1 DEF TypeOK
<1>3. /\ op'.at = "release" /\ op'.sector = s /\ op'.start = dinode[s].start
      /\ op'.size = dinode[s].length
  BY DEF ReleaseOf
<1>4. OpType'
  BY <1>1, <1>2 DEF OpType, ReleaseOf, Releasing, Sector
<1>5. OpRun' = DataRun(s)
  BY <1>3 DEF OpRun, DataRun, SectorRun
<1>6. OpOrdered' /\ OpSectors' = {s} \cup DataRun(s)
  BY <1>1, <1>3, <1>5 DEF OpOrdered, OpSectors
<1> QED BY <1>4, <1>6, ExtentIs

LEMMA StaysIdle ==
  ASSUME op' = Idle
  PROVE  OpType' /\ OpOrdered' /\ OpSectors' = {}
BY DEF OpType, OpOrdered, OpSectors, Idle

(* file_close().                                                           *)
LEMMA CloseStep ==
  ASSUME FileSysInv, NEW h \in Handle, Close(h)
  PROVE  FileSysInv'
<1>0. PICK s : s = file[h].sector
  OBVIOUS
<1> DEFINE inodes == [open_inodes EXCEPT ![s].deny = IF file[h].deny THEN @ - 1 ELSE @]
<1>1. /\ op = Idle /\ file[h] # NoFile /\ file' = FileWith(h, NoFile)
      /\ UNCHANGED <<dmap, dinode, dir, content, free_map, lost, crashes>>
      /\ InodeClose(s, inodes)
  BY <1>0 DEF Close, Free, disk, FileWith
<1>2. /\ TypeOK /\ NamesUnique /\ s \in DOMAIN open_inodes
      /\ \A t \in DOMAIN open_inodes :
              /\ t \in Sector /\ t # 0 /\ t \in Live /\ open_inodes[t] \in InodeRecord
              /\ open_inodes[t].open_cnt = Cardinality(Users(t)) /\ open_inodes[t].open_cnt > 0
              /\ open_inodes[t].deny = Cardinality(Denying(t))
              /\ open_inodes[t].start = dinode[t].start
              /\ open_inodes[t].length = dinode[t].length
              /\ open_inodes[t].removed <=> t \notin Listed
      /\ \A g \in Handle : file[g] # NoFile => file[g].sector \in DOMAIN open_inodes
  BY <1>0, <1>1, LiveFacts DEF FileSysInv
<1>3. h \in Users(s) /\ \A t : t # s => h \notin Users(t) /\ h \notin Denying(t)
  BY <1>0, <1>1 DEF Users, Denying
<1>4. file[h].deny \in BOOLEAN /\ (file[h].deny <=> h \in Denying(s))
  BY <1>2, <1>3 DEF Denying, TypeOK
<1> DEFINE r == inodes[s]
<1>5. /\ DOMAIN inodes = DOMAIN open_inodes
      /\ \A t \in DOMAIN open_inodes : t # s => inodes[t] = open_inodes[t]
      /\ r = [open_inodes[s] EXCEPT !.deny = IF file[h].deny THEN @ - 1 ELSE @]
  BY <1>2
<1> HIDE DEF inodes
<1>6. /\ file' \in [Handle -> [sector : Sector, deny : BOOLEAN]] /\ file'[h] = NoFile
      /\ \A g \in Handle : g # h => file'[g] = file[g]
      /\ \A t : t # 0 => Users(t)' = Users(t) \ {h} /\ Denying(t)' = Denying(t) \ {h}
  <2> DEFINE no == FALSE
             z == 0
  <2>1. /\ no \in BOOLEAN /\ file' = FileWith(h, [sector |-> z, deny |-> no])
        /\ z \in Sector
    BY <1>1, FSSectors DEF NoFile, Sector
  <2> HIDE DEF no, z
  <2>2. /\ file' \in [Handle -> [sector : Sector, deny : BOOLEAN]]
        /\ \A g \in Handle : g # h => file'[g] = file[g]
        /\ \A t : t # z => Users(t)' = Users(t) \ {h} /\ Denying(t)' = Denying(t) \ {h}
    BY <1>2, <2>1, UsersChange
  <2>3. file'[h] = NoFile
    BY <1>1, <1>2 DEF FileWith, TypeOK
  <2> QED BY <2>2, <2>3 DEF z
<1>7. \A t : t # s /\ t # 0 => Users(t)' = Users(t) /\ Denying(t)' = Denying(t)
  <2> SUFFICES ASSUME NEW t, t # s, t # 0 PROVE Users(t)' = Users(t) /\ Denying(t)' = Denying(t)
    OBVIOUS
  <2>1. h \notin Users(t) /\ h \notin Denying(t)
    BY <1>3
  <2>2. Denying(t)' = Denying(t) \ {h} /\ Users(t)' = Users(t) \ {h}
    BY <1>6
  <2> QED BY <2>1, <2>2
<1>8. /\ Cardinality(Users(s)') = Cardinality(Users(s)) - 1
      /\ Cardinality(Users(s)') \in Nat /\ Users(s)' = Users(s) \ {h}
      /\ IsFiniteSet(Users(s)')
  <2>1. IsFiniteSet(Users(s)) /\ Users(s)' = Users(s) \ {h}
    BY <1>2, <1>6, UsersFinite
  <2>2. /\ Cardinality(Users(s) \ {h}) = Cardinality(Users(s)) - 1
        /\ IsFiniteSet(Users(s) \ {h})
    BY <1>3, <2>1, FS_RemoveElement
  <2>3. Cardinality(Users(s) \ {h}) \in Nat
    BY <2>2, FS_CardinalityType
  <2> QED BY <2>1, <2>2, <2>3
<1>9. /\ Cardinality(Denying(s)') =
             IF file[h].deny THEN Cardinality(Denying(s)) - 1 ELSE Cardinality(Denying(s))
      /\ Cardinality(Denying(s)') \in Nat
  <2>1. IsFiniteSet(Denying(s)) /\ Denying(s)' = Denying(s) \ {h}
    BY <1>2, <1>6, UsersFinite
  <2>2. /\ h \in Denying(s) => Cardinality(Denying(s) \ {h}) = Cardinality(Denying(s)) - 1
        /\ h \notin Denying(s) => Denying(s) \ {h} = Denying(s)
        /\ IsFiniteSet(Denying(s) \ {h})
    BY <2>1, FS_RemoveElement
  <2>3. Cardinality(Denying(s) \ {h}) \in Nat
    BY <2>2, FS_CardinalityType
  <2> QED BY <1>4, <2>1, <2>2, <2>3
<1>10. /\ open_inodes[s] \in InodeRecord
       /\ r.open_cnt = Cardinality(Users(s)) /\ r.deny = Cardinality(Denying(s)')
       /\ r.start = dinode[s].start /\ r.length = dinode[s].length
       /\ r.removed = open_inodes[s].removed /\ r \in InodeRecord
       /\ r.removed <=> s \notin Listed
  <2>1. open_inodes[s] \in InodeRecord
    BY <1>2
  <2>2. /\ r.open_cnt = open_inodes[s].open_cnt /\ r.start = open_inodes[s].start
        /\ r.length = open_inodes[s].length /\ r.removed = open_inodes[s].removed
        /\ r.deny = IF file[h].deny THEN open_inodes[s].deny - 1 ELSE open_inodes[s].deny
        /\ r = [open_cnt |-> r.open_cnt, deny |-> r.deny, removed |-> r.removed,
                start |-> r.start, length |-> r.length]
    BY <1>5, <2>1 DEF InodeRecord
  <2>3. r.deny = Cardinality(Denying(s)')
    BY <1>2, <1>9, <2>2
  <2>4. r \in InodeRecord
    BY <1>9, <2>1, <2>2, <2>3 DEF InodeRecord
  <2> QED BY <1>2, <2>1, <2>2, <2>3, <2>4
<1> HIDE DEF r
<1>11. Listed' = Listed
  BY <1>1 DEF Listed
<1>12. NamesUnique' /\ dir' = dir
       /\ dir' \in [1..DirEntries -> [name : Name \cup {""}, sector : Sector, in_use : BOOLEAN]]
  BY <1>1, <1>2, <1>11 DEF NamesUnique, TypeOK
<1>13. CASE r.open_cnt > 1
  <2>1. op' = Idle /\ open_inodes' = [inodes EXCEPT ![s].open_cnt = @ - 1]
    BY <1>1, <1>13 DEF InodeClose, r
  <2>2. /\ DOMAIN open_inodes' = DOMAIN open_inodes
        /\ \A t \in DOMAIN open_inodes : t # s => open_inodes'[t] = open_inodes[t]
        /\ open_inodes'[s] = [r EXCEPT !.open_cnt = @ - 1]
    BY <1>2, <1>5, <2>1 DEF r
  <2>3. /\ open_inodes'[s].open_cnt = r.open_cnt - 1 /\ open_inodes'[s].deny = r.deny
        /\ open_inodes'[s].start = r.start /\ open_inodes'[s].length = r.length
        /\ open_inodes'[s].removed = r.removed /\ open_inodes'[s] \in InodeRecord
    BY <1>10, <1>13, <2>2 DEF InodeRecord
  <2>4. Live' = Live
    BY <1>11, <2>2 DEF Live
  <2>5. OpenTypes'
    BY <1>2, <1>6, <2>2, <2>3 DEF OpenTypes
  <2>6. InodesCurrent'
    <3> SUFFICES ASSUME NEW t \in DOMAIN open_inodes
                 PROVE  /\ open_inodes'[t].start = dinode[t].start
                        /\ open_inodes'[t].length = dinode[t].length
                        /\ open_inodes'[t].removed <=> t \notin Listed
                        /\ open_inodes'[t].open_cnt > 0
      BY <1>1, <1>11, <2>2 DEF InodesCurrent
    <3>1. CASE t = s
      <4>1. open_inodes'[s].open_cnt > 0
        <5>1. Cardinality(Users(s)) \in Nat
          BY UsersFinite
        <5> QED BY <1>10, <1>13, <2>3, <5>1
      <4> QED BY <1>10, <2>3, <3>1, <4>1
    <3>2. CASE t # s
      BY <1>2, <2>2, <3>2
    <3> QED BY <3>1, <3>2
  <2>7. CountsExact'
    <3>1. ASSUME NEW t \in DOMAIN open_inodes
          PROVE  /\ open_inodes'[t].open_cnt = Cardinality(Users(t)')
                 /\ open_inodes'[t].deny = Cardinality(Denying(t)')
      <4>1. CASE t = s
        BY <1>8, <1>10, <2>3, <4>1
      <4>2. CASE t # s
        BY <1>2, <1>7, <2>2, <4>2
      <4> QED BY <4>1, <4>2
    <3>2. ASSUME NEW g \in Handle, file'[g] # NoFile
          PROVE  file'[g].sector \in DOMAIN open_inodes'
      BY <1>2, <1>6, <2>2, <3>2
    <3> QED BY <2>2, <3>1, <3>2 DEF CountsExact, Free, NoFile, Denying
  <2>8. OpType' /\ OpOrdered' /\ OpSectors' = {}
    BY <2>1, StaysIdle
  <2> QED BY <1>1, <1>11, <1>12, <2>4, <2>5, <2>6, <2>7, <2>8, FilesStep
<1>14. CASE ~(r.open_cnt > 1)
  <2>1. /\ open_inodes' = [t \in DOMAIN inodes \ {s} |-> inodes[t]]
        /\ op' = IF r.removed THEN [at |-> "release", sector |-> s, start |-> r.start,
                                    size |-> r.length]
                              ELSE Idle
    BY <1>1, <1>14 DEF InodeClose, r
  <2>2. /\ DOMAIN open_inodes' = DOMAIN open_inodes \ {s}
        /\ \A t \in DOMAIN open_inodes : t # s => open_inodes'[t] = open_inodes[t]
    BY <1>5, <2>1
  <2>3. Users(s) = {h}
    <3>1. Cardinality(Users(s)') = 0
      <4>1. Cardinality(Users(s)) \in Nat /\ Cardinality(Users(s)) > 0
        BY <1>2, UsersFinite
      <4> QED BY <1>8, <1>10, <1>14, <4>1
    <3>2. Users(s)' = {}
      BY <1>8, <3>1, FS_EmptySet
    <3> QED BY <1>3, <1>8, <3>2
  <2>4. OpenTypes'
    BY <1>2, <1>6, <2>2 DEF OpenTypes
  <2>5. InodesCurrent'
    BY <1>1, <1>2, <1>11, <2>2 DEF InodesCurrent
  <2>6. CountsExact'
    <3>1. ASSUME NEW t \in DOMAIN open_inodes'
          PROVE  /\ open_inodes'[t].open_cnt = Cardinality(Users(t)')
                 /\ open_inodes'[t].deny = Cardinality(Denying(t)')
      BY <1>2, <1>7, <2>2
    <3>2. ASSUME NEW g \in Handle, file'[g] # NoFile
          PROVE  file'[g].sector \in DOMAIN open_inodes'
      <4>1. g # h /\ file'[g] = file[g]
        BY <1>6, <3>2
      <4>2. file[g].sector \in DOMAIN open_inodes /\ file[g].sector # s
        BY <1>2, <2>3, <3>2, <4>1 DEF Users
      <4> QED BY <2>2, <4>1, <4>2
    <3> QED BY <3>1, <3>2 DEF CountsExact, Free, NoFile, Denying
  <2>7. s \in Live
    BY <1>2
  <2>8. CASE r.removed
    <3>1. op' = ReleaseOf(s)
      BY <1>10, <2>1, <2>8 DEF ReleaseOf
    <3>2. OpType' /\ OpOrdered' /\ OpSectors' = Extent(s)
      BY <2>7, <3>1, ReleaseBegins
    <3>3. Live' = Live \ {s}
      BY <1>10, <1>11, <2>2, <2>8 DEF Live
    <3> QED BY <1>1, <1>11, <1>12, <2>4, <2>5, <2>6, <2>7, <3>2, <3>3, FilesStep
  <2>9. CASE ~r.removed
    <3>1. op' = Idle
      BY <2>1, <2>9
    <3>2. OpType' /\ OpOrdered' /\ OpSectors' = {}
      BY <3>1, StaysIdle
    <3>3. Live' = Live
      BY <1>10, <1>11, <2>2, <2>9 DEF Live
    <3> QED BY <1>1, <1>11, <1>12, <2>4, <2>5, <2>6, <3>2, <3>3, FilesStep
  <2> QED BY <2>8, <2>9
<1> QED BY <1>13, <1>14
(* dir_remove().                                                           *)
LEMMA RemoveStep ==
  ASSUME FileSysInv, NEW n \in Name, Remove(n)
  PROVE  FileSysInv'
<1>1. PICK i \in Entry(n) :
        /\ dir' = [dir EXCEPT ![i] = FreeEntry]
        /\ InodeClose(dir[i].sector,
                      [OpenedInodes(dir[i].sector) EXCEPT ![dir[i].sector].removed = TRUE])
  BY DEF Remove
<1>2. PICK s : s = dir[i].sector
  OBVIOUS
<1> DEFINE inodes == [OpenedInodes(s) EXCEPT ![s].removed = TRUE]
<1>3. /\ op = Idle /\ UNCHANGED <<dmap, dinode, content, free_map, file, lost, crashes>>
      /\ InodeClose(s, inodes) /\ dir' = DirWith(i, FreeEntry)
      /\ i \in 1..DirEntries /\ dir[i].in_use
  BY <1>1, <1>2 DEF Remove, DirWith, Entry
<1>4. /\ TypeOK /\ NamesUnique
      /\ \A t \in DOMAIN open_inodes :
              /\ t \in Sector /\ open_inodes[t] \in InodeRecord
              /\ open_inodes[t].open_cnt = Cardinality(Users(t)) /\ open_inodes[t].open_cnt > 0
              /\ open_inodes[t].deny = Cardinality(Denying(t))
              /\ open_inodes[t].start = dinode[t].start
              /\ open_inodes[t].length = dinode[t].length
              /\ open_inodes[t].removed <=> t \notin Listed
      /\ \A g \in Handle : file[g] # NoFile => file[g].sector \in DOMAIN open_inodes
  BY LiveFacts DEF FileSysInv
<1>5. /\ dir' \in [1..DirEntries -> [name : Name \cup {""}, sector : Sector, in_use : BOOLEAN]]
      /\ Listed' = Listed \ {s} /\ s \in Listed
      /\ \A j \in 1..DirEntries : j # i => dir'[j] = dir[j]
      /\ ~dir'[i].in_use
  BY <1>2, <1>3, <1>4, EntryErased
<1>6. NamesUnique'
  <2>1. ASSUME NEW j \in 1..DirEntries, NEW k \in 1..DirEntries,
               dir'[j].in_use, dir'[k].in_use, j # k
        PROVE  dir'[j].name # dir'[k].name /\ dir'[j].sector # dir'[k].sector
    <3>1. j # i /\ k # i
      BY <1>5, <2>1
    <3>2. dir'[j] = dir[j] /\ dir'[k] = dir[k]
      BY <1>5, <3>1
    <3>3. dir[j].in_use /\ dir[k].in_use
      BY <2>1, <3>2, Zenon
    <3>4. dir[j].name # dir[k].name /\ dir[j].sector # dir[k].sector
      BY <1>4, <2>1, <3>3 DEF NamesUnique
    <3> QED BY <3>2, <3>4
  <2>2. \A t \in Listed' : dinode'[t].magic
    BY <1>3, <1>4, <1>5 DEF NamesUnique
  <2> QED BY <2>1, <2>2 DEF NamesUnique
<1>7. \A t : Users(t)' = Users(t) /\ Denying(t)' = Denying(t)
  BY <1>3 DEF Users, Denying, NoFile
<1>8. s \in Live /\ file \in [Handle -> [sector : Sector, deny : BOOLEAN]]
  BY <1>4, <1>5 DEF Live, TypeOK
<1>9. CASE s \in DOMAIN open_inodes
  <2> DEFINE r == open_inodes[s]
             q == inodes[s]
  <2>1. r \in InodeRecord /\ r.open_cnt > 0
    BY <1>4, <1>9
  <2>2. /\ DOMAIN inodes = DOMAIN open_inodes
        /\ \A t \in DOMAIN open_inodes : t # s => inodes[t] = open_inodes[t]
        /\ inodes[s] = [[r EXCEPT !.open_cnt = @ + 1] EXCEPT !.removed = TRUE]
    BY <1>9 DEF OpenedInodes
  <2>3. /\ q.open_cnt = r.open_cnt + 1 /\ q.deny = r.deny /\ q.start = r.start
        /\ q.length = r.length /\ q.removed = TRUE /\ q \in InodeRecord
    <3> DEFINE yes == TRUE
    <3>1. yes \in BOOLEAN /\ q = [[r EXCEPT !.open_cnt = @ + 1] EXCEPT !.removed = yes]
      BY <2>2
    <3> HIDE DEF yes, inodes, r, q
    <3>2. q = [open_cnt |-> r.open_cnt + 1, deny |-> r.deny, removed |-> yes,
               start |-> r.start, length |-> r.length]
      BY <2>1, <3>1 DEF InodeRecord
    <3>3. /\ q.open_cnt = r.open_cnt + 1 /\ q.deny = r.deny /\ q.start = r.start
          /\ q.length = r.length /\ q.removed = yes /\ q \in InodeRecord
      BY <2>1, <3>1, <3>2 DEF InodeRecord
    <3> QED BY <3>3 DEF yes
  <2> HIDE DEF inodes
  <2>4. op' = Idle /\ open_inodes' = [inodes EXCEPT ![s].open_cnt = @ - 1]
    <3>1. r.open_cnt \in Nat
      BY <2>1 DEF InodeRecord
    <3>2. inodes[s].open_cnt > 1
      BY <2>1, <2>3, <3>1
    <3> QED BY <1>3, <3>2 DEF InodeClose
  <2>5. /\ DOMAIN open_inodes' = DOMAIN open_inodes
        /\ \A t \in DOMAIN open_inodes : t # s => open_inodes'[t] = open_inodes[t]
        /\ open_inodes'[s] = [q EXCEPT !.open_cnt = @ - 1]
    BY <1>9, <2>2, <2>4
  <2> HIDE DEF q
  <2>6. /\ open_inodes'[s].open_cnt = q.open_cnt - 1 /\ open_inodes'[s].deny = q.deny
        /\ open_inodes'[s].start = q.start /\ open_inodes'[s].length = q.length
        /\ open_inodes'[s].removed = q.removed
        /\ open_inodes'[s] = [open_cnt |-> q.open_cnt - 1, deny |-> q.deny, removed |-> q.removed,
                              start |-> q.start, length |-> q.length]
    BY <2>3, <2>5 DEF InodeRecord
  <2>7. /\ open_inodes'[s].open_cnt = r.open_cnt /\ open_inodes'[s] \in InodeRecord
    BY <2>1, <2>3, <2>6 DEF InodeRecord
  <2>8. Live' = Live
    BY <1>5, <1>9, <2>5 DEF Live
  <2>9. OpenTypes'
    BY <1>3, <1>4, <1>8, <2>5, <2>7 DEF OpenTypes
  <2>10. InodesCurrent'
    <3> SUFFICES ASSUME NEW t \in DOMAIN open_inodes
                 PROVE  /\ open_inodes'[t].start = dinode[t].start
                        /\ open_inodes'[t].length = dinode[t].length
                        /\ open_inodes'[t].removed <=> t \notin Listed'
                        /\ open_inodes'[t].open_cnt > 0
      BY <1>3, <2>5 DEF InodesCurrent
    <3>1. CASE t = s
      BY <1>4, <1>5, <1>9, <2>1, <2>3, <2>6, <2>7, <3>1
    <3>2. CASE t # s
      BY <1>4, <1>5, <2>5, <3>2
    <3> QED BY <3>1, <3>2
  <2>11. CountsExact'
    <3>1. ASSUME NEW t \in DOMAIN open_inodes
          PROVE  /\ open_inodes'[t].open_cnt = Cardinality(Users(t)')
                 /\ open_inodes'[t].deny = Cardinality(Denying(t)')
      <4>1. CASE t = s
        BY <1>4, <1>7, <1>9, <2>3, <2>6, <2>7, <4>1
      <4>2. CASE t # s
        BY <1>4, <1>7, <2>5, <4>2
      <4> QED BY <4>1, <4>2
    <3>2. ASSUME NEW g \in Handle, file'[g] # NoFile
          PROVE  file'[g].sector \in DOMAIN open_inodes'
      BY <1>3, <1>4, <2>5, <3>2
    <3> QED BY <2>5, <3>1, <3>2 DEF CountsExact, Free, NoFile, Denying
  <2>12. OpType' /\ OpOrdered' /\ OpSectors' = {}
    BY <2>4, StaysIdle
  <2> QED BY <1>3, <1>5, <1>6, <2>8, <2>9, <2>10, <2>11, <2>12, FilesStep
<1>10. CASE s \notin DOMAIN open_inodes
  <2> DEFINE r == [open_cnt |-> 1, deny |-> 0, removed |-> FALSE,
                   start |-> dinode[s].start, length |-> dinode[s].length]
  <2>1. /\ DOMAIN inodes = DOMAIN open_inodes \cup {s}
        /\ \A t \in DOMAIN open_inodes : t # s => inodes[t] = open_inodes[t]
        /\ inodes[s] = [r EXCEPT !.removed = TRUE]
    BY <1>10 DEF OpenedInodes
  <2>2. /\ inodes[s].open_cnt = 1 /\ inodes[s].removed = TRUE
        /\ inodes[s].start = dinode[s].start /\ inodes[s].length = dinode[s].length
    BY <2>1
  <2> HIDE DEF inodes
  <2>3. op' = ReleaseOf(s) /\ open_inodes' = [t \in DOMAIN inodes \ {s} |-> inodes[t]]
    BY <1>3, <2>2 DEF InodeClose, ReleaseOf
  <2>4. /\ DOMAIN open_inodes' = DOMAIN open_inodes
        /\ \A t \in DOMAIN open_inodes : open_inodes'[t] = open_inodes[t]
    BY <1>10, <2>1, <2>3
  <2>5. Live' = Live \ {s}
    BY <1>5, <1>10, <2>4 DEF Live
  <2>6. OpenTypes'
    BY <1>3, <1>4, <1>8, <2>4 DEF OpenTypes
  <2>7. InodesCurrent'
    BY <1>3, <1>4, <1>5, <1>10, <2>4 DEF InodesCurrent
  <2>8. CountsExact'
    BY <1>3, <1>4, <1>7, <2>4 DEF CountsExact, Free, NoFile, Denying
  <2>9. OpType' /\ OpOrdered' /\ OpSectors' = Extent(s)
    BY <1>8, <2>3, ReleaseBegins
  <2> QED BY <1>3, <1>5, <1>6, <1>8, <2>5, <2>6, <2>7, <2>8, <2>9, FilesStep
<1> QED BY <1>9, <1>10

-----------------------------------------------------------------------------
(* file_deny_write() and file_allow_write().                               *)
LEMMA DenyChanges ==
  ASSUME FileSysInv, op = Idle, NEW h \in Handle, NEW s, file[h] # NoFile, s = file[h].sector,
         NEW d \in BOOLEAN, file' = FileWith(h, [sector |-> s, deny |-> d]),
         NEW k \in Nat, open_inodes' = [open_inodes EXCEPT ![s].deny = k],
         k = Cardinality(Denying(s)'),
         UNCHANGED <<dmap, dinode, dir, content, free_map, op, lost, crashes>>
  PROVE  FileSysInv'
<1>1. /\ TypeOK /\ NamesUnique /\ s \in DOMAIN open_inodes /\ s \in Sector /\ s # 0
      /\ \A t \in DOMAIN open_inodes :
              /\ t \in Sector /\ open_inodes[t] \in InodeRecord
              /\ open_inodes[t].open_cnt = Cardinality(Users(t)) /\ open_inodes[t].open_cnt > 0
              /\ open_inodes[t].deny = Cardinality(Denying(t))
              /\ open_inodes[t].start = dinode[t].start
              /\ open_inodes[t].length = dinode[t].length
              /\ open_inodes[t].removed <=> t \notin Listed
      /\ \A g \in Handle : file[g] # NoFile => file[g].sector \in DOMAIN open_inodes
  BY LiveFacts DEF FileSysInv
<1>2. /\ file' \in [Handle -> [sector : Sector, deny : BOOLEAN]]
      /\ file'[h].sector = s
      /\ \A g \in Handle : g # h => file'[g] = file[g]
      /\ \A t : t # s => Users(t)' = Users(t) \ {h} /\ Denying(t)' = Denying(t) \ {h}
      /\ Users(s)' = Users(s) \cup {h}
  BY <1>1, UsersChange
<1>3. h \in Users(s) /\ \A t : t # s => h \notin Users(t) /\ h \notin Denying(t)
  BY DEF Users, Denying
<1>4. /\ Users(s)' = Users(s)
      /\ \A t : t # s => Users(t)' = Users(t) /\ Denying(t)' = Denying(t)
  <2>1. ASSUME NEW t, t # s PROVE Users(t)' = Users(t) /\ Denying(t)' = Denying(t)
    <3>1. h \notin Users(t) /\ h \notin Denying(t)
      BY <1>3, <2>1
    <3>2. Denying(t)' = Denying(t) \ {h} /\ Users(t)' = Users(t) \ {h}
      BY <1>2, <2>1
    <3> QED BY <3>1, <3>2
  <2> QED BY <1>2, <1>3, <2>1
<1>5. /\ DOMAIN open_inodes' = DOMAIN open_inodes
      /\ \A t \in DOMAIN open_inodes : t # s => open_inodes'[t] = open_inodes[t]
      /\ open_inodes'[s] = [open_inodes[s] EXCEPT !.deny = k]
  BY <1>1
<1>6. /\ open_inodes'[s].open_cnt = open_inodes[s].open_cnt
      /\ open_inodes'[s].deny = k /\ open_inodes'[s].start = open_inodes[s].start
      /\ open_inodes'[s].length = open_inodes[s].length
      /\ open_inodes'[s].removed = open_inodes[s].removed /\ open_inodes'[s] \in InodeRecord
  <2>1. open_inodes[s] \in InodeRecord
    BY <1>1
  <2> QED BY <1>5, <2>1 DEF InodeRecord
<1>7. Listed' = Listed /\ Live' = Live
  BY <1>5 DEF Listed, Live
<1>8. OpenTypes'
  BY <1>1, <1>2, <1>5, <1>6 DEF OpenTypes
<1>9. InodesCurrent'
  <2> SUFFICES ASSUME NEW t \in DOMAIN open_inodes
               PROVE  /\ open_inodes'[t].start = dinode[t].start
                      /\ open_inodes'[t].length = dinode[t].length
                      /\ open_inodes'[t].removed <=> t \notin Listed
                      /\ open_inodes'[t].open_cnt > 0
    BY <1>5, <1>7 DEF InodesCurrent
  <2>1. CASE t = s
    BY <1>1, <1>6, <2>1
  <2>2. CASE t # s
    BY <1>1, <1>5, <2>2
  <2> QED BY <2>1, <2>2
<1>10. CountsExact'
  <2>1. ASSUME NEW t \in DOMAIN open_inodes
        PROVE  /\ open_inodes'[t].open_cnt = Cardinality(Users(t)')
               /\ open_inodes'[t].deny = Cardinality(Denying(t)')
    <3>1. CASE t = s
      BY <1>1, <1>4, <1>6, <3>1
    <3>2. CASE t # s
      BY <1>1, <1>4, <1>5, <3>2
    <3> QED BY <3>1, <3>2
  <2>2. ASSUME NEW g \in Handle, file'[g] # NoFile
        PROVE  file'[g].sector \in DOMAIN open_inodes'
    BY <1>1, <1>2, <1>5, <2>2
  <2> QED BY <1>5, <2>1, <2>2 DEF CountsExact, Free, NoFile, Denying
<1>11. NamesUnique' /\ OpType' /\ OpOrdered' /\ OpSectors' = {}
  <2>1. NamesUnique'
    BY <1>1, <1>7 DEF NamesUnique
  <2> QED BY <2>1, StaysIdle
<1>12. dir' \in [1..DirEntries -> [name : Name \cup {""}, sector : Sector, in_use : BOOLEAN]]
  BY <1>1 DEF TypeOK
<1> QED BY <1>7, <1>8, <1>9, <1>10, <1>11, <1>12, FilesStep

LEMMA DenySet ==
  ASSUME NEW f \in [sector : Sector, deny : BOOLEAN], NEW d
  PROVE  [f EXCEPT !.deny = d] = [sector |-> f.sector, deny |-> d]
OBVIOUS

LEMMA DenySteps ==
  ASSUME FileSysInv, NEW h \in Handle, DenyWrite(h) \/ AllowWrite(h)
  PROVE  FileSysInv'
<1>1. PICK s : s = file[h].sector
  OBVIOUS
<1>2. /\ op = Idle /\ file[h] # NoFile
      /\ UNCHANGED <<dmap, dinode, dir, content, free_map, op, lost, crashes>>
  BY DEF DenyWrite, AllowWrite, Free, disk
<1>3. /\ TypeOK /\ s \in DOMAIN open_inodes /\ s \in Sector /\ s # 0
      /\ open_inodes[s].deny = Cardinality(Denying(s))
  BY <1>1, <1>2, LiveFacts DEF FileSysInv
<1>4. file[h] \in [sector : Sector, deny : BOOLEAN]
  BY <1>3 DEF TypeOK
<1>5. h \in Users(s) /\ (file[h].deny <=> h \in Denying(s))
  BY <1>1, <1>2 DEF Users, Denying
<1>6. IsFiniteSet(Denying(s)) /\ Cardinality(Denying(s)) \in Nat
  BY UsersFinite
<1>7. CASE DenyWrite(h)
  <2> DEFINE yes == TRUE
  <2>1. /\ file' = FileWith(h, [sector |-> s, deny |-> yes]) /\ yes \in BOOLEAN /\ yes
        /\ open_inodes' = [open_inodes EXCEPT ![s].deny = @ + 1] /\ ~file[h].deny
    <3>1. [file[h] EXCEPT !.deny = TRUE] = [sector |-> s, deny |-> TRUE]
      BY <1>1, <1>4, DenySet, Zenon
    <3>2. file' = [file EXCEPT ![h].deny = TRUE] /\ ~file[h].deny
      BY <1>7 DEF DenyWrite
    <3>3. file' = [file EXCEPT ![h] = [sector |-> s, deny |-> TRUE]]
      BY <3>1, <3>2
    <3>4. open_inodes' = [open_inodes EXCEPT ![s].deny = @ + 1]
      BY <1>1, <1>7 DEF DenyWrite
    <3> QED BY <3>2, <3>3, <3>4 DEF FileWith
  <2> HIDE DEF yes
  <2>2. Denying(s)' = Denying(s) \cup {h}
    BY <1>3, <2>1, UsersChange
  <2>3. Cardinality(Denying(s) \cup {h}) = Cardinality(Denying(s)) + 1
    BY <1>5, <1>6, <2>1, FS_AddElement
  <2> DEFINE k == Cardinality(Denying(s)) + 1
  <2>4. /\ k \in Nat /\ k = Cardinality(Denying(s)')
        /\ open_inodes' = [open_inodes EXCEPT ![s].deny = k]
    BY <1>3, <1>6, <2>1, <2>2, <2>3
  <2> HIDE DEF k
  <2> QED BY <1>1, <1>2, <2>1, <2>4, DenyChanges
<1>8. CASE AllowWrite(h)
  <2> DEFINE no == FALSE
  <2>1. /\ file' = FileWith(h, [sector |-> s, deny |-> no]) /\ no \in BOOLEAN /\ ~no
        /\ open_inodes' = [open_inodes EXCEPT ![s].deny = @ - 1] /\ file[h].deny
    <3>1. [file[h] EXCEPT !.deny = FALSE] = [sector |-> s, deny |-> FALSE]
      BY <1>1, <1>4, DenySet, Zenon
    <3>2. file' = [file EXCEPT ![h].deny = FALSE] /\ file[h].deny
      BY <1>8 DEF AllowWrite
    <3>3. file' = [file EXCEPT ![h] = [sector |-> s, deny |-> FALSE]]
      BY <3>1, <3>2
    <3>4. open_inodes' = [open_inodes EXCEPT ![s].deny = @ - 1]
      BY <1>1, <1>8 DEF AllowWrite
    <3> QED BY <3>2, <3>3, <3>4 DEF FileWith
  <2> HIDE DEF no
  <2>2. Denying(s)' = Denying(s) \ {h}
    BY <1>3, <2>1, UsersChange
  <2>3. /\ Cardinality(Denying(s) \ {h}) = Cardinality(Denying(s)) - 1
        /\ IsFiniteSet(Denying(s) \ {h})
    BY <1>5, <1>6, <2>1, FS_RemoveElement
  <2> DEFINE k == Cardinality(Denying(s)) - 1
  <2>4. /\ k \in Nat /\ k = Cardinality(Denying(s)')
        /\ open_inodes' = [open_inodes EXCEPT ![s].deny = k]
    <3>1. Cardinality(Denying(s) \ {h}) \in Nat
      BY <2>3, FS_CardinalityType
    <3> QED BY <1>3, <1>6, <2>1, <2>2, <2>3, <3>1
  <2> HIDE DEF k
  <2> QED BY <1>1, <1>2, <2>1, <2>4, DenyChanges
<1> QED BY <1>7, <1>8
-----------------------------------------------------------------------------
(* file_write() of one sector.                                             *)
LEMMA WriteStep ==
  ASSUME FileSysInv, NEW h \in Handle, NEW i \in 0 .. NSectors - 1, Write(h, i)
  PROVE  FileSysInv'
<1>1. PICK s : s = file[h].sector
  OBVIOUS
<1> DEFINE d == open_inodes[s].start + i
<1>2. /\ op = Idle /\ file[h] # NoFile /\ i < open_inodes[s].length
      /\ content' = [content EXCEPT ![d] = s]
      /\ UNCHANGED <<dmap, dinode, dir, free_map, open_inodes, file, op, lost, crashes>>
  BY <1>1 DEF Write, Free, memory
<1>3. /\ TypeOK /\ OpType /\ SpaceDivided /\ NamesUnique /\ InodesCurrent /\ CountsExact
      /\ NoForeignData /\ OpOrdered
  BY DEF FileSysInv
<1>4. /\ s \in Live /\ s \in Sector
      /\ open_inodes[s].start = dinode[s].start /\ open_inodes[s].length = dinode[s].length
  BY <1>1, <1>2, LiveFacts
<1>5. d \in DataRun(s) /\ d \in Extent(s) /\ d \in Sector
  <2>1. dinode[s] \in [start : Sector, length : Sizes \cup {0}, magic : BOOLEAN]
    BY <1>3, <1>4 DEF TypeOK
  <2>2. dinode[s].start \in Int /\ dinode[s].length \in Int /\ i \in Int /\ 0 <= i
    <3>1. Sector \subseteq Int /\ Sizes \cup {0} \subseteq Int
      BY FSSectors, FSSizes DEF Sector
    <3>2. dinode[s].start \in Sector /\ dinode[s].length \in Sizes \cup {0}
      BY <2>1
    <3>3. i \in Int /\ 0 <= i
      BY FSSectors
    <3> QED BY <3>1, <3>2, <3>3
  <2>3. d \in DataRun(s)
    BY <1>2, <1>4, <2>2 DEF DataRun, SectorRun
  <2>4. d \in Extent(s)
    BY <2>3, ExtentIs
  <2> QED BY <1>3, <1>4, <2>3, <2>4 DEF SpaceDivided, TypeOK
<1> HIDE DEF d
<1>6. content' \in [Sector -> Sector] /\ content'[d] = s
      /\ \A e \in Sector : e # d => content'[e] = content[e]
  BY <1>2, <1>3, <1>4, <1>5 DEF TypeOK
<1>7. /\ Listed' = Listed /\ Live' = Live
      /\ \A t : Extent(t)' = Extent(t) /\ DataRun(t)' = DataRun(t)
  BY <1>2, FilesSame DEF Live
<1>8. TypeOK'
  BY <1>2, <1>3, <1>6 DEF TypeOK
<1>9. SpaceDivided' /\ NamesUnique'
  <2>1. OpType' /\ OpOrdered' /\ OpSectors' = {} /\ OpSectors = {}
    BY <1>2, StaysIdle DEF OpSectors, Idle
  <2> QED BY <1>2, <1>3, <1>7, <2>1 DEF SpaceDivided, NamesUnique, MetaSectors
<1>10. InodesCurrent' /\ CountsExact'
  BY <1>2, <1>7, OpenSame
<1>11. OpType' /\ OpOrdered'
  BY <1>2, StaysIdle
<1>12. NoForeignData'
  <2> SUFFICES ASSUME NEW t \in Listed, NEW e \in DataRun(t)
               PROVE  content'[e] \in {0, t}
    BY <1>2, <1>7 DEF NoForeignData, DataRun, SectorRun
  <2>1. t \in Live /\ e \in Extent(t)
    BY ExtentIs DEF Live
  <2>2. e \in Sector
    BY <1>3, <2>1 DEF SpaceDivided, TypeOK
  <2>3. content[e] \in {0, t}
    BY <1>3 DEF NoForeignData, DataRun
  <2>4. CASE e = d
    <3>1. t = s
      BY <1>3, <1>4, <1>5, <2>1, <2>4 DEF SpaceDivided
    <3> QED BY <1>6, <2>4, <3>1
  <2>5. CASE e # d
    BY <1>6, <2>2, <2>3, <2>5
  <2> QED BY <2>4, <2>5
<1> QED BY <1>8, <1>9, <1>10, <1>11, <1>12 DEF FileSysInv

(* A crash and the remount.                                                *)
LEMMA CrashStep ==
  ASSUME FileSysInv, Crash
  PROVE  FileSysInv'
<1>1. /\ crashes \in Nat /\ crashes > 0 /\ crashes' = crashes - 1 /\ free_map' = dmap
      /\ open_inodes' = [s \in {} |-> 0] /\ file' = [h \in Handle |-> NoFile] /\ op' = Idle
      /\ lost' = dmap \ (MetaSectors \cup UNION {Extent(s) : s \in Listed})
      /\ UNCHANGED <<dmap, dinode, dir, content>>
  BY DEF Crash, disk, FileSysInv, TypeOK
<1>2. /\ TypeOK /\ SpaceDivided /\ NamesUnique /\ NoForeignData
  BY DEF FileSysInv
<1>3. DOMAIN open_inodes' = {}
  BY <1>1
<1>4. /\ Listed' = Listed /\ Live' = Listed
      /\ \A t : Extent(t)' = Extent(t) /\ DataRun(t)' = DataRun(t)
  BY <1>1, <1>3, FilesSame DEF Live
<1>5. OpType' /\ OpOrdered' /\ OpSectors' = {}
  BY <1>1, StaysIdle
<1>6. TypeOK'
  <2>1. NoFile \in [sector : Sector, deny : BOOLEAN]
    BY FSSectors DEF NoFile, Sector
  <2>2. /\ file' \in [Handle -> [sector : Sector, deny : BOOLEAN]] /\ crashes' \in Nat
        /\ op'.at \in Labels
    BY <1>1, <1>5, <2>1, OpNextAt
  <2>3. dmap' \subseteq Sector /\ free_map' \subseteq Sector /\ lost' \subseteq Sector
    BY <1>1, <1>2 DEF TypeOK
  <2> QED BY <1>1, <1>2, <1>3, <2>2, <2>3 DEF TypeOK
<1>7. SpaceDivided'
  <2>1. Listed \subseteq Live
    BY DEF Live
  <2>2. /\ \A s \in Listed : Extent(s) \subseteq dmap \ MetaSectors /\ s \notin DataRun(s)
        /\ \A s, t \in Listed : s # t => Extent(s) \cap Extent(t) = {}
        /\ MetaSectors \subseteq dmap
    BY <1>2, <2>1 DEF SpaceDivided
  <2>3. \A s \in Listed : Extent(s) \cap lost' = {}
    BY <1>1
  <2>4. lost' \subseteq dmap \ MetaSectors
    BY <1>1
  <2>5. \A d \in dmap : d \in MetaSectors \cup lost' \/ \E s \in Listed : d \in Extent(s)
    BY <1>1
  <2>6. dmap' = dmap /\ free_map' = dmap
    BY <1>1
  <2> QED BY <1>4, <1>5, <2>2, <2>3, <2>4, <2>5, <2>6 DEF SpaceDivided, MetaSectors
<1>8. NamesUnique'
  BY <1>1, <1>2, <1>4 DEF NamesUnique
<1>9. InodesCurrent'
  BY <1>3 DEF InodesCurrent
<1>10. CountsExact'
  <2>1. \A h \in Handle : file'[h] = NoFile
    BY <1>1
  <2> QED BY <1>3, <2>1 DEF CountsExact, Free, NoFile
<1>11. NoForeignData'
  BY <1>1, <1>2, <1>4 DEF NoForeignData, SectorRun
<1> QED BY <1>5, <1>6, <1>7, <1>8, <1>9, <1>10, <1>11 DEF FileSysInv

LEMMA InitInv ==
  ASSUME Init
  PROVE  FileSysInv
<1>1. 0 \in Sector /\ MetaSectors \subseteq Sector
  BY FSSectors DEF Sector, MetaSectors
<1>2. Listed = {} /\ DOMAIN open_inodes = {} /\ Live = {}
  <2>1. \A i \in 1..DirEntries : ~dir[i].in_use
    BY DEF Init, FreeEntry
  <2>2. DOMAIN open_inodes = {}
    BY DEF Init
  <2> QED BY <2>1, <2>2 DEF Listed, Live
<1>3. OpType /\ OpOrdered /\ OpSectors = {} /\ op.at \in Labels
  BY DEF Init, OpType, OpOrdered, OpSectors, Idle, Labels
<1>4. TypeOK
  <2>1. /\ NoInode \in [start : Sector, length : Sizes \cup {0}, magic : BOOLEAN]
        /\ FreeEntry \in [name : Name \cup {""}, sector : Sector, in_use : BOOLEAN]
        /\ NoFile \in [sector : Sector, deny : BOOLEAN]
    BY <1>1 DEF NoInode, FreeEntry, NoFile
  <2> QED BY <1>1, <1>2, <1>3, <2>1, FSCrashes DEF Init, TypeOK
<1>5. SpaceDivided
  BY <1>2, <1>3 DEF Init, SpaceDivided
<1>6. NamesUnique
  BY <1>2 DEF Init, NamesUnique, FreeEntry
<1>7. InodesCurrent /\ NoForeignData
  BY <1>2 DEF InodesCurrent, NoForeignData
<1>8. CountsExact
  <2>1. \A h \in Handle : file[h] = NoFile
    BY DEF Init
  <2> QED BY <1>2, <2>1 DEF CountsExact, Free
<1> QED BY <1>3, <1>4, <1>5, <1>6, <1>7, <1>8 DEF FileSysInv

LEMMA StutterInv ==
  ASSUME FileSysInv, UNCHANGED vars
  PROVE  FileSysInv'
<1>1. UNCHANGED <<dmap, dinode, dir, content, free_map, open_inodes, file, op, lost, crashes>>
  BY DEF vars, disk, memory
<1>2. TypeOK' /\ OpType'
  BY <1>1 DEF FileSysInv, TypeOK, OpType
<1>3. /\ Listed' = Listed /\ Live' = Live /\ OpRun' = OpRun /\ OpSectors' = OpSectors
      /\ \A t : Extent(t)' = Extent(t) /\ DataRun(t)' = DataRun(t)
  BY <1>1, FilesSame DEF Live, OpSectors, OpRun, SectorRun
<1>4. SpaceDivided' /\ NamesUnique'
  BY <1>1, <1>3 DEF FileSysInv, SpaceDivided, NamesUnique, MetaSectors
<1>5. InodesCurrent' /\ CountsExact'
  BY <1>1, <1>3, OpenSame
<1>6. OpOrdered' /\ NoForeignData'
  BY <1>1, <1>3 DEF FileSysInv, OpOrdered, NoForeignData, SectorRun
<1> QED BY <1>2, <1>4, <1>5, <1>6 DEF FileSysInv

(* Every reachable state, between operations, in the middle of one, or     *)
(* after a crash at any of its writes, satisfies the inductive invariant.  *)
THEOREM FileSysInductive == Spec => []FileSysInv
<1>1. Init => FileSysInv
  BY InitInv
<1>2. FileSysInv /\ [Next]_vars => FileSysInv'
  <2> SUFFICES ASSUME FileSysInv, [Next]_vars PROVE FileSysInv'
    OBVIOUS
  <2>1. CASE UNCHANGED vars
    BY <2>1, StutterInv
  <2>2. CASE \E n \in Name, size \in Sizes : Create(n, size)
    BY <2>2, CreateStep
  <2>3. CASE AllocateData
    BY <2>3, AllocateStep
  <2>4. CASE WriteInode
    BY <2>4, WriteInodeStep
  <2>5. CASE WriteZeros
    BY <2>5, WriteZerosStep
  <2>6. CASE AddEntry
    BY <2>6, AddEntryStep
  <2>7. CASE CreateFails \/ ReleaseInode \/ ReleaseData
    BY <2>7, ReleaseSteps
  <2>8. CASE \/ \E n \in Name, h \in Handle : Open(n, h)
             \/ \E h, g \in Handle : Reopen(h, g)
    BY <2>8, OpenSteps
  <2>9. ASSUME NEW h \in Handle, Close(h) PROVE FileSysInv'
    BY <2>9, CloseStep
  <2>10. ASSUME NEW h \in Handle, DenyWrite(h) \/ AllowWrite(h) PROVE FileSysInv'
    BY <2>10, DenySteps
  <2>11. CASE \E h \in Handle, i \in 0 .. NSectors - 1 : Write(h, i)
    BY <2>11, WriteStep
  <2>12. CASE \E n \in Name : Remove(n)
    BY <2>12, RemoveStep
  <2>13. CASE Crash
    BY <2>13, CrashStep
  <2> QED BY <2>1, <2>2, <2>3, <2>4, <2>5, <2>6, <2>7, <2>8, <2>9, <2>10, <2>11, <2>12, <2>13
       DEF Next
<1> QED BY <1>1, <1>2, PTL DEF Spec

(* The disk and the tables in memory keep their types.                     *)
THEOREM FileSysTypes == Spec => []TypeOK
<1>1. FileSysInv => TypeOK
  BY DEF FileSysInv
<1> QED BY <1>1, FileSysInductive, PTL

(* open_cnt and deny_write_cnt are exact, whatever files were opened,      *)
(* reopened, closed and removed before.                                    *)
THEOREM CountsAreExact == Spec => []CountsExact
<1>1. FileSysInv => CountsExact
  BY DEF FileSysInv
<1> QED BY <1>1, FileSysInductive, PTL

(* No file of the directory shows another file's old data, after any       *)
(* crash: inode_create() writes its zeros before dir_add().                *)
THEOREM NoForeignDataEver == Spec => []NoForeignData
<1>1. FileSysInv => NoForeignData
  BY DEF FileSysInv
<1> QED BY <1>1, FileSysInductive, PTL

(* The disk is consistent at every write, so whenever the power goes.      *)
THEOREM DiskAlwaysConsistent == Spec => []DiskConsistent
<1>1. ASSUME FileSysInv PROVE DiskConsistent
  <2>1. TypeOK /\ SpaceDivided /\ NamesUnique
    BY <1>1 DEF FileSysInv
  <2>2. \A i \in 1..DirEntries : dir[i].in_use => dir[i].sector \in Live
    BY <2>1, ListedType DEF Live
  <2>3. ASSUME NEW i \in 1..DirEntries, NEW j \in 1..DirEntries,
               dir[i].in_use, dir[j].in_use, i # j
        PROVE  /\ dir[i].name # dir[j].name
               /\ Extent(dir[i].sector) \cap Extent(dir[j].sector) = {}
    <3>1. dir[i].name # dir[j].name /\ dir[i].sector # dir[j].sector
      BY <2>1, <2>3 DEF NamesUnique
    <3>2. dir[i].sector \in Live /\ dir[j].sector \in Live
      BY <2>2, <2>3
    <3> QED BY <2>1, <3>1, <3>2 DEF SpaceDivided
  <2>4. \A s \in Listed : dinode[s].magic /\ Extent(s) \subseteq dmap \ MetaSectors
    BY <2>1 DEF NamesUnique, SpaceDivided, Live
  <2> QED BY <2>3, <2>4 DEF DiskConsistent
<1> QED BY <1>1, FileSysInductive, PTL

LEMMA OpenExtentIs ==
  ASSUME InodesCurrent, NEW s \in DOMAIN open_inodes
  PROVE  OpenExtent(s) = Extent(s)
BY DEF InodesCurrent, OpenExtent, Extent

(* The sectors of an open file are its own until its last user closes it,  *)
(* also after the file is removed.                                         *)
THEOREM OpenFilesAreSafe == Spec => []OpenFilesSafe
<1>1. ASSUME FileSysInv PROVE OpenFilesSafe
  <2>1. SpaceDivided /\ InodesCurrent
    BY <1>1 DEF FileSysInv
  <2> SUFFICES ASSUME NEW s \in DOMAIN open_inodes
               PROVE  /\ OpenExtent(s) \subseteq free_map \ MetaSectors
                      /\ \A t \in DOMAIN open_inodes \ {s} : OpenExtent(s) \cap OpenExtent(t) = {}
                      /\ \A t \in Listed \ {s} : OpenExtent(s) \cap Extent(t) = {}
                      /\ op.at \in {"inode", "zero", "add"} =>
                           OpenExtent(s) \cap ({op.sector} \cup SectorRun(op.start, op.size)) = {}
    BY DEF OpenFilesSafe
  <2>2. \A t \in DOMAIN open_inodes : OpenExtent(t) = Extent(t) /\ t \in Live
    BY <2>1, OpenExtentIs DEF Live
  <2>3. Extent(s) \subseteq free_map \ MetaSectors /\ Extent(s) \cap OpSectors = {}
    BY <2>1, <2>2 DEF SpaceDivided
  <2>4. \A t \in Live : t # s => Extent(s) \cap Extent(t) = {}
    BY <2>1, <2>2 DEF SpaceDivided
  <2>5. op.at \in {"inode", "zero", "add"} =>
          OpSectors = {op.sector} \cup SectorRun(op.start, op.size)
    BY DEF OpSectors, OpRun
  <2>6. Listed \subseteq Live
    BY DEF Live
  <2> QED BY <2>2, <2>3, <2>4, <2>5, <2>6
<1> QED BY <1>1, FileSysInductive, PTL

(* Between operations nothing is marked but the metadata, the files, and   *)
(* what a crash or a failed dir_add() lost, and the disk's map agrees.     *)
THEOREM SpaceIsAccounted == Spec => []SpaceAccounted
<1>1. ASSUME FileSysInv PROVE SpaceAccounted
  <2> SUFFICES ASSUME op = Idle PROVE free_map = dmap /\ free_map = Owned \cup lost
    BY DEF SpaceAccounted
  <2>1. SpaceDivided /\ InodesCurrent /\ OpSectors = {}
    BY <1>1 DEF FileSysInv, OpSectors, Idle
  <2>2. \A s \in DOMAIN open_inodes : OpenExtent(s) = Extent(s)
    BY <2>1, OpenExtentIs
  <2>3. /\ free_map = dmap /\ MetaSectors \subseteq free_map /\ lost \subseteq free_map
        /\ \A s \in Live : Extent(s) \subseteq free_map
        /\ \A d \in free_map : d \in MetaSectors \cup lost \/ \E s \in Live : d \in Extent(s)
    BY <2>1 DEF SpaceDivided
  <2> DEFINE listed == UNION {Extent(s) : s \in Listed}
             open == UNION {OpenExtent(s) : s \in DOMAIN open_inodes}
  <2>4. Owned = MetaSectors \cup listed \cup open
    BY DEF Owned
  <2>5. \A d : d \in listed <=> \E s \in Listed : d \in Extent(s)
    OBVIOUS
  <2>6. \A d : d \in open <=> \E s \in DOMAIN open_inodes : d \in OpenExtent(s)
    OBVIOUS
  <2> HIDE DEF listed, open
  <2>7. ASSUME NEW d \in Owned PROVE d \in free_map
    <3>1. CASE \E s \in Listed : d \in Extent(s)
      BY <2>3, <3>1 DEF Live
    <3>2. CASE \E s \in DOMAIN open_inodes : d \in OpenExtent(s)
      BY <2>2, <2>3, <3>2 DEF Live
    <3> QED BY <2>3, <2>4, <2>5, <2>6, <3>1, <3>2
  <2>8. ASSUME NEW s \in Live, NEW d \in Extent(s) PROVE d \in Owned
    <3>1. CASE s \in Listed
      BY <2>4, <2>5, <3>1
    <3>2. CASE s \in DOMAIN open_inodes
      <4>1. d \in OpenExtent(s)
        BY <2>2, <3>2
      <4> QED BY <2>4, <2>6, <3>2, <4>1
    <3> QED BY <3>1, <3>2 DEF Live
  <2>9. MetaSectors \subseteq Owned
    BY DEF Owned
  <2>10. free_map \subseteq Owned \cup lost
    BY <2>3, <2>8, <2>9
  <2>11. Owned \cup lost \subseteq free_map
    BY <2>3, <2>7
  <2> QED BY <2>3, <2>10, <2>11
<1> QED BY <1>1, FileSysInductive, PTL
=============================================================================
