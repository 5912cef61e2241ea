------------------------------ MODULE FileSys -------------------------------
(***************************************************************************)
(* The Pintos file system: filesys/{filesys,inode,directory,free-map,      *)
(* file}.c on a disk that keeps what was written when the machine crashes. *)
(*                                                                         *)
(* The file system has no locks and is entered by one thread at a time, so *)
(* one operation is in progress (op); it is cut into steps at every write  *)
(* to the disk, and a crash may fall between any two of them.  There is no *)
(* cache: block_write() is on the disk when it returns.  Sizes are in      *)
(* sectors (module SectorIO is about bytes), the free map and the root     *)
(* directory each fit in one sector, and the zeroing of a new file is one  *)
(* step: no entry leads to the file until it is over.                      *)
(***************************************************************************)
EXTENDS Integers, FiniteSets, FiniteSetsExt
LOCAL INSTANCE TLC

CONSTANTS
  Name, Handle,
  NSectors,    \* size of the file system device
  DirEntries,  \* entries of the root directory, 16 in do_format()
  Sizes,       \* sizes of files, in sectors
  MaxCrashes   \* bound on crashes

ASSUME FSSectors == NSectors \in Nat /\ NSectors > 4
ASSUME FSEntries == DirEntries \in Nat
ASSUME FSSizes == Sizes \subseteq Nat
ASSUME FSCrashes == MaxCrashes \in Nat
ASSUME FSHandles == IsFiniteSet(Handle)

VARIABLES
  dmap, dinode, dir, content,  \* disk: free map, inodes, root directory, data
  free_map,                    \* the bitmap in memory
  open_inodes,                 \* the list of struct inode, by sector
  file,                        \* open struct files
  op,                          \* the operation in progress
  lost,                        \* sectors a failure or a crash left marked
  crashes

disk == <<dmap, dinode, dir, content>>
memory == <<free_map, open_inodes, file>>
vars == <<disk, memory, op, lost, crashes>>

Sector == 0 .. NSectors - 1

(* FREE_MAP_SECTOR, ROOT_DIR_SECTOR, and the data of these two files.      *)
MetaSectors == 0..3

NoFile == [sector |-> 0, deny |-> FALSE]
NoInode == [start |-> 0, length |-> 0, magic |-> FALSE]
FreeEntry == [name |-> "", sector |-> 0, in_use |-> FALSE]
Idle == [at |-> "idle"]

(* A disk after do_format(), mounted by filesys_init().                    *)
Init ==
  /\ dmap = MetaSectors
  /\ dinode = [s \in Sector |-> NoInode]
  /\ dir = [i \in 1..DirEntries |-> FreeEntry]
  /\ content = [s \in Sector |-> 0]
  /\ free_map = MetaSectors
  /\ open_inodes = [s \in {} |-> 0]
  /\ file = [h \in Handle |-> NoFile]
  /\ op = Idle
  /\ lost = {}
  /\ crashes = MaxCrashes

SectorRun(start, length) == start .. start + length - 1
Extent(s) == {s} \cup SectorRun(dinode[s].start, dinode[s].length)

(* Mutant: the search runs one sector past the end of the device.          *)
RunsPastEnd(cnt) == {s \in 0 .. NSectors - cnt + 1 : SectorRun(s, cnt) \cap free_map = {}}

(* bitmap_scan(): the start of the first run of cnt free sectors.          *)
Runs(cnt) == {s \in 0 .. NSectors - cnt : SectorRun(s, cnt) \cap free_map = {}}

(* free_map_allocate() and free_map_release() change the bitmap in memory  *)
(* and write the free map file.                                            *)
Mark(S) == free_map' = free_map \cup S /\ dmap' = free_map \cup S

(* Mutant: the free map file is not written after a release.               *)
ReleaseUnwritten(S) == free_map' = free_map \ S /\ UNCHANGED dmap

Release(S) == free_map' = free_map \ S /\ dmap' = free_map \ S

(* lookup()                                                                *)
Entry(n) == {i \in 1..DirEntries : dir[i].in_use /\ dir[i].name = n}
FreeSlots == {i \in 1..DirEntries : ~dir[i].in_use}

Free == {h \in Handle : file[h] = NoFile}
At(label) == op.at = label
Goto(label) == op' = [op EXCEPT !.at = label]
Return == op' = Idle

-----------------------------------------------------------------------------
(* filesys_create(): free_map_allocate(1, &inode_sector).                  *)
Create(n, size) ==
  /\ op = Idle
  /\ IF Runs(1) = {}
       THEN UNCHANGED <<free_map, dmap, op>>
       ELSE /\ Mark({Min(Runs(1))})
            /\ op' = [at |-> "data", name |-> n, size |-> size, sector |-> Min(Runs(1)),
                      start |-> 0]
  /\ UNCHANGED <<dinode, dir, content, open_inodes, file, lost, crashes>>

(* inode_create(): the data sectors, then the inode, then zeros.  It fails *)
(* when calloc() does, or when there is no run of free sectors.            *)
AllocateData ==
  /\ At("data")
  /\ \/ Goto("fail") /\ UNCHANGED <<free_map, dmap>>
     \/ /\ Runs(op.size) # {}
        /\ Mark(SectorRun(Min(Runs(op.size)), op.size))
        /\ op' = [op EXCEPT !.at = "inode", !.start = Min(Runs(op.size))]
  /\ UNCHANGED <<dinode, dir, content, open_inodes, file, lost, crashes>>

WriteInode ==
  /\ At("inode")
  /\ dinode' = [dinode EXCEPT ![op.sector] =
                  [start |-> op.start, length |-> op.size, magic |-> TRUE]]
  /\ Goto("zero")
  /\ UNCHANGED <<dmap, dir, content, memory, lost, crashes>>

(* Mutant: the new file's sectors are not cleared.                         *)
WriteZerosNot ==
  /\ At("zero") /\ Goto("add")
  /\ UNCHANGED <<disk, memory, lost, crashes>>

WriteZeros ==
  /\ At("zero")
  /\ content' = [s \in Sector |-> IF s \in SectorRun(op.start, op.size) THEN 0
                                                                    ELSE content[s]]
  /\ Goto("add")
  /\ UNCHANGED <<dmap, dinode, dir, memory, lost, crashes>>

(* Mutant: dir_add() does not look the name up.                            *)
AddEntryUnchecked ==
  /\ At("add") /\ FreeSlots # {}
  /\ dir' = [dir EXCEPT ![Min(FreeSlots)] =
                [name |-> op.name, sector |-> op.sector, in_use |-> TRUE]]
  /\ Return
  /\ UNCHANGED <<dmap, dinode, content, memory, lost, crashes>>

(* dir_add(): it fails when the name exists or the directory is full.      *)
(* filesys_create() then releases the inode's sector, and not the data.    *)
AddEntry ==
  /\ At("add")
  /\ IF Entry(op.name) # {} \/ FreeSlots = {}
       THEN Goto("fail") /\ UNCHANGED dir
            /\ lost' = lost \cup SectorRun(op.start, op.size)
       ELSE /\ dir' = [dir EXCEPT ![Min(FreeSlots)] =
                         [name |-> op.name, sector |-> op.sector, in_use |-> TRUE]]
            /\ Return
            /\ UNCHANGED lost
  /\ UNCHANGED <<dmap, dinode, content, memory, crashes>>

CreateFails ==
  /\ At("fail")
  /\ Release({op.sector})
  /\ Return
  /\ UNCHANGED <<dinode, dir, content, open_inodes, file, lost, crashes>>

-----------------------------------------------------------------------------
(* inode_open(): the inode in the list, or a new one read from the disk.   *)
OpenedInodes(s) ==
  IF s \in DOMAIN open_inodes
    THEN [open_inodes EXCEPT ![s].open_cnt = @ + 1]
    ELSE [t \in DOMAIN open_inodes \cup {s} |->
            IF t = s THEN [open_cnt |-> 1, deny |-> 0, removed |-> FALSE,
                           start |-> dinode[s].start, length |-> dinode[s].length]
            ELSE open_inodes[t]]

(* filesys_open(); nothing happens when the name does not exist.           *)
Open(n, h) ==
  /\ op = Idle /\ h \in Free
  /\ \E i \in Entry(n) :
       /\ open_inodes' = OpenedInodes(dir[i].sector)
       /\ file' = [file EXCEPT ![h] = [sector |-> dir[i].sector, deny |-> FALSE]]
  /\ UNCHANGED <<disk, free_map, op, lost, crashes>>

(* file_reopen()                                                           *)
Reopen(h, g) ==
  /\ op = Idle /\ h \notin Free /\ g \in Free
  /\ open_inodes' = OpenedInodes(file[h].sector)
  /\ file' = [file EXCEPT ![g] = [sector |-> file[h].sector, deny |-> FALSE]]
  /\ UNCHANGED <<disk, free_map, op, lost, crashes>>

(* Mutant: an inode is released by its first closer.                       *)
InodeCloseFirst(s, inodes) ==
  /\ op' = IF inodes[s].removed
             THEN [at |-> "release", sector |-> s, start |-> inodes[s].start,
                   size |-> inodes[s].length]
             ELSE Idle
  /\ open_inodes' = IF inodes[s].open_cnt > 1
                      THEN [inodes EXCEPT ![s].open_cnt = @ - 1]
                      ELSE [t \in DOMAIN inodes \ {s} |-> inodes[t]]

(* inode_close(): the last closer of a removed inode goes on to free its   *)
(* blocks.  Applied to the list `inodes', which is that of the caller.     *)
InodeClose(s, inodes) ==
  IF inodes[s].open_cnt > 1
    THEN /\ open_inodes' = [inodes EXCEPT ![s].open_cnt = @ - 1]
         /\ op' = Idle
    ELSE /\ open_inodes' = [t \in DOMAIN inodes \ {s} |-> inodes[t]]
         /\ op' = IF inodes[s].removed
                    THEN [at |-> "release", sector |-> s, start |-> inodes[s].start,
                          size |-> inodes[s].length]
                    ELSE Idle

(* The two free_map_release() calls of inode_close().                      *)
ReleaseInode ==
  /\ At("release")
  /\ Release({op.sector})
  /\ Goto("releaseData")
  /\ UNCHANGED <<dinode, dir, content, open_inodes, file, lost, crashes>>

ReleaseData ==
  /\ At("releaseData")
  /\ Release(SectorRun(op.start, op.size))
  /\ Return
  /\ UNCHANGED <<dinode, dir, content, open_inodes, file, lost, crashes>>

(* Mutant: file_close() forgets to allow writes again.                     *)
CloseKeepsDeny(h) ==
  /\ op = Idle /\ h \notin Free
  /\ InodeClose(file[h].sector, open_inodes)
  /\ file' = [file EXCEPT ![h] = NoFile]
  /\ UNCHANGED <<disk, free_map, lost, crashes>>

(* file_close(): file_allow_write(), then inode_close().                   *)
Close(h) ==
  /\ op = Idle /\ h \notin Free
  /\ LET s == file[h].sector
     IN  InodeClose(s, [open_inodes EXCEPT ![s].deny = IF file[h].deny THEN @ - 1 ELSE @])
  /\ file' = [file EXCEPT ![h] = NoFile]
  /\ UNCHANGED <<disk, free_map, lost, crashes>>

(* dir_remove(): the entry is erased on the disk (nothing reads the fields *)
(* of an unused entry), then the inode is marked and closed.               *)
Remove(n) ==
  /\ op = Idle
  /\ \E i \in Entry(n) :
       /\ dir' = [dir EXCEPT ![i] = FreeEntry]
       /\ LET s == dir[i].sector
          IN  InodeClose(s, [OpenedInodes(s) EXCEPT ![s].removed = TRUE])
  /\ UNCHANGED <<dmap, dinode, content, free_map, file, lost, crashes>>

-----------------------------------------------------------------------------
(* file_write() of the i-th sector of the file: what is written is marked  *)
(* with the file's inode number.  inode_write_at() refuses while denied.   *)
Write(h, i) ==
  /\ op = Idle /\ h \notin Free
  /\ LET inode == open_inodes[file[h].sector]
     IN  /\ inode.deny = 0 /\ i < inode.length
         /\ content' = [content EXCEPT ![inode.start + i] = file[h].sector]
  /\ UNCHANGED <<dmap, dinode, dir, memory, op, lost, crashes>>

(* file_deny_write() and file_allow_write()                                *)
DenyWrite(h) ==
  /\ op = Idle /\ h \notin Free /\ ~file[h].deny
  /\ file' = [file EXCEPT ![h].deny = TRUE]
  /\ open_inodes' = [open_inodes EXCEPT ![file[h].sector].deny = @ + 1]
  /\ UNCHANGED <<disk, free_map, op, lost, crashes>>

AllowWrite(h) ==
  /\ op = Idle /\ h \notin Free /\ file[h].deny
  /\ file' = [file EXCEPT ![h].deny = FALSE]
  /\ open_inodes' = [open_inodes EXCEPT ![file[h].sector].deny = @ - 1]
  /\ UNCHANGED <<disk, free_map, op, lost, crashes>>

(* The sectors of the files in the directory, on the disk.                 *)
Listed == {dir[i].sector : i \in {j \in 1..DirEntries : dir[j].in_use}}

(* A crash, and filesys_init(FALSE): memory is lost, and the free map read *)
(* back.  The files that were removed but open, and the operation that was *)
(* in progress, may leave sectors marked.                                  *)
Crash ==
  /\ crashes > 0
  /\ crashes' = crashes - 1
  /\ free_map' = dmap
  /\ open_inodes' = [s \in {} |-> 0]
  /\ file' = [h \in Handle |-> NoFile]
  /\ op' = Idle
  /\ lost' = dmap \ (MetaSectors \cup UNION {Extent(s) : s \in Listed})
  /\ UNCHANGED disk

Next ==
  \/ \E n \in Name, size \in Sizes : Create(n, size)
  \/ AllocateData \/ WriteInode \/ WriteZeros \/ AddEntry \/ CreateFails
  \/ \E n \in Name, h \in Handle : Open(n, h)
  \/ \E h, g \in Handle : Reopen(h, g)
  \/ \E h \in Handle : Close(h) \/ DenyWrite(h) \/ AllowWrite(h)
  \/ \E h \in Handle, i \in 0 .. NSectors - 1 : Write(h, i)
  \/ \E n \in Name : Remove(n)
  \/ ReleaseInode \/ ReleaseData
  \/ Crash

Spec == Init /\ [][Next]_vars

-----------------------------------------------------------------------------
Labels == {"idle", "data", "inode", "zero", "add", "fail", "release", "releaseData"}

(* Type correctness of the disk and of the tables in memory.               *)
TypeOK ==
  /\ dmap \subseteq Sector /\ free_map \subseteq Sector /\ lost \subseteq Sector
  /\ dinode \in [Sector -> [start : Sector, length : Sizes \cup {0}, magic : BOOLEAN]]
  /\ dir \in [1..DirEntries -> [name : Name \cup {""}, sector : Sector, in_use : BOOLEAN]]
  /\ content \in [Sector -> Sector]
  /\ DOMAIN open_inodes \subseteq Sector
  /\ \A s \in DOMAIN open_inodes :
       open_inodes[s] \in [open_cnt : Nat, deny : Nat, removed : BOOLEAN,
                           start : Sector, length : Sizes \cup {0}]
  /\ file \in [Handle -> [sector : Sector, deny : BOOLEAN]]
  /\ op.at \in Labels
  /\ crashes \in Nat

(* Whenever the power goes, the disk is consistent: names are unique, an   *)
(* entry leads to an inode, its sectors are marked in the free map on the  *)
(* disk, and no two files share a sector, nor a file and the metadata.     *)
DiskConsistent ==
  /\ \A i, j \in 1..DirEntries :
       (dir[i].in_use /\ dir[j].in_use /\ i # j) =>
         /\ dir[i].name # dir[j].name
         /\ Extent(dir[i].sector) \cap Extent(dir[j].sector) = {}
  /\ \A s \in Listed : /\ dinode[s].magic
                       /\ Extent(s) \subseteq dmap \ MetaSectors

(* A file that is open keeps its sectors, removed or not: they stay marked *)
(* and belong to no other open file, to no other file of the directory and *)
(* not to the file being created.                                          *)
OpenExtent(s) == {s} \cup SectorRun(open_inodes[s].start, open_inodes[s].length)
OpenFilesSafe ==
  \A s \in DOMAIN open_inodes :
    /\ OpenExtent(s) \subseteq free_map \ MetaSectors
    /\ \A t \in DOMAIN open_inodes \ {s} : OpenExtent(s) \cap OpenExtent(t) = {}
    /\ \A t \in Listed \ {s} : OpenExtent(s) \cap Extent(t) = {}
    /\ op.at \in {"inode", "zero", "add"} =>
         OpenExtent(s) \cap ({op.sector} \cup SectorRun(op.start, op.size)) = {}

(* open_cnt counts the open files, deny_write_cnt those that deny writes:  *)
(* the assertions of inode_deny_write() and inode_allow_write() hold, and  *)
(* writes are possible again when every denier has closed its file.        *)
Users(s) == {h \in Handle : file[h] # NoFile /\ file[h].sector = s}
CountsExact ==
  /\ \A s \in DOMAIN open_inodes :
       /\ open_inodes[s].open_cnt = Cardinality(Users(s))
       /\ open_inodes[s].deny = Cardinality({h \in Users(s) : file[h].deny})
  /\ \A h \in Handle \ Free : file[h].sector \in DOMAIN open_inodes

(* Between operations every marked sector is accounted for: it is metadata *)
(* or belongs to a file of the directory or to an open file, or it was     *)
(* lost by a crash or by a creation that failed in dir_add().              *)
Owned == MetaSectors \cup (UNION {Extent(s) : s \in Listed})
           \cup (UNION {OpenExtent(s) : s \in DOMAIN open_inodes})
SpaceAccounted ==
  op = Idle => free_map = dmap /\ free_map = Owned \cup lost

(* A file holds zeros or what was written to it, never another file's old  *)
(* data.                                                                   *)
NoForeignData ==
  \A s \in Listed : \A d \in SectorRun(dinode[s].start, dinode[s].length) :
    content[d] \in {0, s}

-----------------------------------------------------------------------------
(***************************************************************************)
(* What makes these inductive: the files, the operation in progress and    *)
(* the lost sectors divide the marked sectors among them.                  *)
(***************************************************************************)
Creating == {"data", "inode", "zero", "add", "fail"}
Releasing == {"release", "releaseData"}
OpType ==
  op \in {Idle}
    \cup [at : Creating, name : Name, size : Sizes, sector : Sector, start : Sector]
    \cup [at : Releasing, size : Sizes \cup {0}, sector : Sector, start : Sector]

(* The sectors the operation in progress has marked and not yet released   *)
(* or made part of a file.                                                 *)
OpRun == SectorRun(op.start, op.size)
OpSectors ==
  IF op.at \in {"data", "fail"} THEN {op.sector}
  ELSE IF op.at \in {"inode", "zero", "add", "release"} THEN {op.sector} \cup OpRun
  ELSE IF op.at = "releaseData" THEN OpRun
  ELSE {}

(* The files: those of the directory, and those removed but still open.    *)
Live == Listed \cup DOMAIN open_inodes
DataRun(s) == SectorRun(dinode[s].start, dinode[s].length)

SpaceDivided ==
  /\ dmap = free_map /\ MetaSectors \subseteq free_map
  /\ \A s \in Live : Extent(s) \subseteq free_map \ MetaSectors /\ s \notin DataRun(s)
  /\ \A s, t \in Live : s # t => Extent(s) \cap Extent(t) = {}
  /\ \A s \in Live : Extent(s) \cap OpSectors = {} /\ Extent(s) \cap lost = {}
  /\ OpSectors \subseteq free_map \ MetaSectors /\ lost \subseteq free_map \ MetaSectors
  /\ lost \cap OpSectors = {}
  /\ \A d \in free_map : \/ d \in MetaSectors \cup lost \cup OpSectors
                         \/ \E s \in Live : d \in Extent(s)

(* Entries differ in name and inode, and lead to inodes that are written.  *)
NamesUnique ==
  /\ \A i, j \in 1..DirEntries : (dir[i].in_use /\ dir[j].in_use /\ i # j) =>
       dir[i].name # dir[j].name /\ dir[i].sector # dir[j].sector
  /\ \A s \in Listed : dinode[s].magic

(* An inode in memory has a user, agrees with the disk, and is marked      *)
(* removed exactly when its entry is gone.                                 *)
InodesCurrent ==
  \A s \in DOMAIN open_inodes :
    /\ open_inodes[s].start = dinode[s].start /\ open_inodes[s].length = dinode[s].length
    /\ open_inodes[s].removed <=> s \notin Listed
    /\ open_inodes[s].open_cnt > 0

(* A new file's inode and zeros are on the disk before its entry.          *)
OpOrdered ==
  /\ op.at \in {"inode", "zero", "add", "release"} => op.sector \notin OpRun
  /\ op.at \in {"zero", "add"} =>
       dinode[op.sector] = [start |-> op.start, length |-> op.size, magic |-> TRUE]
  /\ op.at = "add" => \A d \in OpRun : content[d] = 0

FileSysInv ==
  /\ TypeOK /\ OpType
  /\ SpaceDivided /\ NamesUnique /\ InodesCurrent /\ OpOrdered
  /\ CountsExact /\ NoForeignData
-----------------------------------------------------------------------------
(* For TLC: handles and names are interchangeable.                         *)
Symmetry == Permutations(Handle) \cup Permutations(Name)
=============================================================================
