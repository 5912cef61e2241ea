-------------------------------- MODULE Boot --------------------------------
(***************************************************************************)
(* From power-on to the end of the kernel's actions: the loader looks for a   *)
(* kernel partition (threads/loader.S), main() parses the command line, the   *)
(* partition tables are read (devices/partition.c), roles are given to block  *)
(* devices (devices/block.c) and the actions run (threads/init.c).            *)
(*                                                                            *)
(* A machine is a sequence of disks; a disk has a size and partition tables   *)
(* at some sectors, sector 0 holding the master boot record.  A word of the   *)
(* command line is an option or an action name, with a value (0: no value).   *)
(***************************************************************************)
EXTENDS Integers, Sequences, FiniteSets, SequencesExt

CONSTANTS Machines,      \* the sequences of disks to boot with
          CmdLines,      \* the kernel command lines
          SectorMod,     \* 2^32: block_sector_t wraps here
          MaxNesting,    \* the nested tables the kernel stack has room for
          RtcSeed        \* what rtc_get_time() returns

VARIABLES phase,         \* where the boot is
          disks,         \* the machine's disks
          argv,          \* the words still to be read
          kernelAt,      \* where the kernel was loaded from: <<disk, entry>>
          opt,           \* the options' variables
          blocks,        \* all_blocks, in probe order
          role,          \* block_by_role
          ran            \* the actions executed, with their arguments

bootVars == <<phase, disks, argv, kernelAt, opt, blocks, role, ran>>

Signature == 43605       \* 0xaa55
KernelType == 32         \* 0x20; 0x21 filesys, 0x22 scratch
Extended == {5, 15, 133, 197}
Table(disk, sector) ==
  IF sector \in DOMAIN disk.tables THEN disk.tables[sector] ELSE [sig |-> 0, parts |-> <<>>]

---------------------------------------------------------------------------
(* threads/loader.S *)

(* The first entry of type 0x20 that is bootable, or 0. *)
BootEntry(disk) ==
  LET parts == Table(disk, 0).parts
      ok == {i \in 1..Len(parts) : parts[i].type = KernelType /\ parts[i].bootable}
  IN IF ok = {} THEN 0 ELSE Min(ok)

(* The scan from drive d.  INC leaves the carry flag alone, so JNC after
   next_drive tests the flag of the comparison that led there: a drive whose
   signature is below 0xaa55 ends the scan as if there were no more drives. *)
RECURSIVE LoaderScan(_, _)
LoaderScan(ds, d) ==
  LET sig == Table(ds[d], 0).sig
  IN CASE d > Len(ds) -> <<0, 0>>
       [] d <= Len(ds) /\ sig = Signature /\ BootEntry(ds[d]) # 0 -> <<d, BootEntry(ds[d])>>
       [] d <= Len(ds) /\ sig < Signature -> <<0, 0>>
       [] OTHER -> LoaderScan(ds, d + 1)

---------------------------------------------------------------------------
(* devices/partition.c: the partitions found, [ok, start, size, type], with
   those that found_partition() refuses (not ok). *)

FoundPartitionNoWrap(disk, type, start, size) ==
  LET s == start % SectorMod
      end == (s + size) % SectorMod
  IN [ok |-> s < disk.size /\ end <= disk.size, start |-> s, size |-> size, type |-> type]

FoundPartition(disk, type, start, size) ==
  LET s == start % SectorMod
      end == (s + size) % SectorMod
  IN [ok |-> s < disk.size /\ end >= s /\ end <= disk.size,
      start |-> s, size |-> size, type |-> type]

(* read_partition_table() for the table in `sector', whose entries come from
   the table in `from'.  The result is a sequence of partitions; Overflow stands
   for the exhaustion of the kernel stack. *)
Overflow == <<[ok |-> FALSE, start |-> -1, size |-> 0, type |-> 0]>>
RECURSIVE ScanTable(_, _, _, _, _)
ScanTable(disk, sector, primary, fixed, depth) ==
  LET pt == Table(disk, IF fixed THEN sector ELSE 0)
      entry(i) ==
        LET e == pt.parts[i]
        IN CASE e.size = 0 \/ e.type = 0 -> <<>>
             [] e.size # 0 /\ e.type \in Extended ->
                  ScanTable(disk, IF sector = 0 THEN e.offset ELSE e.offset + primary,
                            IF sector = 0 THEN e.offset ELSE primary, fixed, depth + 1)
             [] OTHER -> <<FoundPartition(disk, e.type, e.offset + sector, e.size)>>
  IN CASE depth > MaxNesting -> Overflow
       [] depth <= MaxNesting /\ (sector >= disk.size \/ pt.sig # Signature) -> <<>>
       [] OTHER -> FlattenSeq([i \in 1..Len(pt.parts) |-> entry(i)])

(* partition_scan() as the code does it: block_read() is given sector 0, not
   the sector of the table. *)
PartitionScan(disk) == ScanTable(disk, 0, 0, FALSE, 0)

(* Mutant: a partition is numbered when it is registered. *)
NumberedLate(ps) == LET good == SelectSeq(ps, LAMBDA p : p.ok)
                    IN [i \in 1..Len(good) |-> <<i, good[i]>>]

(* read_partition_table() numbers a partition before found_partition() looks
   at it, and one that is refused keeps its number. *)
Numbered(ps) == SelectSeq([i \in 1..Len(ps) |-> <<i, ps[i]>>], LAMBDA p : p[2].ok)

(* Every block device: each disk followed by its partitions. *)
Probe(ds) ==
  FlattenSeq([d \in 1..Len(ds) |->
    <<[disk |-> d, nr |-> 0, type |-> "raw", size |-> ds[d].size]>>
      \o LET ps == Numbered(PartitionScan(ds[d]))
             type(t) == CASE t = 32 -> "kernel" [] t = 33 -> "filesys" [] t = 34 -> "scratch"
                          [] t = 35 -> "swap" [] OTHER -> "foreign"
         IN [i \in 1..Len(ps) |->
               [disk |-> d, nr |-> ps[i][1], size |-> ps[i][2].size, type |-> type(ps[i][2].type)]]])

NoBlock == [disk |-> 0, nr |-> 0, type |-> "none", size |-> 0]

LocateLast(r, name) ==
  LET named == SelectSeq(blocks, LAMBDA b : <<b.disk, b.nr>> = name)
      typed == SelectSeq(blocks, LAMBDA b : b.type = r)
      found == IF name # <<>> THEN named ELSE typed
  IN IF found = <<>> THEN NoBlock ELSE Last(found)

(* locate_block_device(): by name if one was given, else the first of the type. *)
LocateBlockDevice(r, name) ==
  LET named == SelectSeq(blocks, LAMBDA b : <<b.disk, b.nr>> = name)
      typed == SelectSeq(blocks, LAMBDA b : b.type = r)
      found == IF name # <<>> THEN named ELSE typed
  IN IF found = <<>> THEN NoBlock ELSE found[1]

---------------------------------------------------------------------------
(* threads/init.c *)

BootInit ==
  /\ phase = "off" /\ disks = <<>> /\ argv = <<>> /\ kernelAt = <<0, 0>> /\ blocks = <<>>
  /\ opt = [how |-> "none", format |-> FALSE, filesys |-> <<>>, scratch |-> <<>>, seed |-> 0,
            rs |-> -1, ul |-> -1, sched |-> {}, policy |-> "fifo"]
  /\ role = [r \in {"filesys", "scratch"} |-> NoBlock]
  /\ ran = <<>>

(* The loader: it either jumps to the kernel or tells the BIOS that it failed. *)
PowerOn(ds, words) ==
  /\ phase = "off"
  /\ disks' = ds /\ argv' = words
  /\ kernelAt' = LoaderScan(ds, 1)
  /\ phase' = IF LoaderScan(ds, 1) = <<0, 0>> THEN "notfound" ELSE "options"
  /\ UNCHANGED <<opt, blocks, role, ran>>

Policies == {"fifo", "prio", "fair", "mlfqs"}

(* One iteration of parse_options().  "-rs" and "-ul" without a value fail in
   atoi(), "-sched" without one in strcmp(). *)
ParseOption ==
  /\ phase = "options" /\ argv # <<>> /\ argv[1].option
  /\ LET w == argv[1].name
         v == argv[1].value
         next == CASE w = "-q" -> [opt EXCEPT !.how = "poweroff"]
                   [] w = "-r" -> [opt EXCEPT !.how = "reboot"]
                   [] w = "-f" -> [opt EXCEPT !.format = TRUE]
                   [] w = "-filesys" -> [opt EXCEPT !.filesys = v]
                   [] w = "-scratch" -> [opt EXCEPT !.scratch = v]
                   [] w = "-rs" /\ v # <<>> -> [opt EXCEPT !.seed = v[1], !.rs = v[1]]
                   [] w = "-ul" /\ v # <<>> -> [opt EXCEPT !.ul = v[1]]
                   [] w = "-sched" /\ v # <<>> -> [opt EXCEPT !.sched = @ \cup {v[1]}]
                   [] OTHER -> opt
         good == \/ w \in {"-q", "-r", "-f", "-filesys", "-scratch"}
                 \/ w \in {"-rs", "-ul"} /\ v # <<>>
                 \/ w = "-sched" /\ v # <<>> /\ v[1] \in Policies
     IN /\ opt' = next
        /\ phase' = CASE w = "-h" -> "poweroff" [] w # "-h" /\ good -> phase [] OTHER -> "panic"
  /\ argv' = Tail(argv)
  /\ UNCHANGED <<disks, kernelAt, blocks, role, ran>>

(* The end of parse_options(): the policy, and the seed from the clock. *)
ParseOptionsEnd ==
  /\ phase = "options" /\ (argv # <<>> => ~argv[1].option)
  /\ opt' = [opt EXCEPT !.seed = RtcSeed,
                        !.policy = IF Cardinality(opt.sched) = 1 THEN CHOOSE s \in opt.sched : TRUE
                                   ELSE @]
  /\ phase' = IF Cardinality(opt.sched) > 1 THEN "panic" ELSE "devices"
  /\ UNCHANGED <<disks, argv, kernelAt, blocks, role, ran>>

(* ide_init(): every disk is registered and scanned, unless the scan runs over
   the kernel stack. *)
ProbeDevices ==
  /\ phase = "devices"
  /\ blocks' = Probe(disks)
  /\ phase' = IF \E d \in 1..Len(disks) : Overflow[1] \in ToSet(PartitionScan(disks[d]))
              THEN "overrun" ELSE "roles"
  /\ UNCHANGED <<disks, argv, kernelAt, opt, role, ran>>

(* locate_block_devices() and filesys_init(): a name that does not exist, or no
   file system device, panics. *)
LocateBlockDevices ==
  LET fs == LocateBlockDevice("filesys", opt.filesys)
      sc == LocateBlockDevice("scratch", opt.scratch)
  IN /\ phase = "roles"
     /\ role' = [role EXCEPT !["filesys"] = fs, !["scratch"] = sc]
     /\ phase' = IF fs = NoBlock \/ (opt.scratch # <<>> /\ sc = NoBlock) THEN "panic"
                 ELSE "actions"
     /\ UNCHANGED <<disks, argv, kernelAt, opt, blocks, ran>>

(* The table of run_actions(): the words an action takes, its name included. *)
ActionArgc(name) == CASE name \in {"run", "rukt", "rtkt", "cat", "rm", "append"} -> 2
                      [] name \in {"ls", "extract"} -> 1
                      [] OTHER -> 0

(* One iteration of run_actions(). *)
RunAction ==
  /\ phase = "actions" /\ argv # <<>>
  /\ LET argc == ActionArgc(argv[1].name)
     IN IF argc = 0 \/ Len(argv) < argc
        THEN phase' = "panic" /\ UNCHANGED <<argv, ran>>
        ELSE /\ ran' = Append(ran, SubSeq(argv, 1, argc))
             /\ argv' = SubSeq(argv, argc + 1, Len(argv))
             /\ UNCHANGED phase
  /\ UNCHANGED <<disks, kernelAt, opt, blocks, role>>

(* shutdown() does what -q or -r asked for, or returns. *)
Shutdown ==
  /\ phase = "actions" /\ argv = <<>>
  /\ phase' = CASE opt.how = "poweroff" -> "poweroff" [] opt.how = "reboot" -> "reboot"
                [] OTHER -> "idle"
  /\ UNCHANGED <<disks, argv, kernelAt, opt, blocks, role, ran>>

BootNext ==
  \/ \E ds \in Machines, words \in CmdLines : PowerOn(ds, words)
  \/ ParseOption \/ ParseOptionsEnd \/ ProbeDevices \/ LocateBlockDevices \/ RunAction \/ Shutdown

BootSpec == BootInit /\ [][BootNext]_bootVars

---------------------------------------------------------------------------
Entries(disk) == Table(disk, 0).parts
Primary(disk) == \A e \in ToSet(Entries(disk)) : e.type \notin Extended

(* The kernel that runs is the first bootable kernel partition in drive order;
   on disks without extended partitions, every partition that is registered
   lies within its disk, none that does is left out, and it is named by its
   place among the entries that are not empty; a role goes to the device named or to the first of its type; and the words executed are the
   command line's, in order (loader.S, partition.c, init.c). *)
BootRight ==
  /\ kernelAt # <<0, 0>> =>
       /\ Entries(disks[kernelAt[1]])[kernelAt[2]].type = KernelType
       /\ \A d \in 1..(kernelAt[1] - 1) : BootEntry(disks[d]) = 0
  /\ phase \in {"roles", "actions"} =>
       \A d \in 1..Len(disks) : Primary(disks[d]) =>
         LET mine == SelectSeq(blocks, LAMBDA b : b.disk = d /\ b.nr > 0)
             used == SelectSeq(Entries(disks[d]), LAMBDA e : e.size > 0 /\ e.type # 0)
             fits == {i \in 1..Len(used) : used[i].offset + used[i].size <= disks[d].size}
         IN Table(disks[d], 0).sig = Signature =>
              /\ Len(mine) = Cardinality(fits)
              /\ \A i \in fits : \E b \in ToSet(mine) : b.nr = i /\ b.size = used[i].size
  /\ phase = "actions" =>
       \A r \in {"filesys", "scratch"} :
         IF opt[r] # <<>> THEN <<role[r].disk, role[r].nr>> = opt[r]
         ELSE \A i \in 1..Len(blocks) :
                blocks[i].type = r => \E j \in 1..i : blocks[j] = role[r] /\ blocks[j].type = r
  /\ ran # <<>> => \E words \in CmdLines : IsSuffix(FlattenSeq(ran) \o argv, words)

(* What the comment of read_partition_table() says: the table it reads is the
   one in the given sector (partition.c). *)
PartitionsRight ==
  phase \in {"roles", "overrun"} =>
    \A d \in 1..Len(disks) : PartitionScan(disks[d]) = ScanTable(disks[d], 0, 0, TRUE, 0)

-----------------------------------------------------------------------------
(* For TLC: one disk with the kernel's partition, a file system, and an    *)
(* extended partition at sector 8 whose own table has one more partition,  *)
(* at sector 9 of the disk.                                                *)
Ent(t, b, o, s) == [type |-> t, bootable |-> b, offset |-> o, size |-> s]
Mbr(parts) == [sig |-> 43605, parts |-> parts]
MCMachines ==
  {<<[size |-> 40,
      tables |-> 0 :> Mbr(<<Ent(32, TRUE, 1, 2), Ent(33, FALSE, 3, 2), Ent(5, FALSE, 8, 20)>>)
              @@ 8 :> Mbr(<<Ent(34, FALSE, 1, 3)>>)]>>}
MCCmdLines == {<<[option |-> TRUE, name |-> "-q", value |-> <<>>]>>}
=============================================================================
