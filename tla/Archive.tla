------------------------------- MODULE Archive ------------------------------
(***************************************************************************)
(* Moving files between the host and the Pintos file system: the commands    *)
(* `extract' and `append' of filesys/fsutil.c and the ustar headers of        *)
(* lib/ustar.c.  The scratch device is a sequence of sectors; each boot       *)
(* starts reading and writing at sector 0 (the functions' static variables).  *)
(* A name is a sequence of characters, because sanitising works on them.      *)
(***************************************************************************)
EXTENDS Integers, Sequences, FiniteSets, SequencesExt

CONSTANTS SectorBytes,   \* BLOCK_SECTOR_SIZE
          ScratchSize,   \* sectors of the scratch device
          FileNames,     \* the names of files, as the user or the archive gives them
          FileData,      \* the contents files can have
          NameMax,       \* 99: the longest name a header holds
          OctalMax       \* ULONG_MAX

VARIABLES scratch,       \* the sectors
          fsFiles,       \* the file system: name -> contents
          extractAt,     \* fsutil_extract()'s static position
          appendAt,      \* fsutil_append()'s static position
          appended,      \* the files appended since the boot
          boots,         \* the number of boots so far
          arPanic        \* the kernel has panicked

archiveVars == <<scratch, fsFiles, extractAt, appendAt, appended, boots, arPanic>>

---------------------------------------------------------------------------
(* lib/ustar.c *)

(* Mutant: one prefix only, though stripping can uncover another. *)
StripOnce(name) ==
  CASE IsPrefix(<<"/">>, name) -> Tail(name)
    [] IsPrefix(<<".", "/">>, name) -> SubSeq(name, 3, Len(name))
    [] IsPrefix(<<".", ".", "/">>, name) -> SubSeq(name, 4, Len(name))
    [] name = <<>> \/ name = <<".", ".">> -> <<".">>
    [] OTHER -> name

(* strip_antisocial_prefixes(): drop "/", "./" and "../" from the front. *)
RECURSIVE Strip(_)
Strip(name) ==
  CASE IsPrefix(<<"/">>, name) -> Strip(Tail(name))
    [] IsPrefix(<<".", "/">>, name) -> Strip(SubSeq(name, 3, Len(name)))
    [] IsPrefix(<<".", ".", "/">>, name) -> Strip(SubSeq(name, 4, Len(name)))
    [] name = <<>> \/ name = <<".", ".">> -> <<".">>
    [] OTHER -> name

Zeros == [kind |-> "zeros"]
Data(bytes) == [kind |-> "data", bytes |-> bytes]
BadHeader == [kind |-> "corrupt"]

(* The checksum covers every other field; calculate_chksum() stands for it. *)
Header(name, type, size) == [kind |-> "header", name |-> name, type |-> type, size |-> size]

(* ustar_make_header() fails when the name is too long. *)
MakeHeader(name, size) ==
  IF Len(Strip(name)) > NameMax THEN BadHeader ELSE Header(Strip(name), "regular", size)

(* ustar_parse_header(): what a sector says, "eof" or an error. *)
ParseHeader(sector) ==
  CASE sector = Zeros -> [type |-> "eof"]
    [] sector.kind = "header" -> [type |-> sector.type, name |-> Strip(sector.name),
                                  size |-> IF sector.type = "regular" THEN sector.size ELSE 0]
    [] OTHER -> [type |-> "error"]

(* parse_octal_field() on digits (0..7, 8 for a space or a null, 9 for any other
   byte): the value, or -1.  The check keeps value * 8 from wrapping. *)
RECURSIVE ParseOctal(_, _, _)
ParseOctal(s, ofs, value) ==
  CASE ofs > Len(s) -> -1
    [] ofs <= Len(s) /\ s[ofs] < 8 ->
         IF value > OctalMax \div 8 THEN -1
         ELSE ParseOctal(s, ofs + 1, (s[ofs] + value * 8) % (OctalMax + 1))
    [] ofs <= Len(s) /\ s[ofs] = 8 -> IF ofs > 1 THEN value ELSE -1
    [] OTHER -> -1

RECURSIVE OctalValue(_)
OctalValue(s) == IF s = <<>> THEN 0 ELSE OctalValue(Front(s)) * 8 + Last(s)

---------------------------------------------------------------------------

(* The sectors of a file's data; the last is padded with zeros. *)
Sectors(bytes) ==
  [k \in 1..((Len(bytes) + SectorBytes - 1) \div SectorBytes) |->
     Data([i \in 1..SectorBytes |->
             LET j == (k - 1) * SectorBytes + i IN IF j <= Len(bytes) THEN bytes[j] ELSE 0])]

(* What `size' bytes starting at sector `at' of the device d are. *)
ReadData(d, at, size) ==
  [i \in 1..size |-> d[at + (i - 1) \div SectorBytes].bytes[((i - 1) % SectorBytes) + 1]]

Blocks(size) == (size + SectorBytes - 1) \div SectorBytes
Overwrite(d, at, sectors) ==
  [k \in DOMAIN d |-> IF k \in at..(at + Len(sectors) - 1) THEN sectors[k - at + 1] ELSE d[k]]

ArchiveInit ==
  /\ scratch = [k \in 1..ScratchSize |-> Zeros]
  /\ fsFiles = <<>> /\ extractAt = 1 /\ appendAt = 1 /\ appended = <<>> /\ boots = 0
  /\ arPanic = FALSE

(* The host puts one entry and the end marker on the device, before a boot. *)
HostWrites(sector, bytes) ==
  /\ boots = 0 /\ scratch[1] = Zeros
  /\ scratch' = Overwrite(scratch, 1, <<sector>> \o Sectors(bytes))
  /\ UNCHANGED <<fsFiles, extractAt, appendAt, appended, boots, arPanic>>

(* A boot with an empty file system. *)
Boot ==
  /\ ~arPanic /\ boots < 2
  /\ boots' = boots + 1
  /\ fsFiles' = <<>> /\ extractAt' = 1 /\ appendAt' = 1 /\ appended' = <<>>
  /\ UNCHANGED <<scratch, arPanic>>

(* A file that the kernel itself writes, with a simple name. *)
CreateFile(name, bytes) ==
  /\ boots > 0 /\ ~arPanic
  /\ name \notin DOMAIN fsFiles
  /\ fsFiles' = [n \in DOMAIN fsFiles \cup {name} |-> IF n = name THEN bytes ELSE fsFiles[n]]
  /\ UNCHANGED <<scratch, extractAt, appendAt, appended, boots, arPanic>>

(* One entry of fsutil_extract()'s loop.  A directory is skipped. *)
ExtractEntry ==
  LET h == ParseHeader(scratch[extractAt])
  IN /\ boots > 0 /\ ~arPanic /\ appendAt = 1 /\ extractAt <= ScratchSize
     /\ h.type \notin {"eof", "error"}
     /\ IF h.type = "directory"
        THEN fsFiles' = fsFiles /\ extractAt' = extractAt + 1 /\ arPanic' = arPanic
        ELSE /\ extractAt' = extractAt + 1 + Blocks(h.size)
             /\ arPanic' = (h.name \in DOMAIN fsFiles)
             /\ fsFiles' = IF h.name \in DOMAIN fsFiles THEN fsFiles
                           ELSE [n \in DOMAIN fsFiles \cup {h.name} |->
                                   IF n = h.name THEN ReadData(scratch, extractAt + 1, h.size)
                                   ELSE fsFiles[n]]
     /\ UNCHANGED <<scratch, appendAt, appended, boots>>

(* The end of the loop: the first two sectors are erased, so that the archive
   is not extracted twice; a bad header panics. *)
ExtractEnd ==
  LET h == ParseHeader(scratch[extractAt])
  IN /\ boots > 0 /\ ~arPanic /\ appendAt = 1 /\ extractAt <= ScratchSize
     /\ h.type \in {"eof", "error"}
     /\ extractAt' = extractAt + 1
     /\ arPanic' = (h.type = "error")
     /\ scratch' = IF h.type = "error" THEN scratch ELSE Overwrite(scratch, 1, <<Zeros, Zeros>>)
     /\ UNCHANGED <<fsFiles, appendAt, appended, boots>>

(* An append that steps over its end marker. *)
AppendFilePastEnd(name) ==
  LET bytes == fsFiles[name]
      image == <<MakeHeader(name, Len(bytes))>> \o Sectors(bytes) \o <<Zeros, Zeros>>
      fits == appendAt + Len(image) - 1 <= ScratchSize
  IN /\ boots > 0 /\ ~arPanic /\ name \in DOMAIN fsFiles /\ fits
     /\ scratch' = Overwrite(scratch, appendAt, image)
     /\ appendAt' = appendAt + Len(image)
     /\ appended' = Append(appended, [name |-> Strip(name), bytes |-> bytes])
     /\ UNCHANGED <<fsFiles, extractAt, boots, arPanic>>

(* fsutil_append(): a header, the data, and an end marker that the next append
   overwrites.  A name that is too long and a full device panic, the latter
   after as many sectors as there is room for. *)
AppendFile(name) ==
  LET bytes == fsFiles[name]
      header == MakeHeader(name, Len(bytes))
      image == <<header>> \o Sectors(bytes) \o <<Zeros, Zeros>>
      fits == appendAt + Len(image) - 1 <= ScratchSize
  IN /\ boots > 0 /\ ~arPanic /\ name \in DOMAIN fsFiles
     /\ IF header = BadHeader
        THEN arPanic' = TRUE /\ UNCHANGED <<scratch, appendAt, appended>>
        ELSE /\ scratch' = Overwrite(scratch, appendAt, image)
             /\ arPanic' = ~fits
             /\ appendAt' = appendAt + Len(image) - 2
             /\ appended' = Append(appended, [name |-> Strip(name), bytes |-> bytes])
     /\ UNCHANGED <<fsFiles, extractAt, boots>>

ArchiveNext ==
  \/ Boot \/ ExtractEntry \/ ExtractEnd
  \/ \E n \in FileNames, b \in FileData : HostWrites(Header(n, "regular", Len(b)), b)
  \/ \E n \in FileNames : HostWrites(Header(n, "directory", 0), <<>>)
  \/ HostWrites(BadHeader, <<>>)
  \/ \E n \in FileNames, b \in FileData : CreateFile(n, b)
  \/ \E n \in FileNames \cup DOMAIN fsFiles : AppendFile(n)

---------------------------------------------------------------------------
(* The entries a reader of the device finds from sector k on. *)
RECURSIVE Listing(_, _)
Listing(d, k) ==
  IF k > Len(d) THEN <<>>
  ELSE LET h == ParseHeader(d[k])
       IN IF h.type \in {"eof", "error"} THEN <<>>
          ELSE <<[name |-> h.name, bytes |-> ReadData(d, k + 1, h.size)]>>
                 \o Listing(d, k + 1 + Blocks(h.size))

(* While nothing has failed, the device holds a well-formed archive of exactly
   the files appended since the boot, in order, with their contents; no name
   that leaves the archive starts at the root or above it; and the octal
   parser returns the exact value of a field or fails (fsutil.c, ustar.c). *)
ArchiveExact ==
  /\ ~arPanic /\ appendAt > 1 => Listing(scratch, 1) = appended
  /\ \A n \in DOMAIN fsFiles :
       ~IsPrefix(<<"/">>, Strip(n)) /\ ~IsPrefix(<<".", ".", "/">>, Strip(n))
  /\ boots = 0 =>
       \A d \in [1..3 -> 0..9] :
         LET v == ParseOctal(d, 1, 0) IN v >= 0 =>
           \E n \in 1..2 : d[n + 1] = 8 /\ v = OctalValue(SubSeq(d, 1, n))
=============================================================================
