------------------------------ MODULE SectorIO ------------------------------
(***************************************************************************)
(* Byte access to files: inode_read_at() and inode_write_at() of inode.c   *)
(* under file_read(), file_write(), their _at() forms and file_seek() of   *)
(* file.c.  A call is a loop that moves one sector's chunk per iteration,  *)
(* through a bounce buffer when the chunk is not a whole sector; here an   *)
(* iteration is a step.  Other files lie before and after this one.        *)
(***************************************************************************)
EXTENDS Integers, Sequences

CONSTANTS
  SectorSize,  \* BLOCK_SECTOR_SIZE
  NSectors,    \* sectors of the device
  Start,       \* the file's inode: data.start
  Length,      \* the file's inode: data.length, in bytes
  MaxSize,     \* bound on the size of a transfer
  MaxPos       \* bound on the positions sought, past the end of the file

SIOSizes == SectorSize \in Nat \ {0} /\ NSectors \in Nat /\ MaxSize \in Nat
SIOFile == Start \in Nat /\ Length \in Nat /\ MaxPos \in Nat
                  /\ Start * SectorSize + Length <= NSectors * SectorSize

VARIABLES disk, pos, deny, op
sioVars == <<disk, pos, deny, op>>

DevSector == 0 .. NSectors - 1
InSector == 0 .. SectorSize - 1
Byte == 0..MaxSize
Idle == [call |-> "none"]

(* A buffer of n bytes that differ from one another and from 0.            *)
Buffer(n) == [i \in 1..n |-> i]

SioInit ==
  /\ disk = [s \in DevSector |-> [i \in InSector |-> 0]]
  /\ pos = 0 /\ deny = FALSE /\ op = Idle

(* byte_to_sector()                                                        *)
ByteToSector(p) == Start + p \div SectorSize

Lesser(a, b) == IF a < b THEN a ELSE b

(* Mutant: the end of the file does not bound the chunk.                   *)
ChunkPastEnd(size, offset) ==
  LET sector_left == SectorSize - (offset % SectorSize)
  IN  Lesser(size, sector_left)

(* The bytes to copy in this iteration; not positive at the end of the     *)
(* file or beyond it.                                                      *)
Chunk(size, offset) ==
  LET inode_left == Length - offset
      sector_left == SectorSize - (offset % SectorSize)
  IN  Lesser(size, Lesser(inode_left, sector_left))

Whole(size, offset) == offset % SectorSize = 0 /\ Chunk(size, offset) = SectorSize

-----------------------------------------------------------------------------
(* file_read(), file_write() (at the file's position, which they advance), *)
(* file_read_at() and file_write_at().  start and before are the arguments *)
(* of the call and the disk at that time.                                  *)
FileCall(call, size, offset, advance) ==
  /\ op = Idle
  /\ op' = [call |-> call, size |-> size, offset |-> offset, advance |-> advance,
            done |-> 0, bounce |-> FALSE, failed |-> FALSE,
            buffer |-> IF call = "read" THEN <<>> ELSE Buffer(size),
            total |-> size, start |-> offset, before |-> disk]
  /\ UNCHANGED <<disk, pos, deny>>

ReadOrWrite(call, size) == FileCall(call, size, pos, TRUE)
ReadOrWriteAt(call, size, offset) == FileCall(call, size, offset, FALSE)

Chunks == Chunk(op.size, op.offset)

InLoop == op # Idle /\ ~op.failed /\ op.size > 0 /\ Chunks > 0
          /\ (op.call = "write" => ~deny)

(* The end of an iteration, in which chunk_size bytes were moved.          *)
Advance ==
  [op EXCEPT !.size = @ - Chunks, !.offset = @ + Chunks, !.done = @ + Chunks,
             !.bounce = @ \/ ~Whole(op.size, op.offset)]

ReadChunk ==
  /\ InLoop /\ op.call = "read"
  /\ LET sector == disk[ByteToSector(op.offset)]
         ofs == op.offset % SectorSize
     IN  op' = [Advance EXCEPT !.buffer =
                  @ \o [i \in 1..Chunks |-> sector[ofs + i - 1]]]
  /\ UNCHANGED <<disk, pos, deny>>

(* Mutant: a partial sector is written without having been read.           *)
WriteChunkBlind ==
  /\ InLoop /\ op.call = "write"
  /\ LET ofs == op.offset % SectorSize
     IN  disk' = [disk EXCEPT ![ByteToSector(op.offset)] =
                    [i \in InSector |-> IF i \in ofs .. ofs + Chunks - 1
                                          THEN op.buffer[op.done + i - ofs + 1] ELSE 0]]
  /\ op' = Advance
  /\ UNCHANGED <<pos, deny>>

(* A sector with data before or after the chunk is read first; another one *)
(* starts with zeros.                                                      *)
WriteChunk ==
  /\ InLoop /\ op.call = "write"
  /\ LET ofs == op.offset % SectorSize
         old == IF ofs > 0 \/ Chunks < SectorSize - ofs
                  THEN disk[ByteToSector(op.offset)] ELSE [i \in InSector |-> 0]
     IN  disk' = [disk EXCEPT ![ByteToSector(op.offset)] =
                    [i \in InSector |-> IF i \in ofs .. ofs + Chunks - 1
                                          THEN op.buffer[op.done + i - ofs + 1] ELSE old[i]]]
  /\ op' = Advance
  /\ UNCHANGED <<pos, deny>>

(* malloc() of the bounce buffer fails and the loop ends.                  *)
NoBounce ==
  /\ InLoop /\ ~op.bounce /\ ~Whole(op.size, op.offset)
  /\ op' = [op EXCEPT !.failed = TRUE]
  /\ UNCHANGED <<disk, pos, deny>>

Return ==
  /\ op # Idle /\ ~InLoop
  /\ pos' = IF op.advance THEN pos + op.done ELSE pos
  /\ op' = Idle
  /\ UNCHANGED <<disk, deny>>

(* file_seek()                                                             *)
Seek(p) ==
  /\ op = Idle
  /\ pos' = p
  /\ UNCHANGED <<disk, deny, op>>

(* file_deny_write(), and file_allow_write().                              *)
DenyWrite == op = Idle /\ deny' = TRUE /\ UNCHANGED <<disk, pos, op>>
AllowWrite == op = Idle /\ deny' = FALSE /\ UNCHANGED <<disk, pos, op>>

SioNext ==
  \/ \E call \in {"read", "write"}, size \in 0..MaxSize :
       \/ ReadOrWrite(call, size)
       \/ \E offset \in 0..MaxPos : ReadOrWriteAt(call, size, offset)
  \/ ReadChunk \/ WriteChunk \/ NoBounce \/ Return
  \/ \E p \in 0..MaxPos : Seek(p)
  \/ DenyWrite \/ AllowWrite

SioSpec == SioInit /\ [][SioNext]_sioVars

-----------------------------------------------------------------------------
(* Type correctness; sizes never become negative, nor positions.           *)
SioTypeOK ==
  /\ disk \in [DevSector -> [InSector -> Byte]]
  /\ pos \in Nat /\ deny \in BOOLEAN
  /\ op # Idle => op.size \in Nat /\ op.offset \in Nat /\ op.done \in Nat

(* The byte at address a of the device, before or after.                   *)
ByteAt(d, a) == d[a \div SectorSize][a % SectorSize]
Base == Start * SectorSize

(* After any number of iterations, and so after a call that fails halfway, *)
(* the device holds exactly the first `done' bytes of the buffer at the    *)
(* place of the call, and every other byte of this file and of the files   *)
(* around it is as it was.                                                 *)
WriteExact ==
  (op # Idle /\ op.call = "write") =>
    \A a \in 0 .. NSectors * SectorSize - 1 :
      LET i == a - Base - op.start
      IN  ByteAt(disk, a) = IF i \in 0 .. op.done - 1 THEN op.buffer[i + 1] ELSE ByteAt(op.before, a)

(* The buffer holds the file's bytes from the place of the call on, and a  *)
(* read changes nothing.                                                   *)
ReadExact ==
  (op # Idle /\ op.call = "read") =>
    /\ disk = op.before
    /\ op.buffer = [i \in 1..op.done |-> ByteAt(disk, Base + op.start + i - 1)]

(* Every call, at every iteration, has moved exactly the bytes it counts.  *)
TransferExact == WriteExact /\ ReadExact

(* What a call returns: as many bytes as were asked for and the file has,  *)
(* none where writes are denied, fewer only for want of memory.            *)
CountExact ==
  (op # Idle /\ ~InLoop) =>
    LET available == IF op.start < Length THEN Lesser(op.total, Length - op.start) ELSE 0
    IN  IF op.call = "write" /\ deny THEN op.done = 0
        ELSE IF op.failed THEN op.done < available
        ELSE op.done = available

(* inode_read_at() and inode_write_at() move exactly the bytes asked for,  *)
(* clipped at the end of the file, and return their number.                *)
TransfersRight == SioTypeOK /\ TransferExact /\ CountExact
=============================================================================
