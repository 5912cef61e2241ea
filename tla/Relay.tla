-------------------------------- MODULE Relay -------------------------------
(***************************************************************************)
(* relay() of utils/squish-pty.c and of utils/squish-unix.c: one process   *)
(* copies standard input to a device and the device to standard output     *)
(* through two buffers, with select() on non-blocking descriptors, while   *)
(* a child (the simulator) has the device's other end.                     *)
(*                                                                         *)
(* The two programs differ in how they hear of the child's death (a byte   *)
(* in a pipe, SIGCHLD in pselect()) and in what the end of the device      *)
(* means.  Pipe 0 is input to device, pipe 1 is device to output.  Bytes   *)
(* are numbered in the order in which their source sends them.  Neither    *)
(* program ignores SIGPIPE: a write to an output that nobody reads ends it *)
(* ("died"), as does any error that handle_error() does not know.          *)
(***************************************************************************)
EXTENDS Integers, Sequences

CONSTANTS
  RelayBuf,      \* BUFSIZ
  MaxBytes      \* bound: bytes that the source of each pipe sends

Dir == {0, 1}

RelayBounds == RelayBuf \in Nat \ {0} /\ MaxBytes \in [Dir -> Nat]

VARIABLES
  squish,       \* which program: "pty" or "unix"
  rpc,          \* where relay() is
  rpipe,        \* struct pipe pipes[2]
  readySet, writeSet, \* what select() returned and is still to be looked at
  arrived, relayed,     \* bytes that a source has sent; that relay() has read
  sourceOpen,   \* the other end of pipe i's input is open
  outputOpen,   \* somebody reads the standard output
  delivered,    \* the bytes that reached pipe i's output, in order
  childDead     \* SIGCHLD

relayVars == <<squish, rpc, rpipe, readySet, writeSet, arrived, relayed, sourceOpen,
               outputOpen, delivered, childDead>>

RelayInit ==
  /\ squish \in {"pty", "unix"}
  /\ rpc = "select"
  /\ rpipe = [i \in Dir |-> [in |-> TRUE, out |-> TRUE, buf |-> [k \in 0..(RelayBuf - 1) |-> 0],
                             size |-> 0, ofs |-> 0, active |-> FALSE]]
  /\ readySet = {} /\ writeSet = {}
  /\ arrived = [i \in Dir |-> 0] /\ relayed = [i \in Dir |-> 0]
  /\ sourceOpen = [i \in Dir |-> TRUE] /\ outputOpen = TRUE
  /\ delivered = [i \in Dir |-> <<>>]
  /\ childDead = FALSE

outside == <<arrived, sourceOpen, outputOpen, childDead>>
within == <<squish, rpc, rpipe, readySet, writeSet, relayed, delivered>>

RelayOver == rpc \in {"end", "died"}

-----------------------------------------------------------------------------
(* The other ends: input and the child send bytes and close, the reader of *)
(* the output goes away.  A child that dies has closed its end by then.    *)
SourceSends(i) ==
  /\ sourceOpen[i] /\ arrived[i] < MaxBytes[i]
  /\ arrived' = [arrived EXCEPT ![i] = @ + 1]
  /\ UNCHANGED <<within, sourceOpen, outputOpen, childDead>>

SourceCloses(i) ==
  /\ sourceOpen[i] /\ sourceOpen' = [sourceOpen EXCEPT ![i] = FALSE]
  /\ UNCHANGED <<within, arrived, outputOpen, childDead>>

ChildDies ==
  /\ ~childDead /\ ~sourceOpen[1] /\ childDead' = TRUE
  /\ UNCHANGED <<within, arrived, sourceOpen, outputOpen>>

OutputCloses ==
  /\ outputOpen /\ outputOpen' = FALSE
  /\ UNCHANGED <<within, arrived, sourceOpen, childDead>>

-----------------------------------------------------------------------------
(* The descriptors that the loop asks for: nothing is done for pipe 0      *)
(* before the device has sent something.                                   *)
WantsRead(i) ==
  /\ i = 0 => rpipe[1].active
  /\ rpipe[i].in /\ rpipe[i].size + rpipe[i].ofs < RelayBuf
WantsWrite(i) ==
  /\ i = 0 => rpipe[1].active
  /\ rpipe[i].out /\ rpipe[i].size > 0
Readable(i) == relayed[i] < arrived[i] \/ ~sourceOpen[i]

(* Nobody takes what pipe i writes any more; a socket or a pipe of which   *)
(* that is so is always ready for the write that will fail.                *)
NobodyTakes(i) == IF i = 0 THEN ~sourceOpen[1] ELSE ~outputOpen
FailsAtOnce(i) == WantsWrite(i) /\ NobodyTakes(i) /\ ~(squish = "pty" /\ i = 0)

(* select(): every readable descriptor that was asked for, and those asked *)
(* for writing that have room just then, or would fail.                    *)
Select(room) ==
  /\ rpc = "select" /\ rpipe[1].in /\ ~(squish = "pty" /\ childDead)
  /\ room \subseteq {i \in Dir : WantsWrite(i)}
  /\ {i \in Dir : FailsAtOnce(i)} \subseteq room
  /\ readySet' = {i \in Dir : WantsRead(i) /\ Readable(i)} /\ writeSet' = room
  /\ readySet' \cup writeSet' # {}
  /\ rpc' = "read0"
  /\ UNCHANGED <<squish, rpipe, relayed, delivered, outside>>

(* The loop is left: the pty is closed, or the child is dead (the byte in  *)
(* dead_child_fd; EINTR from pselect(), when nothing else is ready).       *)
LeaveLoop ==
  /\ rpc = "select"
  /\ \/ squish = "pty" /\ (childDead \/ ~rpipe[1].in)
     \/ squish = "unix" /\ childDead
        /\ \A i \in Dir : ~(WantsRead(i) /\ Readable(i)) /\ ~FailsAtOnce(i)
  /\ rpc' = "drain"
  /\ UNCHANGED <<squish, rpipe, readySet, writeSet, relayed, delivered, outside>>

(* Mutant: bytes are stored behind the start of the buffer, not behind the *)
(* bytes that are still in it.                                             *)
StoredAtSize(p, from, cnt) ==
  [p EXCEPT !.active = TRUE, !.size = @ + cnt,
            !.buf = [k \in DOMAIN @ |->
               IF k >= p.size /\ k < p.size + cnt THEN from + k - p.size + 1 ELSE @[k]]]

(* read() into the buffer behind what it holds.  memmove() is for a full   *)
(* buffer with an offset, which cannot be.                                 *)
Stored(p, from, cnt) ==
  LET start == p.ofs + p.size
  IN  [p EXCEPT !.active = TRUE, !.size = @ + cnt,
                !.buf = [k \in DOMAIN @ |->
                   IF k >= start /\ k < start + cnt THEN from + k - start + 1 ELSE @[k]]]

After(i, what) == IF what = "read" THEN (IF i = 0 THEN "write0" ELSE "write1")
                  ELSE (IF i = 0 THEN "read1" ELSE "select")
AtRead(i) == rpc = IF i = 0 THEN "read0" ELSE "read1"
AtWrite(i) == rpc = IF i = 0 THEN "write0" ELSE "write1"

RelayRead(i, cnt) ==
  /\ AtRead(i) /\ i \in readySet /\ relayed[i] < arrived[i]
  /\ cnt \in 1..(arrived[i] - relayed[i]) /\ cnt <= RelayBuf - rpipe[i].ofs - rpipe[i].size
  /\ rpipe' = [rpipe EXCEPT ![i] = Stored(@, relayed[i], cnt)]
  /\ relayed' = [relayed EXCEPT ![i] = @ + cnt]
  /\ rpc' = After(i, "read") /\ readySet' = readySet \ {i}
  /\ UNCHANGED <<squish, writeSet, delivered, outside>>

(* handle_error() at the end of the input: the descriptor is given up; the *)
(* end of squish-unix's socket ends relay() at once, whatever is buffered, *)
(* and is an error when the child has left input unread in the socket.     *)
RelayEof(i) ==
  /\ AtRead(i) /\ i \in readySet /\ relayed[i] = arrived[i]
  /\ IF squish = "unix" /\ i = 1
       THEN /\ rpc' \in IF delivered[0] = <<>> THEN {"end"} ELSE {"end", "died"}
            /\ UNCHANGED rpipe
       ELSE rpc' = After(i, "read") /\ rpipe' = [rpipe EXCEPT ![i].in = FALSE]
  /\ readySet' = readySet \ {i}
  /\ UNCHANGED <<squish, writeSet, relayed, delivered, outside>>

NoRead(i) ==
  /\ AtRead(i) /\ i \notin readySet
  /\ rpc' = After(i, "read")
  /\ UNCHANGED <<squish, rpipe, readySet, writeSet, relayed, delivered, outside>>

(* write() takes some of the bytes.                                        *)
Front(p, cnt) == [k \in 1..cnt |-> p.buf[p.ofs + k - 1]]
Shifted(p, cnt) ==
  [p EXCEPT !.size = @ - cnt, !.ofs = IF p.size = cnt THEN 0 ELSE @ + cnt]

RelayWrite(i, cnt) ==
  /\ AtWrite(i) /\ i \in writeSet /\ ~NobodyTakes(i) /\ cnt \in 1..rpipe[i].size
  /\ delivered' = [delivered EXCEPT ![i] = @ \o Front(rpipe[i], cnt)]
  /\ rpipe' = [rpipe EXCEPT ![i] = Shifted(@, cnt)]
  /\ rpc' = After(i, "write") /\ writeSet' = writeSet \ {i}
  /\ UNCHANGED <<squish, readySet, relayed, outside>>

(* A write that nobody takes: EIO of the pty, which is given up; of        *)
(* anything else SIGPIPE, or fail_io().                                    *)
RelayWriteFails(i) ==
  /\ AtWrite(i) /\ i \in writeSet /\ NobodyTakes(i)
  /\ IF squish = "pty" /\ i = 0
       THEN rpc' = After(i, "write") /\ rpipe' = [rpipe EXCEPT ![i].out = FALSE]
       ELSE rpc' = "died" /\ UNCHANGED rpipe
  /\ writeSet' = writeSet \ {i}
  /\ UNCHANGED <<squish, readySet, relayed, delivered, outside>>

NoWrite(i) ==
  /\ AtWrite(i) /\ i \notin writeSet
  /\ rpc' = After(i, "write")
  /\ UNCHANGED <<squish, rpipe, readySet, writeSet, relayed, delivered, outside>>

(* Final relaying, blocking: the buffer is written out, then the device is *)
(* read until it has nothing more.                                         *)
DrainWriteFails ==
  /\ rpc = "drain" /\ rpipe[1].size > 0 /\ NobodyTakes(1) /\ rpc' = "died"
  /\ UNCHANGED <<squish, rpipe, readySet, writeSet, relayed, delivered, outside>>

DrainWrite ==
  /\ rpc = "drain" /\ rpipe[1].size > 0 /\ ~NobodyTakes(1)
  /\ delivered' = [delivered EXCEPT ![1] = @ \o Front(rpipe[1], rpipe[1].size)]
  /\ rpipe' = [rpipe EXCEPT ![1] = [@ EXCEPT !.size = 0, !.ofs = 0]]
  /\ UNCHANGED <<squish, rpc, readySet, writeSet, relayed, outside>>

DrainRead(cnt) ==
  /\ rpc = "drain" /\ rpipe[1].size = 0
  /\ IF rpipe[1].in /\ relayed[1] < arrived[1]
       THEN /\ cnt \in 1..(arrived[1] - relayed[1]) /\ cnt <= RelayBuf
            /\ rpipe' = [rpipe EXCEPT ![1] = Stored([@ EXCEPT !.ofs = 0], relayed[1], cnt)]
            /\ relayed' = [relayed EXCEPT ![1] = @ + cnt]
            /\ UNCHANGED rpc
       ELSE /\ cnt = 1 /\ rpc' = "end" /\ UNCHANGED <<rpipe, relayed>>
  /\ UNCHANGED <<squish, readySet, writeSet, delivered, outside>>

RelayStep ==
  \/ \E room \in SUBSET Dir : Select(room)
  \/ LeaveLoop
  \/ \E i \in Dir :
       \/ NoRead(i) \/ RelayEof(i) \/ NoWrite(i) \/ RelayWriteFails(i)
       \/ \E cnt \in 1..RelayBuf : RelayRead(i, cnt) \/ RelayWrite(i, cnt)
  \/ DrainWrite \/ DrainWriteFails \/ \E cnt \in 1..RelayBuf : DrainRead(cnt)

(* What the other ends do after relay() is over is nobody's concern.       *)
OtherEnds ==
  /\ ~RelayOver
  /\ ChildDies \/ OutputCloses \/ \E i \in Dir : SourceSends(i) \/ SourceCloses(i)

RelayNext == RelayStep \/ OtherEnds

RelaySpec == RelayInit /\ [][RelayNext]_relayVars

-----------------------------------------------------------------------------
(* Each direction is a queue: what is delivered and what is buffered are   *)
(* the bytes read, each once and in order, however reads and writes split  *)
(* them and wherever the buffer's offset stands.                           *)
RelayFifo ==
  \A i \in Dir :
    LET p == rpipe[i]
    IN  /\ p.ofs + p.size <= RelayBuf
        /\ delivered[i] \o Front(p, p.size) = [k \in 1..relayed[i] |-> k]

(* When relay() returns in squish-pty, all that the child wrote before it  *)
(* died has been delivered; squish-unix may leave only what its buffer     *)
(* held when the socket ended.                                             *)
ChildOutputKept ==
  rpc = "end" =>
    /\ squish = "pty" => Len(delivered[1]) = arrived[1]
    /\ squish = "unix" => Len(delivered[1]) >= arrived[1] - RelayBuf
    /\ squish = "unix" => relayed[1] = arrived[1]

(* The program dies, and may lose more of the child's output than that,    *)
(* when its own output is closed.  squish-unix also dies when the child is *)
(* gone and has left input behind: input that is still in the buffer, with *)
(* the child's output unread, or input unread in the socket, with all the  *)
(* child's output read.                                                    *)
DiesForReason ==
  rpc = "died" =>
    \/ ~outputOpen
    \/ /\ squish = "unix" /\ ~sourceOpen[1]
       /\ rpipe[0].size > 0 \/ (delivered[0] # <<>> /\ relayed[1] = arrived[1])

(* relay() of both programs delivers each direction's bytes in order,      *)
(* whatever closes first; what it loses of the child's output when it      *)
(* returns and when it dies is bounded as above.                           *)
RelaySafe == RelayFifo /\ ChildOutputKept /\ DiesForReason

(* Once the child is dead, relay() returns or the program dies, provided   *)
(* that output is taken or closed.                                         *)
RelayEnds == childDead ~> RelayOver
=============================================================================
