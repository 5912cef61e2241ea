------------------------------ MODULE Console -------------------------------
(***************************************************************************)
(* Interrupt queues and the devices built on them: devices/intq.c, with    *)
(* its two users, the input buffer (input.c, filled by the keyboard and    *)
(* serial interrupts) and the serial port's transmit queue (serial.c).     *)
(*                                                                         *)
(* All of this code runs with interrupts off, so a thread is interleaved   *)
(* with other threads and with interrupts only where it blocks: cpu is the *)
(* thread that is in the middle of such a section.  Threads take bytes     *)
(* from queue "in" and put bytes into queue "tx"; the other side of each   *)
(* queue is the interrupt handler, which never waits, so one waiter slot   *)
(* per queue (in.not_empty, tx.not_full) is ever used.                     *)
(***************************************************************************)
EXTENDS Integers, Sequences, FiniteSets

CONSTANTS
  Reader,    \* threads that call input_getc()
  Writer,    \* threads that call serial_putc() with interrupts on
  None,      \* the NULL thread
  BufSize,   \* INTQ_BUFSIZE
  MaxIn,     \* bound: bytes that arrive in the input buffer
  MaxOut     \* bound: bytes written

ConsoleThreads == Reader \cap Writer = {} /\ None \notin Reader \cup Writer
ConsoleBuffer == BufSize \in Nat /\ BufSize > 1
ConsoleBounds == MaxIn \in Nat /\ MaxOut \in Nat

VARIABLES
  buf, head, tail,  \* struct intq: the ring
  waiter, lock,     \* struct intq: not_empty or not_full, and the lock's holder
  cpc, cpu,
  serialMode,             \* serial.c's mode, from POLL on
  xmit, recv,       \* the enabled interrupts, IER_REG
  rbr, thre,        \* UART: a byte received, transmitter ready
  put, taken        \* number of bytes put into and taken from each queue

queues == <<buf, head, tail, waiter, lock>>
uart == <<serialMode, xmit, recv, rbr, thre>>
consVars == <<queues, cpc, cpu, uart, put, taken>>

Thread == Reader \cup Writer
Queue == {"in", "tx"}
Q(t) == IF t \in Reader THEN "in" ELSE "tx"
Slots == 0 .. BufSize - 1

(* intq_init() of both queues; the serial port polls.                      *)
ConsInit ==
  /\ buf = [q \in Queue |-> [i \in Slots |-> 0]]
  /\ head = [q \in Queue |-> 0]
  /\ tail = [q \in Queue |-> 0]
  /\ waiter = [q \in Queue |-> None]
  /\ lock = [q \in Queue |-> None]
  /\ cpc = [t \in Thread |-> "out"]
  /\ cpu = None
  /\ serialMode = "POLL" /\ xmit = FALSE /\ recv = FALSE
  /\ rbr = FALSE /\ thre = TRUE
  /\ put = [q \in Queue |-> 0]
  /\ taken = [q \in Queue |-> 0]

(* Mutant: the position does not wrap.                                     *)
NextPosNoWrap(pos) == pos + 1

NextPos(pos) == (pos + 1) % BufSize

Empty(q) == head[q] = tail[q]

Full(q) == NextPos(head[q]) = tail[q]

(* signal() of the queues in S: their waiters, if any, become ready.       *)
Signal(S) ==
  /\ waiter' = [q \in Queue |-> IF q \in S THEN None ELSE waiter[q]]
  /\ cpc' = [t \in Thread |-> IF \E q \in S : waiter[q] = t THEN "woken" ELSE cpc[t]]

(* Mutant: the head advances before the byte is stored.                    *)
PutByteAfter(q) ==
  /\ buf' = [buf EXCEPT ![q][NextPos(head[q])] = put[q] + 1]
  /\ head' = [head EXCEPT ![q] = NextPos(@)]
  /\ put' = [put EXCEPT ![q] = @ + 1]

(* The end of intq_putc() and of intq_getc().  Bytes are numbered in the   *)
(* order they are put.                                                     *)
PutByte(q) ==
  /\ buf' = [buf EXCEPT ![q][head[q]] = put[q] + 1]
  /\ head' = [head EXCEPT ![q] = NextPos(@)]
  /\ put' = [put EXCEPT ![q] = @ + 1]
TakeByte(q) ==
  /\ tail' = [tail EXCEPT ![q] = NextPos(@)]
  /\ taken' = [taken EXCEPT ![q] = @ + 1]

(* write_ier(), from the state of the queues after the step.               *)
WriteIer ==
  /\ xmit' = (head'["tx"] # tail'["tx"])
  /\ recv' = (NextPos(head'["in"]) # tail'["in"])

(* Mutant: the receive interrupt stays off after the buffer was full.      *)
SerialNotifyForgotten == UNCHANGED <<xmit, recv>>

(* serial_notify()                                                         *)
SerialNotify == IF serialMode = "QUEUE" THEN WriteIer ELSE UNCHANGED <<xmit, recv>>

-----------------------------------------------------------------------------
(* A thread enters: input_getc() or serial_putc() disables interrupts.     *)
Call(t) ==
  /\ cpu = None /\ cpc[t] = "out"
  /\ t \in Writer => put["tx"] < MaxOut
  /\ serialMode = "QUEUE" \/ t \in Reader
  /\ cpu' = t
  /\ cpc' = [cpc EXCEPT ![t] = "test"]
  /\ UNCHANGED <<queues, uart, put, taken>>

(* The loops of intq_getc() and intq_putc().                               *)
MustWait(t) == IF t \in Reader THEN Empty("in") ELSE Full("tx")

LoopEnter(t) ==
  /\ cpu = t /\ cpc[t] = "test" /\ MustWait(t)
  /\ cpc' = [cpc EXCEPT ![t] = "lock"]
  /\ UNCHANGED <<queues, cpu, uart, put, taken>>

(* lock_acquire(): it sleeps while the lock is taken.                      *)
LockBlocks(t) ==
  /\ cpu = t /\ cpc[t] = "lock" /\ lock[Q(t)] # None
  /\ cpc' = [cpc EXCEPT ![t] = "lockSleep"]
  /\ cpu' = None
  /\ UNCHANGED <<queues, uart, put, taken>>

LockAcquired(t) ==
  /\ \/ cpu = t /\ cpc[t] = "lock"
     \/ cpu = None /\ cpc[t] = "lockSleep"
  /\ lock[Q(t)] = None
  /\ lock' = [lock EXCEPT ![Q(t)] = t]
  /\ cpc' = [cpc EXCEPT ![t] = "wait"]
  /\ cpu' = t
  /\ UNCHANGED <<buf, head, tail, waiter, uart, put, taken>>

(* wait(): a failed assertion is a kernel panic, and nothing follows.      *)
Wait(t) ==
  /\ cpu = t /\ cpc[t] = "wait" /\ MustWait(t)
  /\ waiter' = [waiter EXCEPT ![Q(t)] = t]
  /\ cpc' = [cpc EXCEPT ![t] = "asleep"]
  /\ cpu' = None
  /\ UNCHANGED <<buf, head, tail, lock, uart, put, taken>>

(* Back from thread_block(), and lock_release().                           *)
Resume(t) ==
  /\ cpu = None /\ cpc[t] = "woken"
  /\ lock' = [lock EXCEPT ![Q(t)] = None]
  /\ cpc' = [cpc EXCEPT ![t] = "test"]
  /\ cpu' = t
  /\ UNCHANGED <<buf, head, tail, waiter, uart, put, taken>>

(* The rest of intq_getc() and input_getc().  Nobody waits for room in the *)
(* input buffer.                                                           *)
Getc(t) ==
  /\ t \in Reader /\ cpu = t /\ cpc[t] = "test" /\ ~Empty("in")
  /\ TakeByte("in")
  /\ UNCHANGED head
  /\ SerialNotify
  /\ cpc' = [cpc EXCEPT ![t] = "out"]
  /\ cpu' = None
  /\ UNCHANGED <<buf, waiter, lock, serialMode, rbr, thre, put>>

(* The rest of intq_putc() and serial_putc().                              *)
Putc(t) ==
  /\ t \in Writer /\ cpu = t /\ cpc[t] = "test" /\ ~Full("tx")
  /\ PutByte("tx")
  /\ UNCHANGED tail
  /\ WriteIer
  /\ cpc' = [cpc EXCEPT ![t] = "out"]
  /\ cpu' = None
  /\ UNCHANGED <<waiter, lock, serialMode, rbr, thre, taken>>

-----------------------------------------------------------------------------
(* serial_putc() before serial_init_queue(): polling.                      *)
PutcPoll ==
  /\ cpu = None /\ serialMode = "POLL" /\ put["tx"] < MaxOut /\ thre
  /\ thre' = FALSE
  /\ put' = [put EXCEPT !["tx"] = @ + 1]
  /\ taken' = [taken EXCEPT !["tx"] = @ + 1]
  /\ UNCHANGED <<queues, cpc, cpu, serialMode, xmit, recv, rbr>>

SerialInitQueue ==
  /\ cpu = None /\ serialMode = "POLL"
  /\ serialMode' = "QUEUE"
  /\ UNCHANGED <<head, tail>> /\ WriteIer
  /\ UNCHANGED <<buf, waiter, lock, cpc, cpu, rbr, thre, put, taken>>

(* serial_putc() by code that runs with interrupts off: when the queue is  *)
(* full, its first byte is sent by polling.                                *)
PutcIntrOff ==
  /\ cpu = None /\ serialMode = "QUEUE" /\ put["tx"] < MaxOut
  /\ PutByte("tx")
  /\ IF Full("tx")
       THEN /\ thre /\ thre' = FALSE
            /\ TakeByte("tx") /\ Signal({"tx"})
       ELSE UNCHANGED <<thre, tail, taken, waiter, cpc>>
  /\ WriteIer
  /\ UNCHANGED <<lock, cpu, serialMode, rbr>>

(* serial_flush(): the whole queue is sent by polling, interrupts off.     *)
SerialFlush ==
  /\ cpu = None /\ ~Empty("tx") /\ thre
  /\ tail' = [tail EXCEPT !["tx"] = head["tx"]]
  /\ taken' = [taken EXCEPT !["tx"] = put["tx"]]
  /\ Signal({"tx"})
  /\ thre' = FALSE
  /\ UNCHANGED <<buf, head, lock, cpu, serialMode, xmit, recv, rbr, put>>

-----------------------------------------------------------------------------
(* input_putc() from the keyboard's interrupt handler; a key that finds no *)
(* room is dropped.                                                        *)
KeyboardInterrupt ==
  /\ cpu = None /\ ~Full("in") /\ put["in"] < MaxIn
  /\ PutByte("in") /\ UNCHANGED tail
  /\ Signal({"in"})
  /\ SerialNotify
  /\ UNCHANGED <<lock, cpu, serialMode, rbr, thre, taken>>

(* serial_interrupt(): receive while there is room, transmit while there   *)
(* is something to transmit; the UART holds one byte each way.             *)
Receives == rbr /\ ~Full("in")
Transmits == thre /\ ~Empty("tx")
SerialInterrupt ==
  /\ cpu = None /\ serialMode = "QUEUE"
  /\ (recv /\ rbr) \/ (xmit /\ thre)
  /\ IF Receives THEN PutByte("in") /\ rbr' = FALSE
                 ELSE UNCHANGED <<buf, head, put, rbr>>
  /\ IF Transmits THEN TakeByte("tx") /\ thre' = FALSE
                  ELSE UNCHANGED <<tail, taken, thre>>
  /\ Signal((IF Receives THEN {"in"} ELSE {}) \cup (IF Transmits THEN {"tx"} ELSE {}))
  /\ WriteIer
  /\ UNCHANGED <<lock, cpu, serialMode>>

(* The UART: a byte arrives on the line, the transmitter is ready again.   *)
ByteArrives ==
  /\ ~rbr /\ put["in"] < MaxIn
  /\ rbr' = TRUE
  /\ UNCHANGED <<queues, cpc, cpu, serialMode, xmit, recv, thre, put, taken>>

TransmitterReady ==
  /\ ~thre
  /\ thre' = TRUE
  /\ UNCHANGED <<queues, cpc, cpu, serialMode, xmit, recv, rbr, put, taken>>

ThreadStep(t) ==
  \/ LoopEnter(t) \/ LockBlocks(t) \/ LockAcquired(t) \/ Wait(t)
  \/ Resume(t) \/ Getc(t) \/ Putc(t)

ConsNext ==
  \/ \E t \in Thread : Call(t) \/ ThreadStep(t)
  \/ PutcPoll \/ SerialInitQueue \/ PutcIntrOff \/ SerialFlush
  \/ KeyboardInterrupt \/ SerialInterrupt \/ ByteArrives \/ TransmitterReady

ConsSpec == ConsInit /\ [][ConsNext]_consVars

(* The scheduler runs every ready thread, readers read again and again,    *)
(* and the UART makes progress and interrupts.                             *)
ConsFairSpec ==
  /\ ConsSpec
  /\ \A t \in Thread : SF_consVars(ThreadStep(t))
  /\ \A t \in Reader : SF_consVars(Call(t))
  /\ SF_consVars(SerialInterrupt) /\ WF_consVars(TransmitterReady) /\ SF_consVars(SerialInitQueue)

-----------------------------------------------------------------------------
(* Type correctness of the queues, the UART and the threads.               *)
ConsTypeOK ==
  /\ buf \in [Queue -> [Slots -> Nat]]
  /\ head \in [Queue -> Slots] /\ tail \in [Queue -> Slots]
  /\ waiter \in [Queue -> Thread \cup {None}]
  /\ lock \in [Queue -> Thread \cup {None}]
  /\ cpc \in [Thread -> {"out", "test", "lock", "lockSleep", "wait", "asleep", "woken"}]
  /\ cpu \in Thread \cup {None}
  /\ serialMode \in {"POLL", "QUEUE"}
  /\ xmit \in BOOLEAN /\ recv \in BOOLEAN /\ rbr \in BOOLEAN /\ thre \in BOOLEAN
  /\ put \in [Queue -> Nat] /\ taken \in [Queue -> Nat]

(* The number of bytes in the ring.                                        *)
InRing(q) == (head[q] - tail[q] + BufSize) % BufSize

(* FIFO: the ring holds the bytes that were put and not yet taken, in      *)
(* order, across wrap-around and whoever puts and takes.                   *)
RingExact ==
  \A q \in Queue :
    /\ put[q] = taken[q] + InRing(q)
    /\ \A i \in 1..InRing(q) : buf[q][(tail[q] + i - 1) % BufSize] = taken[q] + i

(* The interrupt queues of the keyboard and the serial port hold the bytes *)
(* put and not yet taken, in order.                                        *)
QueuesRight == ConsTypeOK /\ RingExact

(* The assertion of wait(): the condition it waits for does not hold yet.  *)
WaitCondition == \A t \in Thread : cpc[t] = "wait" => MustWait(t)

(* Every byte written is transmitted, unless the kernel panics in wait().  *)
AllTransmitted == ~Empty("tx") ~> (taken["tx"] = put["tx"] \/ ~WaitCondition)

(* Every byte that reaches the input buffer is read, unless the kernel     *)
(* panics.                                                                 *)
AllRead == ~Empty("in") ~> (taken["in"] = put["in"] \/ ~WaitCondition)

(* A byte that waits in the UART is received: reception resumes after the  *)
(* input buffer was full, unless the kernel panics.                        *)
AllReceived ==
  (rbr /\ put["in"] < MaxIn) ~> (~rbr \/ put["in"] = MaxIn \/ ~WaitCondition)

(* No byte stays where it is for want of an interrupt or of a wakeup: each *)
(* one moves on from the UART, from the input buffer and from the transmit *)
(* queue, unless the kernel panics.                                        *)
AllDelivered == AllTransmitted /\ AllRead /\ AllReceived
=============================================================================
