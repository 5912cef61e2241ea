--------------------------- MODULE ConsoleProofs ----------------------------
(****************************************************************************)
(* Proofs about the two modules of the kernel's interrupts.                 *)
(*                                                                          *)
(* The interrupt queues of Console.tla, for rings of any size and any       *)
(* number of threads: ConsoleInv is inductive, and the positions in the     *)
(* ring are computed without the modulus.                                   *)
(*                                                                          *)
(* Interrupt handling (Interrupts.tla), for any number of threads, of       *)
(* interrupts and of registrations: IntrInv is inductive.  A line is in     *)
(* service at a controller just when the frame on top of the running        *)
(* thread's stack is that of its interrupt and the end-of-interrupt has     *)
(* not been sent; every other frame, of that stack or of another, has       *)
(* none outstanding.                                                        *)
(****************************************************************************)
EXTENDS Console, Interrupts, SequenceTheorems, TLAPS

ConsoleConstants == ConsoleThreads /\ ConsoleBuffer /\ ConsoleBounds

(* While the serial port polls, nothing is in its queue and no thread is   *)
(* on its way to it; only readers wait for input.                          *)
Polling ==
  /\ serialMode = "POLL" => /\ Empty("tx") /\ waiter["tx"] = None
                            /\ \A t \in Writer : cpc[t] = "out"
  /\ waiter["in"] \in Reader \cup {None}

ConsoleInv == ConsTypeOK /\ RingExact /\ Polling

(* One thread reads and one writes.  Then nobody sleeps for a queue's lock *)
(* and a thread goes from the test of its queue to thread_block() without  *)
(* giving up the CPU.                                                      *)
Alone == \A t, u \in Thread : Q(t) = Q(u) => t = u

WaitsAtOnce ==
  /\ \A t \in Thread : cpc[t] \in {"lock", "wait"} => cpu = t /\ MustWait(t)
  /\ \A t \in Thread : cpc[t] # "lockSleep"
  /\ \A t \in Thread : lock[Q(t)] # None => cpc[t] \in {"wait", "asleep", "woken"}

-----------------------------------------------------------------------------
(* Positions in the ring, without the modulus.                             *)
Wrapped(n) == IF n < BufSize THEN n ELSE n - BufSize
Size(h, t) == IF t <= h THEN h - t ELSE h - t + BufSize
Stored(b, t, n, first) == \A i \in 1..n : b[Wrapped(t + i - 1)] = first + i

LEMMA ModIsWrapped ==
  ASSUME ConsoleBuffer, NEW n \in 0 .. 2 * BufSize - 1
  PROVE  n % BufSize = Wrapped(n)
<1>1. CASE n < BufSize
  BY <1>1 DEF ConsoleBuffer, Wrapped
<1>2. CASE n >= BufSize
  BY <1>2 DEF ConsoleBuffer, Wrapped
<1> QED BY <1>1, <1>2 DEF ConsoleBuffer

LEMMA NextPosIs ==
  ASSUME ConsoleBuffer, NEW p \in Slots
  PROVE  NextPos(p) = (IF p + 1 = BufSize THEN 0 ELSE p + 1) /\ NextPos(p) \in Slots
<1>1. (p + 1) % BufSize = Wrapped(p + 1)
  BY ModIsWrapped DEF ConsoleBuffer, Slots
<1> QED BY <1>1 DEF NextPos, Wrapped, Slots, ConsoleBuffer

(* A ring of bytes, as RingExact describes it.                             *)
LEMMA RingIs ==
  ASSUME ConsoleConstants, NEW h \in Slots, NEW t \in Slots
  PROVE  /\ (h - t + BufSize) % BufSize = Size(h, t) /\ Size(h, t) \in 0 .. BufSize - 1
         /\ \A i \in 1..Size(h, t) :
              /\ (t + i - 1) % BufSize = Wrapped(t + i - 1) /\ Wrapped(t + i - 1) \in Slots
<1> USE DEF ConsoleConstants, ConsoleBuffer, Slots
<1>1. h - t + BufSize \in 0 .. 2 * BufSize - 1
  OBVIOUS
<1>2. (h - t + BufSize) % BufSize = Wrapped(h - t + BufSize)
  BY <1>1, ModIsWrapped
<1>3. Wrapped(h - t + BufSize) = Size(h, t)
  BY DEF Wrapped, Size
<1>4. Size(h, t) \in 0 .. BufSize - 1
  BY DEF Size
<1>5. \A i \in 1..Size(h, t) : t + i - 1 \in 0 .. 2 * BufSize - 1
  BY <1>4
<1>6. \A i \in 1..Size(h, t) : (t + i - 1) % BufSize = Wrapped(t + i - 1)
  BY <1>5, ModIsWrapped
<1>7. \A i \in 1..Size(h, t) : Wrapped(t + i - 1) \in Slots
  BY <1>5 DEF Wrapped
<1> QED BY <1>2, <1>3, <1>4, <1>6, <1>7

(* intq_putc() into a ring with room stores the next byte behind the       *)
(* others, and overwrites none of them.                                    *)
LEMMA RingPut ==
  ASSUME ConsoleConstants, NEW h \in Slots, NEW t \in Slots, NextPos(h) # t,
         NEW b \in [Slots -> Nat], NEW first \in Nat, Stored(b, t, Size(h, t), first)
  PROVE  /\ Size(NextPos(h), t) = Size(h, t) + 1
         /\ Stored([b EXCEPT ![h] = first + Size(h, t) + 1], t, Size(h, t) + 1, first)
<1> USE DEF ConsoleConstants, ConsoleBuffer
<1> DEFINE n == Size(h, t)
           c == [b EXCEPT ![h] = first + n + 1]
<1>1. NextPos(h) = (IF h + 1 = BufSize THEN 0 ELSE h + 1)
  BY NextPosIs
<1>2. Size(NextPos(h), t) = n + 1
  BY <1>1 DEF Size, Slots
<1>3. n \in 0 .. BufSize - 1
  BY RingIs
<1>4. Wrapped(t + n) = h
  BY DEF Wrapped, Size, Slots
<1>5. \A i \in 1..n : Wrapped(t + i - 1) # h /\ Wrapped(t + i - 1) \in Slots
  BY DEF Wrapped, Size, Slots
<1> HIDE DEF n
<1>6. \A i \in 1 .. n + 1 : c[Wrapped(t + i - 1)] = first + i
  <2> SUFFICES ASSUME NEW i \in 1 .. n + 1 PROVE c[Wrapped(t + i - 1)] = first + i
    OBVIOUS
  <2>1. CASE i \in 1..n
    <3>1. b[Wrapped(t + i - 1)] = first + i
      BY <2>1 DEF Stored, n
    <3> QED BY <1>5, <2>1, <3>1
  <2>2. CASE i = n + 1
    <3>1. t + i - 1 = t + n
      BY <1>3, <2>2 DEF Slots
    <3>2. c[h] = first + n + 1
      OBVIOUS
    <3> QED BY <1>3, <1>4, <2>2, <3>1, <3>2
  <2> QED BY <1>3, <2>1, <2>2
<1> QED BY <1>2, <1>6 DEF Stored, n

(* intq_getc() takes the first byte.                                       *)
LEMMA RingTake ==
  ASSUME ConsoleConstants, NEW h \in Slots, NEW t \in Slots, h # t,
         NEW b, NEW first \in Nat, Stored(b, t, Size(h, t), first)
  PROVE  /\ Size(h, NextPos(t)) = Size(h, t) - 1 /\ Size(h, t) > 0
         /\ Stored(b, NextPos(t), Size(h, t) - 1, first + 1)
<1> USE DEF ConsoleConstants, ConsoleBuffer
<1> DEFINE n == Size(h, t)
           u == NextPos(t)
<1>1. u = (IF t + 1 = BufSize THEN 0 ELSE t + 1)
  BY NextPosIs
<1>2. Size(h, u) = n - 1 /\ n > 0
  BY <1>1 DEF Size, Slots
<1>3. n \in 0 .. BufSize - 1
  BY RingIs
<1>4. \A i \in 1 .. n - 1 : Wrapped(u + i - 1) = Wrapped(t + (i + 1) - 1)
  BY <1>1, <1>3 DEF Wrapped, Slots
<1> HIDE DEF n, u
<1>5. \A i \in 1 .. n - 1 : b[Wrapped(u + i - 1)] = first + 1 + i
  <2> SUFFICES ASSUME NEW i \in 1 .. n - 1 PROVE b[Wrapped(u + i - 1)] = first + 1 + i
    OBVIOUS
  <2>1. i + 1 \in 1..n
    BY <1>3
  <2>2. b[Wrapped(t + (i + 1) - 1)] = first + (i + 1)
    BY <2>1 DEF Stored, n
  <2> QED BY <1>4, <2>2
<1> QED BY <1>2, <1>5 DEF Stored, n, u

(* RingExact, for one queue.                                               *)
Exact(q) == put[q] = taken[q] + Size(head[q], tail[q])
            /\ Stored(buf[q], tail[q], Size(head[q], tail[q]), taken[q])

LEMMA RingExactIs ==
  ASSUME ConsoleConstants, ConsTypeOK
  PROVE  RingExact <=> \A q \in Queue : Exact(q)
<1>1. \A q \in Queue :
        /\ InRing(q) = Size(head[q], tail[q])
        /\ \A i \in 1..InRing(q) : (tail[q] + i - 1) % BufSize = Wrapped(tail[q] + i - 1)
  BY RingIs DEF ConsTypeOK, InRing
<1> QED BY <1>1 DEF RingExact, Exact, Stored

-----------------------------------------------------------------------------
(* The ways in which a step changes a queue: not at all, by intq_putc(),   *)
(* by intq_getc(), by both, or by sending all of it.                       *)
Same(q) == /\ buf'[q] = buf[q] /\ head'[q] = head[q] /\ put'[q] = put[q]
           /\ tail'[q] = tail[q] /\ taken'[q] = taken[q]
Puts(q) == /\ buf'[q] = [buf[q] EXCEPT ![head[q]] = put[q] + 1]
           /\ head'[q] = NextPos(head[q]) /\ put'[q] = put[q] + 1
Takes(q) == tail'[q] = NextPos(tail[q]) /\ taken'[q] = taken[q] + 1
Changes(q) ==
  \/ Same(q)
  \/ Puts(q) /\ ~Full(q) /\ tail'[q] = tail[q] /\ taken'[q] = taken[q]
  \/ Takes(q) /\ ~Empty(q) /\ buf'[q] = buf[q] /\ head'[q] = head[q] /\ put'[q] = put[q]
  \/ Puts(q) /\ Takes(q) /\ Full(q)
  \/ tail'[q] = head[q] /\ taken'[q] = put[q] /\ buf'[q] = buf[q] /\ head'[q] = head[q]
     /\ put'[q] = put[q]
  \/ Empty(q) /\ buf'[q] = buf[q] /\ head'[q] = head[q] /\ tail'[q] = tail[q]
     /\ put'[q] = put[q] + 1 /\ taken'[q] = taken[q] + 1

LEMMA ChangesKeepExact ==
  ASSUME ConsoleConstants, ConsTypeOK, NEW q \in Queue, Exact(q), Changes(q)
  PROVE  Exact(q)'
<1> USE DEF ConsoleConstants, ConsoleBuffer
<1>1. PICK h \in Slots, t \in Slots, b \in [Slots -> Nat], first \in Nat, last \in Nat :
        /\ h = head[q] /\ t = tail[q] /\ b = buf[q] /\ first = taken[q] /\ last = put[q]
  BY DEF ConsTypeOK
<1>2. Size(h, t) \in Nat /\ last = first + Size(h, t) /\ Stored(b, t, Size(h, t), first)
  BY <1>1, RingIs DEF Exact
<1>3. SUFFICES /\ put'[q] = taken'[q] + Size(head'[q], tail'[q])
               /\ Stored(buf'[q], tail'[q], Size(head'[q], tail'[q]), taken'[q])
  BY DEF Exact
<1>4. CASE Same(q)
  BY <1>1, <1>2, <1>4 DEF Same
<1>5. CASE Puts(q) /\ ~Full(q) /\ tail'[q] = tail[q] /\ taken'[q] = taken[q]
  <2>1. NextPos(h) # t
    BY <1>1, <1>5 DEF Full
  <2>2. /\ Size(NextPos(h), t) = Size(h, t) + 1
        /\ Stored([b EXCEPT ![h] = first + Size(h, t) + 1], t, Size(h, t) + 1, first)
    BY <1>2, <2>1, RingPut
  <2>3. buf'[q] = [b EXCEPT ![h] = first + Size(h, t) + 1]
    BY <1>1, <1>2, <1>5 DEF Puts
  <2>4. head'[q] = NextPos(h) /\ put'[q] = last + 1 /\ tail'[q] = t /\ taken'[q] = first
    BY <1>1, <1>5 DEF Puts
  <2> QED BY <1>2, <2>2, <2>3, <2>4
<1>6. CASE Takes(q) /\ ~Empty(q) /\ buf'[q] = buf[q] /\ head'[q] = head[q] /\ put'[q] = put[q]
  <2>1. h # t
    BY <1>1, <1>6 DEF Empty
  <2>2. /\ Size(h, NextPos(t)) = Size(h, t) - 1 /\ Stored(b, NextPos(t), Size(h, t) - 1, first + 1)
    BY <1>2, <2>1, RingTake
  <2>3. /\ tail'[q] = NextPos(t) /\ taken'[q] = first + 1 /\ buf'[q] = b /\ head'[q] = h
        /\ put'[q] = last
    BY <1>1, <1>6 DEF Takes
  <2>4. Size(head'[q], tail'[q]) = Size(h, t) - 1
    BY <2>2, <2>3
  <2>5. put'[q] = taken'[q] + Size(head'[q], tail'[q])
    BY <1>2, <2>3, <2>4
  <2>6. Stored(buf'[q], tail'[q], Size(head'[q], tail'[q]), taken'[q])
    BY <2>2, <2>3, <2>4
  <2> QED BY <2>5, <2>6
<1>7. CASE Puts(q) /\ Takes(q) /\ Full(q)
  <2>1. PICK u \in Slots : u = NextPos(t)
    BY NextPosIs
  <2>2. NextPos(h) = t /\ h # t /\ t # u
    <3>1. NextPos(h) = t
      BY <1>1, <1>7 DEF Full
    <3>2. BufSize \in Nat /\ BufSize > 1 /\ h \in 0 .. BufSize - 1 /\ t \in 0 .. BufSize - 1
      BY DEF Slots
    <3>3. /\ NextPos(h) = (IF h + 1 = BufSize THEN 0 ELSE h + 1)
          /\ NextPos(t) = (IF t + 1 = BufSize THEN 0 ELSE t + 1)
      BY NextPosIs
    <3> QED BY <2>1, <3>1, <3>2, <3>3
  <2>3. /\ Size(h, u) = Size(h, t) - 1 /\ Stored(b, u, Size(h, u), first + 1) /\ first + 1 \in Nat
    BY <1>2, <2>1, <2>2, RingTake
  <2>4. /\ Size(t, u) = Size(h, u) + 1
        /\ Stored([b EXCEPT ![h] = (first + 1) + Size(h, u) + 1], u, Size(h, u) + 1, first + 1)
    BY <2>2, <2>3, RingPut
  <2>5. (first + 1) + Size(h, u) + 1 = last + 1
    BY <1>2, <2>3
  <2>6. /\ tail'[q] = u /\ taken'[q] = first + 1 /\ head'[q] = t /\ put'[q] = last + 1
        /\ buf'[q] = [b EXCEPT ![h] = last + 1]
    BY <1>1, <1>7, <2>1, <2>2 DEF Takes, Puts
  <2>7. Size(head'[q], tail'[q]) = Size(h, u) + 1
    BY <2>4, <2>6
  <2>8. put'[q] = taken'[q] + Size(head'[q], tail'[q])
    BY <1>2, <2>3, <2>6, <2>7
  <2>9. Stored(buf'[q], tail'[q], Size(head'[q], tail'[q]), taken'[q])
    BY <2>4, <2>5, <2>6, <2>7
  <2> QED BY <2>8, <2>9
<1>8. CASE tail'[q] = head[q] /\ taken'[q] = put[q] /\ buf'[q] = buf[q] /\ head'[q] = head[q]
           /\ put'[q] = put[q]
  <2>1. Size(h, h) = 0
    BY DEF Size, Slots
  <2> QED BY <1>1, <1>8, <2>1 DEF Stored
<1>9. CASE Empty(q) /\ buf'[q] = buf[q] /\ head'[q] = head[q] /\ tail'[q] = tail[q]
           /\ put'[q] = put[q] + 1 /\ taken'[q] = taken[q] + 1
  <2>1. h = t /\ Size(h, h) = 0
    BY <1>1, <1>9 DEF Empty, Size, Slots
  <2>2. /\ Size(head'[q], tail'[q]) = 0 /\ last = first
        /\ put'[q] = last + 1 /\ taken'[q] = first + 1
    <3>1. head'[q] = h /\ tail'[q] = h
      BY <1>1, <1>9, <2>1
    <3>2. Size(head'[q], tail'[q]) = 0
      BY <2>1, <3>1
    <3>3. last = first
      <4>1. last = first + Size(h, h)
        BY <1>2, <2>1
      <4> QED BY <2>1, <4>1
    <3>4. put'[q] = last + 1 /\ taken'[q] = first + 1
      BY <1>1, <1>9
    <3> QED BY <3>2, <3>3, <3>4
  <2>3. Stored(buf'[q], tail'[q], 0, taken'[q])
    <3>1. 1..0 = {}
      OBVIOUS
    <3> QED BY <3>1 DEF Stored
  <2> QED BY <2>2, <2>3
<1> QED BY <1>4, <1>5, <1>6, <1>7, <1>8, <1>9 DEF Changes

(* Hence a step that changes both queues in these ways keeps RingExact.    *)
LEMMA RingsKept ==
  ASSUME ConsoleConstants, ConsTypeOK, RingExact, ConsTypeOK', Changes("in"), Changes("tx")
  PROVE  RingExact'
<1>1. \A q \in Queue : Exact(q)
  BY RingExactIs
<1>2. \A q \in Queue : Exact(q)'
  <2> SUFFICES ASSUME NEW q \in Queue PROVE Exact(q)'
    OBVIOUS
  <2>1. Changes(q)
    BY DEF Queue
  <2> QED BY <1>1, <2>1, ChangesKeepExact
<1>3. \A q \in Queue :
        /\ InRing(q)' = Size(head'[q], tail'[q])
        /\ \A i \in 1..InRing(q)' : (tail'[q] + i - 1) % BufSize = Wrapped(tail'[q] + i - 1)
  BY RingIs DEF ConsTypeOK, InRing
<1> QED BY <1>2, <1>3 DEF RingExact, Exact, Stored

(* The next positions and bytes have their types.                          *)
LEMMA QueueTypes ==
  ASSUME ConsoleConstants, ConsTypeOK, NEW q \in Queue
  PROVE  /\ PutByte(q) => /\ buf' \in [Queue -> [Slots -> Nat]] /\ head' \in [Queue -> Slots]
                          /\ put' \in [Queue -> Nat] /\ Puts(q)
                          /\ \A r \in Queue : r # q => /\ buf'[r] = buf[r] /\ head'[r] = head[r]
                                                       /\ put'[r] = put[r]
         /\ TakeByte(q) => /\ tail' \in [Queue -> Slots] /\ taken' \in [Queue -> Nat] /\ Takes(q)
                           /\ \A r \in Queue : r # q => tail'[r] = tail[r] /\ taken'[r] = taken[r]
<1>1. \A p \in Slots : NextPos(p) \in Slots
  BY NextPosIs DEF ConsoleConstants
<1>2. /\ buf \in [Queue -> [Slots -> Nat]] /\ head \in [Queue -> Slots] /\ tail \in [Queue -> Slots]
      /\ put \in [Queue -> Nat] /\ taken \in [Queue -> Nat]
  BY DEF ConsTypeOK
<1>3. ASSUME PutByte(q)
      PROVE  /\ buf' \in [Queue -> [Slots -> Nat]] /\ head' \in [Queue -> Slots]
             /\ put' \in [Queue -> Nat] /\ Puts(q)
             /\ \A r \in Queue : r # q => /\ buf'[r] = buf[r] /\ head'[r] = head[r]
                                          /\ put'[r] = put[r]
  BY <1>1, <1>2, <1>3 DEF PutByte, Puts
<1>4. ASSUME TakeByte(q)
      PROVE  /\ tail' \in [Queue -> Slots] /\ taken' \in [Queue -> Nat] /\ Takes(q)
             /\ \A r \in Queue : r # q => tail'[r] = tail[r] /\ taken'[r] = taken[r]
  BY <1>1, <1>2, <1>4 DEF TakeByte, Takes
<1> QED BY <1>3, <1>4

(* signal() and the registers.                                             *)
LEMMA SignalTypes ==
  ASSUME ConsTypeOK, Polling, NEW S \in SUBSET Queue, Signal(S)
  PROVE  /\ waiter' \in [Queue -> Thread \cup {None}]
         /\ cpc' \in [Thread -> {"out", "test", "lock", "lockSleep", "wait", "asleep", "woken"}]
         /\ waiter'["in"] \in Reader \cup {None}
         /\ \A q \in Queue : waiter'[q] \in {waiter[q], None}
         /\ \A t \in Thread : cpc'[t] # cpc[t] => \E q \in S : waiter[q] = t
<1>1. /\ waiter \in [Queue -> Thread \cup {None}] /\ waiter["in"] \in Reader \cup {None}
      /\ cpc \in [Thread -> {"out", "test", "lock", "lockSleep", "wait", "asleep", "woken"}]
      /\ "in" \in Queue
  BY DEF ConsTypeOK, Polling, Queue
<1>2. /\ waiter' = [q \in Queue |-> IF q \in S THEN None ELSE waiter[q]]
      /\ cpc' = [t \in Thread |-> IF \E q \in S : waiter[q] = t THEN "woken" ELSE cpc[t]]
  BY DEF Signal
<1>3. /\ waiter' \in [Queue -> Thread \cup {None}]
      /\ \A q \in Queue : waiter'[q] \in {waiter[q], None}
  BY <1>1, <1>2
<1>4. \A t \in Thread : cpc'[t] = IF \E q \in S : waiter[q] = t THEN "woken" ELSE cpc[t]
  BY <1>2
<1>5. cpc' \in [Thread -> {"out", "test", "lock", "lockSleep", "wait", "asleep", "woken"}]
  <2>1. ASSUME NEW t \in Thread
        PROVE  (IF \E q \in S : waiter[q] = t THEN "woken" ELSE cpc[t])
                 \in {"out", "test", "lock", "lockSleep", "wait", "asleep", "woken"}
    <3>1. CASE \E q \in S : waiter[q] = t
      BY <3>1
    <3>2. CASE ~ \E q \in S : waiter[q] = t
      BY <1>1, <3>2
    <3> QED BY <3>1, <3>2
  <2> QED BY <1>2, <2>1
<1> QED BY <1>1, <1>3, <1>4, <1>5

LEMMA IerTypes ==
  ASSUME ConsTypeOK, WriteIer \/ SerialNotify
  PROVE  xmit' \in BOOLEAN /\ recv' \in BOOLEAN
BY DEF ConsTypeOK, WriteIer, SerialNotify

-----------------------------------------------------------------------------
LEMMA ConsoleInit ==
  ASSUME ConsoleConstants, ConsInit
  PROVE  ConsoleInv
<1> USE DEF ConsoleConstants, ConsoleThreads, ConsoleBuffer
<1>1. ConsTypeOK
  <2>1. 0 \in Slots
    BY DEF Slots
  <2>2. /\ buf \in [Queue -> [Slots -> Nat]]
        /\ head \in [Queue -> Slots] /\ tail \in [Queue -> Slots]
        /\ put \in [Queue -> Nat] /\ taken \in [Queue -> Nat]
    BY <2>1 DEF ConsInit
  <2>3. /\ waiter \in [Queue -> Thread \cup {None}] /\ lock \in [Queue -> Thread \cup {None}]
        /\ cpc \in [Thread -> {"out", "test", "lock", "lockSleep", "wait", "asleep", "woken"}]
        /\ cpu \in Thread \cup {None}
    BY DEF ConsInit
  <2>4. /\ serialMode \in {"POLL", "QUEUE"}
        /\ xmit \in BOOLEAN /\ recv \in BOOLEAN /\ rbr \in BOOLEAN /\ thre \in BOOLEAN
    BY DEF ConsInit
  <2> QED BY <2>2, <2>3, <2>4 DEF ConsTypeOK
<1>2. \A q \in Queue : Exact(q)
  <2> SUFFICES ASSUME NEW q \in Queue PROVE Exact(q)
    OBVIOUS
  <2>1. Size(0, 0) = 0 /\ head[q] = 0 /\ tail[q] = 0 /\ put[q] = 0 /\ taken[q] = 0
    BY DEF ConsInit, Size
  <2>2. Stored(buf[q], 0, 0, 0)
    BY DEF Stored
  <2> QED BY <2>1, <2>2 DEF Exact
<1>3. RingExact
  BY <1>1, <1>2, RingExactIs
<1>4. Polling
  BY DEF ConsInit, Polling, Empty, Queue, Thread
<1> QED BY <1>1, <1>3, <1>4 DEF ConsoleInv

(* A step of a thread that moves no byte.                                  *)
LEMMA CallerMoves ==
  ASSUME ConsoleConstants, ConsoleInv, NEW t \in Thread,
         Call(t) \/ LoopEnter(t) \/ LockBlocks(t) \/ LockAcquired(t) \/ Wait(t) \/ Resume(t)
  PROVE  ConsoleInv'
<1> USE DEF ConsoleConstants, ConsoleThreads
<1>1. UNCHANGED <<buf, head, tail, serialMode, xmit, recv, rbr, thre, put, taken>>
  BY DEF Call, LoopEnter, LockBlocks, LockAcquired, Wait, Resume, queues, uart
<1>2. /\ cpc \in [Thread -> {"out", "test", "lock", "lockSleep", "wait", "asleep", "woken"}]
      /\ waiter \in [Queue -> Thread \cup {None}] /\ lock \in [Queue -> Thread \cup {None}]
      /\ Q(t) \in Queue /\ cpu \in Thread \cup {None}
  BY DEF ConsoleInv, ConsTypeOK, Q, Queue
<1>3. /\ \E to \in {"test", "lock", "lockSleep", "wait", "asleep"} : cpc' = [cpc EXCEPT ![t] = to]
      /\ cpu' \in {t, None} /\ lock' \in [Queue -> Thread \cup {None}]
      /\ waiter' = waiter \/ (waiter' = [waiter EXCEPT ![Q(t)] = t] /\ cpc[t] = "wait")
      /\ serialMode = "POLL" => t \in Reader
  <2>1. serialMode = "POLL" /\ t \in Writer => cpc[t] = "out"
    BY DEF ConsoleInv, Polling
  <2>2. CASE Call(t)
    BY <1>2, <2>2 DEF Call, queues, Thread
  <2>3. CASE LoopEnter(t) \/ LockBlocks(t)
    BY <1>2, <2>1, <2>3 DEF LoopEnter, LockBlocks, queues, Thread
  <2>4. CASE LockAcquired(t)
    BY <1>2, <2>1, <2>4 DEF LockAcquired, Thread
  <2>5. CASE Wait(t)
    BY <1>2, <2>1, <2>5 DEF Wait, Thread
  <2>6. CASE Resume(t)
    BY <1>2, <2>1, <2>6 DEF Resume, Thread
  <2> QED BY <2>2, <2>3, <2>4, <2>5, <2>6
<1>4. ConsTypeOK'
  BY <1>1, <1>2, <1>3 DEF ConsoleInv, ConsTypeOK
<1>5. Changes("in") /\ Changes("tx")
  BY <1>1 DEF Changes, Same
<1>6. RingExact'
  BY <1>4, <1>5, RingsKept DEF ConsoleInv
<1>7. Polling'
  <2>1. t \in Reader => Q(t) = "in"
    BY DEF Q
  <2>2. t \notin Reader => Q(t) = "tx"
    BY DEF Q
  <2>3. waiter'["in"] \in Reader \cup {None}
    BY <1>2, <1>3, <2>1, <2>2 DEF ConsoleInv, Polling, Queue
  <2>4. serialMode = "POLL" => waiter'["tx"] = waiter["tx"]
    BY <1>2, <1>3, <2>1 DEF Queue
  <2>5. serialMode = "POLL" => \A w \in Writer : cpc'[w] = cpc[w]
    BY <1>2, <1>3 DEF Thread
  <2> QED BY <1>1, <2>3, <2>4, <2>5 DEF ConsoleInv, Polling, Empty
<1> QED BY <1>4, <1>6, <1>7 DEF ConsoleInv

(* A step of a thread that takes a byte or puts one.                       *)
LEMMA ThreadBytes ==
  ASSUME ConsoleConstants, ConsoleInv, NEW t \in Thread, Getc(t) \/ Putc(t)
  PROVE  ConsoleInv'
<1> USE DEF ConsoleConstants, ConsoleThreads
<1>1. "in" \in Queue /\ "tx" \in Queue /\ ConsTypeOK /\ RingExact /\ Polling
  BY DEF Queue, ConsoleInv
<1>2. /\ cpc' = [cpc EXCEPT ![t] = "out"] /\ cpu' = None
      /\ UNCHANGED <<waiter, lock, serialMode, rbr, thre>>
      /\ WriteIer \/ SerialNotify
  BY DEF Getc, Putc
<1>3. CASE Getc(t)
  <2>1. /\ TakeByte("in") /\ ~Empty("in") /\ t \in Reader
        /\ UNCHANGED <<buf, head, put>>
    BY <1>3 DEF Getc
  <2>2. ConsTypeOK'
    BY <1>1, <1>2, <2>1, QueueTypes, IerTypes DEF ConsTypeOK
  <2>3. Changes("in") /\ Changes("tx")
    BY <1>1, <2>1, QueueTypes DEF Changes, Same
  <2>4. RingExact'
    BY <1>1, <2>2, <2>3, RingsKept
  <2>5. Polling'
    BY <1>1, <1>2, <2>1, QueueTypes DEF ConsTypeOK, Polling, Empty, Thread
  <2> QED BY <2>2, <2>4, <2>5 DEF ConsoleInv
<1>4. CASE Putc(t)
  <2>1. /\ PutByte("tx") /\ ~Full("tx") /\ t \in Writer /\ cpc[t] = "test"
        /\ UNCHANGED <<tail, taken>>
    BY <1>4 DEF Putc
  <2>2. ConsTypeOK'
    BY <1>1, <1>2, <2>1, QueueTypes, IerTypes DEF ConsTypeOK
  <2>3. Changes("in") /\ Changes("tx")
    BY <1>1, <2>1, QueueTypes DEF Changes, Same
  <2>4. RingExact'
    BY <1>1, <2>2, <2>3, RingsKept
  <2>5. Polling'
    BY <1>1, <1>2, <2>1 DEF Polling
  <2> QED BY <2>2, <2>4, <2>5 DEF ConsoleInv
<1> QED BY <1>3, <1>4

(* Code that runs with interrupts off, and the end of polling.             *)
LEMMA SerialSteps ==
  ASSUME ConsoleConstants, ConsoleInv,
         PutcPoll \/ SerialInitQueue \/ PutcIntrOff \/ SerialFlush
  PROVE  ConsoleInv'
<1> USE DEF ConsoleConstants, ConsoleThreads
<1>1. "in" \in Queue /\ "tx" \in Queue /\ ConsTypeOK /\ RingExact /\ Polling
  BY DEF Queue, ConsoleInv
<1>2. CASE PutcPoll
  <2>1. ConsTypeOK'
    <3>1. /\ UNCHANGED <<buf, head, tail, waiter, lock, cpc, cpu, serialMode, xmit, recv, rbr>>
          /\ thre' = FALSE /\ put' = [put EXCEPT !["tx"] = @ + 1]
          /\ taken' = [taken EXCEPT !["tx"] = @ + 1]
      BY <1>2 DEF PutcPoll, queues
    <3>2. put \in [Queue -> Nat] /\ taken \in [Queue -> Nat]
      BY <1>1 DEF ConsTypeOK
    <3>3. put' \in [Queue -> Nat] /\ taken' \in [Queue -> Nat]
      BY <1>1, <3>1, <3>2
    <3> QED BY <1>1, <3>1, <3>3 DEF ConsTypeOK
  <2>2. Empty("tx")
    BY <1>1, <1>2 DEF PutcPoll, Polling
  <2>3. Changes("in") /\ Changes("tx")
    <3>1. /\ UNCHANGED <<buf, head, tail>>
          /\ put' = [put EXCEPT !["tx"] = @ + 1] /\ taken' = [taken EXCEPT !["tx"] = @ + 1]
      BY <1>2 DEF PutcPoll, queues
    <3>2. put \in [Queue -> Nat] /\ taken \in [Queue -> Nat]
      BY <1>1 DEF ConsTypeOK
    <3>3. /\ put'["tx"] = put["tx"] + 1 /\ taken'["tx"] = taken["tx"] + 1
          /\ put'["in"] = put["in"] /\ taken'["in"] = taken["in"]
      BY <1>1, <3>1, <3>2
    <3>4. Changes("in")
      BY <3>1, <3>3 DEF Changes, Same
    <3>5. Changes("tx")
      BY <2>2, <3>1, <3>3 DEF Changes
    <3> QED BY <3>4, <3>5
  <2>4. RingExact'
    BY <1>1, <2>1, <2>3, RingsKept
  <2>5. Polling'
    BY <1>1, <1>2 DEF PutcPoll, queues, Polling, Empty
  <2> QED BY <2>1, <2>4, <2>5 DEF ConsoleInv
<1>3. CASE SerialInitQueue
  <2>1. ConsTypeOK'
    BY <1>1, <1>3, IerTypes DEF SerialInitQueue, ConsTypeOK
  <2>2. Changes("in") /\ Changes("tx")
    BY <1>3 DEF SerialInitQueue, Changes, Same
  <2>3. RingExact'
    BY <1>1, <2>1, <2>2, RingsKept
  <2>4. Polling'
    BY <1>1, <1>3 DEF SerialInitQueue, Polling
  <2> QED BY <2>1, <2>3, <2>4 DEF ConsoleInv
<1>4. CASE PutcIntrOff
  <2>1. /\ PutByte("tx") /\ WriteIer /\ serialMode = "QUEUE" /\ UNCHANGED <<lock, cpu, serialMode, rbr>>
        /\ \/ /\ ~Full("tx") /\ UNCHANGED <<thre, tail, taken, waiter, cpc>>
           \/ /\ Full("tx") /\ thre' = FALSE /\ TakeByte("tx") /\ Signal({"tx"})
    BY <1>4 DEF PutcIntrOff
  <2>2. ConsTypeOK' /\ waiter'["in"] \in Reader \cup {None}
    <3>1. /\ tail' \in [Queue -> Slots] /\ taken' \in [Queue -> Nat] /\ thre' \in BOOLEAN
          /\ waiter' \in [Queue -> Thread \cup {None}]
          /\ cpc' \in [Thread -> {"out", "test", "lock", "lockSleep", "wait", "asleep", "woken"}]
          /\ waiter'["in"] \in Reader \cup {None}
      <4>1. CASE ~Full("tx") /\ UNCHANGED <<thre, tail, taken, waiter, cpc>>
        BY <1>1, <4>1 DEF ConsTypeOK, Polling
      <4>2. CASE Full("tx") /\ thre' = FALSE /\ TakeByte("tx") /\ Signal({"tx"})
        <5>1. {"tx"} \in SUBSET Queue
          BY <1>1
        <5> QED BY <1>1, <4>2, <5>1, QueueTypes, SignalTypes
      <4> QED BY <2>1, <4>1, <4>2
    <3>2. /\ buf' \in [Queue -> [Slots -> Nat]] /\ head' \in [Queue -> Slots]
          /\ put' \in [Queue -> Nat] /\ xmit' \in BOOLEAN /\ recv' \in BOOLEAN
      BY <1>1, <2>1, QueueTypes, IerTypes
    <3> QED BY <1>1, <2>1, <3>1, <3>2 DEF ConsTypeOK
  <2>3. Changes("in") /\ Changes("tx")
    BY <1>1, <2>1, QueueTypes DEF Changes, Same
  <2>4. RingExact'
    BY <1>1, <2>2, <2>3, RingsKept
  <2>5. Polling'
    BY <2>1, <2>2 DEF Polling
  <2> QED BY <2>2, <2>4, <2>5 DEF ConsoleInv
<1>5. CASE SerialFlush
  <2>1. /\ ~Empty("tx") /\ serialMode = "QUEUE" /\ Signal({"tx"}) /\ thre' = FALSE
        /\ tail' = [tail EXCEPT !["tx"] = head["tx"]]
        /\ taken' = [taken EXCEPT !["tx"] = put["tx"]]
        /\ UNCHANGED <<buf, head, lock, cpu, serialMode, xmit, recv, rbr, put>>
    BY <1>1, <1>5 DEF SerialFlush, Polling, ConsTypeOK
  <2>2. ConsTypeOK' /\ waiter'["in"] \in Reader \cup {None}
    BY <1>1, <2>1, SignalTypes DEF ConsTypeOK
  <2>3. Changes("in") /\ Changes("tx")
    BY <1>1, <2>1 DEF Changes, Same, ConsTypeOK
  <2>4. RingExact'
    BY <1>1, <2>2, <2>3, RingsKept
  <2>5. Polling'
    BY <2>1, <2>2 DEF Polling
  <2> QED BY <2>2, <2>4, <2>5 DEF ConsoleInv
<1> QED BY <1>2, <1>3, <1>4, <1>5

(* The interrupt handlers and the UART.                                    *)
LEMMA DeviceSteps ==
  ASSUME ConsoleConstants, ConsoleInv,
         KeyboardInterrupt \/ SerialInterrupt \/ ByteArrives \/ TransmitterReady
  PROVE  ConsoleInv'
<1> USE DEF ConsoleConstants, ConsoleThreads
<1>1. "in" \in Queue /\ "tx" \in Queue /\ ConsTypeOK /\ RingExact /\ Polling
  BY DEF Queue, ConsoleInv
<1>2. CASE KeyboardInterrupt
  <2>1. /\ ~Full("in") /\ PutByte("in") /\ Signal({"in"}) /\ SerialNotify
        /\ UNCHANGED <<tail, lock, cpu, serialMode, rbr, thre, taken>>
    BY <1>2 DEF KeyboardInterrupt
  <2>2. /\ waiter' \in [Queue -> Thread \cup {None}]
        /\ cpc' \in [Thread -> {"out", "test", "lock", "lockSleep", "wait", "asleep", "woken"}]
        /\ waiter'["in"] \in Reader \cup {None} /\ waiter'["tx"] \in {waiter["tx"], None}
        /\ \A t \in Thread : cpc'[t] # cpc[t] => waiter["in"] = t
    BY <1>1, <2>1, SignalTypes
  <2>3. ConsTypeOK'
    BY <1>1, <2>1, <2>2, QueueTypes, IerTypes DEF ConsTypeOK
  <2>4. Changes("in") /\ Changes("tx")
    BY <1>1, <2>1, QueueTypes DEF Changes, Same
  <2>5. RingExact'
    BY <1>1, <2>3, <2>4, RingsKept
  <2>6. Polling'
    <3>1. \A t \in Writer : cpc'[t] = cpc[t]
      BY <1>1, <2>2 DEF Polling, Thread
    <3>2. head'["tx"] = head["tx"]
      BY <1>1, <2>1, QueueTypes
    <3> QED BY <1>1, <2>1, <2>2, <3>1, <3>2 DEF Polling, Empty
  <2> QED BY <2>3, <2>5, <2>6 DEF ConsoleInv
<1>3. CASE SerialInterrupt
  <2>1. PICK S \in SUBSET Queue : Signal(S)
    BY <1>1, <1>3 DEF SerialInterrupt
  <2>2. /\ serialMode = "QUEUE" /\ WriteIer /\ UNCHANGED <<lock, cpu, serialMode>>
        /\ \/ ~Full("in") /\ PutByte("in") /\ rbr' = FALSE
           \/ UNCHANGED <<buf, head, put, rbr>>
        /\ \/ ~Empty("tx") /\ TakeByte("tx") /\ thre' = FALSE
           \/ UNCHANGED <<tail, taken, thre>>
    BY <1>3 DEF SerialInterrupt, Receives, Transmits
  <2>3. /\ waiter' \in [Queue -> Thread \cup {None}]
        /\ cpc' \in [Thread -> {"out", "test", "lock", "lockSleep", "wait", "asleep", "woken"}]
        /\ waiter'["in"] \in Reader \cup {None}
    BY <1>1, <2>1, SignalTypes
  <2>4. ConsTypeOK'
    <3>1. /\ buf' \in [Queue -> [Slots -> Nat]] /\ head' \in [Queue -> Slots]
          /\ put' \in [Queue -> Nat] /\ rbr' \in BOOLEAN
      BY <1>1, <2>2, QueueTypes DEF ConsTypeOK
    <3>2. tail' \in [Queue -> Slots] /\ taken' \in [Queue -> Nat] /\ thre' \in BOOLEAN
      BY <1>1, <2>2, QueueTypes DEF ConsTypeOK
    <3>3. xmit' \in BOOLEAN /\ recv' \in BOOLEAN
      BY <1>1, <2>2, IerTypes
    <3> QED BY <1>1, <2>2, <2>3, <3>1, <3>2, <3>3 DEF ConsTypeOK
  <2>5. Changes("in")
    <3>1. tail'["in"] = tail["in"] /\ taken'["in"] = taken["in"]
      BY <1>1, <2>2, QueueTypes
    <3> QED BY <1>1, <2>2, <3>1, QueueTypes DEF Changes, Same
  <2>6. Changes("tx")
    <3>1. buf'["tx"] = buf["tx"] /\ head'["tx"] = head["tx"] /\ put'["tx"] = put["tx"]
      BY <1>1, <2>2, QueueTypes
    <3> QED BY <1>1, <2>2, <3>1, QueueTypes DEF Changes, Same
  <2>7. RingExact'
    BY <1>1, <2>4, <2>5, <2>6, RingsKept
  <2>8. Polling'
    BY <2>2, <2>3 DEF Polling
  <2> QED BY <2>4, <2>7, <2>8 DEF ConsoleInv
<1>4. CASE ByteArrives \/ TransmitterReady
  <2>1. /\ UNCHANGED <<buf, head, tail, waiter, lock, cpc, cpu, serialMode, xmit, recv, put, taken>>
        /\ rbr' \in {rbr, TRUE} /\ thre' \in {thre, TRUE}
    BY <1>4 DEF ByteArrives, TransmitterReady, queues
  <2>2. ConsTypeOK'
    BY <1>1, <2>1 DEF ConsTypeOK
  <2>3. Changes("in") /\ Changes("tx")
    BY <2>1 DEF Changes, Same
  <2>4. RingExact'
    BY <1>1, <2>2, <2>3, RingsKept
  <2>5. Polling'
    BY <1>1, <2>1 DEF Polling, Empty
  <2> QED BY <2>2, <2>4, <2>5 DEF ConsoleInv
<1> QED BY <1>2, <1>3, <1>4

(* The queues are FIFO for any size of the ring, any number of threads and *)
(* whoever puts and takes: intq_putc() and intq_getc() called by threads   *)
(* that wait, by interrupt handlers, and by code with interrupts off that  *)
(* sends by polling.                                                       *)
THEOREM QueuesAreFifo ==
  ASSUME ConsoleConstants
  PROVE  ConsSpec => [](ConsTypeOK /\ RingExact)
<1>1. ConsInit => ConsoleInv
  BY ConsoleInit
<1>2. ConsoleInv /\ [ConsNext]_consVars => ConsoleInv'
  <2> SUFFICES ASSUME ConsoleInv, [ConsNext]_consVars PROVE ConsoleInv'
    OBVIOUS
  <2>1. CASE UNCHANGED consVars
    <3>1. ConsTypeOK' /\ Polling'
      BY <2>1 DEF ConsoleInv, ConsTypeOK, Polling, Empty, consVars, queues, uart
    <3>2. RingExact'
      BY <2>1 DEF ConsoleInv, RingExact, InRing, consVars, queues
    <3> QED BY <3>1, <3>2 DEF ConsoleInv
  <2>2. ASSUME NEW t \in Thread, Call(t) \/ ThreadStep(t) PROVE ConsoleInv'
    BY <2>2, CallerMoves, ThreadBytes DEF ThreadStep
  <2>3. CASE PutcPoll \/ SerialInitQueue \/ PutcIntrOff \/ SerialFlush
    BY <2>3, SerialSteps
  <2>4. CASE KeyboardInterrupt \/ SerialInterrupt \/ ByteArrives \/ TransmitterReady
    BY <2>4, DeviceSteps
  <2> QED BY <2>1, <2>2, <2>3, <2>4 DEF ConsNext
<1>3. ConsoleInv => ConsTypeOK /\ RingExact
  BY DEF ConsoleInv
<1> QED BY <1>1, <1>2, <1>3, PTL DEF ConsSpec

-----------------------------------------------------------------------------
LEMMA AloneThread ==
  ASSUME ConsoleConstants, Alone, ConsTypeOK, WaitsAtOnce, NEW t \in Thread, Call(t) \/ ThreadStep(t)
  PROVE  WaitsAtOnce'
<1>1. t # None /\ Q(t) \in Queue /\ cpu \in {t, None}
  BY DEF ConsoleConstants, ConsoleThreads, Thread, Q, Queue, Call, ThreadStep, LoopEnter, LockBlocks,
         LockAcquired, Wait, Resume, Getc, Putc, WaitsAtOnce
<1>2. /\ cpc \in [Thread -> {"out", "test", "lock", "lockSleep", "wait", "asleep", "woken"}]
      /\ lock \in [Queue -> Thread \cup {None}]
      /\ \A u \in Thread : u # t => Q(u) # Q(t) /\ cpc[u] \notin {"lock", "wait"}
  <2>1. \A u \in Thread : u # None
    BY DEF ConsoleConstants, ConsoleThreads, Thread
  <2> QED BY <1>1, <2>1 DEF ConsTypeOK, WaitsAtOnce, Alone
<1>3. ASSUME NEW u \in Thread, u # t PROVE cpc'[u] = cpc[u] /\ lock'[Q(u)] = lock[Q(u)]
  <2>1. Q(u) \in Queue
    BY DEF Q, Queue
  <2>2. lock' = lock \/ \E to : lock' = [lock EXCEPT ![Q(t)] = to]
    BY DEF Call, ThreadStep, LoopEnter, LockBlocks, LockAcquired, Wait, Resume, Getc, Putc, queues
  <2>3. \E to : cpc' = [cpc EXCEPT ![t] = to]
    BY DEF Call, ThreadStep, LoopEnter, LockBlocks, LockAcquired, Wait, Resume, Getc, Putc
  <2> QED BY <1>2, <1>3, <2>1, <2>2, <2>3
<1>4. /\ cpc'[t] \in {"lock", "wait"} => cpu' = t /\ MustWait(t)'
      /\ cpc'[t] # "lockSleep"
      /\ lock'[Q(t)] # None => cpc'[t] \in {"wait", "asleep", "woken"}
  <2>1. /\ cpc[t] \in {"lock", "wait"} => MustWait(t)
        /\ cpc[t] # "lockSleep" /\ (lock[Q(t)] # None => cpc[t] \in {"wait", "asleep", "woken"})
    BY DEF WaitsAtOnce
  <2>2. CASE Call(t) \/ LoopEnter(t) \/ LockBlocks(t) \/ LockAcquired(t) \/ Wait(t) \/ Resume(t)
    <3>1. UNCHANGED <<head, tail>>
      BY <2>2 DEF Call, LoopEnter, LockBlocks, LockAcquired, Wait, Resume, queues
    <3>2. MustWait(t)' <=> MustWait(t)
      BY <3>1 DEF MustWait, Empty, Full
    <3>3. CASE Call(t)
      BY <1>1, <1>2, <2>1, <3>3 DEF Call, queues
    <3>4. CASE LoopEnter(t)
      BY <1>1, <1>2, <2>1, <3>2, <3>4 DEF LoopEnter, queues
    <3>5. CASE LockBlocks(t)
      BY <2>1, <3>5 DEF LockBlocks
    <3>6. CASE LockAcquired(t)
      BY <1>1, <1>2, <2>1, <3>2, <3>6 DEF LockAcquired
    <3>7. CASE Wait(t)
      BY <1>1, <1>2, <2>1, <3>7 DEF Wait
    <3>8. CASE Resume(t)
      BY <1>1, <1>2, <2>1, <3>8 DEF Resume
    <3> QED BY <2>2, <3>3, <3>4, <3>5, <3>6, <3>7, <3>8
  <2>3. CASE Getc(t) \/ Putc(t)
    BY <1>1, <1>2, <2>1, <2>3 DEF Getc, Putc
  <2> QED BY <2>2, <2>3 DEF ThreadStep
<1>5. \A u \in Thread : u # t => /\ cpc'[u] \notin {"lock", "wait", "lockSleep"}
                                 /\ lock'[Q(u)] # None => cpc'[u] \in {"wait", "asleep", "woken"}
  BY <1>2, <1>3 DEF WaitsAtOnce
<1> QED BY <1>4, <1>5 DEF WaitsAtOnce

(* Interrupts and code that runs with them off find no thread between its  *)
(* test and thread_block().                                                *)
LEMMA AloneOthers ==
  ASSUME ConsoleConstants, ConsTypeOK, WaitsAtOnce,
         \/ PutcPoll \/ SerialInitQueue \/ PutcIntrOff \/ SerialFlush
         \/ KeyboardInterrupt \/ SerialInterrupt \/ ByteArrives \/ TransmitterReady
  PROVE  WaitsAtOnce'
<1>1. lock' = lock /\ cpu' = cpu
  BY DEF PutcPoll, SerialInitQueue, PutcIntrOff, SerialFlush, KeyboardInterrupt, SerialInterrupt,
         ByteArrives, TransmitterReady, queues
<1>2. \/ UNCHANGED <<cpc, head, tail>>
      \/ cpu = None /\ (cpc' = cpc \/ \E S \in SUBSET Queue : Signal(S))
  BY DEF PutcPoll, SerialInitQueue, PutcIntrOff, SerialFlush, KeyboardInterrupt, SerialInterrupt,
         ByteArrives, TransmitterReady, queues, Queue
<1>3. CASE UNCHANGED <<cpc, head, tail>>
  BY <1>1, <1>3 DEF WaitsAtOnce, MustWait, Empty, Full
<1>4. CASE cpu = None /\ (cpc' = cpc \/ \E S \in SUBSET Queue : Signal(S))
  <2>1. \A t \in Thread : cpc'[t] = cpc[t] \/ cpc'[t] = "woken"
    BY <1>4 DEF Signal
  <2>2. \A t \in Thread : t # None
    BY DEF ConsoleConstants, ConsoleThreads, Thread
  <2>3. \A t \in Thread : cpc[t] \notin {"lock", "wait"}
    BY <1>4, <2>2 DEF WaitsAtOnce
  <2> QED BY <1>1, <2>1, <2>3 DEF WaitsAtOnce
<1> QED BY <1>2, <1>3, <1>4

(* With one reader and one writer the assertion of wait() never fails: the *)
(* panic that intq_getc() is open to needs two threads in one queue.       *)
THEOREM AloneNoPanic ==
  ASSUME ConsoleConstants, Alone
  PROVE  ConsSpec => []WaitCondition
<1>1. ConsInit => ConsTypeOK /\ WaitsAtOnce
  <2>1. ASSUME ConsInit PROVE WaitsAtOnce
    <3>1. \A t \in Thread : cpc[t] = "out" /\ lock[Q(t)] = None
      BY <2>1 DEF ConsInit, Q, Queue
    <3> QED BY <3>1 DEF WaitsAtOnce
  <2> QED BY <2>1, ConsoleInit DEF ConsoleInv
<1>2. ConsTypeOK /\ WaitsAtOnce /\ [ConsNext]_consVars => WaitsAtOnce'
  <2> SUFFICES ASSUME ConsTypeOK, WaitsAtOnce, [ConsNext]_consVars PROVE WaitsAtOnce'
    OBVIOUS
  <2>1. CASE UNCHANGED consVars
    BY <2>1 DEF WaitsAtOnce, MustWait, Empty, Full, consVars, queues
  <2>2. ASSUME NEW t \in Thread, Call(t) \/ ThreadStep(t) PROVE WaitsAtOnce'
    BY <2>2, AloneThread
  <2>3. CASE \/ PutcPoll \/ SerialInitQueue \/ PutcIntrOff \/ SerialFlush
             \/ KeyboardInterrupt \/ SerialInterrupt \/ ByteArrives \/ TransmitterReady
    BY <2>3, AloneOthers
  <2> QED BY <2>1, <2>2, <2>3 DEF ConsNext
<1>3. WaitsAtOnce => WaitCondition
  BY DEF WaitsAtOnce, WaitCondition
<1>4. ConsSpec => []ConsTypeOK
  BY QueuesAreFifo, PTL
<1> QED BY <1>1, <1>2, <1>3, <1>4, PTL DEF ConsSpec

(* intq_putc() and intq_getc(): the property that the runs check.          *)
THEOREM QueuesAlwaysRight ==
  ASSUME ConsoleConstants
  PROVE  ConsSpec => []QueuesRight
<1>1. ConsTypeOK /\ RingExact => QueuesRight
  BY DEF QueuesRight
<1> QED BY <1>1, QueuesAreFifo, PTL

-----------------------------------------------------------------------------
(* Interrupts: intr_handler(), the handlers it calls, yielding on return,   *)
(* and the registration of handlers.                                        *)
InterruptsConstants == Boots \in KThread

(* The frames of a stack, and the gates of the descriptor table.           *)
Frame == [vec : Vectors, flag : {"on", "off"}, at : {"enter", "called", "complete", "exit"}]
Gate == [dpl : Nat, type : {"intr", "trap"}]
(* An external vector is registered with interrupts off: the assertion of  *)
(* register_handler().                                                     *)
Registration ==
  {r \in [op : {"ext", "int", "start"}, vec : Nat, dpl : Nat, level : {"on", "off"}] :
     r.op # "start" => r.vec \in Vectors /\ (External(r.vec) => r.level = "off")}

IntrTypes ==
  /\ onCpu \in KThread
  /\ frames \in [KThread -> Seq(Frame)] /\ level \in [KThread -> {"on", "off"}]
  /\ registry \in [Vectors -> [gate : Gate, handler : BOOLEAN]]
  /\ registering \in Seq(Registration)
  /\ in_external_intr \in BOOLEAN /\ irr \subseteq {Timer, Ide0, Ide1}

(* External interrupts have interrupt gates.                               *)
ExternalGates == \A v \in Vectors : External(v) => registry[v].gate.type = "intr"

(* While an external interrupt is handled, its line is the only one that a *)
(* controller can have in service; a spurious one may have none.           *)
OneInService ==
  Outstanding(onCpu) # {} =>
    LET v == Top(onCpu).vec
    IN  /\ master \in {{}, {Line(v)}}
        /\ slave = {} \/ (v >= 40 /\ slave = {v})

InterruptsInv == IntrTypes /\ ExternalGates /\ OneInService /\ InterruptsRight

-----------------------------------------------------------------------------
(* The frames of a stack that are outstanding, and how they change.        *)
Out(s) == {n \in 1..Len(s) : External(s[n].vec) /\ s[n].at # "exit"}

LEMMA PushFrame ==
  ASSUME NEW s \in Seq(Frame), NEW f \in Frame
  PROVE  /\ Append(s, f) \in Seq(Frame) /\ Len(Append(s, f)) = Len(s) + 1
         /\ Append(s, f)[Len(s) + 1] = f
         /\ Out(Append(s, f)) = Out(s) \cup (IF External(f.vec) /\ f.at # "exit"
                                               THEN {Len(s) + 1} ELSE {})
<1>1. /\ Append(s, f) \in Seq(Frame) /\ Len(Append(s, f)) = Len(s) + 1
      /\ Append(s, f)[Len(s) + 1] = f /\ \A n \in 1..Len(s) : Append(s, f)[n] = s[n]
  OBVIOUS
<1>2. 1..Len(s) + 1 = 1..Len(s) \cup {Len(s) + 1} /\ Len(s) \in Nat
  OBVIOUS
<1> QED BY <1>1, <1>2 DEF Out

LEMMA PopFrame ==
  ASSUME NEW s \in Seq(Frame), s # <<>>
  PROVE  /\ SubSeq(s, 1, Len(s) - 1) \in Seq(Frame)
         /\ Out(SubSeq(s, 1, Len(s) - 1)) = Out(s) \ {Len(s)}
<1> DEFINE r == SubSeq(s, 1, Len(s) - 1)
<1>1. Len(s) \in Nat \ {0}
  OBVIOUS
<1>2. r \in Seq(Frame) /\ Len(r) = Len(s) - 1 /\ \A n \in 1..Len(s) - 1 : r[n] = s[n]
  <2>1. Len(s) - 1 \in Int /\ \A n \in 1..Len(s) - 1 : s[n] \in Frame
    BY <1>1
  <2>2. /\ r \in Seq(Frame)
        /\ Len(r) = IF 1 <= Len(s) - 1 THEN (Len(s) - 1) - 1 + 1 ELSE 0
        /\ \A n \in 1..(Len(s) - 1) - 1 + 1 : r[n] = s[1 + n - 1]
    BY <2>1, SubSeqProperties
  <2> HIDE DEF r
  <2>3. \A n \in 1..Len(s) - 1 : r[n] = s[n]
    BY <1>1, <2>2
  <2>4. Len(r) = Len(s) - 1
    <3>1. \A k \in Nat \ {0} : (IF 1 <= k - 1 THEN (k - 1) - 1 + 1 ELSE 0) = k - 1
      OBVIOUS
    <3> QED BY <1>1, <2>2, <3>1, Zenon
  <2> QED BY <2>2, <2>3, <2>4
<1>3. 1..Len(s) - 1 = (1..Len(s)) \ {Len(s)}
  BY <1>1
<1> HIDE DEF r
<1>4. Out(r) = Out(s) \ {Len(s)}
  BY <1>2, <1>3 DEF Out
<1> QED BY <1>2, <1>4 DEF r

LEMMA StageFrame ==
  ASSUME NEW s \in Seq(Frame), s # <<>>, NEW a \in {"enter", "called", "complete", "exit"}
  PROVE  LET r == [s EXCEPT ![Len(s)].at = a]
         IN  /\ r \in Seq(Frame) /\ Len(r) = Len(s) /\ r[Len(r)].vec = s[Len(s)].vec
             /\ Out(r) = (Out(s) \ {Len(s)}) \cup (IF External(s[Len(s)].vec) /\ a # "exit"
                                                    THEN {Len(s)} ELSE {})
<1> DEFINE r == [s EXCEPT ![Len(s)].at = a]
<1>1. Len(s) \in 1..Len(s) /\ s[Len(s)] \in Frame
  OBVIOUS
<1>2. [s[Len(s)] EXCEPT !.at = a] \in Frame
  BY <1>1 DEF Frame
<1>3. r = [s EXCEPT ![Len(s)] = [s[Len(s)] EXCEPT !.at = a]]
  OBVIOUS
<1>4. r \in Seq(Frame) /\ Len(r) = Len(s)
  BY <1>1, <1>2, <1>3
<1>5. \A n \in 1..Len(s) : n # Len(s) => r[n] = s[n]
  BY <1>1
<1>6. r[Len(s)].vec = s[Len(s)].vec /\ r[Len(s)].at = a
  BY <1>1 DEF Frame
<1> HIDE DEF r
<1>7. Out(r) = (Out(s) \ {Len(s)}) \cup (IF External(s[Len(s)].vec) /\ a # "exit"
                                            THEN {Len(s)} ELSE {})
  BY <1>1, <1>4, <1>5, <1>6 DEF Out
<1> QED BY <1>4, <1>6, <1>7 DEF r

(* An unspecific acknowledgement ends the only line in service.            *)
LEMMA ServedAll ==
  Served({}) = {} /\ \A x \in Int : Served({x}) = {}
<1>1. \A x \in Int : First({x}) = x
  BY DEF First
<1> QED BY <1>1 DEF Served

(* The running thread's own code: nothing is outstanding.                  *)
LEMMA OwnIsQuiet ==
  ASSUME InterruptsInv
  PROVE  /\ OwnCode(onCpu) => Outstanding(onCpu) = {}
         /\ level[onCpu] = "on" => Outstanding(onCpu) = {}
         /\ \A t \in KThread : Outstanding(t) = Out(frames[t])
         /\ \A t \in KThread \ {onCpu} : Out(frames[t]) = {}
<1>1. \A t \in KThread : Outstanding(t) = Out(frames[t])
  BY DEF Outstanding, Out
<1>2. frames[onCpu] \in Seq(Frame)
  BY DEF InterruptsInv, IntrTypes
<1>3. OwnCode(onCpu) => Outstanding(onCpu) = {}
  BY <1>2 DEF InterruptsInv, InterruptsRight, Outstanding, OwnCode, Top
<1> QED BY <1>1, <1>3 DEF InterruptsInv, InterruptsRight

(* An action that leaves the stacks, the controllers and the flag as they  *)
(* are may change the running thread and its flag when nothing is          *)
(* outstanding.                                                            *)
LEMMA QuietStep ==
  ASSUME InterruptsInv, Outstanding(onCpu) = {}, IntrTypes', ExternalGates',
         \A t \in KThread : Out(frames'[t]) = {},
         UNCHANGED <<master, slave, in_external_intr>>
  PROVE  InterruptsInv'
<1>1. \A t \in KThread : Outstanding(t)' = {}
  BY DEF Outstanding, Out
<1>2. onCpu' \in KThread
  BY DEF IntrTypes
<1>3. master = {} /\ slave = {} /\ in_external_intr = FALSE
  BY DEF InterruptsInv, InterruptsRight, IntrTypes
<1>4. OneInService' /\ InterruptsRight'
  BY <1>1, <1>2, <1>3 DEF OneInService, InterruptsRight
<1> QED BY <1>4 DEF InterruptsInv

(* The stack of the running thread afterwards, and the others'.            *)
LEMMA StacksAre ==
  ASSUME IntrTypes, NEW s \in Seq(Frame), frames' = [frames EXCEPT ![onCpu] = s]
  PROVE  /\ frames' \in [KThread -> Seq(Frame)] /\ frames'[onCpu] = s
         /\ \A t \in KThread \ {onCpu} : frames'[t] = frames[t]
BY DEF IntrTypes

-----------------------------------------------------------------------------
(* register_handler(): external vectors keep interrupt gates.              *)
LEMMA RegisterKeeps ==
  ASSUME InterruptsConstants, InterruptsInv, Register
  PROVE  InterruptsInv'
<1> DEFINE r == Head(registering)
<1>1. OwnCode(Boots) /\ onCpu = Boots /\ registering # <<>> /\ Boots \in KThread
  BY DEF Register, OwnCode, InterruptsConstants
<1>2. registering \in Seq(Registration) /\ registering' = Tail(registering)
  BY DEF Register, InterruptsInv, IntrTypes
<1>3. r \in Registration /\ registering' \in Seq(Registration)
  BY <1>1, <1>2
<1>4. /\ UNCHANGED <<in_external_intr, irr, master, slave, onCpu, frames>>
      /\ IF r.op = "start" THEN level' = [level EXCEPT ![Boots] = "on"] /\ registry' = registry
         ELSE registry' = RegisterHandler(r) /\ level' = level
  BY DEF Register, controllers
<1> HIDE DEF r
<1>5. level' \in [KThread -> {"on", "off"}]
  BY <1>4, <1>1 DEF InterruptsInv, IntrTypes
<1>6. r.op # "start" => r.vec \in Vectors /\ (External(r.vec) => r.level = "off")
  BY <1>3 DEF Registration
<1>7. /\ registry' \in [Vectors -> [gate : Gate, handler : BOOLEAN]]
      /\ \A v \in Vectors : External(v) => registry'[v].gate.type = "intr"
  <2>1. CASE r.op = "start"
    BY <2>1, <1>4 DEF InterruptsInv, IntrTypes, ExternalGates
  <2>2. CASE r.op # "start"
    <3> DEFINE e == [gate |-> IF r.level = "on" THEN MakeTrapGate(r.dpl) ELSE MakeIntrGate(r.dpl),
                     handler |-> TRUE]
    <3>1. registry' = [registry EXCEPT ![r.vec] = e]
      BY <2>2, <1>4 DEF RegisterHandler
    <3>2. e \in [gate : Gate, handler : BOOLEAN] /\ (r.level = "off" => e.gate.type = "intr")
      BY <1>3 DEF Registration, Gate, MakeTrapGate, MakeIntrGate, MakeGate
    <3> HIDE DEF e
    <3> QED BY <3>1, <3>2, <2>2, <1>6 DEF InterruptsInv, IntrTypes, ExternalGates
  <2> QED BY <2>1, <2>2
<1>8. IntrTypes' /\ ExternalGates'
  BY <1>3, <1>4, <1>5, <1>6, <1>7 DEF InterruptsInv, IntrTypes, ExternalGates
<1>9. Outstanding(onCpu) = {} /\ \A t \in KThread : Out(frames'[t]) = {}
  BY <1>1, <1>4, OwnIsQuiet
<1> QED BY <1>4, <1>8, <1>9, QuietStep

(* A vector with an interrupt gate turns interrupts off.                   *)
LEMMA EnterIs ==
  ASSUME InterruptsInv, NEW v \in Vectors, Enter(onCpu, v),
         UNCHANGED <<registry, registering, onCpu>>, in_external_intr' = in_external_intr,
         irr' \subseteq irr
  PROVE  /\ IntrTypes' /\ ExternalGates'
         /\ External(v) => level'[onCpu] = "off"
         /\ Top(onCpu)'.vec = v
         /\ Len(frames'[onCpu]) = Len(frames[onCpu]) + 1
         /\ Out(frames'[onCpu]) = Out(frames[onCpu])
               \cup (IF External(v) THEN {Len(frames[onCpu]) + 1} ELSE {})
         /\ \A t \in KThread \ {onCpu} : Out(frames'[t]) = Out(frames[t])
<1> DEFINE f == [vec |-> v, flag |-> level[onCpu], at |-> "enter"]
<1>1. frames' = [frames EXCEPT ![onCpu] = Append(frames[onCpu], f)]
  BY DEF Enter, InterruptsInv, IntrTypes
<1>2. f \in Frame /\ f.vec = v /\ f.at # "exit" /\ frames[onCpu] \in Seq(Frame)
  BY DEF InterruptsInv, IntrTypes, Frame
<1> HIDE DEF f
<1>3. /\ Append(frames[onCpu], f) \in Seq(Frame)
      /\ Len(Append(frames[onCpu], f)) = Len(frames[onCpu]) + 1
      /\ Append(frames[onCpu], f)[Len(frames[onCpu]) + 1] = f
      /\ Out(Append(frames[onCpu], f)) = Out(frames[onCpu])
            \cup (IF External(v) THEN {Len(frames[onCpu]) + 1} ELSE {})
  BY <1>2, PushFrame
<1>4. /\ frames' \in [KThread -> Seq(Frame)] /\ frames'[onCpu] = Append(frames[onCpu], f)
      /\ \A t \in KThread \ {onCpu} : frames'[t] = frames[t]
  BY <1>1, <1>3, StacksAre DEF InterruptsInv
<1>5. /\ level' \in [KThread -> {"on", "off"}] /\ (External(v) => level'[onCpu] = "off")
  BY DEF Enter, InterruptsInv, IntrTypes, ExternalGates
<1>6. IntrTypes' /\ ExternalGates'
  BY <1>4, <1>5 DEF InterruptsInv, IntrTypes, ExternalGates
<1>7. Top(onCpu)' = f
  BY <1>3, <1>4 DEF Top
<1> QED BY <1>2, <1>3, <1>4, <1>5, <1>6, <1>7

(* An external interrupt comes, real or spurious: nothing was outstanding. *)
LEMMA DeliverKeeps ==
  ASSUME InterruptsInv, NEW t \in KThread, NEW v \in Vectors,
         Deliver(t, v) \/ DeliverSpurious(t, v)
  PROVE  InterruptsInv'
<1>1. /\ t = onCpu /\ level[onCpu] = "on" /\ Enter(onCpu, v) /\ irr' \subseteq irr
      /\ UNCHANGED <<registry, registering, onCpu, in_external_intr>>
  BY DEF Deliver, DeliverSpurious, table
<1>2. Outstanding(onCpu) = {} /\ Out(frames[onCpu]) = {} /\ onCpu \in KThread
      /\ \A u \in KThread \ {onCpu} : Out(frames[u]) = {}
  BY <1>1, OwnIsQuiet DEF InterruptsInv, IntrTypes
<1>3. master = {} /\ slave = {} /\ in_external_intr = FALSE
  BY <1>2 DEF InterruptsInv, InterruptsRight, IntrTypes
<1>4. External(v)
  <2>1. v \in {Timer, Ide0, Ide1, Spurious7}
    BY DEF Deliver, DeliverSpurious, InterruptsInv, IntrTypes
  <2> QED BY <2>1 DEF External, Spurious7, Timer, Ide0, Ide1
<1>5. /\ IntrTypes' /\ ExternalGates' /\ level'[onCpu] = "off" /\ Top(onCpu)'.vec = v
      /\ Len(frames'[onCpu]) = Len(frames[onCpu]) + 1
      /\ Out(frames'[onCpu]) = {Len(frames[onCpu]) + 1}
      /\ \A u \in KThread \ {onCpu} : Out(frames'[u]) = {}
  BY <1>1, <1>2, <1>4, EnterIs
<1>6. master' \in {{}, {Line(v)}} /\ (slave' = {} \/ (v >= 40 /\ slave' = {v}))
  BY <1>3 DEF Deliver, DeliverSpurious, Line, Spurious7, Ide1
<1>7. /\ Outstanding(onCpu)' = {Len(frames'[onCpu])}
      /\ \A u \in KThread \ {onCpu} : Outstanding(u)' = {}
  <2>1. \A u \in KThread : Outstanding(u)' = Out(frames'[u])
    BY <1>1 DEF Outstanding, Out
  <2>2. onCpu' = onCpu
    BY <1>1
  <2> QED BY <1>2, <1>5, <2>1, <2>2
<1>8. OneInService'
  BY <1>1, <1>5, <1>6, <1>7 DEF OneInService
<1>9. InterruptsRight'
  BY <1>1, <1>3, <1>5, <1>7 DEF InterruptsRight
<1> QED BY <1>5, <1>8, <1>9 DEF InterruptsInv

(* An exception or system call comes from a thread's own code.             *)
LEMMA FaultKeeps ==
  ASSUME InterruptsInv, NEW t \in KThread, NEW v \in Vectors, Fault(t, v)
  PROVE  InterruptsInv'
<1>1. /\ t = onCpu /\ OwnCode(onCpu) /\ Enter(onCpu, v)
      /\ UNCHANGED <<registry, registering, onCpu, in_external_intr, irr, master, slave>>
  BY DEF Fault, OwnCode, table, controllers
<1>2. Outstanding(onCpu) = {} /\ onCpu \in KThread
      /\ \A u \in KThread : Out(frames[u]) = {}
  BY <1>1, OwnIsQuiet DEF InterruptsInv, IntrTypes
<1>3. ~External(v)
  BY DEF Fault, External
<1>4. /\ IntrTypes' /\ ExternalGates' /\ \A u \in KThread : Out(frames'[u]) = {}
  BY <1>1, <1>2, <1>3, EnterIs
<1> QED BY <1>1, <1>2, <1>4, QuietStep

-----------------------------------------------------------------------------
(* A stage of the handler on top of the running thread's stack.            *)
LEMMA StageIs ==
  ASSUME InterruptsInv, frames[onCpu] # <<>>,
         NEW a \in {"enter", "called", "complete", "exit"},
         frames' = Stage(onCpu, a)
  PROVE  /\ frames' \in [KThread -> Seq(Frame)]
         /\ frames'[onCpu] # <<>> /\ Len(frames'[onCpu]) = Len(frames[onCpu])
         /\ frames'[onCpu][Len(frames'[onCpu])].vec = Top(onCpu).vec
         /\ Out(frames'[onCpu]) = (Out(frames[onCpu]) \ {Len(frames[onCpu])})
              \cup (IF External(Top(onCpu).vec) /\ a # "exit" THEN {Len(frames[onCpu])} ELSE {})
         /\ \A t \in KThread \ {onCpu} : Out(frames'[t]) = Out(frames[t])
<1> DEFINE s == frames[onCpu]
           r == [s EXCEPT ![Len(s)].at = a]
<1>1. s \in Seq(Frame) /\ s # <<>> /\ onCpu \in KThread /\ IntrTypes
  BY DEF InterruptsInv, IntrTypes
<1>2. frames' = [frames EXCEPT ![onCpu] = r]
  BY DEF Stage, InterruptsInv, IntrTypes
<1>3. /\ r \in Seq(Frame) /\ Len(r) = Len(s) /\ r[Len(r)].vec = s[Len(s)].vec
      /\ Out(r) = (Out(s) \ {Len(s)}) \cup (IF External(s[Len(s)].vec) /\ a # "exit"
                                              THEN {Len(s)} ELSE {})
  BY <1>1, StageFrame
<1>4. Len(s) # 0
  BY <1>1
<1> HIDE DEF r
<1>5. /\ frames' \in [KThread -> Seq(Frame)] /\ frames'[onCpu] = r
      /\ \A t \in KThread \ {onCpu} : frames'[t] = frames[t]
  BY <1>1, <1>2, <1>3, StacksAre
<1>6. r # <<>>
  BY <1>3, <1>4
<1> QED BY <1>3, <1>5, <1>6 DEF Top

(* The frames outstanding stay so, and the flag says whether there is one. *)
LEMMA SameStep ==
  ASSUME InterruptsInv, frames[onCpu] # <<>>,
         UNCHANGED <<registry, registering, irr, master, slave, onCpu, level>>,
         frames' \in [KThread -> Seq(Frame)], in_external_intr' \in BOOLEAN,
         Len(frames'[onCpu]) = Len(frames[onCpu]),
         frames'[onCpu][Len(frames'[onCpu])].vec = Top(onCpu).vec,
         \A t \in KThread : Out(frames'[t]) = Out(frames[t]),
         in_external_intr' => in_external_intr \/ Out(frames[onCpu]) # {}
  PROVE  InterruptsInv'
<1>1. IntrTypes' /\ ExternalGates' /\ onCpu \in KThread
  BY DEF InterruptsInv, IntrTypes, ExternalGates
<1>2. \A t \in KThread : Outstanding(t)' = Outstanding(t) /\ Outstanding(t) = Out(frames[t])
  BY DEF Outstanding, Out
<1>3. OneInService'
  BY <1>1, <1>2 DEF InterruptsInv, OneInService, Top
<1>4. InterruptsRight'
  BY <1>1, <1>2 DEF InterruptsInv, InterruptsRight
<1> QED BY <1>1, <1>3, <1>4 DEF InterruptsInv

(* intr_handler() notes that an external interrupt is being handled.       *)
LEMMA HandlerEntryKeeps ==
  ASSUME InterruptsInv, NEW t \in KThread, HandlerEntry(t)
  PROVE  InterruptsInv'
<1>1. /\ t = onCpu /\ frames[onCpu] # <<>> /\ Top(onCpu).at = "enter"
      /\ frames' = Stage(onCpu, "called")
      /\ UNCHANGED <<registry, registering, irr, master, slave, onCpu, level>>
      /\ in_external_intr' = IF External(Top(onCpu).vec) THEN TRUE ELSE in_external_intr
  BY DEF HandlerEntry, At, table, controllers
<1>2. /\ frames[onCpu] \in Seq(Frame) /\ in_external_intr \in BOOLEAN
      /\ Len(frames[onCpu]) \in 1..Len(frames[onCpu])
  BY <1>1 DEF InterruptsInv, IntrTypes
<1>3. External(Top(onCpu).vec) <=> Len(frames[onCpu]) \in Out(frames[onCpu])
  BY <1>1, <1>2 DEF Out, Top
<1>4. /\ frames' \in [KThread -> Seq(Frame)] /\ Len(frames'[onCpu]) = Len(frames[onCpu])
      /\ frames'[onCpu][Len(frames'[onCpu])].vec = Top(onCpu).vec
      /\ \A u \in KThread : Out(frames'[u]) = Out(frames[u])
  BY <1>1, <1>3, StageIs
<1>5. in_external_intr' => in_external_intr \/ Out(frames[onCpu]) # {}
  BY <1>1, <1>3
<1>6. in_external_intr' \in BOOLEAN
  BY <1>1, <1>2
<1> QED BY <1>1, <1>4, <1>5, <1>6, SameStep

(* The handler's return leaves an external interrupt to be completed.      *)
LEMMA HandlerReturnsKeeps ==
  ASSUME InterruptsInv, NEW t \in KThread, NEW asks \in BOOLEAN, HandlerReturns(t, asks)
  PROVE  InterruptsInv'
<1>1. /\ t = onCpu /\ frames[onCpu] # <<>> /\ Top(onCpu).at = "called"
      /\ UNCHANGED <<registry, registering, irr, master, slave, onCpu, level, in_external_intr>>
      /\ frames' = Stage(onCpu, IF External(Top(onCpu).vec) THEN "complete" ELSE "exit")
  BY DEF HandlerReturns, At, table, controllers
<1>2. /\ frames[onCpu] \in Seq(Frame) /\ in_external_intr \in BOOLEAN
      /\ Len(frames[onCpu]) \in 1..Len(frames[onCpu])
  BY <1>1 DEF InterruptsInv, IntrTypes
<1>3. External(Top(onCpu).vec) <=> Len(frames[onCpu]) \in Out(frames[onCpu])
  BY <1>1, <1>2 DEF Out, Top
<1> DEFINE a == IF External(Top(onCpu).vec) THEN "complete" ELSE "exit"
<1>4. a \in {"enter", "called", "complete", "exit"} /\ frames' = Stage(onCpu, a)
      /\ (a # "exit" <=> External(Top(onCpu).vec))
  BY <1>1
<1> HIDE DEF a
<1>5. /\ frames' \in [KThread -> Seq(Frame)] /\ Len(frames'[onCpu]) = Len(frames[onCpu])
      /\ frames'[onCpu][Len(frames'[onCpu])].vec = Top(onCpu).vec
      /\ \A u \in KThread : Out(frames'[u]) = Out(frames[u])
  BY <1>1, <1>3, <1>4, StageIs
<1>6. in_external_intr' \in BOOLEAN /\ (in_external_intr' => in_external_intr)
  BY <1>1, <1>2
<1> QED BY <1>1, <1>5, <1>6, SameStep

(* The interrupt is acknowledged before anything else runs: afterwards no  *)
(* line is in service and any thread may be scheduled.                     *)
LEMMA HandlerCompleteKeeps ==
  ASSUME InterruptsInv, NEW t \in KThread, HandlerComplete(t)
  PROVE  InterruptsInv'
<1>1. /\ t = onCpu /\ frames[onCpu] # <<>> /\ EndOfInterrupt(Top(onCpu).vec)
      /\ frames' = Stage(onCpu, "exit") /\ in_external_intr' = FALSE
      /\ UNCHANGED <<registry, registering, irr, level>>
      /\ onCpu' \in KThread \cup {onCpu}
  BY DEF HandlerComplete, At, table
<1>2. onCpu \in KThread /\ \A u \in KThread : Outstanding(u) = Out(frames[u])
  BY OwnIsQuiet DEF InterruptsInv, IntrTypes
<1>3. /\ frames' \in [KThread -> Seq(Frame)] 
      /\ Out(frames'[onCpu]) = Out(frames[onCpu]) \ {Len(frames[onCpu])}
      /\ \A u \in KThread \ {onCpu} : Out(frames'[u]) = Out(frames[u])
  BY <1>1, StageIs
<1>4. \A u \in KThread : Out(frames'[u]) = {}
  BY <1>2, <1>3 DEF InterruptsInv, InterruptsRight
<1>5. master' = {} /\ slave' = {}
  <2>1. Served({}) = {}
    BY ServedAll
  <2>2. CASE Outstanding(onCpu) = {}
    BY <1>1, <2>1, <2>2 DEF InterruptsInv, InterruptsRight, EndOfInterrupt
  <2>3. CASE Outstanding(onCpu) # {}
    <3> DEFINE v == Top(onCpu).vec
    <3>1. master \in {{}, {Line(v)}} /\ (slave = {} \/ (v >= 40 /\ slave = {v}))
      BY <2>3 DEF InterruptsInv, OneInService
    <3>2. v \in Vectors
      <4>1. frames[onCpu] \in Seq(Frame) /\ Len(frames[onCpu]) \in 1..Len(frames[onCpu])
        BY <1>1 DEF InterruptsInv, IntrTypes
      <4>2. frames[onCpu][Len(frames[onCpu])] \in Frame
        BY <4>1
      <4> QED BY <4>2 DEF Top, Frame
    <3>3. v \in Int /\ Line(v) \in Int
      BY <3>2 DEF Vectors, Line, Timer, Spurious7, Ide0, Ide1
    <3>4. Served({v}) = {} /\ Served({Line(v)}) = {}
      BY <3>3, ServedAll
    <3> QED BY <1>1, <2>1, <3>1, <3>4 DEF EndOfInterrupt
  <2> QED BY <2>2, <2>3
<1>6. \A u \in KThread : Outstanding(u)' = {}
  BY <1>4 DEF Outstanding, Out
<1>7. IntrTypes' /\ ExternalGates'
  BY <1>1, <1>2, <1>3 DEF InterruptsInv, IntrTypes, ExternalGates
<1>8. OneInService' /\ InterruptsRight'
  BY <1>1, <1>5, <1>6, <1>7 DEF OneInService, InterruptsRight, IntrTypes
<1> QED BY <1>7, <1>8 DEF InterruptsInv

(* intr_exit: the frame that is popped was acknowledged.                   *)
LEMMA IntrExitKeeps ==
  ASSUME InterruptsInv, NEW t \in KThread, IntrExit(t)
  PROVE  InterruptsInv'
<1> DEFINE s == frames[onCpu]
           r == SubSeq(s, 1, Len(s) - 1)
<1>1. /\ t = onCpu /\ s # <<>> /\ s[Len(s)].at = "exit"
      /\ frames' = [frames EXCEPT ![onCpu] = r]
      /\ level' = [level EXCEPT ![onCpu] = s[Len(s)].flag]
      /\ UNCHANGED <<registry, registering, irr, master, slave, onCpu, in_external_intr>>
  BY DEF IntrExit, At, Top, table, controllers, InterruptsInv, IntrTypes
<1>2. /\ s \in Seq(Frame) /\ onCpu \in KThread /\ s[Len(s)] \in Frame
      /\ Outstanding(onCpu) = Out(s) /\ \A u \in KThread \ {onCpu} : Out(frames[u]) = {}
  <2>1. s \in Seq(Frame) /\ Len(s) \in 1..Len(s)
    BY <1>1 DEF InterruptsInv, IntrTypes
  <2> QED BY <2>1, OwnIsQuiet DEF InterruptsInv, IntrTypes
<1>3. Len(s) \notin Out(s)
  BY <1>1 DEF Out
<1>4. Outstanding(onCpu) = {} /\ Out(s) = {}
  BY <1>2, <1>3 DEF InterruptsInv, InterruptsRight
<1>5. r \in Seq(Frame) /\ Out(r) = {}
  BY <1>1, <1>2, <1>4, PopFrame
<1> HIDE DEF r
<1>6. /\ frames' \in [KThread -> Seq(Frame)] /\ frames'[onCpu] = r
      /\ \A u \in KThread \ {onCpu} : frames'[u] = frames[u]
  BY <1>1, <1>5, StacksAre DEF InterruptsInv
<1>7. level' \in [KThread -> {"on", "off"}]
  BY <1>1, <1>2 DEF InterruptsInv, IntrTypes, Frame
<1>8. IntrTypes' /\ ExternalGates'
  BY <1>1, <1>6, <1>7 DEF InterruptsInv, IntrTypes, ExternalGates
<1>9. \A u \in KThread : Out(frames'[u]) = {}
  BY <1>2, <1>5, <1>6
<1> QED BY <1>1, <1>4, <1>8, <1>9, QuietStep

(* What a thread does in code of its own, and what the devices request.    *)
LEMMA OwnKeeps ==
  ASSUME InterruptsInv, NEW t \in KThread, PageFaultEnables(t) \/ ThreadYields(t)
  PROVE  InterruptsInv'
<1>1. /\ t = onCpu /\ OwnCode(onCpu)
      /\ UNCHANGED <<registry, registering, irr, master, slave, in_external_intr, frames>>
      /\ level' \in [KThread -> {"on", "off"}] /\ onCpu' \in KThread
  BY DEF PageFaultEnables, ThreadYields, OwnCode, table, controllers, InterruptsInv, IntrTypes
<1>2. Outstanding(onCpu) = {} /\ \A u \in KThread : Out(frames'[u]) = {}
  BY <1>1, OwnIsQuiet DEF InterruptsInv, IntrTypes
<1>3. IntrTypes' /\ ExternalGates'
  BY <1>1 DEF InterruptsInv, IntrTypes, ExternalGates
<1> QED BY <1>1, <1>2, <1>3, QuietStep

LEMMA RaiseKeeps ==
  ASSUME InterruptsInv, NEW v \in Vectors, Raise(v)
  PROVE  InterruptsInv'
BY DEF Raise, table, InterruptsInv, IntrTypes, ExternalGates, OneInService, InterruptsRight,
       Outstanding, Top

(* intr_init(), before pintos_init() registers its handlers.               *)
LEMMA InterruptsStart ==
  ASSUME InterruptsConstants, InterruptsInit
  PROVE  InterruptsInv
<1>1. /\ ExtReg(Timer) \in Registration /\ ExtReg(Ide0) \in Registration
      /\ ExtReg(Ide1) \in Registration /\ ThreadStart \in Registration
  BY DEF Registration, ExtReg, ThreadStart, External, Vectors, Timer, Ide0, Ide1
<1>2. /\ IntReg(3, 3, "on") \in Registration /\ IntReg(13, 0, "on") \in Registration
      /\ IntReg(14, 0, "off") \in Registration /\ IntReg(48, 3, "on") \in Registration
  BY DEF Registration, IntReg, External, Vectors
<1>3. registering \in Seq(Registration)
  <2>1. /\ <<ExtReg(Timer)>> \in Seq(Registration) /\ <<ThreadStart>> \in Seq(Registration)
        /\ SyscallInit \in Seq(Registration)
    BY <1>1, <1>2 DEF SyscallInit
  <2>2. ExceptionInit \in Seq(Registration)
    BY <1>2 DEF ExceptionInit
  <2>3. IdeInit \in Seq(Registration)
    BY <1>1 DEF IdeInit
  <2>4. \A a, b \in Seq(Registration) : a \o b \in Seq(Registration)
    OBVIOUS
  <2> QED BY <2>1, <2>2, <2>3, <2>4 DEF InterruptsInit, Registrations
<1>4. \A v \in Vectors : registry[v] = [gate |-> MakeIntrGate(0), handler |-> FALSE]
  <2>1. registry = IntrInit
    BY DEF InterruptsInit
  <2> QED BY <2>1 DEF IntrInit
<1>5. MakeIntrGate(0) \in Gate /\ MakeIntrGate(0).type = "intr"
  BY DEF Gate, MakeIntrGate, MakeGate
<1>6. registry \in [Vectors -> [gate : Gate, handler : BOOLEAN]] /\ ExternalGates
  <2>1. registry = IntrInit
    BY DEF InterruptsInit
  <2>2. registry \in [Vectors -> [gate : Gate, handler : BOOLEAN]]
    BY <1>5, <2>1 DEF IntrInit
  <2> QED BY <1>4, <1>5, <2>2 DEF ExternalGates
<1>7. /\ frames = [t \in KThread |-> <<>>] /\ onCpu = Boots /\ in_external_intr = FALSE
      /\ irr = {} /\ master = {} /\ slave = {}
  BY DEF InterruptsInit, PicInit
<1>8. frames \in [KThread -> Seq(Frame)] /\ \A t \in KThread : Len(frames[t]) = 0
  BY <1>7
<1>9. level \in [KThread -> {"on", "off"}]
  <2>1. level = [t \in KThread |-> IF t = Boots THEN "off" ELSE "on"]
    BY DEF InterruptsInit
  <2> QED BY <2>1
<1>10. IntrTypes
  BY <1>3, <1>6, <1>7, <1>8, <1>9 DEF IntrTypes, InterruptsConstants
<1>11. \A t \in KThread : Outstanding(t) = {}
  <2>1. 1..0 = {}
    OBVIOUS
  <2> QED BY <1>8, <2>1, Zenon DEF Outstanding
<1>12. OneInService /\ InterruptsRight
  <2>1. onCpu \in KThread
    BY <1>10 DEF IntrTypes
  <2>2. OneInService
    BY <2>1, <1>11 DEF OneInService
  <2>3. InterruptsRight
    BY <2>1, <1>11, <1>7 DEF InterruptsRight
  <2> QED BY <2>2, <2>3
<1> QED BY <1>10, <1>12, <1>6 DEF InterruptsInv

(* intr_handler(), intr_register_*() and the controllers: external         *)
(* interrupts never nest, run with interrupts off and are acknowledged     *)
(* before anything else runs, for any number of threads and requests.      *)
THEOREM InterruptsAlwaysRight ==
  ASSUME InterruptsConstants
  PROVE  InterruptsSpec => []InterruptsRight
<1>1. InterruptsInit => InterruptsInv
  BY InterruptsStart
<1>2. InterruptsInv /\ [InterruptsNext]_intrVars => InterruptsInv'
  <2> SUFFICES ASSUME InterruptsInv, [InterruptsNext]_intrVars
               PROVE  InterruptsInv'
    OBVIOUS
  <2>1. CASE InterruptsNext
    BY <2>1, RegisterKeeps, RaiseKeeps, DeliverKeeps, FaultKeeps, HandlerEntryKeeps,
       OwnKeeps, HandlerReturnsKeeps, HandlerCompleteKeeps, IntrExitKeeps DEF InterruptsNext
  <2>2. CASE UNCHANGED intrVars
    BY <2>2 DEF intrVars, InterruptsInv, IntrTypes, ExternalGates, OneInService,
                InterruptsRight, Outstanding, Top
  <2> QED BY <2>1, <2>2
<1>3. InterruptsInv => InterruptsRight
  BY DEF InterruptsInv
<1> QED BY <1>1, <1>2, <1>3, PTL DEF InterruptsSpec
=============================================================================
