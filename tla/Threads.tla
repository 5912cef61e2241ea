------------------------------ MODULE Threads ------------------------------
(***************************************************************************)
(* The Pintos kernel scheduler and its semaphores:                         *)
(*   proj-pregame/src/threads/thread.c  (threads, ready list, idle thread) *)
(*   proj-pregame/src/threads/synch.c   (struct semaphore)                 *)
(*                                                                         *)
(* One CPU.  A section of code that runs with interrupts off is one        *)
(* action; between two actions the timer or a device may interrupt and     *)
(* preempt the running thread.  A thread is identified by the page that    *)
(* holds its struct thread, so identities are reused after a thread dies.  *)
(***************************************************************************)
EXTENDS Integers, Sequences, FiniteSets

CONSTANTS
  Thread,        \* pages that can hold a struct thread, by number
  Main,          \* initial_thread, whose page is not from palloc
  NoThread,      \* the NULL thread pointer
  Sema,          \* semaphores used by the kernel's threads
  IntrSema,      \* the ones interrupt handlers up
  IdleStarted,   \* the semaphore thread_start() hands to idle()
  TidLock,       \* the semaphore inside tid_lock
  TimeSlice,     \* TIME_SLICE
  MaxTid,        \* bound: threads ever created
  MaxValue       \* bound: value of a semaphore the environment ups

ASSUME ThreadAssumption ==
  /\ IsFiniteSet(Thread) /\ Thread \subseteq Nat
  /\ Main \in Thread
  /\ NoThread \notin Thread
ASSUME SemaAssumption ==
  /\ IdleStarted \notin Sema
  /\ TidLock \notin Sema
  /\ IdleStarted # TidLock
  /\ IntrSema \subseteq Sema
ASSUME BoundAssumption ==
  /\ TimeSlice \in Nat \ {0}
  /\ MaxTid \in Nat
  /\ MaxValue \in Nat

AllSema == Sema \cup {IdleStarted, TidLock}

VARIABLES
  status,       \* status of each page's thread; "NONE" when the page is free
  readyList,    \* fifo_ready_list
  allList,      \* all_list (its order is never used)
  current,      \* running_thread()
  idleThread,   \* idle_thread
  threadTicks,  \* thread_ticks
  pc,           \* where each thread is
  waitsFor,     \* the semaphore a thread's sema_down() loops on
  child,        \* the thread a thread_create() in progress builds
  tmpTid,       \* the local tid of allocate_tid()
  tid,          \* t->tid (0 until thread_create() stores it)
  nextTid,      \* next_tid
  value,        \* sema->value
  waiters       \* sema->waiters

schedVars == <<status, readyList, current, threadTicks>>
tidVars   == <<child, tmpTid, tid, nextTid>>
vars == <<status, readyList, allList, current, idleThread, threadTicks, pc,
          waitsFor, child, tmpTid, tid, nextTid, value, waiters>>

Statuses == {"NONE", "RUNNING", "READY", "BLOCKED", "DYING"}

(***************************************************************************)
(* Program counters.  "run" is arbitrary kernel code.  A thread at "down"  *)
(* is inside the loop of sema_down() after having slept at least once.     *)
(***************************************************************************)
Labels == {"none", "new", "boot", "waitIdle", "run", "down",
           "lockTid", "readTid", "bumpTid", "releaseTid", "unblockChild",
           "idleInit", "idleUp", "idleLoop", "idleHalt"}

(* Where sema_down(s) returns to: allocate_tid() for tid_lock.             *)
AfterDown(s) == IF s = TidLock THEN "readTid" ELSE "run"

(* Interrupts are off during boot, and when a thread returns from          *)
(* thread_block() into the loop of sema_down().                            *)
IntrOn == pc[current] \notin {"boot", "down"}

Goto(l) == pc' = [pc EXCEPT ![current] = l]

-----------------------------------------------------------------------------
(* thread_init() has run: main is the only thread, with tid 1.             *)
Init ==
  /\ status = [t \in Thread |-> IF t = Main THEN "RUNNING" ELSE "NONE"]
  /\ readyList = <<>>
  /\ allList = {Main}
  /\ current = Main
  /\ idleThread = NoThread
  /\ threadTicks = 0
  /\ pc = [t \in Thread |-> IF t = Main THEN "boot" ELSE "none"]
  /\ waitsFor = [t \in Thread |-> IdleStarted]
  /\ child = [t \in Thread |-> NoThread]
  /\ tmpTid = [t \in Thread |-> 0]
  /\ tid = [t \in Thread |-> IF t = Main THEN 1 ELSE 0]
  /\ nextTid = 2
  /\ value = [s \in AllSema |-> IF s = TidLock THEN 1 ELSE 0]
  /\ waiters = [s \in AllSema |-> <<>>]

-----------------------------------------------------------------------------
(* next_thread_to_run() under the only implemented policy, FIFO.           *)
NextThreadToRun(ready) == IF ready # <<>> THEN Head(ready) ELSE idleThread

(* thread_switch_tail(): a dying predecessor gives its page back, except   *)
(* the initial thread.                                                     *)
SwitchTail(st, next) ==
  [t \in Thread |->
     IF t = next THEN "RUNNING"
     ELSE IF t = current /\ st[t] = "DYING" /\ t # Main THEN "NONE"
     ELSE st[t]]

(* schedule(), called with the thread states st and the ready list that    *)
(* its caller leaves.                                                      *)
Schedule(st, ready) ==
  /\ current' = NextThreadToRun(ready)
  /\ readyList' = IF ready # <<>> THEN Tail(ready) ELSE ready
  /\ status' = SwitchTail(st, NextThreadToRun(ready))
  /\ threadTicks' = 0

(* thread_block(), called with interrupts off.                             *)
ThreadBlock == Schedule([status EXCEPT ![current] = "BLOCKED"], readyList)

(* thread_unblock(t): to the end of the ready list, without preemption.    *)
ThreadUnblock(t) ==
  /\ readyList' = Append(readyList, t)
  /\ status' = [status EXCEPT ![t] = "READY"]

(* Mutant: the test for the idle thread is dropped.                        *)
ThreadYieldIdleToo ==
  Schedule([status EXCEPT ![current] = "READY"], Append(readyList, current))

(* Mutant: list_push_front() instead of list_push_back().                  *)
ThreadYieldPushFront ==
  Schedule([status EXCEPT ![current] = "READY"],
           IF current # idleThread THEN <<current>> \o readyList
                                   ELSE readyList)

(* thread_yield(): the idle thread never enters the ready list.            *)
ThreadYield ==
  Schedule([status EXCEPT ![current] = "READY"],
           IF current # idleThread THEN Append(readyList, current)
                                   ELSE readyList)

-----------------------------------------------------------------------------
(* Mutant: a waiter is woken only when the value rises from 0.             *)
SemaUpFromZero(s) ==
  /\ value' = [value EXCEPT ![s] = @ + 1]
  /\ IF waiters[s] # <<>> /\ value[s] = 0
       THEN /\ waiters' = [waiters EXCEPT ![s] = Tail(@)]
            /\ ThreadUnblock(Head(waiters[s]))
       ELSE UNCHANGED <<waiters, readyList, status>>

(* sema_up(): wake the first waiter, then increment.                       *)
SemaUp(s) ==
  /\ value' = [value EXCEPT ![s] = @ + 1]
  /\ IF waiters[s] # <<>>
       THEN /\ waiters' = [waiters EXCEPT ![s] = Tail(@)]
            /\ ThreadUnblock(Head(waiters[s]))
       ELSE UNCHANGED <<waiters, readyList, status>>

(* One pass of the loop of sema_down(), entered with interrupts off: take  *)
(* the semaphore, or sleep and look again when woken.                      *)
SemaDown(s) ==
  \/ /\ value[s] > 0
     /\ value' = [value EXCEPT ![s] = @ - 1]
     /\ Goto(AfterDown(s))
     /\ UNCHANGED <<schedVars, waitsFor, waiters>>
  \/ /\ value[s] = 0
     /\ waiters' = [waiters EXCEPT ![s] = Append(@, current)]
     /\ waitsFor' = [waitsFor EXCEPT ![current] = s]
     /\ Goto("down")
     /\ ThreadBlock
     /\ UNCHANGED value

-----------------------------------------------------------------------------
(* palloc_get_page(): the first free page.                                 *)
FirstFree(t) == \A u \in Thread : status[u] = "NONE" => t <= u

(* thread_start() up to intr_enable(): interrupts are off, so creating the *)
(* idle thread is one step.                                                *)
ThreadStart ==
  /\ pc[current] = "boot"
  /\ \E t \in {u \in Thread : status[u] = "NONE"} :
       /\ FirstFree(t)
       /\ status' = [status EXCEPT ![t] = "READY"]
       /\ readyList' = Append(readyList, t)
       /\ allList' = allList \cup {t}
       /\ tid' = [tid EXCEPT ![t] = nextTid]
       /\ pc' = [pc EXCEPT ![t] = "idleInit", ![current] = "waitIdle"]
  /\ nextTid' = nextTid + 1
  /\ UNCHANGED <<current, idleThread, threadTicks, waitsFor, child, tmpTid,
                 value, waiters>>

(* The end of thread_start(), and any sema_down() of kernel code.          *)
Down ==
  /\ \/ pc[current] = "waitIdle" /\ SemaDown(IdleStarted)
     \/ pc[current] = "run" /\ \E s \in Sema : SemaDown(s)
     \/ pc[current] = "down" /\ SemaDown(waitsFor[current])
  /\ UNCHANGED <<allList, idleThread, tidVars>>

(* sema_try_down() that succeeds; a failure changes nothing.               *)
TryDown ==
  /\ pc[current] = "run"
  /\ \E s \in Sema : /\ value[s] > 0
                     /\ value' = [value EXCEPT ![s] = @ - 1]
  /\ UNCHANGED <<schedVars, allList, idleThread, pc, waitsFor, tidVars,
                 waiters>>

(* sema_up() by a thread.                                                  *)
Up ==
  /\ pc[current] = "run"
  /\ \E s \in Sema : value[s] < MaxValue /\ SemaUp(s)
  /\ UNCHANGED <<allList, current, idleThread, threadTicks, pc, waitsFor,
                 tidVars>>

Yield ==
  /\ pc[current] = "run"
  /\ ThreadYield
  /\ UNCHANGED <<allList, idleThread, pc, waitsFor, tidVars, value, waiters>>

(* thread_exit()                                                           *)
ThreadExit ==
  /\ pc[current] = "run"
  /\ allList' = allList \ {current}
  /\ Schedule([status EXCEPT ![current] = "DYING"], readyList)
  /\ Goto("none")
  /\ UNCHANGED <<idleThread, waitsFor, tidVars, value, waiters>>

-----------------------------------------------------------------------------
(* thread_create() up to the call of allocate_tid(): a page from palloc,   *)
(* init_thread(), and the sema_down() of lock_acquire(&tid_lock).  With no *)
(* page left it returns TID_ERROR and changes nothing.                     *)
CreateBegin ==
  /\ pc[current] = "run"
  /\ nextTid < MaxTid
  /\ \E t \in {u \in Thread : status[u] = "NONE"} :
       /\ FirstFree(t)
       /\ status' = [status EXCEPT ![t] = "BLOCKED"]
       /\ allList' = allList \cup {t}
       /\ child' = [child EXCEPT ![current] = t]
       /\ tid' = [tid EXCEPT ![t] = 0]
       /\ pc' = [pc EXCEPT ![t] = "new", ![current] = "lockTid"]
  /\ UNCHANGED <<readyList, current, idleThread, threadTicks, waitsFor,
                 tmpTid, nextTid, value, waiters>>

(* Mutant: allocate_tid() without tid_lock.                                *)
LockTidSkipped ==
  /\ pc[current] = "lockTid"
  /\ Goto("readTid")
  /\ UNCHANGED <<schedVars, allList, idleThread, waitsFor, tidVars, value,
                 waiters>>

(* lock_acquire(&tid_lock)                                                 *)
LockTid ==
  /\ pc[current] = "lockTid"
  /\ SemaDown(TidLock)
  /\ UNCHANGED <<allList, idleThread, tidVars>>

(* tid = next_tid++ is a load and a store.                                 *)
ReadTid ==
  /\ pc[current] = "readTid"
  /\ tmpTid' = [tmpTid EXCEPT ![current] = nextTid]
  /\ Goto("bumpTid")
  /\ UNCHANGED <<schedVars, allList, idleThread, waitsFor, child, tid,
                 nextTid, value, waiters>>

BumpTid ==
  /\ pc[current] = "bumpTid"
  /\ nextTid' = tmpTid[current] + 1
  /\ Goto("releaseTid")
  /\ UNCHANGED <<schedVars, allList, idleThread, waitsFor, child, tmpTid, tid,
                 value, waiters>>

ReleaseTid ==
  /\ pc[current] = "releaseTid"
  /\ SemaUp(TidLock)
  /\ Goto("unblockChild")
  /\ UNCHANGED <<allList, current, idleThread, threadTicks, waitsFor, tidVars>>

(* The rest of thread_create(): store the tid, make the child runnable.    *)
CreateEnd ==
  /\ pc[current] = "unblockChild"
  /\ tid' = [tid EXCEPT ![child[current]] = tmpTid[current]]
  /\ ThreadUnblock(child[current])
  /\ child' = [child EXCEPT ![current] = NoThread]
  /\ tmpTid' = [tmpTid EXCEPT ![current] = 0]
  /\ pc' = [pc EXCEPT ![child[current]] = "run", ![current] = "run"]
  /\ UNCHANGED <<allList, current, idleThread, threadTicks, waitsFor, nextTid,
                 value, waiters>>

-----------------------------------------------------------------------------
(* idle(): publish idle_thread, up idle_started, then block for ever more, *)
(* halting the CPU whenever it is scheduled.                               *)
IdleInit ==
  /\ pc[current] = "idleInit"
  /\ idleThread' = current
  /\ Goto("idleUp")
  /\ UNCHANGED <<schedVars, allList, waitsFor, tidVars, value, waiters>>

(* Mutant: idle() blocks without having upped idle_started.                *)
IdleUpForgotten ==
  /\ pc[current] = "idleUp"
  /\ Goto("idleLoop")
  /\ UNCHANGED <<schedVars, allList, idleThread, waitsFor, tidVars, value,
                 waiters>>

IdleUp ==
  /\ pc[current] = "idleUp"
  /\ SemaUp(IdleStarted)
  /\ Goto("idleLoop")
  /\ UNCHANGED <<allList, current, idleThread, threadTicks, waitsFor, tidVars>>

IdleBlock ==
  /\ pc[current] = "idleLoop"
  /\ ThreadBlock
  /\ Goto("idleHalt")
  /\ UNCHANGED <<allList, idleThread, waitsFor, tidVars, value, waiters>>

-----------------------------------------------------------------------------
(* The instruction after hlt is reached when an interrupt returns.         *)
ReturnFromHalt == Goto(IF pc[current] = "idleHalt" THEN "idleLoop"
                                                   ELSE pc[current])

(* timer_interrupt(): thread_tick(), and the thread_yield() that           *)
(* intr_handler() calls when the time slice is used up.                    *)
TimerInterrupt ==
  /\ IntrOn
  /\ IF threadTicks + 1 >= TimeSlice
       THEN ThreadYield
       ELSE /\ threadTicks' = threadTicks + 1
            /\ UNCHANGED <<status, readyList, current>>
  /\ ReturnFromHalt
  /\ UNCHANGED <<allList, idleThread, waitsFor, tidVars, value, waiters>>

(* A device's interrupt handler ups a semaphore (disk, serial, keyboard).  *)
DeviceInterrupt ==
  /\ IntrOn
  /\ \E s \in IntrSema : value[s] < MaxValue /\ SemaUp(s)
  /\ ReturnFromHalt
  /\ UNCHANGED <<allList, current, idleThread, threadTicks, waitsFor, tidVars>>

-----------------------------------------------------------------------------
ThreadStep ==
  \/ ThreadStart \/ Down \/ TryDown \/ Up \/ Yield \/ ThreadExit
  \/ CreateBegin \/ LockTid \/ ReadTid \/ BumpTid \/ ReleaseTid \/ CreateEnd
  \/ IdleInit \/ IdleUp \/ IdleBlock

Next == ThreadStep \/ TimerInterrupt \/ DeviceInterrupt

Spec == Init /\ [][Next]_vars

(***************************************************************************)
(* The CPU executes instructions, and a pending timer interrupt is taken   *)
(* once interrupts are on: they are off only for single steps.             *)
(***************************************************************************)
Fairness == WF_vars(ThreadStep) /\ WF_vars(TimerInterrupt)
FairSpec == Spec /\ Fairness

-----------------------------------------------------------------------------
Elems(list) == {list[i] : i \in 1..Len(list)}

NoDuplicates(list) ==
  \A i, j \in 1..Len(list) : list[i] = list[j] => i = j

(* Type correctness of the kernel's scheduling state.                      *)
TypeOK ==
  /\ status \in [Thread -> Statuses]
  /\ readyList \in Seq(Thread)
  /\ allList \subseteq Thread
  /\ current \in Thread
  /\ idleThread \in Thread \cup {NoThread}
  /\ threadTicks \in 0..(TimeSlice - 1)
  /\ pc \in [Thread -> Labels]
  /\ waitsFor \in [Thread -> AllSema]
  /\ child \in [Thread -> Thread \cup {NoThread}]
  /\ tmpTid \in [Thread -> Nat]
  /\ tid \in [Thread -> Nat]
  /\ nextTid \in Nat
  /\ value \in [AllSema -> Nat]
  /\ waiters \in [AllSema -> Seq(Thread)]

(* The assertions of thread_current(), schedule() and thread_switch_tail():*)
(* the CPU runs a thread whose page is in use, and only that thread is     *)
(* RUNNING.                                                                *)
OneRunning ==
  \A t \in Thread : status[t] = "RUNNING" <=> t = current

(* The comment on `elem' in thread.h: a list element can serve the ready   *)
(* list and the wait lists because only a READY thread is on the former    *)
(* and only a BLOCKED thread on one of the latter.  Hence no list operation*)
(* ever inserts an element that is already linked.                         *)
ReadyListExact ==
  /\ NoDuplicates(readyList)
  /\ \A t \in Thread :
       t \in Elems(readyList) <=> status[t] = "READY" /\ t # idleThread

(* The other half of that comment: each semaphore's wait list holds the    *)
(* BLOCKED threads that sleep in its sema_down(), each once.               *)
WaitListsExact ==
  \A s \in AllSema :
    /\ NoDuplicates(waiters[s])
    /\ \A t \in Thread :
         t \in Elems(waiters[s]) <=>
           status[t] = "BLOCKED" /\ pc[t] = "down" /\ waitsFor[t] = s

(* Both together are that comment's argument for the dual use of `elem'.   *)
ListsExact == ReadyListExact /\ WaitListsExact

(* Threads woken by sema_up() that have not yet looked at the value again. *)
Woken(s) == {t \in Thread : /\ pc[t] = "down"
                            /\ waitsFor[t] = s
                            /\ status[t] # "BLOCKED"}

(* No wakeup is lost: while threads sleep on a semaphore, every unit of    *)
(* its value is matched by a thread that sema_up() woke and that will look *)
(* at the value again, barging sema_down()s notwithstanding.               *)
NoLostWakeup ==
  \A s \in AllSema :
    waiters[s] # <<>> => Cardinality(Woken(s)) >= value[s]

(* allocate_tid() gives no two threads alive together the same tid.        *)
InUse(t) == status[t] \notin {"NONE", "DYING"}
UniqueTids ==
  \A t, u \in Thread :
    InUse(t) /\ InUse(u) /\ t # u /\ tid[t] # 0 => tid[t] # tid[u]

-----------------------------------------------------------------------------
(***************************************************************************)
(* What makes the invariants above inductive: how a thread's place in the  *)
(* code relates to its status, what the boot sequence guarantees before    *)
(* idle_thread is set, and who owns a thread under construction.           *)
(***************************************************************************)
PcMatchesStatus ==
  \A t \in Thread :
    /\ status[t] \in {"NONE", "DYING"} <=> pc[t] = "none"
    /\ pc[t] = "new" => status[t] = "BLOCKED"
    /\ status[t] = "BLOCKED" => pc[t] \in {"new", "down", "idleHalt"}
    /\ pc[t] \in {"idleUp", "idleLoop", "idleHalt"} <=> t = idleThread

BootSequence ==
  /\ \A t \in Thread :
       /\ pc[t] = "boot" => /\ t = Main /\ t = current
                            /\ readyList = <<>> /\ idleThread = NoThread
                            /\ \A u \in Thread \ {Main} : pc[u] = "none"
       /\ pc[t] = "waitIdle" => t = Main
       /\ pc[t] = "idleInit" => /\ idleThread = NoThread
                                /\ status[t] # "BLOCKED"
                                /\ \A u \in Thread \ {Main, t} : pc[u] = "none"
  /\ idleThread = NoThread =>
       /\ value[IdleStarted] = 0
       /\ pc[Main] \in {"boot", "waitIdle", "down"}
       /\ pc[Main] = "down" =>
            waitsFor[Main] = IdleStarted /\ status[Main] = "BLOCKED"
       /\ pc[Main] # "boot" => \E t \in Thread \ {Main} : pc[t] = "idleInit"

Creating(t) ==
  \/ pc[t] \in {"lockTid", "readTid", "bumpTid", "releaseTid", "unblockChild"}
  \/ pc[t] = "down" /\ waitsFor[t] = TidLock

ChildOwned ==
  /\ \A t \in Thread : Creating(t) => /\ child[t] \in Thread
                                      /\ pc[child[t]] = "new"
  /\ \A t, u \in Thread :
       Creating(t) /\ Creating(u) /\ child[t] = child[u] => t = u

SchedulerInv ==
  /\ TypeOK
  /\ OneRunning
  /\ ReadyListExact
  /\ WaitListsExact
  /\ PcMatchesStatus
  /\ BootSequence
  /\ ChildOwned

(* What makes UniqueTids inductive: tid_lock is held by one thread, so     *)
(* that next_tid stays as the holder has read it, and the tids that        *)
(* allocate_tid() has given out but thread_create() has not stored yet are *)
(* distinct from each other and from those in use.                         *)
HoldsTidLock(t) == pc[t] \in {"readTid", "bumpTid", "releaseTid"}
HasNewTid(t) == pc[t] \in {"releaseTid", "unblockChild"}

TidLockExclusive ==
  /\ value[TidLock] <= 1
  /\ \A t \in Thread : HoldsTidLock(t) =>
       /\ value[TidLock] = 0
       /\ \A u \in Thread : HoldsTidLock(u) => u = t

NewTidsFresh ==
  /\ \A t \in Thread :
       /\ tid[t] < nextTid
       /\ pc[t] = "bumpTid" => tmpTid[t] = nextTid
       /\ HasNewTid(t) =>
            /\ 0 < tmpTid[t] /\ tmpTid[t] < nextTid
            /\ \A u \in Thread : InUse(u) => tid[u] # tmpTid[t]
            /\ \A u \in Thread : HasNewTid(u) /\ u # t => tmpTid[u] # tmpTid[t]

TidInv == TidLockExclusive /\ NewTidsFresh /\ UniqueTids

-----------------------------------------------------------------------------
(* Round robin: a thread on the ready list gets the CPU.                   *)
ReadyRuns ==
  \A t \in Thread :
    (status[t] = "READY" /\ t # idleThread) ~> (current = t)

(* thread_start() returns: the handshake with the idle thread completes    *)
(* however the timer interleaves with it.                                  *)
BootCompletes == <>(idleThread # NoThread /\ pc[Main] = "run")
=============================================================================
