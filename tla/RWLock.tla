------------------------------- MODULE RWLock -------------------------------
(***************************************************************************)
(* Pintos locks, condition variables and the readers-writers lock built    *)
(* from them: proj-pregame/src/threads/synch.c.                            *)
(*                                                                         *)
(* Semaphores appear as their values: sema_down() is a step that waits for *)
(* a positive value and sema_up() an increment, which is what module       *)
(* Threads establishes for them (sleeping and waking are invisible here).  *)
(* Code that runs between two lock operations, with the guard lock held,   *)
(* is one step; GuardHeld is the invariant that justifies it.              *)
(***************************************************************************)
EXTENDS Integers, Sequences, FiniteSets

CONSTANTS
  Thread,
  NoThread,      \* the NULL holder of a free lock
  MaxRequests    \* bound: rw_lock_acquire() calls of each thread

ASSUME RWThreads == IsFiniteSet(Thread) /\ NoThread \notin Thread
ASSUME RWBound == MaxRequests \in Nat

VARIABLES
  value,      \* rw_lock->lock.semaphore.value
  holder,     \* rw_lock->lock.holder
  queue,      \* the waiters of the conditions rw_lock->read and ->write
  signalled,  \* the value of each thread's waiter.semaphore in cond_wait()
  AR, WR, AW, WW,
  pc,
  role,       \* the argument `reader' of the call in progress
  left        \* calls each thread may still make

(* The two roles; each has the condition variable of that name.            *)
Roles == {"read", "write"}

counters == <<AR, WR, AW, WW>>
vars == <<value, holder, queue, signalled, AR, WR, AW, WW, pc, role, left>>

(* Labels of rw_lock_acquire(): lock_acquire() at acqDown/acqHold, the     *)
(* while test at acqTest, cond_wait() at waitClear..waitHold, the return   *)
(* from cond_wait() at woken, and lock_release() at inClear/inUp.  Then    *)
(* the caller is inside, and the rel* labels are rw_lock_release().        *)
WaitLabels == {"waitClear", "waitUp", "waitDown", "waitLock", "waitHold", "woken"}
InsideLabels == {"inClear", "inUp", "inside", "relDown", "relHold", "relBody"}
Labels == {"out", "acqDown", "acqHold", "acqTest", "outClear", "outUp"}
            \cup WaitLabels \cup InsideLabels

(* rw_lock_init()                                                          *)
Init ==
  /\ value = 1
  /\ holder = NoThread
  /\ queue = [r \in Roles |-> <<>>]
  /\ signalled = [t \in Thread |-> 0]
  /\ AR = 0 /\ WR = 0 /\ AW = 0 /\ WW = 0
  /\ pc = [t \in Thread |-> "out"]
  /\ role = [t \in Thread |-> "read"]
  /\ left = [t \in Thread |-> MaxRequests]

Goto(t, from, to) == pc[t] = from /\ pc' = [pc EXCEPT ![t] = to]

-----------------------------------------------------------------------------
(* lock_acquire(): sema_down(), and then the holder is set.                *)
LockDown(t, from, to) ==
  /\ Goto(t, from, to)
  /\ value > 0
  /\ value' = value - 1
  /\ UNCHANGED <<holder, queue, signalled, counters, role, left>>

LockSetHolder(t, from, to) ==
  /\ Goto(t, from, to)
  /\ holder' = t
  /\ UNCHANGED <<value, queue, signalled, counters, role, left>>

(* Mutant: lock_release() leaves the holder set.                           *)
LockKeepsHolder(t, from, to) ==
  /\ Goto(t, from, to)
  /\ UNCHANGED <<value, holder, queue, signalled, counters, role, left>>

(* lock_release(): the holder is cleared, and then sema_up().              *)
LockClearHolder(t, from, to) ==
  /\ Goto(t, from, to)
  /\ holder' = NoThread
  /\ UNCHANGED <<value, queue, signalled, counters, role, left>>

LockUp(t, from, to) ==
  /\ Goto(t, from, to)
  /\ value' = value + 1
  /\ UNCHANGED <<holder, queue, signalled, counters, role, left>>

(* cond_wait() up to lock_release(): a fresh semaphore joins the waiters.  *)
CondEnqueue(t, r) ==
  /\ signalled' = [signalled EXCEPT ![t] = 0]
  /\ queue' = [queue EXCEPT ![r] = Append(@, t)]

(* sema_down(&waiter.semaphore) in cond_wait()                             *)
CondDown(t) ==
  /\ Goto(t, "waitDown", "waitLock")
  /\ signalled[t] > 0
  /\ signalled' = [signalled EXCEPT ![t] = @ - 1]
  /\ UNCHANGED <<value, holder, queue, counters, role, left>>

(* cond_signal(): up the first waiter's semaphore, if there is one.        *)
CondSignal(r) ==
  IF queue[r] # <<>>
    THEN /\ signalled' = [signalled EXCEPT ![Head(queue[r])] = @ + 1]
         /\ queue' = [queue EXCEPT ![r] = Tail(@)]
    ELSE UNCHANGED <<signalled, queue>>

(* Mutant: cond_broadcast() wakes one waiter only.                         *)
CondBroadcastOne(r) == CondSignal(r)

(* cond_broadcast(): cond_signal() until nobody waits.                     *)
CondBroadcast(r) ==
  /\ signalled' = [t \in Thread |->
       IF \E i \in 1..Len(queue[r]) : queue[r][i] = t
         THEN signalled[t] + 1 ELSE signalled[t]]
  /\ queue' = [queue EXCEPT ![r] = <<>>]

-----------------------------------------------------------------------------
(* A thread calls rw_lock_acquire().                                       *)
Request(t) ==
  /\ Goto(t, "out", "acqDown")
  /\ left[t] > 0
  /\ left' = [left EXCEPT ![t] = @ - 1]
  /\ \E r \in Roles : role' = [role EXCEPT ![t] = r]
  /\ UNCHANGED <<value, holder, queue, signalled, counters>>

(* Mutant: a writer does not wait for active readers.                      *)
MustWaitNoAR(t) == IF role[t] = "read" THEN AW + WW > 0 ELSE AW > 0

(* Mutant: a reader does not wait for waiting writers.                     *)
MustWaitNoWW(t) == IF role[t] = "read" THEN AW > 0 ELSE AR + AW > 0

(* The condition of rw_lock_acquire()'s while loops.                       *)
MustWait(t) == IF role[t] = "read" THEN AW + WW > 0 ELSE AR + AW > 0

EnterWait(t) ==
  /\ Goto(t, "acqTest", "waitClear")
  /\ MustWait(t)
  /\ IF role[t] = "read" THEN WR' = WR + 1 /\ UNCHANGED WW
     ELSE WW' = WW + 1 /\ UNCHANGED WR
  /\ CondEnqueue(t, role[t])
  /\ UNCHANGED <<value, holder, AR, AW, role, left>>

Enter(t) ==
  /\ Goto(t, "acqTest", "inClear")
  /\ ~MustWait(t)
  /\ IF role[t] = "read" THEN AR' = AR + 1 /\ UNCHANGED AW
     ELSE AW' = AW + 1 /\ UNCHANGED AR
  /\ UNCHANGED <<value, holder, queue, signalled, WR, WW, role, left>>

(* Mutant: the waiting count is not taken back.                            *)
RewokenKeepsCount(t) ==
  /\ Goto(t, "woken", "acqTest")
  /\ UNCHANGED <<value, holder, queue, signalled, counters, role, left>>

(* Back from cond_wait(), to the test of the while loop.                   *)
Rewoken(t) ==
  /\ Goto(t, "woken", "acqTest")
  /\ IF role[t] = "read" THEN WR' = WR - 1 /\ UNCHANGED WW
     ELSE WW' = WW - 1 /\ UNCHANGED WR
  /\ UNCHANGED <<value, holder, queue, signalled, AR, AW, role, left>>

(* A thread calls rw_lock_release().                                       *)
Leave(t) ==
  /\ Goto(t, "inside", "relDown")
  /\ UNCHANGED <<value, holder, queue, signalled, counters, role, left>>

(* rw_lock_release() with the guard lock held.                             *)
ReleaseReader(t) ==
  /\ Goto(t, "relBody", "outClear")
  /\ role[t] = "read"
  /\ AR' = AR - 1
  /\ IF AR - 1 = 0 /\ WW > 0 THEN CondSignal("write")
                             ELSE UNCHANGED <<queue, signalled>>
  /\ UNCHANGED <<value, holder, WR, AW, WW, role, left>>

ReleaseWriter(t) ==
  /\ Goto(t, "relBody", "outClear")
  /\ role[t] = "write"
  /\ AW' = AW - 1
  /\ IF WW > 0 THEN CondSignal("write")
     ELSE IF WR > 0 THEN CondBroadcast("read")
     ELSE UNCHANGED <<queue, signalled>>
  /\ UNCHANGED <<value, holder, AR, WR, WW, role, left>>

-----------------------------------------------------------------------------
LockStep(t) ==
  \/ LockDown(t, "acqDown", "acqHold")
  \/ LockSetHolder(t, "acqHold", "acqTest")
  \/ LockClearHolder(t, "waitClear", "waitUp")
  \/ LockUp(t, "waitUp", "waitDown")
  \/ LockDown(t, "waitLock", "waitHold")
  \/ LockSetHolder(t, "waitHold", "woken")
  \/ LockClearHolder(t, "inClear", "inUp")
  \/ LockUp(t, "inUp", "inside")
  \/ LockDown(t, "relDown", "relHold")
  \/ LockSetHolder(t, "relHold", "relBody")
  \/ LockClearHolder(t, "outClear", "outUp")
  \/ LockUp(t, "outUp", "out")

Step(t) ==
  \/ LockStep(t) \/ CondDown(t)
  \/ EnterWait(t) \/ Enter(t) \/ Rewoken(t)
  \/ Leave(t) \/ ReleaseReader(t) \/ ReleaseWriter(t)

Finished == \A t \in Thread : pc[t] = "out" /\ left[t] = 0

(* Lets a run in which every thread is done go on stuttering, so that TLC  *)
(* reports any other state without successor as a deadlock.                *)
Terminating == Finished /\ UNCHANGED vars

Next == (\E t \in Thread : Request(t) \/ Step(t)) \/ Terminating

Spec == Init /\ [][Next]_vars

(* The kernel keeps scheduling every ready thread (ReadyRuns of Threads),  *)
(* and a caller that is inside leaves.                                     *)
FairSpec == Spec /\ \A t \in Thread : WF_vars(Request(t) \/ Step(t))

-----------------------------------------------------------------------------
(* Type correctness of the lock, its conditions and its counters.          *)
TypeOK ==
  /\ value \in 0..1
  /\ holder \in Thread \cup {NoThread}
  /\ queue \in [Roles -> Seq(Thread)]
  /\ signalled \in [Thread -> Nat]
  /\ AR \in Nat /\ WR \in Nat /\ AW \in Nat /\ WW \in Nat
  /\ pc \in [Thread -> Labels]
  /\ role \in [Thread -> Roles]
  /\ left \in [Thread -> Nat]

(* Labels at which a thread has downed the guard's semaphore and not yet   *)
(* upped it, and those at which it relies on being the holder.             *)
HolderLabels == {"acqTest", "waitClear", "woken", "inClear", "relBody", "outClear"}
GuardLabels == HolderLabels \cup
  {"acqHold", "waitUp", "waitHold", "inUp", "relHold", "outUp"}

(* Mutual exclusion of struct lock, although the holder is set after       *)
(* sema_down() and cleared before sema_up(): at most one thread is in a    *)
(* section guarded by the lock.                                            *)
GuardExclusion ==
  \A t, u \in Thread : pc[t] \in GuardLabels /\ pc[u] \in GuardLabels => t = u

(* The assertions lock_held_by_current_thread() of lock_release(),         *)
(* cond_wait() and cond_signal() hold when they are evaluated, and that of *)
(* lock_acquire() never finds the caller to be the holder.                 *)
GuardHeld ==
  \A t \in Thread :
    /\ pc[t] \in HolderLabels => holder = t
    /\ pc[t] \in {"acqDown", "waitLock", "relDown"} => holder # t

(* Sections guarded by the lock exclude each other, and every assertion    *)
(* about its holder holds.                                                 *)
Guarded == GuardExclusion /\ GuardHeld

Active(r) == {t \in Thread : pc[t] \in InsideLabels /\ role[t] = r}
Waiting(r) == {t \in Thread : pc[t] \in WaitLabels /\ role[t] = r}

(* A writer inside excludes everybody else.                                *)
RWExclusion ==
  \A t, u \in Thread :
    t \in Active("write") /\ u \in Active("read") \cup Active("write") => t = u

(* The counters count the threads they are named for, so no wakeup is      *)
(* decided on a stale number.                                              *)
CountersExact ==
  /\ AR = Cardinality(Active("read")) /\ AW = Cardinality(Active("write"))
  /\ WR = Cardinality(Waiting("read")) /\ WW = Cardinality(Waiting("write"))

(* "Writer-centric": while a writer waits, no reader gets inside.          *)
WriterFirst ==
  [][Waiting("write") # {} => Active("read")' \subseteq Active("read")]_vars

(* Every call returns, whatever the mixture of readers and writers.        *)
AllServed == <>Finished

-----------------------------------------------------------------------------
(* What makes GuardExclusion, GuardHeld and CountersExact inductive: the   *)
(* semaphore is 0 while a thread is in a guarded section, and the holder   *)
(* is the thread that relies on being it.                                  *)
GuardTaken == \A t \in Thread : pc[t] \in GuardLabels => value = 0
HolderExact == \A t \in Thread : pc[t] \in HolderLabels <=> holder = t

RWInv ==
  /\ TypeOK
  /\ GuardTaken
  /\ GuardExclusion
  /\ HolderExact
  /\ CountersExact
  /\ RWExclusion

-----------------------------------------------------------------------------
RW == INSTANCE ReadersWriters
        WITH readers <- Active("read"), writers <- Active("write")

(* The lock implements ReadersWriters.                                     *)
ImplementsRW == RW!Spec
=============================================================================
