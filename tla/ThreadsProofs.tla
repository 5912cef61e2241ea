--------------------------- MODULE ThreadsProofs ---------------------------
(***************************************************************************)
(* Proofs about Threads for every number of threads and semaphores.        *)
(***************************************************************************)
EXTENDS Threads, FiniteSetTheorems, TLAPS

-----------------------------------------------------------------------------
(* The list operations thread.c and synch.c use, seen as set operations.   *)

(* list_push_back() adds its element and nothing else.                     *)
LEMMA AppendElems ==
  ASSUME NEW list \in Seq(Thread), NEW t \in Thread
  PROVE  /\ Append(list, t) \in Seq(Thread)
         /\ Append(list, t) # <<>>
         /\ Elems(Append(list, t)) = Elems(list) \cup {t}
         /\ NoDuplicates(list) /\ t \notin Elems(list)
              => NoDuplicates(Append(list, t))
BY SMTT(30) DEF Elems, NoDuplicates

(* list_pop_front() removes exactly the first element.                     *)
LEMMA TailElems ==
  ASSUME NEW list \in Seq(Thread), list # <<>>
  PROVE  /\ Tail(list) \in Seq(Thread)
         /\ Head(list) \in Thread
         /\ Head(list) \in Elems(list)
         /\ NoDuplicates(list) => /\ Elems(Tail(list)) = Elems(list) \ {Head(list)}
                                  /\ NoDuplicates(Tail(list))
<1>1. Head(list) = list[1] /\ Len(list) \in Nat /\ Len(list) > 0
  OBVIOUS
<1>2. /\ Tail(list) \in Seq(Thread)
      /\ Head(list) \in Thread
      /\ Len(Tail(list)) = Len(list) - 1
      /\ \A i \in 1..Len(Tail(list)) : Tail(list)[i] = list[i + 1]
  OBVIOUS
<1>3. Head(list) \in Elems(list)
  BY <1>1 DEF Elems
<1>4. ASSUME NoDuplicates(list)
      PROVE  NoDuplicates(Tail(list))
  BY <1>1, <1>2, <1>4 DEF NoDuplicates
<1>5. ASSUME NoDuplicates(list)
      PROVE  Elems(Tail(list)) = Elems(list) \ {Head(list)}
  <2>1. ASSUME NEW x \in Elems(Tail(list))
        PROVE  x \in Elems(list) \ {Head(list)}
    <3>1. PICK i \in 1..Len(Tail(list)) : x = Tail(list)[i]
      BY DEF Elems
    <3>2. x = list[i + 1] /\ i + 1 \in 1..Len(list) /\ i + 1 # 1
      BY <3>1, <1>1, <1>2
    <3>3. x # list[1]
      BY <3>2, <1>1, <1>5 DEF NoDuplicates
    <3> QED BY <3>2, <3>3, <1>1 DEF Elems
  <2>2. ASSUME NEW x \in Elems(list) \ {Head(list)}
        PROVE  x \in Elems(Tail(list))
    <3>1. PICK i \in 1..Len(list) : x = list[i]
      BY DEF Elems
    <3>2. i # 1
      BY <3>1, <1>1
    <3>3. i - 1 \in 1..Len(Tail(list)) /\ Tail(list)[i - 1] = x
      BY <3>1, <3>2, <1>1, <1>2
    <3> QED BY <3>3 DEF Elems
  <2> QED BY <2>1, <2>2
<1> QED BY <1>1, <1>2, <1>3, <1>4, <1>5

(* The empty list has no elements.                                         *)
LEMMA EmptyElems ==
  ASSUME NEW list \in Seq(Thread)
  PROVE  list = <<>> <=> Elems(list) = {}
<1>1. list = <<>> => Elems(list) = {}
  BY DEF Elems
<1>2. list # <<>> => Elems(list) # {}
  BY TailElems
<1> QED BY <1>1, <1>2

-----------------------------------------------------------------------------
(* What a caller of schedule() must provide: nobody is marked RUNNING, the *)
(* ready list is exact, and there is someone to run.                       *)
ScheduleReady(st, ready) ==
  /\ st \in [Thread -> Statuses]
  /\ ready \in Seq(Thread)
  /\ NoDuplicates(ready)
  /\ \A t \in Thread : t \in Elems(ready) <=> st[t] = "READY" /\ t # idleThread
  /\ \A t \in Thread : st[t] # "RUNNING"
  /\ ready # <<>> \/ idleThread \in Thread
  /\ idleThread \in Thread => st[idleThread] \notin {"NONE", "DYING"}

(* What schedule() then establishes.                                       *)
LEMMA ScheduleLemma ==
  ASSUME NEW st, NEW ready, ScheduleReady(st, ready), Schedule(st, ready),
         current \in Thread, TimeSlice \in Nat \ {0}
  PROVE  /\ current' \in Thread
         /\ st[current'] = "READY" \/ current' = idleThread
         /\ threadTicks' \in 0..(TimeSlice - 1)
         /\ status' \in [Thread -> Statuses]
         /\ readyList' \in Seq(Thread)
         /\ NoDuplicates(readyList')
         /\ \A t \in Thread : status'[t] = "RUNNING" <=> t = current'
         /\ \A t \in Thread :
              t \in Elems(readyList') <=> status'[t] = "READY" /\ t # idleThread
         /\ \A t \in Thread :
              status'[t] = "BLOCKED" <=> st[t] = "BLOCKED" /\ t # current'
         /\ \A t \in Thread :
              status'[t] \in {"NONE", "DYING"} <=> st[t] \in {"NONE", "DYING"}
<1> DEFINE next == NextThreadToRun(ready)
<1>1. next \in Thread /\ (st[next] = "READY" \/ next = idleThread)
  BY TailElems DEF ScheduleReady, NextThreadToRun
<1>2. /\ current' = next
      /\ threadTicks' = 0
      /\ status' = SwitchTail(st, next)
      /\ readyList' = IF ready # <<>> THEN Tail(ready) ELSE ready
  BY DEF Schedule
<1>3. status' = [t \in Thread |->
                   IF t = next THEN "RUNNING"
                   ELSE IF t = current /\ st[t] = "DYING" /\ t # Main
                          THEN "NONE" ELSE st[t]]
  BY <1>2 DEF SwitchTail
<1> HIDE DEF next
<1>4. status' \in [Thread -> Statuses]
  BY <1>3 DEF ScheduleReady, Statuses
<1>5. \A t \in Thread :
        /\ status'[t] = "RUNNING" <=> t = next
        /\ status'[t] = "BLOCKED" <=> st[t] = "BLOCKED" /\ t # next
        /\ status'[t] = "READY" <=> st[t] = "READY" /\ t # next
        /\ status'[t] \in {"NONE", "DYING"} <=> st[t] \in {"NONE", "DYING"}
  BY <1>1, <1>3 DEF ScheduleReady
<1>6. /\ readyList' \in Seq(Thread)
      /\ NoDuplicates(readyList')
      /\ \A t \in Thread : t \in Elems(readyList') <=> t \in Elems(ready) /\ t # next
  <2>1. CASE ready # <<>>
    <3>1. next = Head(ready) /\ readyList' = Tail(ready)
      BY <2>1, <1>2 DEF next, NextThreadToRun
    <3> QED BY <2>1, <3>1, TailElems DEF ScheduleReady
  <2>2. CASE ready = <<>>
    <3>1. next = idleThread /\ readyList' = ready
      BY <2>2, <1>2 DEF next, NextThreadToRun
    <3> QED BY <2>2, <3>1, <1>1, EmptyElems DEF ScheduleReady
  <2> QED BY <2>1, <2>2
<1>7. \A t \in Thread :
        t \in Elems(readyList') <=> status'[t] = "READY" /\ t # idleThread
  BY <1>5, <1>6 DEF ScheduleReady
<1> QED BY <1>1, <1>2, <1>4, <1>5, <1>6, <1>7

-----------------------------------------------------------------------------
(* thread_unblock() of a blocked thread keeps the ready list exact.        *)
LEMMA UnblockLemma ==
  ASSUME TypeOK, OneRunning, ReadyListExact,
         NEW t \in Thread, status[t] = "BLOCKED", t # idleThread,
         ThreadUnblock(t), UNCHANGED <<current, idleThread>>
  PROVE  /\ readyList' \in Seq(Thread)
         /\ status' \in [Thread -> Statuses]
         /\ status' = [status EXCEPT ![t] = "READY"]
         /\ OneRunning'
         /\ ReadyListExact'
<1>1. /\ status' = [status EXCEPT ![t] = "READY"]
      /\ status' \in [Thread -> Statuses]
      /\ readyList' = Append(readyList, t)
      /\ readyList \in Seq(Thread)
  BY DEF ThreadUnblock, TypeOK, Statuses
<1>2. t \notin Elems(readyList) /\ NoDuplicates(readyList)
  BY DEF ReadyListExact
<1>3. /\ readyList' \in Seq(Thread)
      /\ NoDuplicates(readyList')
      /\ Elems(readyList') = Elems(readyList) \cup {t}
  BY <1>1, <1>2, AppendElems
<1>4. OneRunning'
  BY <1>1 DEF OneRunning, TypeOK
<1>5. ReadyListExact'
  BY <1>1, <1>3 DEF ReadyListExact, TypeOK
<1> QED BY <1>1, <1>3, <1>4, <1>5

(* sema_up() wakes at most the first waiter and keeps every list exact.    *)
LEMMA SemaUpLemma ==
  ASSUME SchedulerInv, NEW s \in AllSema, SemaUp(s),
         UNCHANGED <<current, idleThread>>
  PROVE  /\ readyList' \in Seq(Thread)
         /\ status' \in [Thread -> Statuses]
         /\ value' \in [AllSema -> Nat]
         /\ waiters' \in [AllSema -> Seq(Thread)]
         /\ OneRunning'
         /\ ReadyListExact'
         /\ \A t \in Thread : status'[t] # status[t] =>
              /\ status[t] = "BLOCKED" /\ status'[t] = "READY"
              /\ pc[t] = "down" /\ waitsFor[t] = s
         /\ \A r \in AllSema :
              /\ NoDuplicates(waiters'[r])
              /\ \A t \in Thread :
                   t \in Elems(waiters'[r]) <=>
                     status'[t] = "BLOCKED" /\ pc[t] = "down" /\ waitsFor[t] = r
         /\ \A r \in AllSema : r # s => value'[r] = value[r]
<1> USE DEF SchedulerInv
<1>1. /\ value' \in [AllSema -> Nat]
      /\ \A r \in AllSema : r # s => value'[r] = value[r]
  BY DEF SemaUp, TypeOK
<1>2. CASE waiters[s] = <<>>
  <2>1. UNCHANGED <<waiters, readyList, status>>
    BY <1>2 DEF SemaUp
  <2> QED BY <1>1, <2>1 DEF TypeOK, OneRunning, ReadyListExact, WaitListsExact
<1>3. CASE waiters[s] # <<>>
  <2> DEFINE h == Head(waiters[s])
  <2>1. /\ waiters' = [waiters EXCEPT ![s] = Tail(@)]
        /\ ThreadUnblock(h)
    BY <1>3 DEF SemaUp
  <2>2. waiters[s] \in Seq(Thread) /\ NoDuplicates(waiters[s])
    BY DEF TypeOK, WaitListsExact
  <2>3. /\ h \in Thread /\ h \in Elems(waiters[s])
        /\ Tail(waiters[s]) \in Seq(Thread)
        /\ Elems(Tail(waiters[s])) = Elems(waiters[s]) \ {h}
        /\ NoDuplicates(Tail(waiters[s]))
    BY <1>3, <2>2, TailElems
  <2> HIDE DEF h
  <2>4. status[h] = "BLOCKED" /\ pc[h] = "down" /\ waitsFor[h] = s
    BY <2>3 DEF WaitListsExact
  <2>5. h # idleThread
    BY <2>3, <2>4 DEF PcMatchesStatus
  <2>6. /\ readyList' \in Seq(Thread)
        /\ status' \in [Thread -> Statuses]
        /\ status' = [status EXCEPT ![h] = "READY"]
        /\ OneRunning'
        /\ ReadyListExact'
    BY <2>1, <2>3, <2>4, <2>5, UnblockLemma
  <2>7. waiters' \in [AllSema -> Seq(Thread)]
    BY <2>1, <2>3 DEF TypeOK
  <2>8. ASSUME NEW r \in AllSema
        PROVE  /\ NoDuplicates(waiters'[r])
               /\ \A t \in Thread :
                    t \in Elems(waiters'[r]) <=>
                      status'[t] = "BLOCKED" /\ pc[t] = "down" /\ waitsFor[t] = r
    <3>1. CASE r = s
      <4>1. waiters'[r] = Tail(waiters[s])
        BY <3>1, <2>1 DEF TypeOK
      <4>2. /\ NoDuplicates(waiters'[r])
            /\ Elems(waiters'[r]) = Elems(waiters[s]) \ {h}
        BY <4>1, <2>3
      <4>3. \A t \in Thread :
              t \in Elems(waiters[s]) <=>
                status[t] = "BLOCKED" /\ pc[t] = "down" /\ waitsFor[t] = s
        BY DEF WaitListsExact
      <4> QED BY <3>1, <4>2, <4>3, <2>3, <2>6 DEF TypeOK
    <3>2. CASE r # s
      <4>1. waiters'[r] = waiters[r]
        BY <3>2, <2>1 DEF TypeOK
      <4> QED BY <3>2, <4>1, <2>4, <2>6, SMTT(30) DEF WaitListsExact, TypeOK
    <3> QED BY <3>1, <3>2
  <2>9. \A t \in Thread : status'[t] # status[t] =>
              /\ status[t] = "BLOCKED" /\ status'[t] = "READY"
              /\ pc[t] = "down" /\ waitsFor[t] = s
    BY <2>4, <2>6 DEF TypeOK
  <2> QED BY <1>1, <2>6, <2>7, <2>8, <2>9
<1> QED BY <1>2, <1>3

(* Before idle_thread is set, a thread that gives up the CPU finds the     *)
(* idle thread on the ready list.                                          *)
LEMMA SomeoneToRun ==
  ASSUME SchedulerInv, pc[current] \notin {"boot", "idleInit"}
  PROVE  readyList # <<>> \/ idleThread \in Thread
<1> SUFFICES ASSUME idleThread = NoThread
             PROVE  readyList # <<>>
  BY DEF SchedulerInv, TypeOK
<1> USE DEF SchedulerInv
<1>1. Main \in Thread /\ current \in Thread
  BY ThreadAssumption DEF TypeOK
<1>2. status[current] = "RUNNING"
  BY <1>1 DEF OneRunning
<1>3. pc[Main] # "boot"
  BY <1>1 DEF BootSequence
<1>4. PICK t \in Thread \ {Main} : pc[t] = "idleInit"
  BY <1>3 DEF BootSequence
<1>5. \A u \in Thread \ {Main, t} : pc[u] = "none"
  BY <1>4 DEF BootSequence
<1>6. current # t
  BY <1>4
<1>7. status[t] \notin {"NONE", "DYING", "BLOCKED", "RUNNING"}
  BY <1>4, <1>6 DEF BootSequence, PcMatchesStatus, OneRunning
<1>8. status[t] = "READY"
  BY <1>7 DEF TypeOK, Statuses
<1>9. t # idleThread
  BY ThreadAssumption
<1>10. t \in Elems(readyList)
  BY <1>8, <1>9 DEF ReadyListExact
<1> QED BY <1>10, EmptyElems DEF TypeOK

(* The running thread may call schedule() after leaving the running state  *)
(* without entering the ready list.                                        *)
LEMMA LeaveCpu ==
  ASSUME SchedulerInv, pc[current] \notin {"boot", "idleInit"},
         NEW x \in {"BLOCKED", "DYING"},
         x = "DYING" => current # idleThread
  PROVE  ScheduleReady([status EXCEPT ![current] = x], readyList)
<1> USE DEF SchedulerInv
<1> DEFINE st == [status EXCEPT ![current] = x]
<1>1. current \in Thread /\ status \in [Thread -> Statuses]
      /\ readyList \in Seq(Thread)
  BY DEF TypeOK
<1>2. /\ st \in [Thread -> Statuses]
      /\ st[current] = x
      /\ \A t \in Thread : t # current => st[t] = status[t]
  BY <1>1 DEF Statuses
<1>3. \A t \in Thread : t # current => status[t] # "RUNNING"
  BY DEF OneRunning
<1>4. status[current] = "RUNNING"
  BY <1>1 DEF OneRunning
<1>5. idleThread \in Thread => status[idleThread] \notin {"NONE", "DYING"}
  BY DEF PcMatchesStatus
<1>6. idleThread \in Thread => st[idleThread] \notin {"NONE", "DYING"}
  BY <1>2, <1>5
<1>7. \A t \in Thread : st[t] # "RUNNING"
  BY <1>2, <1>3
<1>8. \A t \in Thread : st[t] = "READY" <=> status[t] = "READY"
  BY <1>2, <1>4
<1>9. \A t \in Thread : t \in Elems(readyList) <=> st[t] = "READY" /\ t # idleThread
  BY <1>8 DEF ReadyListExact
<1>10. readyList # <<>> \/ idleThread \in Thread
  BY SomeoneToRun
<1>11. NoDuplicates(readyList)
  BY DEF ReadyListExact
<1> HIDE DEF st
<1>12. ScheduleReady(st, readyList)
  BY <1>1, <1>2, <1>6, <1>7, <1>9, <1>10, <1>11 DEF ScheduleReady
<1> QED BY <1>12 DEF st

(* The running thread may call schedule() from thread_yield().             *)
LEMMA YieldCpu ==
  ASSUME SchedulerInv, pc[current] # "boot"
  PROVE  ScheduleReady([status EXCEPT ![current] = "READY"],
                       IF current # idleThread THEN Append(readyList, current)
                                               ELSE readyList)
<1> USE DEF SchedulerInv
<1> DEFINE st == [status EXCEPT ![current] = "READY"]
           rl == IF current # idleThread THEN Append(readyList, current)
                                         ELSE readyList
<1>1. current \in Thread /\ status \in [Thread -> Statuses]
      /\ readyList \in Seq(Thread)
  BY DEF TypeOK
<1>2. /\ st \in [Thread -> Statuses]
      /\ st[current] = "READY"
      /\ \A t \in Thread : t # current => st[t] = status[t]
  BY <1>1 DEF Statuses
<1>3. \A t \in Thread : t # current => status[t] # "RUNNING"
  BY DEF OneRunning
<1>4. status[current] = "RUNNING"
  BY <1>1 DEF OneRunning
<1>5. NoDuplicates(readyList) /\ current \notin Elems(readyList)
  BY <1>1, <1>4 DEF ReadyListExact
<1>6. /\ rl \in Seq(Thread)
      /\ NoDuplicates(rl)
      /\ rl # <<>> \/ idleThread \in Thread
      /\ \A t \in Thread : t \in Elems(rl) <=>
           \/ t \in Elems(readyList)
           \/ t = current /\ current # idleThread
  BY <1>1, <1>5, AppendElems
<1>7. idleThread \in Thread => status[idleThread] \notin {"NONE", "DYING"}
  BY DEF PcMatchesStatus
<1>8. idleThread \in Thread => st[idleThread] \notin {"NONE", "DYING"}
  BY <1>2, <1>7
<1>9. \A t \in Thread : st[t] # "RUNNING"
  BY <1>2, <1>3
<1> HIDE DEF rl
<1>10. \A t \in Thread : t \in Elems(rl) <=> st[t] = "READY" /\ t # idleThread
  <2> SUFFICES ASSUME NEW t \in Thread
               PROVE  t \in Elems(rl) <=> st[t] = "READY" /\ t # idleThread
    OBVIOUS
  <2>1. t \in Elems(readyList) <=> status[t] = "READY" /\ t # idleThread
    BY DEF ReadyListExact
  <2> QED BY <2>1, <1>2, <1>4, <1>6
<1> HIDE DEF st
<1>11. ScheduleReady(st, rl)
  BY <1>2, <1>6, <1>8, <1>9, <1>10 DEF ScheduleReady
<1> QED BY <1>11 DEF st, rl

-----------------------------------------------------------------------------
(* A step that calls schedule() after moving the running thread to x, and  *)
(* leaves it at label l.                                                   *)
LEMMA SwitchPreserves ==
  ASSUME SchedulerInv,
         NEW x \in {"BLOCKED", "DYING", "READY"}, NEW ready,
         NEW l \in Labels,
         ScheduleReady([status EXCEPT ![current] = x], ready),
         Schedule([status EXCEPT ![current] = x], ready),
         pc' = [pc EXCEPT ![current] = l],
         pc[current] # "boot", l # "boot",
         x = "READY" => \/ l = pc[current]
                        \/ pc[current] = "idleHalt" /\ l = "idleLoop",
         x = "DYING" => l = "none" /\ pc[current] = "run",
         x = "BLOCKED" =>
           \/ /\ l = "down"
              /\ pc[current] \in {"waitIdle", "run", "down", "lockTid"}
              /\ value[waitsFor'[current]] = 0
              /\ waitsFor'[current] \in AllSema
              /\ pc[current] = "waitIdle" => waitsFor'[current] = IdleStarted
              /\ pc[current] = "run" => waitsFor'[current] \in Sema
              /\ pc[current] = "lockTid" => waitsFor'[current] = TidLock
              /\ pc[current] = "down" => waitsFor'[current] = waitsFor[current]
              /\ waitsFor' = [waitsFor EXCEPT ![current] = waitsFor'[current]]
              /\ waiters' = [waiters EXCEPT ![waitsFor'[current]] =
                                               Append(@, current)]
           \/ l = "idleHalt" /\ pc[current] = "idleLoop"
              /\ UNCHANGED <<waitsFor, waiters>>,
         x # "BLOCKED" => UNCHANGED <<waitsFor, waiters>>,
         UNCHANGED <<idleThread, tidVars, value>>,
         allList' \subseteq Thread
  PROVE  SchedulerInv'
<1> USE DEF SchedulerInv
<1> DEFINE st == [status EXCEPT ![current] = x]
<1>1. current \in Thread /\ status \in [Thread -> Statuses]
      /\ pc \in [Thread -> Labels] /\ Main \in Thread
  BY ThreadAssumption DEF TypeOK
<1>2. /\ st[current] = x
      /\ \A t \in Thread : t # current => st[t] = status[t]
  BY <1>1
<1>3. TimeSlice \in Nat \ {0}
  BY BoundAssumption
<1> HIDE DEF st
<1>4. /\ current' \in Thread
      /\ st[current'] = "READY" \/ current' = idleThread
      /\ threadTicks' \in 0..(TimeSlice - 1)
      /\ status' \in [Thread -> Statuses]
      /\ readyList' \in Seq(Thread)
      /\ NoDuplicates(readyList')
      /\ \A t \in Thread : status'[t] = "RUNNING" <=> t = current'
      /\ \A t \in Thread :
           t \in Elems(readyList') <=> status'[t] = "READY" /\ t # idleThread
      /\ \A t \in Thread :
           status'[t] = "BLOCKED" <=> st[t] = "BLOCKED" /\ t # current'
      /\ \A t \in Thread :
           status'[t] \in {"NONE", "DYING"} <=> st[t] \in {"NONE", "DYING"}
  <2>1. ScheduleReady(st, ready) /\ Schedule(st, ready)
    BY DEF st
  <2> QED BY <2>1, <1>1, <1>3, ScheduleLemma
<1>5. /\ pc' \in [Thread -> Labels]
      /\ pc'[current] = l
      /\ \A t \in Thread : t # current => pc'[t] = pc[t]
  BY <1>1
<1>6. status[current] = "RUNNING" /\ pc[current] # "none" /\ pc[current] # "new"
  BY <1>1 DEF OneRunning, PcMatchesStatus
<1>7. OneRunning'
  BY <1>4 DEF OneRunning
<1>8. ReadyListExact'
  BY <1>4 DEF ReadyListExact
<1>9. TypeOK'
  <2>1. waitsFor' \in [Thread -> AllSema]
    BY <1>1 DEF TypeOK
  <2>2. waiters' \in [AllSema -> Seq(Thread)]
    <3>1. \A r \in AllSema : Append(waiters[r], current) \in Seq(Thread)
      BY <1>1, AppendElems DEF TypeOK
    <3>2. waiters \in [AllSema -> Seq(Thread)]
      BY DEF TypeOK
    <3> QED BY <3>1, <3>2
  <2> QED BY <1>4, <1>5, <2>1, <2>2 DEF TypeOK, tidVars
<1>10. st[current'] = "READY" \/ current' = idleThread
  BY <1>4
<1>11. \A t \in Thread :
         status'[t] = "BLOCKED" <=>
           \/ t # current /\ status[t] = "BLOCKED" /\ t # current'
           \/ t = current /\ x = "BLOCKED" /\ t # current'
  BY <1>2, <1>4
<1>12. \A t \in Thread :
         status'[t] \in {"NONE", "DYING"} <=>
           \/ t # current /\ status[t] \in {"NONE", "DYING"}
           \/ t = current /\ x = "DYING"
  BY <1>2, <1>4
<1>13. x = "BLOCKED" /\ current # idleThread => current' # current
  BY <1>2, <1>10
<1>14. \A t \in Thread : t # current /\ status[t] = "BLOCKED" /\ t = current'
         => t = idleThread
  BY <1>2, <1>10
<1>15. PcMatchesStatus'
  <2> SUFFICES ASSUME NEW t \in Thread
               PROVE  /\ status'[t] \in {"NONE", "DYING"} <=> pc'[t] = "none"
                      /\ pc'[t] = "new" => status'[t] = "BLOCKED"
                      /\ status'[t] = "BLOCKED" => pc'[t] \in {"new", "down", "idleHalt"}
                      /\ pc'[t] \in {"idleUp", "idleLoop", "idleHalt"} <=> t = idleThread
    BY DEF PcMatchesStatus
  <2>0. /\ status[t] \in {"NONE", "DYING"} <=> pc[t] = "none"
        /\ pc[t] = "new" => status[t] = "BLOCKED"
        /\ status[t] = "BLOCKED" => pc[t] \in {"new", "down", "idleHalt"}
        /\ pc[t] \in {"idleUp", "idleLoop", "idleHalt"} <=> t = idleThread
    BY DEF PcMatchesStatus
  <2>1. CASE t # current
    BY <2>0, <2>1, <1>5, <1>11, <1>12, <1>14
  <2>2. CASE t = current
    BY <2>0, <2>2, <1>5, <1>6, <1>11, <1>12, <1>13
  <2> QED BY <2>1, <2>2
<1>16. WaitListsExact'
  <2> SUFFICES ASSUME NEW r \in AllSema
               PROVE  /\ NoDuplicates(waiters'[r])
                      /\ \A t \in Thread :
                           t \in Elems(waiters'[r]) <=>
                             status'[t] = "BLOCKED" /\ pc'[t] = "down" /\ waitsFor'[t] = r
    BY DEF WaitListsExact
  <2>1. /\ NoDuplicates(waiters[r])
        /\ \A t \in Thread :
             t \in Elems(waiters[r]) <=>
               status[t] = "BLOCKED" /\ pc[t] = "down" /\ waitsFor[t] = r
        /\ waiters[r] \in Seq(Thread)
    BY DEF WaitListsExact, TypeOK
  <2>2. \A t \in Thread : t # current =>
          (status'[t] = "BLOCKED" /\ pc'[t] = "down" <=>
             status[t] = "BLOCKED" /\ pc[t] = "down")
    BY <1>5, <1>11, <1>14 DEF PcMatchesStatus
  <2>3. current \notin Elems(waiters[r])
    BY <2>1, <1>1, <1>6
  <2>4. CASE x = "BLOCKED" /\ l = "down" /\ r = waitsFor'[current]
    <3>1. current # idleThread
      BY <2>4, <1>1 DEF PcMatchesStatus
    <3>2. status'[current] = "BLOCKED" /\ pc'[current] = "down"
      BY <2>4, <3>1, <1>1, <1>5, <1>11, <1>13
    <3>3. waiters'[r] = Append(waiters[r], current)
      BY <2>4 DEF TypeOK
    <3>4. /\ NoDuplicates(waiters'[r])
          /\ Elems(waiters'[r]) = Elems(waiters[r]) \cup {current}
      BY <3>3, <2>1, <2>3, <1>1, AppendElems
    <3>5. \A t \in Thread : t # current => waitsFor'[t] = waitsFor[t]
      BY <2>4, <1>1 DEF TypeOK
    <3> QED BY <2>1, <2>2, <2>4, <3>2, <3>4, <3>5, <1>1
  <2>5. CASE ~(x = "BLOCKED" /\ l = "down" /\ r = waitsFor'[current])
    <3>1. waiters'[r] = waiters[r]
      BY <2>5 DEF TypeOK
    <3>2. \A t \in Thread : t # current => waitsFor'[t] = waitsFor[t]
      BY <1>1 DEF TypeOK
    <3>3. ~(status'[current] = "BLOCKED" /\ pc'[current] = "down" /\ waitsFor'[current] = r)
      BY <2>5, <1>1, <1>5, <1>11
    <3>4. \A t \in Thread :
             t \in Elems(waiters[r]) <=>
               status'[t] = "BLOCKED" /\ pc'[t] = "down" /\ waitsFor'[t] = r
      BY <2>1, <2>2, <2>3, <3>2, <3>3
    <3> QED BY <2>1, <3>1, <3>4
  <2> QED BY <2>4, <2>5
<1>17. BootSequence'
  <2>1. ASSUME NEW t \in Thread
        PROVE  pc'[t] # "boot"
    BY <1>1, <1>5 DEF BootSequence
  <2>2. ASSUME NEW t \in Thread, pc'[t] = "waitIdle"
        PROVE  t = Main
    BY <1>1, <1>5, <2>2 DEF BootSequence
  <2>3. ASSUME NEW t \in Thread, pc'[t] = "idleInit"
        PROVE  /\ idleThread = NoThread
               /\ status'[t] # "BLOCKED"
               /\ \A u \in Thread \ {Main, t} : pc'[u] = "none"
    <3>1. pc[t] = "idleInit"
      BY <1>1, <1>5, <2>3
    <3>2. t = current => x = "READY"
      BY <2>3, <1>5, <1>1
    <3>3. status'[t] # "BLOCKED" /\ idleThread = NoThread
      BY <3>1, <3>2, <1>11 DEF BootSequence
    <3>4. \A u \in Thread \ {Main, t} : pc[u] = "none"
      BY <3>1 DEF BootSequence
    <3> QED BY <3>3, <3>4, <1>1, <1>5, <1>6
  <2>4. ASSUME idleThread = NoThread
        PROVE  /\ value[IdleStarted] = 0
               /\ pc'[Main] \in {"boot", "waitIdle", "down"}
               /\ pc'[Main] = "down" =>
                    waitsFor'[Main] = IdleStarted /\ status'[Main] = "BLOCKED"
               /\ pc'[Main] # "boot" => \E t \in Thread \ {Main} : pc'[t] = "idleInit"
    <3>1. /\ value[IdleStarted] = 0
          /\ pc[Main] \in {"boot", "waitIdle", "down"}
          /\ pc[Main] = "down" =>
               waitsFor[Main] = IdleStarted /\ status[Main] = "BLOCKED"
          /\ pc[Main] # "boot" => \E t \in Thread \ {Main} : pc[t] = "idleInit"
      BY <2>4 DEF BootSequence
    <3>2. idleThread \notin Thread
      BY <2>4, ThreadAssumption
    <3>3. pc[Main] # "boot"
      BY <1>1 DEF BootSequence
    <3>4. PICK t \in Thread \ {Main} : pc[t] = "idleInit"
      BY <3>1, <3>3
    <3>5. pc'[t] = "idleInit"
      BY <3>4, <1>1, <1>5
    <3>6. CASE Main # current
      <4>1. pc'[Main] = pc[Main]
        BY <3>6, <1>1, <1>5
      <4>2. waitsFor'[Main] = waitsFor[Main]
        BY <3>6, <1>1 DEF TypeOK
      <4>3. status[Main] = "BLOCKED" => status'[Main] = "BLOCKED"
        BY <3>6, <3>2, <1>1, <1>11, <1>14
      <4> QED BY <3>1, <3>5, <4>1, <4>2, <4>3
    <3>7. CASE Main = current
      <4>1. pc[Main] = "waitIdle"
        BY <3>1, <3>3, <3>7, <1>6
      <4>2. l \in {"waitIdle", "down"} /\ pc'[Main] = l
        BY <4>1, <3>7, <1>5
      <4>3. l = "down" => x = "BLOCKED" /\ waitsFor'[Main] = IdleStarted
        BY <4>1, <3>7
      <4>4. l = "down" => status'[Main] = "BLOCKED"
        BY <4>3, <3>2, <3>7, <1>1, <1>11, <1>13
      <4> QED BY <3>1, <3>5, <4>2, <4>3, <4>4
    <3> QED BY <3>6, <3>7
  <2>5. UNCHANGED <<idleThread, value>>
    OBVIOUS
  <2> QED BY <2>1, <2>2, <2>3, <2>4, <2>5 DEF BootSequence
<1>18. ChildOwned'
  <2>1. \A t \in Thread : Creating(t)' <=> Creating(t)
    <3> SUFFICES ASSUME NEW t \in Thread
                 PROVE  Creating(t)' <=> Creating(t)
      OBVIOUS
    <3>1. CASE t # current
      <4>1. pc'[t] = pc[t] /\ waitsFor'[t] = waitsFor[t]
        BY <3>1, <1>1, <1>5 DEF TypeOK
      <4> QED BY <4>1 DEF Creating
    <3>2. CASE t = current
      BY <3>2, <1>1, <1>5, SemaAssumption DEF Creating
    <3> QED BY <3>1, <3>2
  <2>2. \A t \in Thread : pc[t] = "new" => pc'[t] = "new"
    BY <1>1, <1>5, <1>6
  <2>3. child' = child
    BY DEF tidVars
  <2> QED BY <2>1, <2>2, <2>3 DEF ChildOwned
<1> QED BY <1>7, <1>8, <1>9, <1>15, <1>16, <1>17, <1>18

-----------------------------------------------------------------------------
(* A step in which the running thread goes on running, moves from its      *)
(* label to l, and wakes at most the first waiter of one semaphore.        *)
LEMMA RunPreserves ==
  ASSUME SchedulerInv,
         NEW l \in Labels,
         pc' = [pc EXCEPT ![current] = l],
         pc[current] # "boot",
         UNCHANGED <<current, idleThread, waitsFor, child>>,
         l \notin {"none", "new", "boot", "down"},
         l \in {"idleUp", "idleLoop", "idleHalt"} <=> current = idleThread,
         l = "waitIdle" <=> l = pc[current] /\ pc[current] = "waitIdle",
         l = "idleInit" <=> pc[current] = "idleInit",
         pc[current] = "waitIdle" => l = pc[current] \/ idleThread # NoThread,
         Creating(current)' <=> Creating(current),
         idleThread = NoThread => value'[IdleStarted] = 0,
         TypeOK', OneRunning', ReadyListExact',
         \A t \in Thread : status'[t] # status[t] =>
           /\ status[t] = "BLOCKED" /\ status'[t] = "READY"
           /\ pc[t] = "down"
           /\ idleThread = NoThread => waitsFor[t] # IdleStarted,
         \A r \in AllSema :
           /\ NoDuplicates(waiters'[r])
           /\ \A t \in Thread :
                t \in Elems(waiters'[r]) <=>
                  status'[t] = "BLOCKED" /\ pc[t] = "down" /\ waitsFor[t] = r
  PROVE  SchedulerInv'
<1> USE DEF SchedulerInv
<1>1. current \in Thread /\ status \in [Thread -> Statuses]
      /\ pc \in [Thread -> Labels] /\ Main \in Thread
  BY ThreadAssumption DEF TypeOK
<1>2. /\ pc'[current] = l
      /\ \A t \in Thread : t # current => pc'[t] = pc[t]
  BY <1>1
<1>3. status[current] = "RUNNING" /\ status'[current] = "RUNNING"
      /\ pc[current] # "none" /\ pc[current] # "new"
  BY <1>1 DEF OneRunning, PcMatchesStatus
<1>4. PcMatchesStatus'
  <2> SUFFICES ASSUME NEW t \in Thread
               PROVE  /\ status'[t] \in {"NONE", "DYING"} <=> pc'[t] = "none"
                      /\ pc'[t] = "new" => status'[t] = "BLOCKED"
                      /\ status'[t] = "BLOCKED" => pc'[t] \in {"new", "down", "idleHalt"}
                      /\ pc'[t] \in {"idleUp", "idleLoop", "idleHalt"} <=> t = idleThread
    BY DEF PcMatchesStatus
  <2>1. CASE t = current
    BY <2>1, <1>2, <1>3
  <2>2. CASE t # current
    BY <2>2, <1>2 DEF PcMatchesStatus
  <2> QED BY <2>1, <2>2
<1>5. WaitListsExact'
  <2>1. \A t \in Thread : status'[t] = "BLOCKED" => pc'[t] = pc[t]
    BY <1>2, <1>3
  <2> QED BY <2>1 DEF WaitListsExact
<1>6. ChildOwned'
  <2>1. \A t \in Thread : Creating(t)' <=> Creating(t)
    <3> SUFFICES ASSUME NEW t \in Thread, t # current
                 PROVE  Creating(t)' <=> Creating(t)
      OBVIOUS
    <3>1. pc'[t] = pc[t] /\ waitsFor'[t] = waitsFor[t]
      BY <1>2
    <3> QED BY <3>1 DEF Creating
  <2>2. \A t \in Thread : pc[t] = "new" => pc'[t] = "new"
    BY <1>2, <1>3
  <2> QED BY <2>1, <2>2 DEF ChildOwned
<1>7. BootSequence'
  <2>1. ASSUME NEW t \in Thread
        PROVE  /\ pc'[t] # "boot"
               /\ pc'[t] = "waitIdle" => t = Main
    BY <1>1, <1>2 DEF BootSequence
  <2>2. ASSUME NEW t \in Thread, pc'[t] = "idleInit"
        PROVE  /\ idleThread = NoThread
               /\ status'[t] # "BLOCKED"
               /\ \A u \in Thread \ {Main, t} : pc'[u] = "none"
    <3>1. pc[t] = "idleInit"
      BY <2>2, <1>2
    <3>2. /\ idleThread = NoThread /\ status[t] # "BLOCKED"
          /\ \A u \in Thread \ {Main, t} : pc[u] = "none"
      BY <3>1 DEF BootSequence
    <3> QED BY <3>2, <1>1, <1>2, <1>3
  <2>3. ASSUME idleThread = NoThread
        PROVE  /\ pc'[Main] \in {"boot", "waitIdle", "down"}
               /\ pc'[Main] = "down" =>
                    waitsFor[Main] = IdleStarted /\ status'[Main] = "BLOCKED"
               /\ \E t \in Thread \ {Main} : pc'[t] = "idleInit"
    <3>1. pc[Main] # "boot"
      BY <1>1 DEF BootSequence
    <3>2. /\ pc[Main] \in {"waitIdle", "down"}
          /\ pc[Main] = "down" =>
               waitsFor[Main] = IdleStarted /\ status[Main] = "BLOCKED"
      BY <2>3, <3>1 DEF BootSequence
    <3>3. PICK t \in Thread \ {Main} : pc[t] = "idleInit"
      BY <2>3, <3>1 DEF BootSequence
    <3>4. pc'[t] = "idleInit"
      BY <3>3, <1>2
    <3>5. pc'[Main] = pc[Main]
      BY <2>3, <3>2, <1>1, <1>2, <1>3
    <3>6. status[Main] = "BLOCKED" /\ pc[Main] = "down" => status'[Main] = "BLOCKED"
      BY <2>3, <3>2, <1>1
    <3> QED BY <3>2, <3>4, <3>5, <3>6
  <2> QED BY <2>1, <2>2, <2>3 DEF BootSequence
<1> QED BY <1>4, <1>5, <1>6, <1>7

(* A step of the running thread that touches no list.                      *)
LEMMA LocalPreserves ==
  ASSUME SchedulerInv,
         NEW l \in Labels,
         pc' = [pc EXCEPT ![current] = l],
         pc[current] # "boot",
         UNCHANGED <<status, readyList, current, idleThread, waitsFor, child, waiters>>,
         l \notin {"none", "new", "boot", "down"},
         l \in {"idleUp", "idleLoop", "idleHalt"} <=> current = idleThread,
         l = "waitIdle" <=> l = pc[current] /\ pc[current] = "waitIdle",
         l = "idleInit" <=> pc[current] = "idleInit",
         pc[current] = "waitIdle" => l = pc[current] \/ idleThread # NoThread,
         Creating(current)' <=> Creating(current),
         idleThread = NoThread => value'[IdleStarted] = 0,
         TypeOK'
  PROVE  SchedulerInv'
<1>1. OneRunning' /\ ReadyListExact'
  BY DEF SchedulerInv, OneRunning, ReadyListExact
<1>2. \A r \in AllSema :
           /\ NoDuplicates(waiters'[r])
           /\ \A t \in Thread :
                t \in Elems(waiters'[r]) <=>
                  status'[t] = "BLOCKED" /\ pc[t] = "down" /\ waitsFor[t] = r
  BY DEF SchedulerInv, WaitListsExact
<1>3. \A t \in Thread : status'[t] = status[t]
  OBVIOUS
<1> QED BY <1>1, <1>2, <1>3, RunPreserves

-----------------------------------------------------------------------------
(* The state in which thread_init() leaves the kernel.                     *)
LEMMA InitInv == Init => SchedulerInv
<1> SUFFICES ASSUME Init PROVE SchedulerInv
  OBVIOUS
<1> USE ThreadAssumption, SemaAssumption, BoundAssumption
<1>1. TypeOK
  BY DEF Init, TypeOK, Statuses, Labels, AllSema
<1>2. Elems(<<>>) = {} /\ NoDuplicates(<<>>)
  BY DEF Elems, NoDuplicates
<1>3. ReadyListExact
  BY <1>2 DEF Init, ReadyListExact
<1>4. WaitListsExact
  BY <1>2 DEF Init, WaitListsExact
<1>5. OneRunning /\ PcMatchesStatus
  BY DEF Init, OneRunning, PcMatchesStatus
<1>6. BootSequence
  BY DEF Init, BootSequence, AllSema
<1>7. ChildOwned
  BY DEF Init, ChildOwned, Creating
<1> QED BY <1>1, <1>3, <1>4, <1>5, <1>6, <1>7 DEF SchedulerInv

(* Both outcomes of a pass through the loop of sema_down().                *)
LEMMA SemaDownInv ==
  ASSUME SchedulerInv, NEW s \in AllSema, SemaDown(s),
         UNCHANGED <<allList, idleThread, tidVars>>,
         pc[current] \in {"waitIdle", "run", "down", "lockTid"},
         pc[current] = "waitIdle" => s = IdleStarted,
         pc[current] = "run" => s \in Sema,
         pc[current] = "lockTid" => s = TidLock,
         pc[current] = "down" => s = waitsFor[current]
  PROVE  SchedulerInv'
<1>1. current \in Thread /\ TypeOK /\ value[s] \in Nat
  BY DEF SchedulerInv, TypeOK
<1>2. CASE value[s] > 0 /\ value' = [value EXCEPT ![s] = @ - 1]
           /\ Goto(AfterDown(s)) /\ UNCHANGED <<schedVars, waitsFor, waiters>>
  <2>1. AfterDown(s) \in {"readTid", "run"} /\ AfterDown(s) \in Labels
    BY DEF AfterDown, Labels
  <2>2. value' \in [AllSema -> Nat]
    BY <1>1, <1>2 DEF TypeOK
  <2>3. pc' \in [Thread -> Labels]
    BY <1>1, <1>2, <2>1 DEF TypeOK, Goto
  <2>4. TypeOK'
    BY <1>1, <1>2, <2>2, <2>3 DEF TypeOK, schedVars, tidVars
  <2>5. Creating(current)' <=> Creating(current)
    BY <1>1, <1>2, SemaAssumption DEF Creating, AfterDown, Goto, TypeOK, schedVars
  <2>6. idleThread = NoThread => value[IdleStarted] = 0
    BY DEF SchedulerInv, BootSequence
  <2>7. idleThread = NoThread => s # IdleStarted /\ value'[IdleStarted] = 0
    BY <1>1, <1>2, <2>6 DEF TypeOK, AllSema
  <2>8. current # idleThread
    BY <1>1 DEF SchedulerInv, PcMatchesStatus
  <2> QED BY <1>2, <2>1, <2>4, <2>5, <2>7, <2>8, LocalPreserves
          DEF Goto, schedVars, tidVars
<1>3. CASE value[s] = 0 /\ waiters' = [waiters EXCEPT ![s] = Append(@, current)]
           /\ waitsFor' = [waitsFor EXCEPT ![current] = s]
           /\ Goto("down") /\ ThreadBlock /\ UNCHANGED value
  <2>1. waitsFor'[current] = s
    BY <1>1, <1>3 DEF TypeOK
  <2>2. ScheduleReady([status EXCEPT ![current] = "BLOCKED"], readyList)
    BY LeaveCpu
  <2>3. Schedule([status EXCEPT ![current] = "BLOCKED"], readyList)
    BY <1>3 DEF ThreadBlock
  <2>4. "down" \in Labels
    BY DEF Labels
  <2>5. pc' = [pc EXCEPT ![current] = "down"]
    BY <1>3 DEF Goto
  <2>6. allList' \subseteq Thread
    BY <1>1 DEF TypeOK
  <2> QED BY <1>3, <2>1, <2>2, <2>3, <2>4, <2>5, <2>6, SwitchPreserves
<1> QED BY <1>2, <1>3 DEF SemaDown

(* sema_up(), by a thread or by an interrupt handler.                      *)
LEMMA SemaUpInv ==
  ASSUME SchedulerInv, NEW s \in AllSema, SemaUp(s),
         NEW l \in Labels, Goto(l),
         UNCHANGED <<allList, current, idleThread, threadTicks, waitsFor, tidVars>>,
         s = IdleStarted => idleThread # NoThread,
         pc[current] \notin {"boot", "down"},
         \/ l = pc[current]
         \/ pc[current] = "idleHalt" /\ l = "idleLoop"
         \/ pc[current] = "idleUp" /\ l = "idleLoop"
         \/ pc[current] = "releaseTid" /\ l = "unblockChild"
  PROVE  SchedulerInv'
<1>1. current \in Thread /\ TypeOK /\ status[current] = "RUNNING"
  BY DEF SchedulerInv, TypeOK, OneRunning
<1>2. /\ readyList' \in Seq(Thread)
      /\ status' \in [Thread -> Statuses]
      /\ value' \in [AllSema -> Nat]
      /\ waiters' \in [AllSema -> Seq(Thread)]
      /\ OneRunning'
      /\ ReadyListExact'
      /\ \A t \in Thread : status'[t] # status[t] =>
           /\ status[t] = "BLOCKED" /\ status'[t] = "READY"
           /\ pc[t] = "down" /\ waitsFor[t] = s
      /\ \A r \in AllSema :
           /\ NoDuplicates(waiters'[r])
           /\ \A t \in Thread :
                t \in Elems(waiters'[r]) <=>
                  status'[t] = "BLOCKED" /\ pc[t] = "down" /\ waitsFor[t] = r
      /\ \A r \in AllSema : r # s => value'[r] = value[r]
  BY SemaUpLemma
<1>3. pc' = [pc EXCEPT ![current] = l] /\ pc' \in [Thread -> Labels]
  BY <1>1 DEF Goto, TypeOK
<1>4. TypeOK'
  BY <1>1, <1>2, <1>3 DEF TypeOK, tidVars
<1>5. /\ pc[current] \notin {"none", "new"}
      /\ pc[current] \in {"idleUp", "idleLoop", "idleHalt"} <=> current = idleThread
  BY <1>1 DEF SchedulerInv, PcMatchesStatus
<1>6. Creating(current)' <=> Creating(current)
  BY <1>1, <1>3 DEF Creating, TypeOK
<1>7. idleThread = NoThread => value'[IdleStarted] = 0
  <2>1. idleThread = NoThread => value[IdleStarted] = 0 /\ IdleStarted \in AllSema
    BY DEF SchedulerInv, BootSequence, AllSema
  <2> QED BY <1>2, <2>1
<1>8. \A t \in Thread : status'[t] # status[t] =>
        /\ status[t] = "BLOCKED" /\ status'[t] = "READY"
        /\ pc[t] = "down"
        /\ idleThread = NoThread => waitsFor[t] # IdleStarted
  BY <1>2
<1>9. child' = child
  BY DEF tidVars
<1> QED BY <1>2, <1>3, <1>4, <1>5, <1>6, <1>7, <1>8, <1>9, RunPreserves, ZenonT(60)

(* thread_start() puts the idle thread, and nothing else, on the ready     *)
(* list.                                                                   *)
LEMMA ThreadStartInv ==
  ASSUME SchedulerInv, ThreadStart
  PROVE  SchedulerInv'
<1> USE DEF SchedulerInv
<1>1. /\ current = Main /\ pc[Main] = "boot" /\ readyList = <<>>
      /\ idleThread = NoThread /\ Main \in Thread
      /\ \A u \in Thread \ {Main} : pc[u] = "none"
      /\ status[Main] = "RUNNING" /\ value[IdleStarted] = 0
  BY ThreadAssumption DEF ThreadStart, BootSequence, TypeOK, OneRunning
<1>2. PICK t \in Thread :
        /\ status[t] = "NONE"
        /\ status' = [status EXCEPT ![t] = "READY"]
        /\ readyList' = Append(readyList, t)
        /\ allList' = allList \cup {t}
        /\ tid' = [tid EXCEPT ![t] = nextTid]
        /\ pc' = [pc EXCEPT ![t] = "idleInit", ![current] = "waitIdle"]
  BY DEF ThreadStart
<1>3. UNCHANGED <<current, idleThread, threadTicks, waitsFor, child, tmpTid,
                 value, waiters>> /\ nextTid' = nextTid + 1
  BY DEF ThreadStart
<1>4. t # Main /\ t # idleThread
  BY <1>1, <1>2, ThreadAssumption
<1>5. /\ pc' \in [Thread -> Labels]
      /\ pc'[Main] = "waitIdle" /\ pc'[t] = "idleInit"
      /\ \A u \in Thread \ {Main, t} : pc'[u] = "none"
  BY <1>1, <1>2, <1>4 DEF TypeOK, Labels
<1>6. /\ status' \in [Thread -> Statuses]
      /\ status'[t] = "READY"
      /\ \A u \in Thread : u # t => status'[u] = status[u]
  BY <1>2 DEF TypeOK, Statuses
<1>7. TypeOK'
  <2>1. readyList' \in Seq(Thread)
    BY <1>2, AppendElems DEF TypeOK
  <2>2. tid' \in [Thread -> Nat] /\ nextTid' \in Nat /\ allList' \subseteq Thread
    BY <1>2, <1>3, SMTT(30) DEF TypeOK
  <2> QED BY <1>3, <1>5, <1>6, <2>1, <2>2 DEF TypeOK
<1>8. OneRunning'
  BY <1>2, <1>3, <1>6 DEF OneRunning
<1>9. ReadyListExact'
  <2>1. Elems(readyList) = {} /\ NoDuplicates(readyList)
    BY <1>1 DEF Elems, NoDuplicates
  <2>2. Elems(readyList') = {t} /\ NoDuplicates(readyList')
    BY <2>1, <1>2, AppendElems DEF TypeOK
  <2>3. \A u \in Thread : u \in Elems(readyList) <=> status[u] = "READY" /\ u # idleThread
    BY DEF ReadyListExact
  <2> QED BY <2>1, <2>2, <2>3, <1>3, <1>4, <1>6 DEF ReadyListExact
<1>10. WaitListsExact'
  <2>1. \A u \in Thread : pc'[u] # "down" /\ pc[u] # "down"
    BY <1>1, <1>5
  <2> QED BY <2>1, <1>3 DEF WaitListsExact
<1>11. PcMatchesStatus'
  <2>1. \A u \in Thread \ {Main, t} : status'[u] \in {"NONE", "DYING"}
    BY <1>1, <1>6 DEF PcMatchesStatus
  <2> QED BY <2>1, <1>1, <1>3, <1>4, <1>5, <1>6 DEF PcMatchesStatus
<1>12. BootSequence'
  BY <1>1, <1>3, <1>4, <1>5, <1>6 DEF BootSequence
<1>13. ChildOwned'
  BY <1>1, <1>5 DEF ChildOwned, Creating
<1> QED BY <1>7, <1>8, <1>9, <1>10, <1>11, <1>12, <1>13

(* thread_create() takes a free page and owns the blocked child in it.     *)
LEMMA CreateBeginInv ==
  ASSUME SchedulerInv, CreateBegin
  PROVE  SchedulerInv'
<1> USE DEF SchedulerInv
<1>1. /\ current \in Thread /\ pc[current] = "run"
      /\ status[current] = "RUNNING" /\ Main \in Thread
  BY ThreadAssumption DEF CreateBegin, TypeOK, OneRunning
<1>2. PICK t \in Thread :
        /\ status[t] = "NONE"
        /\ status' = [status EXCEPT ![t] = "BLOCKED"]
        /\ allList' = allList \cup {t}
        /\ child' = [child EXCEPT ![current] = t]
        /\ tid' = [tid EXCEPT ![t] = 0]
        /\ pc' = [pc EXCEPT ![t] = "new", ![current] = "lockTid"]
  BY DEF CreateBegin
<1>3. UNCHANGED <<readyList, current, idleThread, threadTicks, waitsFor,
                 tmpTid, nextTid, value, waiters>>
  BY DEF CreateBegin
<1>4. t # current /\ pc[t] = "none" /\ t # idleThread
  BY <1>1, <1>2 DEF PcMatchesStatus
<1>5. /\ pc' \in [Thread -> Labels]
      /\ pc'[current] = "lockTid" /\ pc'[t] = "new"
      /\ \A u \in Thread \ {current, t} : pc'[u] = pc[u]
  BY <1>1, <1>2, <1>4 DEF TypeOK, Labels
<1>6. /\ status' \in [Thread -> Statuses]
      /\ status'[t] = "BLOCKED"
      /\ \A u \in Thread : u # t => status'[u] = status[u]
  BY <1>2 DEF TypeOK, Statuses
<1>7. /\ child' \in [Thread -> Thread \cup {NoThread}]
      /\ child'[current] = t
      /\ \A u \in Thread : u # current => child'[u] = child[u]
  BY <1>1, <1>2 DEF TypeOK
<1>8. TypeOK'
  <2>1. tid' \in [Thread -> Nat] /\ allList' \subseteq Thread
    BY <1>2 DEF TypeOK
  <2> QED BY <1>3, <1>5, <1>6, <1>7, <2>1 DEF TypeOK
<1>9. OneRunning'
  BY <1>2, <1>3, <1>6 DEF OneRunning
<1>10. ReadyListExact'
  BY <1>2, <1>3, <1>6 DEF ReadyListExact
<1>11. WaitListsExact'
  <2>1. \A u \in Thread : status'[u] = "BLOCKED" /\ pc'[u] = "down"
          <=> status[u] = "BLOCKED" /\ pc[u] = "down"
    BY <1>1, <1>2, <1>5, <1>6
  <2> QED BY <2>1, <1>3 DEF WaitListsExact
<1>12. PcMatchesStatus'
  BY <1>1, <1>2, <1>3, <1>4, <1>5, <1>6 DEF PcMatchesStatus
<1>13. idleThread # NoThread
  <2> SUFFICES ASSUME idleThread = NoThread PROVE FALSE
    OBVIOUS
  <2>1. pc[Main] # "boot" /\ current # Main
    BY <1>1 DEF BootSequence
  <2>2. PICK u \in Thread \ {Main} : pc[u] = "idleInit"
    BY <2>1 DEF BootSequence
  <2> QED BY <1>1, <2>1, <2>2 DEF BootSequence
<1>14. BootSequence'
  <2>1. \A u \in Thread : pc[u] \notin {"boot", "idleInit"}
    BY <1>13 DEF BootSequence
  <2> QED BY <2>1, <1>3, <1>5, <1>13 DEF BootSequence
<1>15. ChildOwned'
  <2>1. \A u \in Thread : Creating(u)' <=> Creating(u) \/ u = current
    BY <1>1, <1>3, <1>4, <1>5 DEF Creating
  <2>2. \A u \in Thread : Creating(u) => pc[child[u]] = "new" /\ child[u] # t
                                         /\ child[u] \in Thread
    BY <1>4 DEF ChildOwned
  <2>3. ~Creating(current)
    BY <1>1 DEF Creating
  <2>4. \A u \in Thread : pc[u] = "new" => pc'[u] = "new"
    BY <1>1, <1>5
  <2> QED BY <2>1, <2>2, <2>3, <2>4, <1>5, <1>7 DEF ChildOwned
<1> QED BY <1>8, <1>9, <1>10, <1>11, <1>12, <1>14, <1>15

(* The end of thread_create(): the child was blocked on no wait list.      *)
LEMMA CreateEndInv ==
  ASSUME SchedulerInv, CreateEnd
  PROVE  SchedulerInv'
<1> USE DEF SchedulerInv
<1> DEFINE c == child[current]
<1>1. /\ current \in Thread /\ pc[current] = "unblockChild"
      /\ status[current] = "RUNNING" /\ Main \in Thread
  BY ThreadAssumption DEF CreateEnd, TypeOK, OneRunning
<1>2. Creating(current)
  BY <1>1 DEF Creating
<1>3. c \in Thread /\ pc[c] = "new"
  BY <1>1, <1>2 DEF ChildOwned
<1>4. /\ tid' = [tid EXCEPT ![c] = tmpTid[current]]
      /\ ThreadUnblock(c)
      /\ child' = [child EXCEPT ![current] = NoThread]
      /\ pc' = [pc EXCEPT ![c] = "run", ![current] = "run"]
      /\ tmpTid' = [tmpTid EXCEPT ![current] = 0]
      /\ UNCHANGED <<allList, current, idleThread, threadTicks, waitsFor,
                     nextTid, value, waiters>>
  BY DEF CreateEnd
<1> HIDE DEF c
<1>5. status[c] = "BLOCKED" /\ c # idleThread /\ c # current
  BY <1>1, <1>3 DEF PcMatchesStatus
<1>6. /\ readyList' \in Seq(Thread)
      /\ status' \in [Thread -> Statuses]
      /\ status' = [status EXCEPT ![c] = "READY"]
      /\ OneRunning'
      /\ ReadyListExact'
  BY <1>3, <1>4, <1>5, UnblockLemma
<1>7. /\ pc' \in [Thread -> Labels]
      /\ pc'[current] = "run" /\ pc'[c] = "run"
      /\ \A u \in Thread \ {current, c} : pc'[u] = pc[u]
  BY <1>1, <1>3, <1>4 DEF TypeOK, Labels
<1>8. /\ child' \in [Thread -> Thread \cup {NoThread}]
      /\ \A u \in Thread : u # current => child'[u] = child[u]
  BY <1>1, <1>4 DEF TypeOK
<1>9. TypeOK'
  <2>1. tid' \in [Thread -> Nat] /\ tmpTid' \in [Thread -> Nat]
    BY <1>1, <1>3, <1>4 DEF TypeOK
  <2> QED BY <1>4, <1>6, <1>7, <1>8, <2>1 DEF TypeOK
<1>10. /\ status'[c] = "READY"
       /\ \A u \in Thread : u # c => status'[u] = status[u]
  BY <1>3, <1>6 DEF TypeOK
<1>11. WaitListsExact'
  <2>1. \A u \in Thread : status'[u] = "BLOCKED" /\ pc'[u] = "down"
          <=> status[u] = "BLOCKED" /\ pc[u] = "down"
    BY <1>1, <1>3, <1>5, <1>7, <1>10
  <2> QED BY <2>1, <1>4 DEF WaitListsExact
<1>12. PcMatchesStatus'
  BY <1>1, <1>3, <1>4, <1>5, <1>7, <1>10 DEF PcMatchesStatus
<1>13. idleThread # NoThread
  <2> SUFFICES ASSUME idleThread = NoThread PROVE FALSE
    OBVIOUS
  <2>1. pc[Main] # "boot" /\ current # Main
    BY <1>1 DEF BootSequence
  <2>2. PICK u \in Thread \ {Main} : pc[u] = "idleInit"
    BY <2>1 DEF BootSequence
  <2> QED BY <1>1, <2>1, <2>2 DEF BootSequence
<1>14. BootSequence'
  <2>1. \A u \in Thread : pc[u] \notin {"boot", "idleInit"}
    BY <1>13 DEF BootSequence
  <2> QED BY <2>1, <1>4, <1>7, <1>13 DEF BootSequence
<1>15. ChildOwned'
  <2>1. \A u \in Thread : Creating(u)' <=> Creating(u) /\ u # current
    BY <1>1, <1>3, <1>4, <1>7 DEF Creating
  <2>2. \A u \in Thread : Creating(u) /\ u # current =>
          child[u] \in Thread /\ pc[child[u]] = "new" /\ child[u] # c
    BY <1>1, <1>2 DEF ChildOwned, c
  <2>3. \A u \in Thread : pc[u] = "new" /\ u # c => pc'[u] = "new"
    BY <1>1, <1>7
  <2> QED BY <2>1, <2>2, <2>3, <1>8 DEF ChildOwned
<1> QED BY <1>6, <1>9, <1>11, <1>12, <1>14, <1>15

(* idle() publishes idle_thread before anything can be scheduled from it.  *)
LEMMA IdleInitInv ==
  ASSUME SchedulerInv, IdleInit
  PROVE  SchedulerInv'
<1> USE DEF SchedulerInv
<1>1. /\ current \in Thread /\ pc[current] = "idleInit"
      /\ status[current] = "RUNNING" /\ Main \in Thread
  BY ThreadAssumption DEF IdleInit, TypeOK, OneRunning
<1>2. /\ idleThread' = current /\ pc' = [pc EXCEPT ![current] = "idleUp"]
      /\ UNCHANGED <<schedVars, allList, waitsFor, tidVars, value, waiters>>
  BY DEF IdleInit, Goto
<1>3. /\ pc' \in [Thread -> Labels]
      /\ pc'[current] = "idleUp"
      /\ \A u \in Thread \ {current} : pc'[u] = pc[u]
  BY <1>1, <1>2 DEF TypeOK, Labels
<1>4. /\ idleThread = NoThread
      /\ \A u \in Thread \ {Main, current} : pc[u] = "none"
      /\ pc[Main] \in {"boot", "waitIdle", "down"}
  BY <1>1 DEF BootSequence
<1>5. pc[Main] # "boot"
  BY <1>1 DEF BootSequence
<1>6. TypeOK' /\ OneRunning'
  BY <1>1, <1>2, <1>3 DEF TypeOK, OneRunning, schedVars, tidVars
<1>7. ReadyListExact'
  <2>1. UNCHANGED <<readyList, status>>
    BY <1>2 DEF schedVars
  <2>2. NoDuplicates(readyList) /\ NoThread \notin Thread
    BY ThreadAssumption DEF ReadyListExact
  <2>3. \A t \in Thread : t \in Elems(readyList) <=> status[t] = "READY" /\ t # current
    BY <1>1, <1>4, <2>2 DEF ReadyListExact
  <2> QED BY <1>2, <2>1, <2>2, <2>3 DEF ReadyListExact
<1>8. WaitListsExact'
  <2>1. \A t \in Thread : pc'[t] = "down" <=> pc[t] = "down"
    BY <1>1, <1>3
  <2>2. UNCHANGED <<waiters, waitsFor, status>>
    BY <1>2 DEF schedVars
  <2> QED BY <2>1, <2>2 DEF WaitListsExact
<1>9. PcMatchesStatus'
  <2>1. UNCHANGED status
    BY <1>2 DEF schedVars
  <2>2. \A t \in Thread \ {current} : pc[t] \notin {"idleUp", "idleLoop", "idleHalt"}
    BY <1>4
  <2> QED BY <1>1, <1>2, <1>3, <2>1, <2>2 DEF PcMatchesStatus
<1>10. BootSequence'
  <2>1. \A t \in Thread : pc'[t] \notin {"boot", "idleInit"}
    BY <1>3, <1>4, <1>5
  <2>2. \A t \in Thread : pc'[t] = "waitIdle" => t = Main
    BY <1>3 DEF BootSequence
  <2>3. idleThread' # NoThread
    BY <1>1, <1>2, ThreadAssumption
  <2> QED BY <2>1, <2>2, <2>3 DEF BootSequence
<1>11. ChildOwned'
  BY <1>1, <1>2, <1>3, <1>4 DEF ChildOwned, Creating, tidVars
<1> QED BY <1>6, <1>7, <1>8, <1>9, <1>10, <1>11

(* Every section of kernel code, and every interrupt, keeps the invariant. *)
LEMMA NextInv ==
  ASSUME SchedulerInv, [Next]_vars
  PROVE  SchedulerInv'
<1> USE DEF SchedulerInv
<1>0. /\ current \in Thread /\ status[current] = "RUNNING"
      /\ pc[current] \in Labels /\ pc[current] \notin {"none", "new"}
      /\ allList \subseteq Thread
      /\ pc = [pc EXCEPT ![current] = pc[current]]
      /\ pc[current] \in {"idleUp", "idleLoop", "idleHalt"} <=> current = idleThread
      /\ TypeOK
  BY DEF TypeOK, OneRunning, PcMatchesStatus
<1>1. CASE ThreadStart
  BY <1>1, ThreadStartInv
<1>2. CASE Down
  <2>1. CASE pc[current] = "waitIdle" /\ SemaDown(IdleStarted)
    <3>1. IdleStarted \in AllSema
      BY DEF AllSema
    <3> QED BY <1>2, <2>1, <3>1, SemaDownInv DEF Down
  <2>2. ASSUME pc[current] = "run", NEW s \in Sema, SemaDown(s)
        PROVE  SchedulerInv'
    <3>1. s \in AllSema
      BY DEF AllSema
    <3>2. UNCHANGED <<allList, idleThread, tidVars>>
      BY <1>2 DEF Down
    <3> QED BY <2>2, <3>1, <3>2, SemaDownInv
  <2>3. CASE pc[current] = "down" /\ SemaDown(waitsFor[current])
    <3>1. waitsFor[current] \in AllSema
      BY <1>0 DEF TypeOK
    <3> QED BY <1>2, <2>3, <3>1, SemaDownInv DEF Down
  <2> QED BY <1>2, <2>1, <2>2, <2>3 DEF Down
<1>3. CASE TryDown
  <2>1. /\ pc[current] = "run" /\ pc' = [pc EXCEPT ![current] = "run"]
        /\ UNCHANGED <<status, readyList, current, threadTicks, allList,
                       idleThread, pc, waitsFor, child, tmpTid, tid, nextTid, waiters>>
    BY <1>0, <1>3 DEF TryDown, schedVars, tidVars
  <2>2. PICK s \in Sema : value[s] > 0 /\ value' = [value EXCEPT ![s] = @ - 1]
    BY <1>3 DEF TryDown
  <2>3. value' \in [AllSema -> Nat] /\ value'[IdleStarted] = value[IdleStarted]
    BY <2>2, SemaAssumption DEF TypeOK, AllSema
  <2>4. TypeOK'
    BY <1>0, <2>1, <2>3 DEF TypeOK
  <2>5. "run" \in Labels /\ ~Creating(current) /\ ~Creating(current)'
    BY <2>1 DEF Labels, Creating
  <2>6. idleThread = NoThread => value'[IdleStarted] = 0
    BY <2>3 DEF BootSequence
  <2> QED BY <1>0, <2>1, <2>4, <2>5, <2>6, LocalPreserves
<1>4. CASE Up
  <2>1. /\ pc[current] = "run" /\ Goto("run") /\ "run" \in Labels
        /\ UNCHANGED <<allList, current, idleThread, threadTicks, waitsFor, tidVars>>
    BY <1>0, <1>4 DEF Up, Goto, Labels
  <2>2. PICK s \in Sema : SemaUp(s)
    BY <1>4 DEF Up
  <2>3. s \in AllSema /\ s # IdleStarted
    BY SemaAssumption DEF AllSema
  <2> QED BY <2>1, <2>2, <2>3, SemaUpInv
<1>5. CASE Yield
  <2>1. ScheduleReady([status EXCEPT ![current] = "READY"],
                      IF current # idleThread THEN Append(readyList, current)
                                              ELSE readyList)
    BY <1>5, YieldCpu DEF Yield
  <2>2. /\ Schedule([status EXCEPT ![current] = "READY"],
                      IF current # idleThread THEN Append(readyList, current)
                                              ELSE readyList)
        /\ pc[current] = "run" /\ pc' = [pc EXCEPT ![current] = "run"]
        /\ UNCHANGED <<allList, idleThread, waitsFor, tidVars, value, waiters>>
    BY <1>0, <1>5 DEF Yield, ThreadYield
  <2>3. "run" \in Labels
    BY DEF Labels
  <2> QED BY <1>0, <2>1, <2>2, <2>3, SwitchPreserves
<1>6. CASE ThreadExit
  <2>1. pc[current] = "run" /\ current # idleThread /\ "none" \in Labels
    BY <1>0, <1>6 DEF ThreadExit, Labels
  <2>2. ScheduleReady([status EXCEPT ![current] = "DYING"], readyList)
    BY <2>1, LeaveCpu
  <2>3. /\ Schedule([status EXCEPT ![current] = "DYING"], readyList)
        /\ pc' = [pc EXCEPT ![current] = "none"]
        /\ allList' \subseteq Thread
        /\ UNCHANGED <<idleThread, waitsFor, tidVars, value, waiters>>
    BY <1>0, <1>6 DEF ThreadExit, Goto
  <2> QED BY <2>1, <2>2, <2>3, SwitchPreserves
<1>7. CASE CreateBegin
  BY <1>7, CreateBeginInv
<1>8. CASE LockTid
  <2>1. TidLock \in AllSema
    BY DEF AllSema
  <2> QED BY <1>8, <2>1, SemaDownInv DEF LockTid
<1>9. CASE ReadTid
  <2>1. /\ pc[current] = "readTid" /\ pc' = [pc EXCEPT ![current] = "bumpTid"]
        /\ tmpTid' = [tmpTid EXCEPT ![current] = nextTid]
        /\ UNCHANGED <<status, readyList, current, threadTicks, allList,
                       idleThread, waitsFor, child, tid, nextTid, value, waiters>>
    BY <1>9 DEF ReadTid, Goto, schedVars
  <2>2. "bumpTid" \in Labels
    BY DEF Labels
  <2>3. TypeOK'
    BY <1>0, <2>1, <2>2 DEF TypeOK
  <2>4. Creating(current) /\ Creating(current)'
    BY <1>0, <2>1 DEF Creating, TypeOK
  <2>5. idleThread = NoThread => value'[IdleStarted] = 0
    BY <2>1 DEF BootSequence
  <2> QED BY <1>0, <2>1, <2>2, <2>3, <2>4, <2>5, LocalPreserves
<1>10. CASE BumpTid
  <2>1. /\ pc[current] = "bumpTid" /\ pc' = [pc EXCEPT ![current] = "releaseTid"]
        /\ nextTid' = tmpTid[current] + 1
        /\ UNCHANGED <<status, readyList, current, threadTicks, allList,
                       idleThread, waitsFor, child, tmpTid, tid, value, waiters>>
    BY <1>10 DEF BumpTid, Goto, schedVars
  <2>2. "releaseTid" \in Labels
    BY DEF Labels
  <2>3. TypeOK'
    BY <1>0, <2>1, <2>2 DEF TypeOK
  <2>4. Creating(current) /\ Creating(current)'
    BY <1>0, <2>1 DEF Creating, TypeOK
  <2>5. idleThread = NoThread => value'[IdleStarted] = 0
    BY <2>1 DEF BootSequence
  <2> QED BY <1>0, <2>1, <2>2, <2>3, <2>4, <2>5, LocalPreserves
<1>11. CASE ReleaseTid
  <2>1. "unblockChild" \in Labels /\ TidLock \in AllSema /\ TidLock # IdleStarted
    BY SemaAssumption DEF Labels, AllSema
  <2> QED BY <1>11, <2>1, SemaUpInv DEF ReleaseTid
<1>12. CASE CreateEnd
  BY <1>12, CreateEndInv
<1>13. CASE IdleInit
  BY <1>13, IdleInitInv
<1>14. CASE IdleUp
  <2>1. "idleLoop" \in Labels /\ IdleStarted \in AllSema
    BY DEF Labels, AllSema
  <2>2. idleThread # NoThread
    BY <1>0, <1>14, ThreadAssumption DEF IdleUp
  <2> QED BY <1>14, <2>1, <2>2, SemaUpInv DEF IdleUp
<1>15. CASE IdleBlock
  <2>1. pc[current] = "idleLoop" /\ "idleHalt" \in Labels
    BY <1>15 DEF IdleBlock, Labels
  <2>2. ScheduleReady([status EXCEPT ![current] = "BLOCKED"], readyList)
    BY <2>1, LeaveCpu
  <2>3. /\ Schedule([status EXCEPT ![current] = "BLOCKED"], readyList)
        /\ pc' = [pc EXCEPT ![current] = "idleHalt"]
        /\ allList' \subseteq Thread
        /\ UNCHANGED <<idleThread, waitsFor, tidVars, value, waiters>>
    BY <1>0, <1>15 DEF IdleBlock, ThreadBlock, Goto
  <2> QED BY <2>1, <2>2, <2>3, SwitchPreserves
<1>16. CASE TimerInterrupt
  <2> DEFINE l == IF pc[current] = "idleHalt" THEN "idleLoop" ELSE pc[current]
  <2>1. /\ pc[current] \notin {"boot", "down"} /\ pc' = [pc EXCEPT ![current] = l]
        /\ UNCHANGED <<allList, idleThread, waitsFor, tidVars, value, waiters>>
    BY <1>16 DEF TimerInterrupt, IntrOn, ReturnFromHalt, Goto
  <2>2. l \in Labels
    BY <1>0 DEF Labels
  <2>3. CASE ThreadYield
    <3>1. ScheduleReady([status EXCEPT ![current] = "READY"],
                        IF current # idleThread THEN Append(readyList, current)
                                                ELSE readyList)
      BY <2>1, YieldCpu
    <3> QED BY <1>0, <2>1, <2>2, <2>3, <3>1, SwitchPreserves DEF ThreadYield
  <2>4. CASE ~(threadTicks + 1 >= TimeSlice)
    <3>1. threadTicks' = threadTicks + 1 /\ UNCHANGED <<status, readyList, current>>
      BY <1>16, <2>4 DEF TimerInterrupt
    <3>2. threadTicks' \in 0..(TimeSlice - 1)
      BY <3>1, <2>4, BoundAssumption DEF TypeOK
    <3>3. TypeOK'
      BY <1>0, <2>1, <2>2, <3>1, <3>2 DEF TypeOK, tidVars
    <3>4. Creating(current)' <=> Creating(current)
      BY <1>0, <2>1, <3>1 DEF Creating, TypeOK
    <3>5. idleThread = NoThread => value'[IdleStarted] = 0
      BY <2>1 DEF BootSequence
    <3>6. child' = child
      BY <2>1 DEF tidVars
    <3> QED BY <1>0, <2>1, <2>2, <3>1, <3>3, <3>4, <3>5, <3>6, LocalPreserves
  <2> QED BY <1>16, <2>3, <2>4 DEF TimerInterrupt
<1>17. CASE DeviceInterrupt
  <2> DEFINE l == IF pc[current] = "idleHalt" THEN "idleLoop" ELSE pc[current]
  <2>1. /\ pc[current] \notin {"boot", "down"} /\ Goto(l)
        /\ UNCHANGED <<allList, current, idleThread, threadTicks, waitsFor, tidVars>>
    BY <1>17 DEF DeviceInterrupt, IntrOn, ReturnFromHalt
  <2>2. PICK s \in IntrSema : SemaUp(s)
    BY <1>17 DEF DeviceInterrupt
  <2>3. s \in AllSema /\ s # IdleStarted
    BY SemaAssumption DEF AllSema
  <2>4. l \in Labels
    BY <1>0 DEF Labels
  <2> HIDE DEF l
  <2>5. l = pc[current] \/ (pc[current] = "idleHalt" /\ l = "idleLoop")
    BY DEF l
  <2> QED BY <2>1, <2>2, <2>3, <2>4, <2>5, SemaUpInv
<1>18. CASE UNCHANGED vars
  BY <1>18 DEF vars, TypeOK, OneRunning, ReadyListExact, WaitListsExact,
            PcMatchesStatus, BootSequence, ChildOwned, Creating
<1> QED BY <1>1, <1>2, <1>3, <1>4, <1>5, <1>6, <1>7, <1>8, <1>9, <1>10, <1>11,
           <1>12, <1>13, <1>14, <1>15, <1>16, <1>17, <1>18 DEF Next, ThreadStep

-----------------------------------------------------------------------------
(* The scheduler invariant holds in every reachable state of the kernel.   *)
THEOREM SchedulerInvariant == Spec => []SchedulerInv
<1>1. Init => SchedulerInv
  BY InitInv
<1>2. SchedulerInv /\ [Next]_vars => SchedulerInv'
  BY NextInv
<1> QED BY <1>1, <1>2, PTL DEF Spec

(* The CPU always runs a thread in a page in use, the only RUNNING one: the*)
(* assertions of thread_current() and schedule() never fire.               *)
THEOREM TypeCorrect == Spec => [](TypeOK /\ OneRunning)
<1>1. SchedulerInv => TypeOK /\ OneRunning
  BY DEF SchedulerInv
<1> QED BY <1>1, SchedulerInvariant, PTL

(* thread.h's argument for the dual use of `elem': the ready list holds    *)
(* exactly the READY threads, and each semaphore's wait list exactly those *)
(* that sleep in its sema_down(), each once.                               *)
THEOREM ListsCorrect == Spec => []ListsExact
<1>1. SchedulerInv => ListsExact
  BY DEF SchedulerInv, ListsExact
<1> QED BY <1>1, SchedulerInvariant, PTL

-----------------------------------------------------------------------------
(* Wakeups.  A step keeps the balance between a semaphore's value and its  *)
(* woken threads when the value does not grow, or grows by one with a      *)
(* thread that is woken, or when only the thread that takes a unit leaves. *)
LEMMA WakeBalance ==
  ASSUME NEW s \in AllSema, TypeOK, TypeOK', NoLostWakeup,
         \/ value'[s] = 0
         \/ waiters'[s] = <<>>
         \/ /\ waiters[s] # <<>>
            /\ value'[s] = value[s]
            /\ Woken(s) \subseteq Woken(s)'
         \/ /\ waiters[s] # <<>>
            /\ value'[s] = value[s] - 1
            /\ Woken(s) \ {current} \subseteq Woken(s)'
         \/ /\ waiters[s] # <<>>
            /\ value'[s] = value[s] + 1
            /\ \E h \in Thread : h \notin Woken(s) /\ Woken(s) \cup {h} \subseteq Woken(s)'
  PROVE  waiters'[s] # <<>> => Cardinality(Woken(s)') >= value'[s]
<1> DEFINE A == Woken(s)
           B == Woken(s)'
<1>1. /\ IsFiniteSet(A) /\ IsFiniteSet(B)
      /\ Cardinality(A) \in Nat /\ Cardinality(B) \in Nat
  <2>1. A \subseteq Thread /\ B \subseteq Thread
    BY DEF Woken
  <2> QED BY <2>1, ThreadAssumption, FS_Subset, FS_CardinalityType
<1>2. value[s] \in Nat /\ value'[s] \in Nat
  BY DEF TypeOK
<1>3. waiters[s] # <<>> => Cardinality(A) >= value[s]
  BY DEF NoLostWakeup
<1> HIDE DEF A, B
<1>4. CASE value'[s] = 0
  BY <1>1, <1>4 DEF B
<1>5. CASE waiters[s] # <<>> /\ value'[s] = value[s] /\ A \subseteq B
  <2>1. Cardinality(A) <= Cardinality(B)
    BY <1>1, <1>5, FS_Subset
  <2> QED BY <1>1, <1>2, <1>3, <1>5, <2>1 DEF B
<1>6. CASE waiters[s] # <<>> /\ value'[s] = value[s] - 1 /\ A \ {current} \subseteq B
  <2>0. /\ IsFiniteSet(A \ {current})
        /\ Cardinality(A \ {current}) = IF current \in A THEN Cardinality(A) - 1
                                                         ELSE Cardinality(A)
    BY <1>1, FS_RemoveElement
  <2>1. /\ IsFiniteSet(A \ {current})
        /\ Cardinality(A \ {current}) >= Cardinality(A) - 1
    BY <1>1, <2>0
  <2>2. Cardinality(A \ {current}) <= Cardinality(B)
    BY <1>1, <1>6, <2>1, FS_Subset
  <2>3. Cardinality(A \ {current}) \in Nat
    BY <2>1, FS_CardinalityType
  <2> QED BY <1>1, <1>2, <1>3, <1>6, <2>1, <2>2, <2>3 DEF B
<1>7. CASE /\ waiters[s] # <<>> /\ value'[s] = value[s] + 1
           /\ \E h \in Thread : h \notin A /\ A \cup {h} \subseteq B
  <2>1. PICK h \in Thread : h \notin A /\ A \cup {h} \subseteq B
    BY <1>7
  <2>2. IsFiniteSet(A \cup {h}) /\ Cardinality(A \cup {h}) = Cardinality(A) + 1
    BY <1>1, <2>1, FS_AddElement
  <2>3. Cardinality(A \cup {h}) <= Cardinality(B)
    BY <1>1, <2>1, <2>2, FS_Subset
  <2> QED BY <1>1, <1>2, <1>3, <1>7, <2>2, <2>3 DEF B
<1> QED BY <1>4, <1>5, <1>6, <1>7 DEF A, B

(* A step that leaves the semaphores alone and puts no woken thread to     *)
(* sleep.                                                                  *)
LEMMA WakeQuiet ==
  ASSUME TypeOK, TypeOK', NoLostWakeup, UNCHANGED <<value, waiters>>,
         \A t \in Thread : pc[t] = "down" /\ status[t] # "BLOCKED" =>
           /\ pc'[t] = "down" /\ waitsFor'[t] = waitsFor[t]
           /\ status'[t] # "BLOCKED"
  PROVE  NoLostWakeup'
<1> SUFFICES ASSUME NEW s \in AllSema, waiters'[s] # <<>>
             PROVE  Cardinality(Woken(s)') >= value'[s]
  BY DEF NoLostWakeup
<1>1. Woken(s) \subseteq Woken(s)'
  BY DEF Woken
<1> QED BY <1>1, WakeBalance

(* A thread that calls schedule() as x puts no other thread to sleep.      *)
LEMMA WakeSwitch ==
  ASSUME SchedulerInv, SchedulerInv', NoLostWakeup, UNCHANGED <<value, waiters, waitsFor>>,
         NEW x \in {"BLOCKED", "DYING", "READY"}, NEW ready, NEW l,
         ScheduleReady([status EXCEPT ![current] = x], ready),
         Schedule([status EXCEPT ![current] = x], ready),
         pc' = [pc EXCEPT ![current] = l], pc[current] # "down"
  PROVE  NoLostWakeup'
<1>1. current \in Thread /\ TypeOK /\ TypeOK'
  BY DEF SchedulerInv, TypeOK
<1> DEFINE st == [status EXCEPT ![current] = x]
<1>2. \A t \in Thread : status'[t] = "BLOCKED" <=> st[t] = "BLOCKED" /\ t # current'
  BY <1>1, ScheduleLemma, BoundAssumption
<1>3. \A t \in Thread : t # current => st[t] = status[t] /\ pc'[t] = pc[t]
  BY <1>1 DEF TypeOK
<1> HIDE DEF st
<1> QED BY <1>1, <1>2, <1>3, WakeQuiet

(* sema_up() wakes a sleeper with the unit it adds.                        *)
LEMMA WakeUp ==
  ASSUME SchedulerInv, SchedulerInv', NoLostWakeup, NEW r \in AllSema, SemaUp(r),
         NEW l, pc' = [pc EXCEPT ![current] = l], pc[current] # "down",
         UNCHANGED <<current, waitsFor>>
  PROVE  NoLostWakeup'
<1> SUFFICES ASSUME NEW s \in AllSema, waiters'[s] # <<>>
             PROVE  Cardinality(Woken(s)') >= value'[s]
  BY DEF NoLostWakeup
<1>1. current \in Thread /\ TypeOK /\ TypeOK' /\ WaitListsExact
  BY DEF SchedulerInv, TypeOK
<1>2. \A t \in Thread : pc[t] = "down" => pc'[t] = "down"
  BY <1>1 DEF TypeOK
<1>3. CASE waiters[r] # <<>>
  <2> DEFINE h == Head(waiters[r])
  <2>1. h \in Thread /\ h \in Elems(waiters[r])
    BY <1>1, <1>3, TailElems DEF TypeOK
  <2>2. status[h] = "BLOCKED" /\ pc[h] = "down" /\ waitsFor[h] = r
    BY <1>1, <2>1 DEF WaitListsExact
  <2>3. /\ status' = [status EXCEPT ![h] = "READY"]
        /\ value' = [value EXCEPT ![r] = @ + 1]
        /\ waiters' = [waiters EXCEPT ![r] = Tail(@)]
    BY <1>3 DEF SemaUp, ThreadUnblock
  <2> HIDE DEF h
  <2>4. Woken(s) \subseteq Woken(s)'
    BY <1>1, <1>2, <2>1, <2>3 DEF Woken, TypeOK
  <2>5. CASE s = r
    <3>1. h \notin Woken(s) /\ h \in Woken(s)'
      BY <1>1, <1>2, <2>1, <2>2, <2>3, <2>5 DEF Woken, TypeOK
    <3>2. value'[s] = value[s] + 1
      BY <1>1, <2>3, <2>5 DEF TypeOK
    <3> QED BY <1>1, <1>3, <2>1, <2>4, <2>5, <3>1, <3>2, WakeBalance
  <2>6. CASE s # r
    <3>1. value'[s] = value[s] /\ waiters'[s] = waiters[s]
      BY <1>1, <2>3, <2>6 DEF TypeOK
    <3> QED BY <1>1, <2>4, <3>1, WakeBalance
  <2> QED BY <2>5, <2>6
<1>4. CASE waiters[r] = <<>>
  <2>1. UNCHANGED <<waiters, status>> /\ value' = [value EXCEPT ![r] = @ + 1]
    BY <1>4 DEF SemaUp
  <2>2. s # r /\ value'[s] = value[s]
    BY <1>1, <1>4, <2>1 DEF TypeOK
  <2>3. Woken(s) \subseteq Woken(s)'
    BY <1>2, <2>1 DEF Woken
  <2> QED BY <1>1, <2>1, <2>2, <2>3, WakeBalance
<1> QED BY <1>3, <1>4

(* A pass through sema_down() takes a unit with at most the running thread *)
(* ceasing to be woken, or sleeps when there is none.                      *)
LEMMA WakeDown ==
  ASSUME SchedulerInv, SchedulerInv', NoLostWakeup, NEW r \in AllSema, SemaDown(r),
         pc[current] \in {"waitIdle", "run", "down", "lockTid"},
         pc[current] = "down" => r = waitsFor[current]
  PROVE  NoLostWakeup'
<1> SUFFICES ASSUME NEW s \in AllSema, waiters'[s] # <<>>
             PROVE  Cardinality(Woken(s)') >= value'[s]
  BY DEF NoLostWakeup
<1>1. current \in Thread /\ TypeOK /\ TypeOK'
  BY DEF SchedulerInv, TypeOK
<1>2. CASE /\ value[r] > 0 /\ value' = [value EXCEPT ![r] = @ - 1]
           /\ Goto(AfterDown(r)) /\ UNCHANGED <<schedVars, waitsFor, waiters>>
  <2>1. \A t \in Thread : t # current => pc'[t] = pc[t]
    BY <1>1, <1>2 DEF TypeOK, Goto
  <2>2. Woken(s) \ {current} \subseteq Woken(s)'
    BY <1>2, <2>1 DEF Woken, schedVars
  <2>3. CASE s = r
    <3>1. value'[s] = value[s] - 1
      BY <1>1, <1>2, <2>3 DEF TypeOK
    <3> QED BY <1>1, <1>2, <2>2, <3>1, WakeBalance
  <2>4. CASE s # r
    <3>1. value'[s] = value[s] /\ current \notin Woken(s)
      BY <1>1, <1>2, <2>4 DEF TypeOK, Woken
    <3>2. Woken(s) \subseteq Woken(s)'
      BY <2>2, <3>1
    <3> QED BY <1>1, <1>2, <3>1, <3>2, WakeBalance
  <2> QED BY <2>3, <2>4
<1>3. CASE /\ value[r] = 0 /\ waiters' = [waiters EXCEPT ![r] = Append(@, current)]
           /\ waitsFor' = [waitsFor EXCEPT ![current] = r]
           /\ Goto("down") /\ ThreadBlock /\ UNCHANGED value
  <2>1. CASE s = r
    BY <1>1, <1>3, <2>1, WakeBalance
  <2>2. CASE s # r
    <3> DEFINE st == [status EXCEPT ![current] = "BLOCKED"]
    <3>1. ScheduleReady(st, readyList)
      BY LeaveCpu
    <3>2. \A t \in Thread : status'[t] = "BLOCKED" <=> st[t] = "BLOCKED" /\ t # current'
      BY <1>1, <1>3, <3>1, ScheduleLemma, BoundAssumption DEF ThreadBlock
    <3>3. \A t \in Thread : t # current =>
            st[t] = status[t] /\ pc'[t] = pc[t] /\ waitsFor'[t] = waitsFor[t]
      BY <1>1, <1>3 DEF TypeOK, Goto
    <3> HIDE DEF st
    <3>4. current \notin Woken(s)
      BY <2>2 DEF Woken
    <3>5. Woken(s) \subseteq Woken(s)'
      BY <3>2, <3>3, <3>4 DEF Woken
    <3>6. waiters'[s] = waiters[s] /\ value'[s] = value[s]
      BY <1>1, <1>3, <2>2 DEF TypeOK
    <3> QED BY <1>1, <3>5, <3>6, WakeBalance
  <2> QED BY <2>1, <2>2
<1> QED BY <1>2, <1>3 DEF SemaDown

(* Every step of the kernel keeps the balance.                             *)
LEMMA WakeNext ==
  ASSUME SchedulerInv, SchedulerInv', NoLostWakeup, [Next]_vars
  PROVE  NoLostWakeup'
<1>0. /\ current \in Thread /\ status[current] = "RUNNING" /\ TypeOK /\ TypeOK'
      /\ pc = [pc EXCEPT ![current] = pc[current]]
  BY DEF SchedulerInv, TypeOK, OneRunning
<1>1. CASE ThreadStart
  <2>1. PICK t \in Thread :
          /\ status[t] = "NONE"
          /\ status' = [status EXCEPT ![t] = "READY"]
          /\ pc' = [pc EXCEPT ![t] = "idleInit", ![current] = "waitIdle"]
          /\ pc[current] = "boot"
    BY <1>1 DEF ThreadStart
  <2>2. pc[t] = "none"
    BY <2>1 DEF SchedulerInv, PcMatchesStatus
  <2>3. \A u \in Thread : pc[u] = "down" => pc'[u] = "down" /\ status'[u] = status[u]
    BY <1>0, <2>1, <2>2 DEF TypeOK
  <2>4. UNCHANGED <<value, waiters, waitsFor>>
    BY <1>1 DEF ThreadStart
  <2> QED BY <1>0, <2>3, <2>4, WakeQuiet
<1>2. CASE Down
  <2>1. IdleStarted \in AllSema /\ waitsFor[current] \in AllSema /\ Sema \subseteq AllSema
    BY <1>0 DEF TypeOK, AllSema
  <2> QED BY <1>2, <2>1, WakeDown DEF Down
<1>3. CASE TryDown
  <2>1. PICK r \in Sema : value[r] > 0 /\ value' = [value EXCEPT ![r] = @ - 1]
    BY <1>3 DEF TryDown
  <2>2. UNCHANGED <<status, pc, waitsFor, waiters>>
    BY <1>3 DEF TryDown, schedVars
  <2>3. ASSUME NEW s \in AllSema, waiters'[s] # <<>>
        PROVE  Cardinality(Woken(s)') >= value'[s]
    <3>1. Woken(s)' = Woken(s)
      BY <2>2 DEF Woken
    <3>2. value'[s] \in {value[s], value[s] - 1}
      BY <1>0, <2>1 DEF TypeOK, AllSema
    <3> QED BY <1>0, <2>2, <2>3, <3>1, <3>2, WakeBalance
  <2> QED BY <2>3 DEF NoLostWakeup
<1>4. CASE Up
  <2>1. /\ pc[current] = "run" /\ pc' = [pc EXCEPT ![current] = "run"]
        /\ UNCHANGED <<current, waitsFor>>
    BY <1>0, <1>4 DEF Up
  <2>2. PICK s \in Sema : SemaUp(s)
    BY <1>4 DEF Up
  <2> QED BY <2>1, <2>2, WakeUp DEF AllSema
<1>5. CASE Yield
  <2> DEFINE ready == IF current # idleThread THEN Append(readyList, current)
                                              ELSE readyList
  <2>1. /\ pc[current] = "run" /\ pc' = [pc EXCEPT ![current] = "run"]
        /\ Schedule([status EXCEPT ![current] = "READY"], ready)
        /\ UNCHANGED <<value, waiters, waitsFor>>
    BY <1>0, <1>5 DEF Yield, ThreadYield
  <2>2. ScheduleReady([status EXCEPT ![current] = "READY"], ready)
    BY <2>1, YieldCpu
  <2> QED BY <2>1, <2>2, WakeSwitch
<1>6. CASE ThreadExit
  <2>1. /\ pc[current] = "run" /\ pc' = [pc EXCEPT ![current] = "none"]
        /\ Schedule([status EXCEPT ![current] = "DYING"], readyList)
        /\ UNCHANGED <<value, waiters, waitsFor>>
    BY <1>6 DEF ThreadExit, Goto
  <2>2. current # idleThread
    BY <1>0, <2>1 DEF SchedulerInv, PcMatchesStatus
  <2>3. ScheduleReady([status EXCEPT ![current] = "DYING"], readyList)
    BY <2>1, <2>2, LeaveCpu
  <2> QED BY <2>1, <2>3, WakeSwitch
<1>7. CASE CreateBegin
  <2>1. PICK t \in Thread :
          /\ status[t] = "NONE"
          /\ status' = [status EXCEPT ![t] = "BLOCKED"]
          /\ pc' = [pc EXCEPT ![t] = "new", ![current] = "lockTid"]
          /\ pc[current] = "run"
    BY <1>7 DEF CreateBegin
  <2>2. pc[t] = "none"
    BY <2>1 DEF SchedulerInv, PcMatchesStatus
  <2>3. \A u \in Thread : pc[u] = "down" => pc'[u] = "down" /\ status'[u] = status[u]
    BY <1>0, <2>1, <2>2 DEF TypeOK
  <2>4. UNCHANGED <<value, waiters, waitsFor>>
    BY <1>7 DEF CreateBegin
  <2> QED BY <1>0, <2>3, <2>4, WakeQuiet
<1>8. CASE LockTid
  <2>1. TidLock \in AllSema
    BY DEF AllSema
  <2> QED BY <1>8, <2>1, WakeDown DEF LockTid
<1>9. CASE ReadTid \/ BumpTid \/ IdleInit
  <2>1. /\ UNCHANGED <<status, waitsFor, value, waiters>>
        /\ pc[current] # "down" /\ \E l \in Labels : pc' = [pc EXCEPT ![current] = l]
    BY <1>9 DEF ReadTid, BumpTid, IdleInit, Goto, schedVars, Labels
  <2>2. \A t \in Thread : pc[t] = "down" => pc'[t] = "down"
    BY <1>0, <2>1 DEF TypeOK
  <2> QED BY <1>0, <2>1, <2>2, WakeQuiet
<1>10. CASE ReleaseTid
  <2>1. TidLock \in AllSema
    BY DEF AllSema
  <2> QED BY <1>10, <2>1, WakeUp DEF ReleaseTid, Goto
<1>11. CASE CreateEnd
  <2>1. /\ status' = [status EXCEPT ![child[current]] = "READY"]
        /\ pc' = [pc EXCEPT ![child[current]] = "run", ![current] = "run"]
        /\ UNCHANGED <<value, waiters, waitsFor>>
        /\ pc[current] = "unblockChild"
    BY <1>11 DEF CreateEnd, ThreadUnblock
  <2>2. child[current] \in Thread /\ pc[child[current]] = "new"
    BY <1>0, <2>1 DEF SchedulerInv, ChildOwned, Creating
  <2>3. \A u \in Thread : pc[u] = "down" => pc'[u] = "down" /\ status'[u] = status[u]
    BY <1>0, <2>1, <2>2 DEF TypeOK
  <2> QED BY <1>0, <2>1, <2>3, WakeQuiet
<1>12. CASE IdleUp
  <2>1. IdleStarted \in AllSema
    BY DEF AllSema
  <2> QED BY <1>12, <2>1, WakeUp DEF IdleUp, Goto
<1>13. CASE IdleBlock
  <2>1. /\ pc[current] = "idleLoop" /\ pc' = [pc EXCEPT ![current] = "idleHalt"]
        /\ Schedule([status EXCEPT ![current] = "BLOCKED"], readyList)
        /\ UNCHANGED <<value, waiters, waitsFor>>
    BY <1>13 DEF IdleBlock, ThreadBlock, Goto
  <2>2. ScheduleReady([status EXCEPT ![current] = "BLOCKED"], readyList)
    BY <2>1, LeaveCpu
  <2> QED BY <2>1, <2>2, WakeSwitch
<1>14. CASE TimerInterrupt
  <2> DEFINE l == IF pc[current] = "idleHalt" THEN "idleLoop" ELSE pc[current]
             ready == IF current # idleThread THEN Append(readyList, current)
                                              ELSE readyList
  <2>1. /\ pc[current] \notin {"boot", "down"} /\ pc' = [pc EXCEPT ![current] = l]
        /\ UNCHANGED <<waitsFor, value, waiters>>
    BY <1>14 DEF TimerInterrupt, IntrOn, ReturnFromHalt, Goto
  <2> HIDE DEF l
  <2>2. CASE ThreadYield
    <3>1. ScheduleReady([status EXCEPT ![current] = "READY"], ready)
      BY <2>1, YieldCpu
    <3>2. Schedule([status EXCEPT ![current] = "READY"], ready)
      BY <2>2 DEF ThreadYield
    <3> QED BY <2>1, <3>1, <3>2, WakeSwitch
  <2>3. CASE UNCHANGED <<status, readyList, current>>
    <3>1. \A t \in Thread : pc[t] = "down" => pc'[t] = "down"
      BY <1>0, <2>1 DEF TypeOK
    <3> QED BY <1>0, <2>1, <2>3, <3>1, WakeQuiet
  <2> QED BY <1>14, <2>2, <2>3 DEF TimerInterrupt
<1>15. CASE DeviceInterrupt
  <2>1. PICK s \in IntrSema : SemaUp(s)
    BY <1>15 DEF DeviceInterrupt
  <2>2. s \in AllSema
    BY SemaAssumption DEF AllSema
  <2> QED BY <1>15, <2>1, <2>2, WakeUp DEF DeviceInterrupt, IntrOn, ReturnFromHalt, Goto
<1>16. CASE UNCHANGED vars
  BY <1>0, <1>16, WakeQuiet DEF vars
<1> QED BY <1>1, <1>2, <1>3, <1>4, <1>5, <1>6, <1>7, <1>8, <1>9, <1>10, <1>11,
           <1>12, <1>13, <1>14, <1>15, <1>16 DEF Next, ThreadStep

(* No wakeup is lost: while threads sleep on a semaphore, its value does   *)
(* not exceed the number of threads that sema_up() woke and that have yet  *)
(* to look at it, whatever sema_down()s barge in between.                  *)
THEOREM WakeupsKept == Spec => []NoLostWakeup
<1>1. Init => NoLostWakeup
  BY DEF Init, NoLostWakeup
<1>2. SchedulerInv /\ SchedulerInv' /\ NoLostWakeup /\ [Next]_vars => NoLostWakeup'
  BY WakeNext
<1> QED BY <1>1, <1>2, SchedulerInvariant, PTL DEF Spec

-----------------------------------------------------------------------------
(* A page is in use as long as its thread has a place in the code.         *)
LEMMA InUsePc ==
  ASSUME SchedulerInv, NEW t \in Thread
  PROVE  InUse(t) <=> pc[t] # "none"
BY DEF SchedulerInv, PcMatchesStatus, InUse

(* A step outside allocate_tid() that starts no thread.                    *)
LEMMA TidQuiet ==
  ASSUME SchedulerInv, SchedulerInv', TidInv, UNCHANGED <<tmpTid, tid, nextTid>>,
         value'[TidLock] = value[TidLock],
         \A t \in Thread : pc'[t] # pc[t] =>
           /\ pc[t] # "none"
           /\ ~HoldsTidLock(t) /\ ~HasNewTid(t)
           /\ ~HoldsTidLock(t)' /\ ~HasNewTid(t)'
  PROVE  TidInv'
<1>1. \A t \in Thread :
        /\ HoldsTidLock(t)' <=> HoldsTidLock(t)
        /\ HasNewTid(t)' <=> HasNewTid(t)
        /\ pc'[t] = "bumpTid" <=> pc[t] = "bumpTid"
  BY DEF HoldsTidLock, HasNewTid
<1>2. \A t \in Thread : InUse(t)' => InUse(t)
  <2>1. \A t \in Thread : InUse(t)' <=> pc'[t] # "none"
    BY DEF SchedulerInv, PcMatchesStatus, InUse
  <2> QED BY <2>1, InUsePc
<1>3. TidLockExclusive'
  BY <1>1 DEF TidInv, TidLockExclusive
<1>4. NewTidsFresh'
  BY <1>1, <1>2 DEF TidInv, NewTidsFresh
<1>5. UniqueTids'
  BY <1>2 DEF TidInv, UniqueTids
<1> QED BY <1>3, <1>4, <1>5 DEF TidInv

(* sema_down(): for tid_lock, whoever gets it enters allocate_tid() alone. *)
LEMMA TidDown ==
  ASSUME SchedulerInv, SchedulerInv', TidInv, NEW r \in AllSema, SemaDown(r),
         UNCHANGED tidVars,
         pc[current] \in {"waitIdle", "run", "down", "lockTid"}
  PROVE  TidInv'
<1>1. current \in Thread /\ TypeOK /\ TidLock \in AllSema /\ value[TidLock] \in Nat
  BY DEF SchedulerInv, TypeOK, AllSema
<1>2. UNCHANGED <<tmpTid, tid, nextTid>>
  BY DEF tidVars
<1>3. CASE /\ value[r] > 0 /\ value' = [value EXCEPT ![r] = @ - 1]
           /\ Goto(AfterDown(r)) /\ UNCHANGED <<schedVars, waitsFor, waiters>>
  <2>1. pc' = [pc EXCEPT ![current] = AfterDown(r)]
    BY <1>3 DEF Goto
  <2>2. CASE r # TidLock
    <3>1. value'[TidLock] = value[TidLock] /\ AfterDown(r) = "run"
      BY <1>1, <1>3, <2>2 DEF TypeOK, AfterDown
    <3> QED BY <1>1, <1>2, <2>1, <3>1, TidQuiet DEF TypeOK, HoldsTidLock, HasNewTid
  <2>3. CASE r = TidLock
    <3>1. value[TidLock] = 1 /\ value'[TidLock] = 0
      BY <1>1, <1>3, <2>3 DEF TypeOK, TidInv, TidLockExclusive
    <3>2. /\ pc'[current] = "readTid"
          /\ \A t \in Thread : t # current => pc'[t] = pc[t]
      BY <1>1, <2>1, <2>3 DEF TypeOK, AfterDown
    <3>3. \A t \in Thread : ~HoldsTidLock(t) /\ (HoldsTidLock(t)' <=> t = current)
      BY <3>1, <3>2 DEF TidInv, TidLockExclusive, HoldsTidLock
    <3>4. /\ \A t \in Thread : HasNewTid(t)' <=> HasNewTid(t)
          /\ \A t \in Thread : pc'[t] = "bumpTid" <=> pc[t] = "bumpTid"
          /\ \A t \in Thread : InUse(t)' <=> InUse(t)
      BY <1>1, <1>3, <3>2 DEF HasNewTid, InUse, schedVars
    <3>5. TidLockExclusive'
      BY <3>1, <3>3 DEF TidLockExclusive
    <3>6. NewTidsFresh'
      BY <1>2, <3>4 DEF TidInv, NewTidsFresh
    <3>7. UniqueTids'
      BY <1>2, <3>4 DEF TidInv, UniqueTids
    <3> QED BY <3>5, <3>6, <3>7 DEF TidInv
  <2> QED BY <2>2, <2>3
<1>4. CASE /\ value[r] = 0 /\ waiters' = [waiters EXCEPT ![r] = Append(@, current)]
           /\ waitsFor' = [waitsFor EXCEPT ![current] = r]
           /\ Goto("down") /\ ThreadBlock /\ UNCHANGED value
  <2>1. pc' = [pc EXCEPT ![current] = "down"] /\ value'[TidLock] = value[TidLock]
    BY <1>4 DEF Goto
  <2> QED BY <1>1, <1>2, <2>1, TidQuiet DEF TypeOK, HoldsTidLock, HasNewTid
<1> QED BY <1>3, <1>4 DEF SemaDown

(* The steps that change the tids.                                         *)
LEMMA TidSteps ==
  ASSUME SchedulerInv, SchedulerInv', TidInv,
         ThreadStart \/ CreateBegin \/ ReadTid \/ BumpTid \/ ReleaseTid \/ CreateEnd
  PROVE  TidInv'
<1>0. /\ current \in Thread /\ TypeOK /\ TypeOK' /\ TidLock \in AllSema
      /\ \A t \in Thread : InUse(t) <=> pc[t] # "none"
      /\ \A t \in Thread : InUse(t)' <=> pc'[t] # "none"
      /\ \A t \in Thread : tid[t] \in Nat /\ tmpTid[t] \in Nat
      /\ nextTid \in Nat /\ value[TidLock] \in Nat
  BY DEF SchedulerInv, TypeOK, AllSema, PcMatchesStatus, InUse
<1>1. CASE ThreadStart
  <2>1. PICK t \in Thread :
          /\ status[t] = "NONE"
          /\ tid' = [tid EXCEPT ![t] = nextTid]
          /\ pc' = [pc EXCEPT ![t] = "idleInit", ![current] = "waitIdle"]
          /\ pc[current] = "boot"
          /\ nextTid' = nextTid + 1 /\ UNCHANGED <<tmpTid, value>>
    BY <1>1 DEF ThreadStart
  <2>2. pc[t] = "none" /\ current = Main /\ \A u \in Thread \ {Main} : pc[u] = "none"
    BY <1>0, <2>1 DEF SchedulerInv, PcMatchesStatus, BootSequence
  <2>3. /\ pc'[t] = "idleInit" /\ pc'[current] = "waitIdle"
        /\ \A u \in Thread : u \notin {t, current} => pc'[u] = "none"
        /\ tid'[t] = nextTid
        /\ \A u \in Thread : u # t => tid'[u] = tid[u]
    BY <1>0, <2>1, <2>2 DEF TypeOK
  <2>4. /\ \A u \in Thread : ~HoldsTidLock(u)' /\ ~HasNewTid(u)' /\ pc'[u] # "bumpTid"
        /\ \A u \in Thread : InUse(u)' => u \in {t, current}
        /\ t # current
    BY <1>0, <2>1, <2>2, <2>3 DEF HoldsTidLock, HasNewTid
  <2>5. \A u \in Thread : tid'[u] < nextTid'
    BY <1>0, <2>1, <2>3 DEF TidInv, NewTidsFresh
  <2>6. tid'[t] # tid'[current]
    BY <1>0, <2>1, <2>3, <2>4 DEF TidInv, NewTidsFresh
  <2>7. TidLockExclusive'
    BY <2>1, <2>4 DEF TidInv, TidLockExclusive
  <2>8. NewTidsFresh'
    BY <2>4, <2>5 DEF NewTidsFresh
  <2>9. UniqueTids'
    BY <2>4, <2>6 DEF UniqueTids
  <2> QED BY <2>7, <2>8, <2>9 DEF TidInv
<1>2. CASE CreateBegin
  <2>1. PICK t \in Thread :
          /\ status[t] = "NONE"
          /\ tid' = [tid EXCEPT ![t] = 0]
          /\ pc' = [pc EXCEPT ![t] = "new", ![current] = "lockTid"]
          /\ pc[current] = "run"
          /\ UNCHANGED <<tmpTid, nextTid, value>>
    BY <1>2 DEF CreateBegin
  <2>2. pc[t] = "none" /\ nextTid > 0
    BY <1>0, <2>1 DEF SchedulerInv, PcMatchesStatus, TidInv, NewTidsFresh
  <2>3. /\ pc'[t] = "new" /\ pc'[current] = "lockTid"
        /\ \A u \in Thread : u \notin {t, current} => pc'[u] = pc[u]
        /\ tid'[t] = 0
        /\ \A u \in Thread : u # t => tid'[u] = tid[u]
    BY <1>0, <2>1, <2>2 DEF TypeOK
  <2>4. \A u \in Thread :
          /\ HoldsTidLock(u)' <=> HoldsTidLock(u)
          /\ HasNewTid(u)' <=> HasNewTid(u)
          /\ pc'[u] = "bumpTid" <=> pc[u] = "bumpTid"
          /\ u # t => (InUse(u)' <=> InUse(u))
    BY <1>0, <2>1, <2>2, <2>3 DEF HoldsTidLock, HasNewTid
  <2>5. \A u \in Thread : HasNewTid(u) => tmpTid[u] > 0
    BY <1>0 DEF TidInv, NewTidsFresh
  <2>6. TidLockExclusive'
    BY <2>1, <2>4 DEF TidInv, TidLockExclusive
  <2>7. NewTidsFresh'
    <3>1. \A u \in Thread : tid'[u] < nextTid' /\ (pc'[u] = "bumpTid" => tmpTid'[u] = nextTid')
      BY <1>0, <2>1, <2>2, <2>3, <2>4, ZenonT(60) DEF TidInv, NewTidsFresh
    <3>2. ASSUME NEW v \in Thread, HasNewTid(v)'
          PROVE  /\ 0 < tmpTid'[v] /\ tmpTid'[v] < nextTid'
                 /\ \A u \in Thread : InUse(u)' => tid'[u] # tmpTid'[v]
                 /\ \A u \in Thread : HasNewTid(u)' /\ u # v => tmpTid'[u] # tmpTid'[v]
      <4>1. HasNewTid(v) /\ tmpTid'[v] = tmpTid[v] /\ tmpTid[v] > 0
        BY <2>1, <2>4, <2>5, <3>2
      <4>2. \A u \in Thread : InUse(u)' => tid'[u] # tmpTid'[v]
        BY <1>0, <2>3, <2>4, <4>1 DEF TidInv, NewTidsFresh
      <4> QED BY <2>1, <2>4, <4>1, <4>2 DEF TidInv, NewTidsFresh
    <3> QED BY <3>1, <3>2 DEF NewTidsFresh
  <2>8. UniqueTids'
    BY <2>3, <2>4 DEF TidInv, UniqueTids
  <2> QED BY <2>6, <2>7, <2>8 DEF TidInv
<1>3. CASE ReadTid
  <2>1. /\ pc[current] = "readTid" /\ pc' = [pc EXCEPT ![current] = "bumpTid"]
        /\ tmpTid' = [tmpTid EXCEPT ![current] = nextTid]
        /\ UNCHANGED <<tid, nextTid, value>>
    BY <1>3 DEF ReadTid, Goto
  <2>2. /\ pc'[current] = "bumpTid" /\ tmpTid'[current] = nextTid
        /\ \A u \in Thread : u # current => pc'[u] = pc[u] /\ tmpTid'[u] = tmpTid[u]
    BY <1>0, <2>1 DEF TypeOK
  <2> QED BY <1>0, <2>1, <2>2 DEF TidInv, TidLockExclusive, NewTidsFresh, UniqueTids, HoldsTidLock, HasNewTid
<1>4. CASE BumpTid
  <2>1. /\ pc[current] = "bumpTid" /\ pc' = [pc EXCEPT ![current] = "releaseTid"]
        /\ nextTid' = tmpTid[current] + 1
        /\ UNCHANGED <<tid, tmpTid, value>>
    BY <1>4 DEF BumpTid, Goto
  <2>2. /\ pc'[current] = "releaseTid"
        /\ \A u \in Thread : u # current => pc'[u] = pc[u]
    BY <1>0, <2>1 DEF TypeOK
  <2>3. tmpTid[current] = nextTid
    BY <1>0, <2>1 DEF TidInv, NewTidsFresh
  <2> QED BY <1>0, <2>1, <2>2, <2>3 DEF TidInv, TidLockExclusive, NewTidsFresh, UniqueTids, HoldsTidLock, HasNewTid
<1>5. CASE ReleaseTid
  <2>1. /\ pc[current] = "releaseTid" /\ pc' = [pc EXCEPT ![current] = "unblockChild"]
        /\ value' = [value EXCEPT ![TidLock] = @ + 1]
        /\ UNCHANGED <<tid, tmpTid, nextTid>>
    BY <1>5 DEF ReleaseTid, Goto, SemaUp, tidVars
  <2>2. /\ pc'[current] = "unblockChild" /\ value'[TidLock] = value[TidLock] + 1
        /\ \A u \in Thread : u # current => pc'[u] = pc[u]
    BY <1>0, <2>1 DEF TypeOK
  <2> QED BY <1>0, <2>1, <2>2 DEF TidInv, TidLockExclusive, NewTidsFresh, UniqueTids, HoldsTidLock, HasNewTid
<1>6. CASE CreateEnd
  <2> DEFINE c == child[current]
  <2>1. /\ pc[current] = "unblockChild"
        /\ pc' = [pc EXCEPT ![c] = "run", ![current] = "run"]
        /\ tid' = [tid EXCEPT ![c] = tmpTid[current]]
        /\ tmpTid' = [tmpTid EXCEPT ![current] = 0]
        /\ UNCHANGED <<nextTid, value>>
    BY <1>6 DEF CreateEnd
  <2>2. c \in Thread /\ pc[c] = "new"
    BY <1>0, <2>1 DEF SchedulerInv, ChildOwned, Creating
  <2> HIDE DEF c
  <2>3. /\ pc'[c] = "run" /\ pc'[current] = "run"
        /\ \A u \in Thread : u \notin {c, current} => pc'[u] = pc[u]
        /\ tid'[c] = tmpTid[current]
        /\ \A u \in Thread : u # c => tid'[u] = tid[u]
        /\ \A u \in Thread : u # current => tmpTid'[u] = tmpTid[u]
    BY <1>0, <2>1, <2>2 DEF TypeOK
  <2>4. TidLockExclusive'
    <3>1. \A u \in Thread : HoldsTidLock(u)' <=> HoldsTidLock(u)
      BY <2>1, <2>2, <2>3 DEF HoldsTidLock
    <3> QED BY <2>1, <3>1 DEF TidInv, TidLockExclusive
  <2>8. \A u \in Thread :
          /\ HasNewTid(u)' <=> HasNewTid(u) /\ u # current
          /\ pc'[u] = "bumpTid" <=> pc[u] = "bumpTid"
          /\ InUse(u)' <=> InUse(u)
    BY <1>0, <2>1, <2>2, <2>3 DEF HasNewTid
  <2>9. /\ HasNewTid(current) /\ tmpTid[current] < nextTid
        /\ \A u \in Thread : InUse(u) => tid[u] # tmpTid[current]
        /\ \A u \in Thread : HasNewTid(u) /\ u # current => tmpTid[u] # tmpTid[current]
    BY <1>0, <2>1 DEF TidInv, NewTidsFresh, HasNewTid
  <2>5. NewTidsFresh'
    <3>1. \A u \in Thread : tid'[u] < nextTid' /\ (pc'[u] = "bumpTid" => tmpTid'[u] = nextTid')
      BY <1>0, <2>1, <2>2, <2>3, <2>8, <2>9, ZenonT(60) DEF TidInv, NewTidsFresh
    <3>2. ASSUME NEW v \in Thread, HasNewTid(v)'
          PROVE  /\ 0 < tmpTid'[v] /\ tmpTid'[v] < nextTid'
                 /\ \A u \in Thread : InUse(u)' => tid'[u] # tmpTid'[v]
                 /\ \A u \in Thread : HasNewTid(u)' /\ u # v => tmpTid'[u] # tmpTid'[v]
      <4>1. HasNewTid(v) /\ tmpTid'[v] = tmpTid[v] /\ v # current
        BY <2>3, <2>8, <3>2
      <4>2. \A u \in Thread : InUse(u)' => tid'[u] # tmpTid'[v]
        BY <2>3, <2>8, <2>9, <4>1 DEF TidInv, NewTidsFresh
      <4> QED BY <2>1, <2>3, <2>8, <4>1, <4>2 DEF TidInv, NewTidsFresh
    <3> QED BY <3>1, <3>2 DEF NewTidsFresh
  <2>6. UniqueTids'
    BY <2>3, <2>8, <2>9 DEF TidInv, UniqueTids
  <2> QED BY <2>4, <2>5, <2>6 DEF TidInv
<1> QED BY <1>1, <1>2, <1>3, <1>4, <1>5, <1>6

(* Every step of the kernel keeps the tids apart.                          *)
LEMMA TidNext ==
  ASSUME SchedulerInv, SchedulerInv', TidInv, [Next]_vars
  PROVE  TidInv'
<1>0. current \in Thread /\ TypeOK /\ TidLock \in AllSema
  BY DEF SchedulerInv, TypeOK, AllSema
<1> USE DEF HoldsTidLock, HasNewTid
<1>1. CASE ThreadStart \/ CreateBegin \/ ReadTid \/ BumpTid \/ ReleaseTid \/ CreateEnd
  BY <1>1, TidSteps
<1>2. CASE Down
  <2>1. IdleStarted \in AllSema /\ waitsFor[current] \in AllSema /\ Sema \subseteq AllSema
    BY <1>0 DEF TypeOK, AllSema
  <2> QED BY <1>2, <2>1, TidDown DEF Down
<1>3. CASE LockTid
  BY <1>0, <1>3, TidDown DEF LockTid
<1>4. CASE TryDown \/ Up
  <2>1. PICK s \in Sema : \/ value' = [value EXCEPT ![s] = @ - 1]
                          \/ value' = [value EXCEPT ![s] = @ + 1]
    BY <1>4 DEF TryDown, Up, SemaUp
  <2>2. UNCHANGED <<pc, tmpTid, tid, nextTid>>
    BY <1>4 DEF TryDown, Up, tidVars
  <2>3. value'[TidLock] = value[TidLock]
    BY <1>0, <2>1, SemaAssumption DEF TypeOK
  <2> QED BY <2>2, <2>3, TidQuiet
<1>5. CASE Yield \/ ThreadExit \/ IdleInit \/ IdleBlock
  <2>1. /\ UNCHANGED <<value, tmpTid, tid, nextTid>>
        /\ pc[current] \in {"run", "idleInit", "idleLoop"}
        /\ \E l \in {"run", "none", "idleUp", "idleHalt"} :
             pc' = [pc EXCEPT ![current] = l]
    BY <1>0, <1>5 DEF Yield, ThreadExit, IdleInit, IdleBlock, Goto, tidVars, TypeOK
  <2> QED BY <1>0, <2>1, TidQuiet DEF TypeOK
<1>6. CASE IdleUp
  <2>1. /\ UNCHANGED <<tmpTid, tid, nextTid>> /\ pc[current] = "idleUp"
        /\ pc' = [pc EXCEPT ![current] = "idleLoop"]
        /\ value' = [value EXCEPT ![IdleStarted] = @ + 1]
    BY <1>6 DEF IdleUp, Goto, SemaUp, tidVars
  <2>2. value'[TidLock] = value[TidLock]
    BY <1>0, <2>1, SemaAssumption DEF TypeOK
  <2> QED BY <1>0, <2>1, <2>2, TidQuiet DEF TypeOK
<1>7. CASE TimerInterrupt \/ DeviceInterrupt
  <2>1. /\ UNCHANGED <<tmpTid, tid, nextTid>>
        /\ pc' = [pc EXCEPT ![current] = IF pc[current] = "idleHalt" THEN "idleLoop"
                                         ELSE pc[current]]
    BY <1>7 DEF TimerInterrupt, DeviceInterrupt, ReturnFromHalt, Goto, tidVars
  <2>2. \/ UNCHANGED value
        \/ \E s \in IntrSema : value' = [value EXCEPT ![s] = @ + 1]
    BY <1>7 DEF TimerInterrupt, DeviceInterrupt, SemaUp
  <2>3. value'[TidLock] = value[TidLock]
    BY <1>0, <2>2, SemaAssumption DEF TypeOK
  <2>4. \A t \in Thread : pc'[t] # pc[t] => pc[t] = "idleHalt" /\ pc'[t] = "idleLoop"
    BY <1>0, <2>1 DEF TypeOK
  <2> QED BY <2>1, <2>3, <2>4, TidQuiet
<1>8. CASE UNCHANGED vars
  BY <1>8, TidQuiet DEF vars
<1> QED BY <1>1, <1>2, <1>3, <1>4, <1>5, <1>6, <1>7, <1>8 DEF Next, ThreadStep

(* allocate_tid() gives no two threads alive together the same tid, though *)
(* next_tid++ is a load and a store and pages are reused.                  *)
THEOREM TidsUnique == Spec => []UniqueTids
<1>1. Init => TidInv
  BY ThreadAssumption, SemaAssumption DEF Init, TidInv, TidLockExclusive, NewTidsFresh,
     UniqueTids, HoldsTidLock, HasNewTid, InUse, AllSema
<1>2. SchedulerInv /\ SchedulerInv' /\ TidInv /\ [Next]_vars => TidInv'
  BY TidNext
<1>3. TidInv => UniqueTids
  BY DEF TidInv
<1> QED BY <1>1, <1>2, <1>3, SchedulerInvariant, PTL DEF Spec
=============================================================================
