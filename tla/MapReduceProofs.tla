-------------------------- MODULE MapReduceProofs ---------------------------
(***************************************************************************)
(* Proofs about the MapReduce cluster, for any number of workers, clients  *)
(* and tasks, any timeout and any bounds on losses, retransmissions and    *)
(* crashes.                                                                *)
(*                                                                         *)
(* Two inductive invariants.  ClusterInv holds in every regime: the types, *)
(* a task in the hands of every busy worker, and the exact queue; it gives *)
(* QueueExact and OutcomeFinal.  OrderlyCluster holds in a timely regime   *)
(* (every report arrives before the task times out, nothing is sent        *)
(* twice): one job for each client, one worker for each task under way,    *)
(* complete files for each task that is done, and counters equal to the    *)
(* number of tasks done; it gives ReduceAfterMaps and PromptlyToldTruth.   *)
(***************************************************************************)
EXTENDS MapReduce, FiniteSetTheorems, WellFoundedInduction, TLAPS

-----------------------------------------------------------------------------
(* The network.                                                            *)
LEMMA SendBag ==
  ASSUME IsABag(wire), NEW m, Send(m)
  PROVE  /\ IsABag(wire')
         /\ BagToSet(wire') = BagToSet(wire) \cup {m}
         /\ \A n \in BagToSet(wire) : n # m => wire'[n] = wire[n]
         /\ m \notin BagToSet(wire) => wire'[m] = 1
BY DEF Send, IsABag, BagToSet, SetToBag, (+)

LEMMA ReceiveBag ==
  ASSUME IsABag(wire), NEW m, Receive(m)
  PROVE  /\ IsABag(wire')
         /\ m \in BagToSet(wire)
         /\ BagToSet(wire') \subseteq BagToSet(wire)
         /\ \A n \in BagToSet(wire) : n # m => n \in BagToSet(wire') /\ wire'[n] = wire[n]
         /\ wire[m] = 1 => m \notin BagToSet(wire')
BY DEF Receive, IsABag, BagToSet, SetToBag, BagIn, (-)

(* The smallest of some natural numbers.                                   *)
LEMMA MinNat ==
  ASSUME NEW S \in SUBSET Nat, S # {}
  PROVE  Min(S) \in S /\ \A x \in S : Min(S) <= x
<1> DEFINE Upto(m) == S \cap (0..m)
           F == {Upto(m) : m \in S}
<1>1. F \subseteq FiniteSubsetsOf(Nat) /\ F # {}
  <2>1. \A m \in S : IsFiniteSet(Upto(m))
    <3> SUFFICES ASSUME NEW m \in S PROVE IsFiniteSet(Upto(m))
      OBVIOUS
    <3>1. IsFiniteSet(0..m)
      BY FS_Interval
    <3> QED BY <3>1, FS_Subset
  <2> QED BY <2>1 DEF FiniteSubsetsOf
<1>2. \E T \in F : \A U \in F : ~(<<U, T>> \in StrictSubsetOrdering(Nat))
  <2> HIDE DEF F
  <2> QED BY <1>1, FS_StrictSubsetOrderingWellFounded, WFMin
<1>3. PICK m \in S : \A n \in S : ~(<<Upto(n), Upto(m)>> \in StrictSubsetOrdering(Nat))
  BY <1>2
<1>4. \A n \in S : m <= n
  <2> SUFFICES ASSUME NEW n \in S, n < m PROVE FALSE
    OBVIOUS
  <2>1. Upto(n) \subseteq Upto(m) /\ m \in Upto(m) /\ m \notin Upto(n)
    OBVIOUS
  <2> QED BY <1>3, <2>1 DEF StrictSubsetOrdering
<1> QED BY <1>4 DEF Min

-----------------------------------------------------------------------------
(* Tables, tasks and jobs.                                                 *)
LEMMA RegimeType ==
  ASSUME TypeOK
  PROVE  /\ regime.maps \in Nat \ {0} /\ regime.reduces \in Nat \ {0}
         /\ regime.retries \in Nat /\ regime.losses \in Nat /\ regime.crashes \in Nat
         /\ regime.prompt \in BOOLEAN
         /\ \A k \in Kinds : Count(k) \in Nat \ {0} /\ Indices(k) \subseteq Nat
BY MRBounds DEF TypeOK, Count, Indices, Kinds

LEMMA TableAt ==
  ASSUME NEW S, NEW f
  PROVE  f \in Table(S) <=> /\ f = [k \in Kinds |-> f[k]]
                            /\ \A k \in Kinds : f[k] \in [Indices(k) -> S]
BY DEF Table

LEMMA FilledType ==
  ASSUME NEW S, NEW x \in S
  PROVE  /\ Filled(x) \in Table(S)
         /\ \A k \in Kinds : \A i \in Indices(k) : Filled(x)[k][i] = x
BY DEF Filled, Table

(* One element of a table changes.                                         *)
SetCell(f, k, i, x) == [f EXCEPT ![k][i] = x]

LEMMA TableExcept ==
  ASSUME NEW S, NEW f \in Table(S), NEW k \in Kinds, NEW i \in Indices(k), NEW x \in S
  PROVE  /\ SetCell(f, k, i, x) \in Table(S)
         /\ \A l \in Kinds : \A n \in Indices(l) :
              SetCell(f, k, i, x)[l][n] = IF l = k /\ n = i THEN x ELSE f[l][n]
<1> DEFINE g == SetCell(f, k, i, x)
<1>1. f = [l \in Kinds |-> f[l]] /\ \A l \in Kinds : f[l] \in [Indices(l) -> S]
  BY TableAt
<1>2. /\ g = [l \in Kinds |-> g[l]]
      /\ \A l \in Kinds : g[l] = IF l = k THEN [f[l] EXCEPT ![i] = x] ELSE f[l]
  BY <1>1 DEF SetCell
<1>3. \A l \in Kinds : g[l] \in [Indices(l) -> S]
  BY <1>1, <1>2
<1>4. g \in Table(S)
  BY <1>2, <1>3, TableAt
<1> QED BY <1>1, <1>2, <1>4

LEMMA CellsAt ==
  ASSUME NEW S, NEW f \in Table(S), NEW k \in Kinds, NEW i \in Indices(k), NEW x \in S,
         NEW l \in Kinds, NEW n \in Indices(l)
  PROVE  SetCell(f, k, i, x)[l][n] = IF l = k /\ n = i THEN x ELSE f[l][n]
BY TableExcept

LEMMA TaskFields ==
  ASSUME NEW t
  PROVE  t \in AllTasks <=>
           /\ t = [job |-> t.job, kind |-> t.kind, index |-> t.index]
           /\ t.job \in DOMAIN all_job /\ t.kind \in Kinds /\ t.index \in Indices(t.kind)
BY DEF AllTasks, JobTasks, TasksOf

LEMMA JobTaskFields ==
  ASSUME NEW t, NEW j \in DOMAIN all_job
  PROVE  t \in JobTasks(j) <=> t \in AllTasks /\ t.job = j
BY DEF AllTasks, JobTasks, TasksOf

(* What the state of a job is made of.                                     *)
LEMMA JobType ==
  ASSUME TypeOK, NEW j \in DOMAIN all_job
  PROVE  /\ all_job[j] \in Job
         /\ all_job[j].client \in Client
         /\ all_job[j].done \in BOOLEAN /\ all_job[j].failed \in BOOLEAN
         /\ \A k \in Kinds :
              /\ all_job[j].finished[k] \in Nat
              /\ \A i \in Indices(k) :
                   /\ all_job[j].time[k][i] \in Unassigned .. TaskTimeout
                   /\ all_job[j].success[k][i] \in BOOLEAN
<1>1. all_job[j] \in Job
  BY DEF TypeOK
<1>2. /\ all_job[j].client \in Client
      /\ all_job[j].done \in BOOLEAN /\ all_job[j].failed \in BOOLEAN
      /\ all_job[j].finished \in [Kinds -> Nat]
      /\ all_job[j].time \in Table(Unassigned .. TaskTimeout)
      /\ all_job[j].success \in Table(BOOLEAN)
  BY <1>1 DEF Job
<1>3. /\ \A k \in Kinds : all_job[j].time[k] \in [Indices(k) -> Unassigned .. TaskTimeout]
      /\ \A k \in Kinds : all_job[j].success[k] \in [Indices(k) -> BOOLEAN]
  BY <1>2, TableAt
<1> QED BY <1>1, <1>2, <1>3

LEMMA JobIds ==
  ASSUME TypeOK
  PROVE  DOMAIN all_job = 1..next_id /\ Queued \subseteq DOMAIN all_job
BY DEF TypeOK, Queued

(* The first of a job's tasks in the order of the loops.                   *)
Before(t, u) == \/ t.kind = "map" /\ u.kind = "reduce"
                \/ t.kind = u.kind /\ t.index <= u.index

LEMMA FirstTask ==
  ASSUME TypeOK, NEW S, S \subseteq AllTasks, S # {}
  PROVE  \E t \in S : \A u \in S : t.job = u.job => Before(t, u)
<1>1. \A t \in S : t.kind \in {"map", "reduce"} /\ t.index \in Nat
  BY TaskFields, RegimeType DEF Kinds
<1> DEFINE K == IF \E t \in S : t.kind = "map" THEN "map" ELSE "reduce"
           Ns == {t.index : t \in {u \in S : u.kind = K}}
<1>2. Ns \in SUBSET Nat /\ Ns # {}
  BY <1>1
<1>3. PICK n \in Ns : \A m \in Ns : n <= m
  <2> HIDE DEF Ns
  <2> QED BY <1>2, MinNat
<1>4. PICK t \in S : t.kind = K /\ t.index = n
  BY <1>3
<1>5. \A u \in S : Before(t, u)
  BY <1>1, <1>3, <1>4 DEF Before
<1> QED BY <1>4, <1>5

(* get_task_1_svc() looks through the queue and hands out a task that may  *)
(* be run and that was never handed out, or has timed out unfinished.      *)
LEMMA FirstOfType ==
  ASSUME TypeOK, NEW found, \A j \in Queued : found[j] \subseteq JobTasks(j),
         \E j \in Queued : found[j] # {}
  PROVE  \E j \in Queued : FirstOf(found) \in found[j]
<1> DEFINE Ns == {n \in DOMAIN waiting_queue : found[waiting_queue[n]] # {}}
<1>1. Ns \in SUBSET Nat /\ Ns # {}
  <2>1. DOMAIN waiting_queue \subseteq Nat
    BY DEF TypeOK
  <2> QED BY <2>1 DEF Queued
<1>2. PICK n \in Ns : n = Min(Ns)
  <2> HIDE DEF Ns
  <2> QED BY <1>1, MinNat
<1> DEFINE j == waiting_queue[n]
<1>3. j \in Queued /\ found[j] # {}
  BY DEF Queued
<1>4. found[j] \subseteq AllTasks /\ \A t \in found[j] : t.job = j
  BY <1>3, JobIds, JobTaskFields
<1> DEFINE P(t) == \A u \in found[j] : \/ t.kind = "map" /\ u.kind = "reduce"
                                       \/ t.kind = u.kind /\ t.index <= u.index
<1>5. FirstOf(found) = CHOOSE t \in found[j] : P(t)
  BY <1>2, Zenon DEF FirstOf
<1>6. \E t \in found[j] : P(t)
  <2> HIDE DEF j
  <2>1. \E t \in found[j] : \A u \in found[j] : Before(t, u)
    BY <1>3, <1>4, FirstTask
  <2> QED BY <2>1 DEF Before
<1>7. FirstOf(found) \in found[j]
  <2> HIDE DEF j, P
  <2> QED BY <1>5, <1>6
<1> QED BY <1>3, <1>7

LEMMA NextTaskChoice ==
  ASSUME TypeOK
  PROVE  \/ NextTask = NoTask
         \/ /\ NextTask \in AllTasks /\ NextTask.job \in Queued
            /\ NextTask \in Open(NextTask.job)
            /\ Expired(NextTask) \/ Time(NextTask) = Unassigned
<1> DEFINE expired == [j \in Queued |-> ExpiredTasks(j)]
           unassigned == [j \in Queued |-> UnassignedTasks(j)]
<1>1. \A j \in Queued : Open(j) \subseteq JobTasks(j)
  BY DEF Open, JobTasks, Kinds
<1>2. CASE \E j \in Queued : expired[j] # {}
  <2>1. NextTask = FirstOf(expired)
    BY <1>2 DEF NextTask
  <2>2. \A j \in Queued : expired[j] \subseteq JobTasks(j)
    BY <1>1 DEF ExpiredTasks
  <2> HIDE DEF expired
  <2>3. PICK j \in Queued : NextTask \in expired[j]
    BY <1>2, <2>1, <2>2, FirstOfType
  <2>4. NextTask \in JobTasks(j) /\ NextTask \in AllTasks /\ NextTask.job = j
    BY <2>2, <2>3, JobIds, JobTaskFields
  <2> QED BY <2>3, <2>4 DEF expired, ExpiredTasks
<1>3. CASE (~\E j \in Queued : expired[j] # {}) /\ \E j \in Queued : unassigned[j] # {}
  <2>1. NextTask = FirstOf(unassigned)
    BY <1>3 DEF NextTask
  <2>2. \A j \in Queued : unassigned[j] \subseteq JobTasks(j)
    BY <1>1 DEF UnassignedTasks
  <2> HIDE DEF unassigned
  <2>3. PICK j \in Queued : NextTask \in unassigned[j]
    BY <1>3, <2>1, <2>2, FirstOfType
  <2>4. NextTask \in JobTasks(j) /\ NextTask \in AllTasks /\ NextTask.job = j
    BY <2>2, <2>3, JobIds, JobTaskFields
  <2> QED BY <2>3, <2>4 DEF unassigned, UnassignedTasks
<1>4. CASE (~\E j \in Queued : expired[j] # {}) /\ ~\E j \in Queued : unassigned[j] # {}
  BY <1>4 DEF NextTask
<1> QED BY <1>2, <1>3, <1>4

(* One element of a sequence changes.                                      *)
LEMMA SeqSet ==
  ASSUME NEW S, NEW s \in Seq(S), NEW n \in DOMAIN s, NEW x \in S, NEW z,
         z = [s EXCEPT ![n] = x]
  PROVE  /\ z \in Seq(S) /\ Len(z) = Len(s) /\ DOMAIN z = DOMAIN s
         /\ \A j \in DOMAIN s : z[j] = IF j = n THEN x ELSE s[j]
OBVIOUS

(* A task is handed out: its time starts, and nothing else changes.        *)
Handed(job, k, i) == [job EXCEPT !.time[k][i] = 0]

LEMMA HandedType ==
  ASSUME NEW job \in Job, NEW k \in Kinds, NEW i \in Indices(k)
  PROVE  /\ Handed(job, k, i) \in Job
         /\ Handed(job, k, i).client = job.client
         /\ Handed(job, k, i).success = job.success
         /\ Handed(job, k, i).finished = job.finished
         /\ Handed(job, k, i).done = job.done
         /\ Handed(job, k, i).failed = job.failed
         /\ \A l \in Kinds : \A n \in Indices(l) :
              Handed(job, k, i).time[l][n] = IF l = k /\ n = i THEN 0 ELSE job.time[l][n]
<1>1. job.time \in Table(Unassigned .. TaskTimeout) /\ 0 \in Unassigned .. TaskTimeout
  BY MRTimeout DEF Job, Unassigned
<1> DEFINE time == SetCell(job.time, k, i, 0)
           times == Unassigned .. TaskTimeout
<1>2. time \in Table(Unassigned .. TaskTimeout)
  BY <1>1, TableExcept
<1>3. \A l \in Kinds : \A n \in Indices(l) :
        time[l][n] = IF l = k /\ n = i THEN 0 ELSE job.time[l][n]
  <2>1. job.time \in Table(times) /\ 0 \in times
    BY <1>1
  <2> HIDE DEF times
  <2> QED BY <2>1, CellsAt
<1>4. Handed(job, k, i) = [job EXCEPT !.time = time]
  BY DEF Handed, SetCell, Job
<1> HIDE DEF time
<1>5. /\ Handed(job, k, i) \in Job /\ Handed(job, k, i).client = job.client
      /\ Handed(job, k, i).success = job.success /\ Handed(job, k, i).finished = job.finished
      /\ Handed(job, k, i).done = job.done /\ Handed(job, k, i).failed = job.failed
      /\ Handed(job, k, i).time = time
  BY <1>2, <1>4 DEF Job
<1> QED BY <1>3, <1>5

LEMMA GetTaskType ==
  ASSUME TypeOK, NEW t \in AllTasks, t # NoTask, GetTask(t)
  PROVE  /\ all_job' \in Seq(Job) /\ Len(all_job') = Len(all_job)
         /\ DOMAIN all_job' = DOMAIN all_job
         /\ \A j \in DOMAIN all_job : all_job'[j] =
              IF j = t.job THEN Handed(all_job[j], t.kind, t.index) ELSE all_job[j]
<1>1. t.job \in DOMAIN all_job /\ t.kind \in Kinds /\ t.index \in Indices(t.kind)
  BY TaskFields
<1> DEFINE new == Handed(all_job[t.job], t.kind, t.index)
<1>2. all_job \in Seq(Job) /\ new \in Job
  BY <1>1, HandedType, JobType DEF TypeOK
<1>3. all_job' = [all_job EXCEPT ![t.job] = new]
  BY <1>1, <1>2 DEF GetTask, Handed
<1> HIDE DEF new
<1>4. /\ all_job' \in Seq(Job) /\ Len(all_job') = Len(all_job)
      /\ DOMAIN all_job' = DOMAIN all_job
      /\ \A j \in DOMAIN all_job : all_job'[j] = IF j = t.job THEN new ELSE all_job[j]
  BY <1>1, <1>2, <1>3, SeqSet
<1> QED BY <1>4 DEF new

(* update_job_info() for a report of a task of a job that is not done.     *)
LEMMA UpdateJobType ==
  ASSUME TypeOK, NEW t \in AllTasks, NEW ok \in BOOLEAN, NEW new,
         new = UpdateJobInfo(all_job[t.job], t, ok), ~all_job[t.job].done
  PROVE  LET old == all_job[t.job]
         IN  /\ new \in Job /\ new.client = old.client /\ new.time = old.time
             /\ ~ok => /\ new.success = old.success /\ new.finished = old.finished
                       /\ new.done /\ new.failed
             /\ ok => /\ \A k \in Kinds : \A i \in Indices(k) :
                           new.success[k][i] <=>
                             old.success[k][i] \/ (k = t.kind /\ i = t.index)
                      /\ \A k \in Kinds : new.finished[k] =
                           IF k = t.kind THEN old.finished[k] + 1 ELSE old.finished[k]
                      /\ new.done <=> t.kind = "reduce" /\ new.finished["reduce"] = regime.reduces
<1>1. t.job \in DOMAIN all_job /\ t.kind \in Kinds /\ t.index \in Indices(t.kind)
  BY TaskFields
<1> DEFINE old == all_job[t.job]
<1>2. /\ old \in Job /\ ~old.done
      /\ old.success \in Table(BOOLEAN) /\ old.finished \in [Kinds -> Nat]
      /\ \A k \in Kinds : \A i \in Indices(k) : old.success[k][i] \in BOOLEAN
  BY <1>1, JobType DEF Job
<1>3. new = UpdateJobInfo(old, t, ok)
  OBVIOUS
<1> HIDE DEF old
<1>4. CASE ~ok
  <2>1. new = [old EXCEPT !.done = TRUE, !.failed = TRUE]
    BY <1>3, <1>4 DEF UpdateJobInfo
  <2> QED BY <1>2, <1>4, <2>1 DEF Job, old
<1>5. CASE ok
  <2> DEFINE n == old.finished[t.kind] + 1
             fin == [old.finished EXCEPT ![t.kind] = n]
             suc == [old.success EXCEPT ![t.kind][t.index] = TRUE]
             up == [old EXCEPT !.finished = fin, !.success = suc]
  <2>1. /\ suc \in Table(BOOLEAN)
        /\ \A k \in Kinds : \A i \in Indices(k) :
             suc[k][i] = IF k = t.kind /\ i = t.index THEN TRUE ELSE old.success[k][i]
    <3>1. suc = SetCell(old.success, t.kind, t.index, TRUE)
      BY DEF SetCell
    <3> HIDE DEF suc
    <3> DEFINE yes == TRUE
    <3>0. yes \in BOOLEAN
      OBVIOUS
    <3>2. SetCell(old.success, t.kind, t.index, TRUE) \in Table(BOOLEAN)
      BY <1>1, <1>2, TableExcept
    <3>3. \A k \in Kinds : \A i \in Indices(k) :
            SetCell(old.success, t.kind, t.index, yes)[k][i] =
              IF k = t.kind /\ i = t.index THEN yes ELSE old.success[k][i]
      <4> HIDE DEF yes
      <4> QED BY <1>1, <1>2, <3>0, CellsAt
    <3> QED BY <3>1, <3>2, <3>3
  <2>2. /\ fin \in [Kinds -> Nat] /\ fin[t.kind] = n
        /\ \A k \in Kinds : fin[k] = IF k = t.kind THEN old.finished[k] + 1
                                                  ELSE old.finished[k]
    BY <1>1, <1>2
  <2>3. up = [old EXCEPT !.finished[t.kind] = n, !.success[t.kind][t.index] = TRUE]
    BY <1>1, <1>2 DEF Job
  <2>4. new = IF t.kind = "reduce" /\ n = regime.reduces
                THEN [up EXCEPT !.done = TRUE, !.failed = FALSE] ELSE up
    BY <1>3, <1>5, <2>3 DEF UpdateJobInfo
  <2> HIDE DEF suc, fin, n
  <2>5. /\ up \in Job /\ up.client = old.client /\ up.time = old.time
        /\ up.finished = fin /\ up.success = suc /\ ~up.done
    BY <1>2, <2>1, <2>2 DEF Job
  <2> HIDE DEF up
  <2>6. /\ new \in Job /\ new.client = old.client /\ new.time = old.time
        /\ new.finished = fin /\ new.success = suc
        /\ new.done <=> t.kind = "reduce" /\ n = regime.reduces
    BY <2>4, <2>5 DEF Job
  <2>7. \A k \in Kinds : \A i \in Indices(k) :
          suc[k][i] <=> old.success[k][i] \/ (k = t.kind /\ i = t.index)
    BY <1>2, <2>1, ZenonT(60)
  <2> QED BY <1>5, <2>2, <2>6, <2>7 DEF old
<1> QED BY <1>4, <1>5

-----------------------------------------------------------------------------
(* What a step that keeps the regime and the jobs' ids leaves alone.       *)
LEMMA Static ==
  ASSUME UNCHANGED regime
  PROVE  /\ \A k : Count(k)' = Count(k) /\ Indices(k)' = Indices(k)
         /\ \A S : Table(S)' = Table(S)
         /\ \A j, k : TasksOf(j, k)' = TasksOf(j, k)
         /\ \A j : JobTasks(j)' = JobTasks(j)
         /\ Job' = Job
<1>1. \A k : Count(k)' = Count(k) /\ Indices(k)' = Indices(k)
  BY DEF Count, Indices
<1>2. \A S : Table(S)' = Table(S)
  BY <1>1 DEF Table
<1>3. \A j, k : TasksOf(j, k)' = TasksOf(j, k)
  BY <1>1 DEF TasksOf
<1>4. \A j : JobTasks(j)' = JobTasks(j)
  BY <1>3 DEF JobTasks
<1>5. Job' = Job
  BY <1>2 DEF Job, Unassigned
<1> QED BY <1>1, <1>2, <1>3, <1>4, <1>5

LEMMA TasksKept ==
  ASSUME UNCHANGED regime, DOMAIN all_job \subseteq DOMAIN all_job'
  PROVE  /\ AllTasks \subseteq AllTasks' /\ Requests \subseteq Requests'
         /\ DOMAIN all_job' = DOMAIN all_job => AllTasks' = AllTasks /\ Requests' = Requests
<1>1. AllTasks \subseteq AllTasks'
  BY Static DEF AllTasks
<1>2. DOMAIN all_job' = DOMAIN all_job => AllTasks' = AllTasks
  BY Static DEF AllTasks
<1>3. Requests \subseteq Requests'
  BY <1>1 DEF Requests, FinishRequest, GetRequest, SubmitRequest
<1>4. DOMAIN all_job' = DOMAIN all_job => Requests' = Requests
  BY <1>2 DEF Requests, FinishRequest, GetRequest, SubmitRequest
<1> QED BY <1>1, <1>2, <1>3, <1>4

(* Most steps do not reach the coordinator.                                *)
LEMMA NoCall ==
  ASSUME ClusterInv, UNCHANGED <<regime, coordinator>>,
         files' \in [Client -> Table({"absent", "partial", "complete"})],
         at' \in [Worker -> {"idle", "asking", "assigned", "opened", "counted", "short", "finishing", "dead"}],
         task' = task, success' \in [Worker -> BOOLEAN],
         cl' \in [Client -> {"new", "submitting", "polling", "completed", "failed", "exited"}],
         poll' = poll, IsABag(wire'), BagToSet(wire') \subseteq Requests,
         retries' \in Nat, losses' \in Nat, crashes' \in Nat,
         \A w \in Worker : /\ at'[w] \in {"assigned", "opened", "counted", "short", "finishing"} => Busy(w)
                           /\ at'[w] = "opened" => task[w].kind = "map"
  PROVE  ClusterInv'
<1>1. AllTasks' = AllTasks /\ Requests' = Requests /\ Job' = Job
      /\ \A S : Table(S)' = Table(S)
  BY TasksKept, Static DEF coordinator
<1>2. TypeOK'
  <2>1. task' \in [Worker -> AllTasks \cup {NoTask}]
    BY DEF ClusterInv, TypeOK
  <2>2. /\ regime' \in Regimes /\ next_id' \in Nat /\ all_job' \in Seq(Job)
        /\ Len(all_job') = next_id' /\ waiting_queue' \in Seq(1..next_id')
        /\ poll' \in [Client -> 0..next_id']
    BY DEF ClusterInv, TypeOK, coordinator
  <2> QED BY <1>1, <2>1, <2>2 DEF TypeOK, NoTask
<1>3. BusyWorkers'
  BY <1>1 DEF ClusterInv, BusyWorkers, Busy
<1>4. QueueExact'
  BY DEF ClusterInv, QueueExact, Queued, coordinator
<1> QED BY <1>2, <1>3, <1>4 DEF ClusterInv

(* A busy worker's task, and the directory it works in.                    *)
LEMMA BusyTask ==
  ASSUME ClusterInv, NEW w \in Worker, Busy(w)
  PROVE  /\ task[w] \in AllTasks /\ task[w].job \in DOMAIN all_job
         /\ task[w].kind \in Kinds /\ task[w].index \in Indices(task[w].kind)
         /\ Dir(w) \in Client
         /\ \A ok \in BOOLEAN : FinishRequest(task[w], ok) \in Requests
<1>1. task[w] \in AllTasks
  BY DEF ClusterInv, BusyWorkers
<1>2. /\ task[w].job \in DOMAIN all_job
      /\ task[w].kind \in Kinds /\ task[w].index \in Indices(task[w].kind)
  BY <1>1, TaskFields
<1>3. Dir(w) \in Client
  BY <1>2, JobType DEF ClusterInv, Dir
<1>4. \A ok \in BOOLEAN : FinishRequest(task[w], ok) \in Requests
  BY <1>1 DEF Requests
<1> QED BY <1>1, <1>2, <1>3, <1>4

(* A task's output files in directory d are written.                       *)
SetFiles(d, k, i, x) == [files EXCEPT ![d][k][i] = x]

LEMMA FilesType ==
  ASSUME TypeOK, NEW d \in Client, NEW k \in Kinds, NEW i \in Indices(k),
         NEW x \in {"absent", "partial", "complete"}
  PROVE  /\ SetFiles(d, k, i, x) \in [Client -> Table({"absent", "partial", "complete"})]
         /\ \A c \in Client : \A l \in Kinds : \A n \in Indices(l) :
              SetFiles(d, k, i, x)[c][l][n] =
                IF c = d /\ l = k /\ n = i THEN x ELSE files[c][l][n]
<1> DEFINE Status == {"absent", "partial", "complete"}
           new == SetCell(files[d], k, i, x)
<1>1. files \in [Client -> Table(Status)] /\ x \in Status
  BY DEF TypeOK
<1> HIDE DEF Status
<1>2. files[d] \in Table(Status)
  BY <1>1
<1>3. new \in Table(Status)
  BY <1>1, <1>2, TableExcept
<1>4. \A l \in Kinds : \A n \in Indices(l) :
        new[l][n] = IF l = k /\ n = i THEN x ELSE files[d][l][n]
  BY <1>1, <1>2, CellsAt
<1>5. SetFiles(d, k, i, x) = [files EXCEPT ![d] = new]
  BY <1>1 DEF SetFiles, SetCell
<1> HIDE DEF new
<1>6. /\ SetFiles(d, k, i, x) \in [Client -> Table(Status)]
      /\ \A c \in Client : SetFiles(d, k, i, x)[c] = IF c = d THEN new ELSE files[c]
  BY <1>1, <1>3, <1>5
<1> QED BY <1>4, <1>6 DEF Status

(* A worker reports.                                                       *)
LEMMA ReportStep ==
  ASSUME ClusterInv, NEW w \in Worker, NEW ok \in BOOLEAN, Busy(w), Report(w, ok),
         files' \in [Client -> Table({"absent", "partial", "complete"})]
  PROVE  ClusterInv'
<1>1. IsABag(wire') /\ BagToSet(wire') \subseteq Requests
  <2>1. Send(FinishRequest(task[w], ok)) /\ IsABag(wire) /\ BagToSet(wire) \subseteq Requests
    BY DEF Report, ClusterInv, TypeOK
  <2>2. FinishRequest(task[w], ok) \in Requests
    BY BusyTask
  <2> QED BY <2>1, <2>2, SendBag
<1>2. /\ at' = [at EXCEPT ![w] = "finishing"] /\ success' = [success EXCEPT ![w] = ok]
      /\ UNCHANGED <<coordinator, task, cl, poll, regime, retries, losses, crashes>>
  BY DEF Report, clients, bounds
<1>3. /\ at' \in [Worker -> {"idle", "asking", "assigned", "opened", "counted", "short", "finishing", "dead"}]
      /\ success' \in [Worker -> BOOLEAN]
      /\ cl' \in [Client -> {"new", "submitting", "polling", "completed", "failed", "exited"}]
      /\ retries' \in Nat /\ losses' \in Nat /\ crashes' \in Nat
  BY <1>2 DEF ClusterInv, TypeOK
<1>4. \A v \in Worker : /\ at'[v] \in {"assigned", "opened", "counted", "short", "finishing"} => Busy(v)
                        /\ at'[v] = "opened" => task[v].kind = "map"
  BY <1>2 DEF ClusterInv, TypeOK, BusyWorkers, Busy
<1> QED BY <1>1, <1>2, <1>3, <1>4, NoCall

LEMMA WorkerTypes ==
  ASSUME ClusterInv, NEW w \in Worker, WorkerStep(w) \/ Crash(w)
  PROVE  ClusterInv'
<1>0. /\ files \in [Client -> Table({"absent", "partial", "complete"})]
      /\ at \in [Worker -> {"idle", "asking", "assigned", "opened", "counted", "short", "finishing", "dead"}]
      /\ success \in [Worker -> BOOLEAN]
      /\ cl \in [Client -> {"new", "submitting", "polling", "completed", "failed", "exited"}]
      /\ IsABag(wire) /\ BagToSet(wire) \subseteq Requests
      /\ retries \in Nat /\ losses \in Nat /\ crashes \in Nat
      /\ \A v \in Worker : at[v] = "opened" => task[v].kind = "map"
  BY DEF ClusterInv, TypeOK, BusyWorkers
<1>1. ASSUME AskTask(w) PROVE ClusterInv'
  <2>1. IsABag(wire') /\ BagToSet(wire') \subseteq Requests
    <3>1. GetRequest \in Requests /\ Send(GetRequest)
      BY <1>1 DEF Requests, AskTask
    <3> QED BY <1>0, <3>1, SendBag
  <2>2. /\ at' = [at EXCEPT ![w] = "asking"]
        /\ UNCHANGED <<coordinator, files, task, success, cl, poll, regime, retries, losses, crashes>>
    BY <1>1 DEF AskTask, clients, bounds
  <2>3. \A v \in Worker : /\ at'[v] \in {"assigned", "opened", "counted", "short", "finishing"} => Busy(v)
                          /\ at'[v] = "opened" => task[v].kind = "map"
    BY <1>0, <2>2 DEF Busy
  <2> QED BY <1>0, <2>1, <2>2, <2>3, NoCall
<1>2. ASSUME MapOpen(w) PROVE ClusterInv'
  <2>0. Busy(w) /\ task[w].kind = "map"
    BY <1>2 DEF MapOpen, Busy
  <2>1. files' = SetFiles(Dir(w), "map", task[w].index, "partial")
    BY <1>2 DEF MapOpen, SetFiles
  <2>2. files' \in [Client -> Table({"absent", "partial", "complete"})]
    BY <2>0, <2>1, BusyTask, FilesType DEF ClusterInv
  <2>3. /\ at' = [at EXCEPT ![w] = "opened"]
        /\ UNCHANGED <<coordinator, task, success, cl, poll, wire, regime, retries, losses, crashes>>
    BY <1>2 DEF MapOpen, clients, bounds
  <2>4. \A v \in Worker : /\ at'[v] \in {"assigned", "opened", "counted", "short", "finishing"} => Busy(v)
                          /\ at'[v] = "opened" => task[v].kind = "map"
    BY <1>0, <2>0, <2>3 DEF Busy
  <2> QED BY <1>0, <2>2, <2>3, <2>4, NoCall
<1>3. ASSUME MapWrite(w) PROVE ClusterInv'
  <2>0. Busy(w) /\ task[w].kind = "map" /\ Report(w, TRUE)
    BY <1>0, <1>3 DEF MapWrite, Busy
  <2>1. files' = SetFiles(Dir(w), "map", task[w].index, "complete")
    BY <1>3 DEF MapWrite, SetFiles
  <2>2. files' \in [Client -> Table({"absent", "partial", "complete"})]
    BY <2>0, <2>1, BusyTask, FilesType DEF ClusterInv
  <2> QED BY <2>0, <2>2, ReportStep
<1>4. ASSUME MapFails(w) PROVE ClusterInv'
  BY <1>0, <1>4, ReportStep DEF MapFails, Busy
<1>5. ASSUME ReduceFails(w) PROVE ClusterInv'
  BY <1>0, <1>5, ReportStep DEF ReduceFails, Busy
<1>6. ASSUME ReduceOpen(w) PROVE ClusterInv'
  <2>0. Busy(w) /\ task[w].kind = "reduce"
    BY <1>6 DEF ReduceOpen, Busy
  <2>1. files' = SetFiles(Dir(w), "reduce", task[w].index, "partial")
    BY <1>6 DEF ReduceOpen, SetFiles
  <2>2. files' \in [Client -> Table({"absent", "partial", "complete"})]
    BY <1>0, <2>0, <2>1, BusyTask, FilesType DEF ClusterInv
  <2>3. PICK to \in {"counted", "short"} :
          /\ at' = [at EXCEPT ![w] = to]
          /\ UNCHANGED <<coordinator, task, success, cl, poll, wire, regime, retries, losses, crashes>>
    BY <1>6 DEF ReduceOpen, clients, bounds
  <2>4. \A v \in Worker : /\ at'[v] \in {"assigned", "opened", "counted", "short", "finishing"} => Busy(v)
                          /\ at'[v] = "opened" => task[v].kind = "map"
    BY <1>0, <2>0, <2>3 DEF Busy
  <2> QED BY <1>0, <2>2, <2>3, <2>4, NoCall
<1>7. ASSUME ReduceWrite(w) PROVE ClusterInv'
  <2>0. Busy(w) /\ task[w].kind = "reduce" /\ Report(w, TRUE)
    BY <1>7 DEF ReduceWrite, Busy
  <2>1. PICK end \in {"partial", "complete"} : files' = SetFiles(Dir(w), "reduce", task[w].index, end)
    BY <1>7 DEF ReduceWrite, SetFiles
  <2>2. files' \in [Client -> Table({"absent", "partial", "complete"})]
    BY <1>0, <2>0, <2>1, BusyTask, FilesType DEF ClusterInv
  <2> QED BY <2>0, <2>2, ReportStep
<1>8. ASSUME CallFails(w) \/ Crash(w) PROVE ClusterInv'
  <2>1. /\ at' = [at EXCEPT ![w] = "dead"]
        /\ UNCHANGED <<coordinator, files, task, success, cl, poll, wire, regime, retries, losses>>
        /\ crashes' \in Nat
    BY <1>0, <1>8 DEF CallFails, Crash, clients, bounds
  <2>2. \A v \in Worker : /\ at'[v] \in {"assigned", "opened", "counted", "short", "finishing"} => Busy(v)
                          /\ at'[v] = "opened" => task[v].kind = "map"
    BY <1>0, <2>1 DEF Busy
  <2> QED BY <1>0, <2>1, <2>2, NoCall
<1> QED BY <1>1, <1>2, <1>3, <1>4, <1>5, <1>6, <1>7, <1>8 DEF WorkerStep

LEMMA ClientTypes ==
  ASSUME ClusterInv, NEW c \in Client, ClientStep(c)
  PROVE  ClusterInv'
<1> DEFINE Places == {"new", "submitting", "polling", "completed", "failed", "exited"}
<1>0. /\ files \in [Client -> Table({"absent", "partial", "complete"})]
      /\ at \in [Worker -> {"idle", "asking", "assigned", "opened", "counted", "short", "finishing", "dead"}]
      /\ success \in [Worker -> BOOLEAN]
      /\ cl \in [Client -> Places]
      /\ IsABag(wire) /\ BagToSet(wire) \subseteq Requests
      /\ retries \in Nat /\ losses \in Nat /\ crashes \in Nat
      /\ \A v \in Worker : /\ at[v] \in {"assigned", "opened", "counted", "short", "finishing"} => Busy(v)
                           /\ at[v] = "opened" => task[v].kind = "map"
  BY DEF ClusterInv, TypeOK, BusyWorkers, Busy
<1>1. /\ \E x \in Places : cl' = [cl EXCEPT ![c] = x]
      /\ UNCHANGED <<coordinator, files, at, task, success, poll, regime, retries, losses, crashes>>
  BY DEF ClientStep, Submit, SubmitFails, PollJob, workers, bounds
<1>2. cl' \in [Client -> Places]
  BY <1>0, <1>1
<1>3. IsABag(wire') /\ BagToSet(wire') \subseteq Requests
  <2>1. SubmitRequest(c) \in Requests
    BY DEF Requests
  <2>2. Send(SubmitRequest(c)) \/ wire' = wire
    BY DEF ClientStep, Submit, SubmitFails, PollJob
  <2> QED BY <1>0, <2>1, <2>2, SendBag
<1> QED BY <1>0, <1>1, <1>2, <1>3, NoCall

LEMMA NetworkTypes ==
  ASSUME ClusterInv, Retransmit \/ Lose
  PROVE  ClusterInv'
<1>0. /\ files \in [Client -> Table({"absent", "partial", "complete"})]
      /\ at \in [Worker -> {"idle", "asking", "assigned", "opened", "counted", "short", "finishing", "dead"}]
      /\ success \in [Worker -> BOOLEAN]
      /\ cl \in [Client -> {"new", "submitting", "polling", "completed", "failed", "exited"}]
      /\ IsABag(wire) /\ BagToSet(wire) \subseteq Requests
      /\ retries \in Nat /\ losses \in Nat /\ crashes \in Nat
      /\ \A v \in Worker : /\ at[v] \in {"assigned", "opened", "counted", "short", "finishing"} => Busy(v)
                           /\ at[v] = "opened" => task[v].kind = "map"
  BY DEF ClusterInv, TypeOK, BusyWorkers, Busy
<1>1. ASSUME Retransmit PROVE ClusterInv'
  <2>1. PICK m \in Requests : Send(m)
    <3>1. ASSUME NEW w \in Worker, at[w] \in {"asking", "finishing"}
          PROVE  Pending(w) \in Requests
      <4>1. CASE at[w] = "asking"
        BY <4>1 DEF Pending, Requests
      <4>2. CASE at[w] = "finishing"
        BY <1>0, <4>2, BusyTask DEF Pending, Busy
      <4> QED BY <3>1, <4>1, <4>2
    <3>2. \A c \in Client : SubmitRequest(c) \in Requests
      BY DEF Requests
    <3> QED BY <1>1, <3>1, <3>2 DEF Retransmit
  <2>2. IsABag(wire') /\ BagToSet(wire') \subseteq Requests
    BY <1>0, <2>1, SendBag
  <2>3. /\ UNCHANGED <<coordinator, files, at, task, success, cl, poll, regime, losses, crashes>>
        /\ retries' \in Nat
    BY <1>0, <1>1 DEF Retransmit, workers, clients
  <2> QED BY <1>0, <2>2, <2>3, NoCall
<1>2. ASSUME Lose PROVE ClusterInv'
  <2>1. PICK m : Receive(m)
    BY <1>2 DEF Lose
  <2>2. IsABag(wire') /\ BagToSet(wire') \subseteq Requests
    BY <1>0, <2>1, ReceiveBag
  <2>3. /\ UNCHANGED <<coordinator, files, at, task, success, cl, poll, regime, retries, crashes>>
        /\ losses' \in Nat
    BY <1>0, <1>2 DEF Lose, workers, clients
  <2> QED BY <1>0, <2>2, <2>3, NoCall
<1> QED BY <1>1, <1>2

(* A second passes for the tasks of a job.                                 *)
Aged(job) ==
  [job EXCEPT !.time = [k \in Kinds |-> [i \in Indices(k) |-> Older(@[k][i])]]]

LEMMA AgedType ==
  ASSUME NEW job \in Job
  PROVE  /\ Aged(job) \in Job
         /\ Aged(job).client = job.client /\ Aged(job).success = job.success
         /\ Aged(job).finished = job.finished
         /\ Aged(job).done = job.done /\ Aged(job).failed = job.failed
         /\ \A k \in Kinds : \A i \in Indices(k) :
              Aged(job).time[k][i] = Older(job.time[k][i])
<1> DEFINE time == [k \in Kinds |-> [i \in Indices(k) |-> Older(job.time[k][i])]]
<1>1. \A k \in Kinds : job.time[k] \in [Indices(k) -> Unassigned .. TaskTimeout]
  BY TableAt DEF Job
<1>2. \A n \in Unassigned .. TaskTimeout : Older(n) \in Unassigned .. TaskTimeout
  BY MRTimeout DEF Older, Unassigned
<1>3. time \in Table(Unassigned .. TaskTimeout)
  <2>1. time = [k \in Kinds |-> time[k]]
    OBVIOUS
  <2>2. \A k \in Kinds : time[k] \in [Indices(k) -> Unassigned .. TaskTimeout]
    BY <1>1, <1>2
  <2> HIDE DEF time
  <2> QED BY <2>1, <2>2, TableAt
<1>4. \A k \in Kinds : \A i \in Indices(k) : time[k][i] = Older(job.time[k][i])
  OBVIOUS
<1>5. Aged(job) = [job EXCEPT !.time = time]
  BY DEF Aged, Job
<1> HIDE DEF time
<1>6. /\ Aged(job) \in Job /\ Aged(job).time = time
      /\ Aged(job).client = job.client /\ Aged(job).success = job.success
      /\ Aged(job).finished = job.finished
      /\ Aged(job).done = job.done /\ Aged(job).failed = job.failed
  BY <1>3, <1>5 DEF Job
<1> QED BY <1>4, <1>6

LEMMA TickJobs ==
  ASSUME ClusterInv, Tick
  PROVE  /\ all_job' \in Seq(Job) /\ Len(all_job') = Len(all_job)
         /\ DOMAIN all_job' = DOMAIN all_job
         /\ \A j \in DOMAIN all_job :
              all_job'[j] = IF j \in Queued THEN Aged(all_job[j]) ELSE all_job[j]
<1>1. all_job \in Seq(Job) /\ Len(all_job) \in Nat /\ DOMAIN all_job = 1 .. Len(all_job)
  BY DEF ClusterInv, TypeOK
<1>2. all_job' = [j \in DOMAIN all_job |->
                    IF j \notin Queued THEN all_job[j] ELSE Aged(all_job[j])]
  BY DEF Tick, Aged
<1>3. \A j \in DOMAIN all_job : all_job[j] \in Job /\ Aged(all_job[j]) \in Job
  BY <1>1, AgedType
<1>4. all_job' \in [1 .. Len(all_job) -> Job]
  BY <1>1, <1>2, <1>3
<1> QED BY <1>1, <1>2, <1>4

(* Steps that change jobs but neither their number nor which are done.     *)
LEMMA SameQueue ==
  ASSUME ClusterInv, UNCHANGED <<regime, next_id, waiting_queue>>,
         all_job' \in Seq(Job), Len(all_job') = Len(all_job),
         DOMAIN all_job' = DOMAIN all_job,
         \A j \in DOMAIN all_job : all_job'[j].done = all_job[j].done
  PROVE  QueueExact'
BY DEF ClusterInv, QueueExact, Queued

LEMMA TickTypes ==
  ASSUME ClusterInv, Tick
  PROVE  ClusterInv'
<1>1. UNCHANGED <<next_id, waiting_queue, files, at, task, success, cl, poll, wire,
                  regime, retries, losses, crashes>>
  BY DEF Tick, workers, clients, bounds
<1>2. /\ all_job' \in Seq(Job) /\ Len(all_job') = Len(all_job)
      /\ DOMAIN all_job' = DOMAIN all_job
      /\ \A j \in DOMAIN all_job : all_job'[j].done = all_job[j].done
  BY TickJobs, AgedType, JobType DEF ClusterInv
<1>3. AllTasks' = AllTasks /\ Requests' = Requests /\ Job' = Job
      /\ \A S : Table(S)' = Table(S)
  BY <1>1, <1>2, TasksKept, Static
<1>4. TypeOK'
  BY <1>1, <1>2, <1>3 DEF ClusterInv, TypeOK, NoTask
<1>5. BusyWorkers'
  BY <1>1, <1>3 DEF ClusterInv, BusyWorkers, Busy
<1>6. QueueExact'
  BY <1>1, <1>2, SameQueue
<1> QED BY <1>4, <1>5, <1>6 DEF ClusterInv

LEMMA NewJobType ==
  ASSUME NEW c \in Client
  PROVE  /\ NewJob(c) \in Job /\ NewJob(c).client = c
         /\ ~NewJob(c).done /\ ~NewJob(c).failed
         /\ \A k \in Kinds : NewJob(c).finished[k] = 0
         /\ \A k \in Kinds : \A i \in Indices(k) :
              NewJob(c).time[k][i] = Unassigned /\ ~NewJob(c).success[k][i]
<1>1. Unassigned \in Unassigned .. TaskTimeout
  BY MRTimeout DEF Unassigned
<1>2. /\ Filled(Unassigned) \in Table(Unassigned .. TaskTimeout)
      /\ \A k \in Kinds : \A i \in Indices(k) : Filled(Unassigned)[k][i] = Unassigned
  BY <1>1, FilledType
<1>3. Filled(FALSE) \in Table(BOOLEAN)
  BY FilledType
<1>4. \A k \in Kinds : \A i \in Indices(k) : ~Filled(FALSE)[k][i]
  BY DEF Filled
<1> QED BY <1>2, <1>3, <1>4 DEF NewJob, Job

(* submit_job_1_svc() appends the new job.                                 *)
LEMMA SubmitJobs ==
  ASSUME ClusterInv, NEW c \in Client, SubmitJob(c)
  PROVE  /\ all_job' \in Seq(Job) /\ Len(all_job') = next_id' /\ next_id' = next_id + 1
         /\ waiting_queue' \in Seq(1..next_id') /\ QueueExact'
         /\ DOMAIN all_job' = DOMAIN all_job \cup {next_id'} /\ next_id' \notin DOMAIN all_job
         /\ \A j \in DOMAIN all_job : all_job'[j] = all_job[j]
         /\ all_job'[next_id'] = NewJob(c)
         /\ Queued' = Queued \cup {next_id'}
<1>1. /\ all_job \in Seq(Job) /\ Len(all_job) = next_id /\ next_id \in Nat
      /\ waiting_queue \in Seq(1..next_id) /\ NewJob(c) \in Job /\ ~NewJob(c).done
  BY NewJobType DEF ClusterInv, TypeOK
<1>2. /\ all_job' \in Seq(Job) /\ Len(all_job') = next_id' /\ next_id' = next_id + 1
      /\ DOMAIN all_job = 1..next_id /\ DOMAIN all_job' = 1..next_id'
      /\ \A j \in DOMAIN all_job : all_job'[j] = all_job[j]
      /\ all_job'[next_id'] = NewJob(c)
  BY <1>1 DEF SubmitJob
<1>3. waiting_queue' \in Seq(1..next_id')
  <2>1. waiting_queue \in Seq(1..next_id') /\ next_id + 1 \in 1..next_id'
    BY <1>1, <1>2
  <2> QED BY <2>1 DEF SubmitJob
<1>4. /\ DOMAIN waiting_queue' = DOMAIN waiting_queue \cup {Len(waiting_queue) + 1}
      /\ \A n \in DOMAIN waiting_queue : waiting_queue'[n] = waiting_queue[n]
      /\ waiting_queue'[Len(waiting_queue) + 1] = next_id'
      /\ Len(waiting_queue) + 1 \notin DOMAIN waiting_queue
  BY <1>1 DEF SubmitJob
<1>5. Queued' = Queued \cup {next_id'}
  BY <1>4 DEF Queued
<1>6. QueueExact'
  <2>1. Queued = {j \in DOMAIN all_job : ~all_job[j].done}
    BY DEF ClusterInv, QueueExact
  <2>2. Queued' = {j \in DOMAIN all_job' : ~all_job'[j].done}
    BY <1>1, <1>2, <1>5, <2>1
  <2>3. \A n \in DOMAIN waiting_queue : waiting_queue[n] # next_id'
    BY <1>1, <1>2
  <2>4. ASSUME NEW m \in DOMAIN waiting_queue', NEW n \in DOMAIN waiting_queue',
               waiting_queue'[m] = waiting_queue'[n]
        PROVE  m = n
    BY <1>4, <2>3, <2>4 DEF ClusterInv, QueueExact
  <2> QED BY <2>2, <2>4 DEF QueueExact
<1>7. DOMAIN all_job' = DOMAIN all_job \cup {next_id'} /\ next_id' \notin DOMAIN all_job
  BY <1>1, <1>2
<1> QED BY <1>2, <1>3, <1>5, <1>6, <1>7

LEMMA SubmitTypes ==
  ASSUME ClusterInv, NEW c \in Client, HandleSubmit(c)
  PROVE  ClusterInv'
<1>1. /\ SubmitJob(c) /\ Receive(SubmitRequest(c))
      /\ UNCHANGED <<files, at, task, success, regime, retries, crashes>>
  BY DEF HandleSubmit, workers
<1>2. AllTasks \subseteq AllTasks' /\ Requests \subseteq Requests' /\ Job' = Job
      /\ \A S : Table(S)' = Table(S)
  BY <1>1, SubmitJobs, TasksKept, Static
<1>3. IsABag(wire') /\ BagToSet(wire') \subseteq Requests'
  BY <1>1, <1>2, ReceiveBag DEF ClusterInv, TypeOK
<1>4. losses' \in Nat
  BY DEF HandleSubmit, ReplyLost, ReplyArrives, ClusterInv, TypeOK
<1>5. /\ cl' \in [Client -> {"new", "submitting", "polling", "completed", "failed", "exited"}]
      /\ poll' \in [Client -> 0..next_id']
  <2>1. next_id' \in Nat /\ next_id \in Nat /\ next_id' = next_id + 1
    BY <1>1, SubmitJobs DEF ClusterInv, TypeOK
  <2>2. poll \in [Client -> 0..next_id'] /\ next_id + 1 \in 0..next_id'
    BY <2>1 DEF ClusterInv, TypeOK
  <2>3. cl \in [Client -> {"new", "submitting", "polling", "completed", "failed", "exited"}]
    BY DEF ClusterInv, TypeOK
  <2> QED BY <2>2, <2>3 DEF HandleSubmit, clients
<1>6. task' \in [Worker -> AllTasks' \cup {NoTask}]
  BY <1>1, <1>2 DEF ClusterInv, TypeOK
<1>7. /\ all_job' \in Seq(Job) /\ Len(all_job') = next_id' /\ next_id' \in Nat
      /\ waiting_queue' \in Seq(1..next_id') /\ QueueExact'
  BY <1>1, SubmitJobs DEF ClusterInv, TypeOK
<1>8. TypeOK'
  BY <1>1, <1>2, <1>3, <1>4, <1>5, <1>6, <1>7 DEF ClusterInv, TypeOK, NoTask
<1>9. BusyWorkers'
  BY <1>1, <1>2 DEF ClusterInv, BusyWorkers, Busy
<1> QED BY <1>7, <1>8, <1>9 DEF ClusterInv

(* get_task_1_svc() changes nothing but the time of the task it returns.   *)
LEMMA GetJobs ==
  ASSUME ClusterInv, GetTask(NextTask)
  PROVE  /\ all_job' \in Seq(Job) /\ Len(all_job') = Len(all_job)
         /\ DOMAIN all_job' = DOMAIN all_job /\ UNCHANGED <<next_id, waiting_queue>>
         /\ \A j \in DOMAIN all_job :
              /\ all_job'[j].client = all_job[j].client
              /\ all_job'[j].success = all_job[j].success
              /\ all_job'[j].finished = all_job[j].finished
              /\ all_job'[j].done = all_job[j].done
              /\ all_job'[j].failed = all_job[j].failed
              /\ j \notin Queued => all_job'[j] = all_job[j]
              /\ \A k \in Kinds : \A i \in Indices(k) :
                   all_job'[j].time[k][i] =
                     IF NextTask = [job |-> j, kind |-> k, index |-> i] THEN 0
                     ELSE all_job[j].time[k][i]
         /\ NextTask \in AllTasks \cup {NoTask}
<1>0. TypeOK
  BY DEF ClusterInv
<1>2. CASE NextTask = NoTask
  <2>1. UNCHANGED coordinator
    BY <1>2 DEF GetTask, coordinator
  <2>2. \A j \in DOMAIN all_job : \A k, i : NextTask # [job |-> j, kind |-> k, index |-> i]
    BY <1>0, <1>2 DEF TypeOK, NoTask
  <2> QED BY <1>0, <1>2, <2>1, <2>2 DEF coordinator, TypeOK
<1>3. CASE NextTask # NoTask
  <2>1. NextTask \in AllTasks /\ NextTask.job \in Queued
    BY <1>0, <1>3, NextTaskChoice
  <2> DEFINE t == NextTask
  <2> HIDE DEF t
  <2>2. /\ t \in AllTasks /\ t # NoTask /\ GetTask(t) /\ t.job \in Queued
        /\ t.job \in DOMAIN all_job /\ t.kind \in Kinds /\ t.index \in Indices(t.kind)
        /\ t = [job |-> t.job, kind |-> t.kind, index |-> t.index]
    BY <1>3, <2>1, TaskFields DEF t
  <2>3. /\ all_job' \in Seq(Job) /\ Len(all_job') = Len(all_job)
        /\ DOMAIN all_job' = DOMAIN all_job
        /\ \A j \in DOMAIN all_job : all_job'[j] =
             IF j = t.job THEN Handed(all_job[j], t.kind, t.index) ELSE all_job[j]
    BY <1>0, <2>2, GetTaskType
  <2>4. UNCHANGED <<next_id, waiting_queue>>
    BY <2>2 DEF GetTask
  <2>5. ASSUME NEW j \in DOMAIN all_job
        PROVE  /\ all_job'[j].client = all_job[j].client
               /\ all_job'[j].success = all_job[j].success
               /\ all_job'[j].finished = all_job[j].finished
               /\ all_job'[j].done = all_job[j].done
               /\ all_job'[j].failed = all_job[j].failed
               /\ j \notin Queued => all_job'[j] = all_job[j]
               /\ \A k \in Kinds : \A i \in Indices(k) :
                    all_job'[j].time[k][i] =
                      IF t = [job |-> j, kind |-> k, index |-> i] THEN 0
                      ELSE all_job[j].time[k][i]
    <3>1. all_job[j] \in Job
      BY <1>0, JobType
    <3>2. CASE j = t.job
      BY <2>2, <2>3, <3>1, <3>2, HandedType
    <3>3. CASE j # t.job
      BY <2>2, <2>3, <3>3
    <3> QED BY <3>2, <3>3
  <2> QED BY <2>2, <2>3, <2>4, <2>5 DEF t
<1> QED BY <1>2, <1>3

LEMMA GetTypes ==
  ASSUME ClusterInv, HandleGet
  PROVE  ClusterInv'
<1>1. /\ GetTask(NextTask) /\ Receive(GetRequest)
      /\ UNCHANGED <<files, cl, poll, success, regime, retries, crashes>>
  BY DEF HandleGet, workers, clients
<1>2. /\ all_job' \in Seq(Job) /\ Len(all_job') = Len(all_job)
      /\ DOMAIN all_job' = DOMAIN all_job /\ UNCHANGED <<next_id, waiting_queue>>
      /\ \A j \in DOMAIN all_job : all_job'[j].done = all_job[j].done
      /\ NextTask \in AllTasks \cup {NoTask}
  BY <1>1, GetJobs
<1>3. AllTasks' = AllTasks /\ Requests' = Requests /\ Job' = Job
      /\ \A S : Table(S)' = Table(S)
  BY <1>1, <1>2, TasksKept, Static
<1>4. IsABag(wire') /\ BagToSet(wire') \subseteq Requests
  BY <1>1, ReceiveBag DEF ClusterInv, TypeOK
<1>5. losses' \in Nat
  BY DEF HandleGet, ReplyLost, ReplyArrives, ClusterInv, TypeOK
<1>6. \/ UNCHANGED <<at, task>>
      \/ \E w \in Worker :
           /\ at' = [at EXCEPT ![w] = IF NextTask = NoTask THEN "idle" ELSE "assigned"]
           /\ task' = [task EXCEPT ![w] = NextTask]
  BY DEF HandleGet, workers
<1>7. /\ at' \in [Worker -> {"idle", "asking", "assigned", "opened", "counted", "short", "finishing", "dead"}]
      /\ task' \in [Worker -> AllTasks \cup {NoTask}]
  BY <1>2, <1>6, ZenonT(60) DEF ClusterInv, TypeOK
<1>8. TypeOK'
  BY <1>1, <1>2, <1>3, <1>4, <1>5, <1>7 DEF ClusterInv, TypeOK, NoTask
<1>9. BusyWorkers'
  BY <1>2, <1>3, <1>6 DEF ClusterInv, TypeOK, BusyWorkers, Busy
<1>10. QueueExact'
  BY <1>1, <1>2, SameQueue
<1> QED BY <1>8, <1>9, <1>10 DEF ClusterInv

(* g_list_remove() takes out the one entry of a job.                       *)
Entries(q) == {q[n] : n \in DOMAIN q}
OneEach(q) == \A m, n \in DOMAIN q : q[m] = q[n] => m = n

LEMMA WithoutJobIs ==
  ASSUME NEW S, NEW q \in Seq(S), NEW j \in Entries(q), OneEach(q)
  PROVE  /\ WithoutJob(q, j) \in Seq(S) /\ OneEach(WithoutJob(q, j))
         /\ Entries(WithoutJob(q, j)) = Entries(q) \ {j}
<1>0. PICK m \in DOMAIN q : q[m] = j /\ \A n \in DOMAIN q : q[n] = j => n = m
  BY DEF Entries, OneEach
<1> DEFINE Ns == {n \in DOMAIN q : q[n] = j}
           r == WithoutJob(q, j)
<1>1. Ns = {m} /\ Ns \in SUBSET Nat /\ Ns # {}
  BY <1>0
<1>2. Min(Ns) = m
  <2> HIDE DEF Ns
  <2> QED BY <1>1, MinNat
<1>3. r = [n \in 1 .. Len(q) - 1 |-> IF n < m THEN q[n] ELSE q[n + 1]]
  BY <1>2, Zenon DEF WithoutJob
<1> HIDE DEF r, Ns
<1>4. Len(q) \in Nat /\ DOMAIN q = 1 .. Len(q) /\ Len(q) - 1 \in Nat
  OBVIOUS
<1>5. r \in [1 .. Len(q) - 1 -> S] /\ DOMAIN r = 1 .. Len(q) - 1
  BY <1>3, <1>4
<1>6. r \in Seq(S)
  BY <1>4, <1>5
<1>7. \A n, l \in DOMAIN r : r[n] = r[l] => n = l
  <2> SUFFICES ASSUME NEW n \in 1 .. Len(q) - 1, NEW l \in 1 .. Len(q) - 1, r[n] = r[l]
               PROVE  n = l
    BY <1>5
  <2>1. PICK a \in DOMAIN q : r[n] = q[a] /\ a = IF n < m THEN n ELSE n + 1
    BY <1>3, <1>4
  <2>2. PICK b \in DOMAIN q : r[l] = q[b] /\ b = IF l < m THEN l ELSE l + 1
    BY <1>3, <1>4
  <2>3. a = b
    BY <2>1, <2>2 DEF OneEach
  <2> QED BY <1>4, <2>1, <2>2, <2>3
<1>8. \A n \in DOMAIN r : r[n] # j /\ \E l \in DOMAIN q : r[n] = q[l]
  <2> SUFFICES ASSUME NEW n \in 1 .. Len(q) - 1
               PROVE  r[n] # j /\ \E l \in DOMAIN q : r[n] = q[l]
    BY <1>5
  <2>1. PICK a \in DOMAIN q : r[n] = q[a] /\ a = IF n < m THEN n ELSE n + 1
    BY <1>3, <1>4
  <2>2. a # m
    BY <1>4, <2>1
  <2> QED BY <1>0, <2>1, <2>2
<1>9. \A l \in DOMAIN q : q[l] # j => \E n \in DOMAIN r : r[n] = q[l]
  <2> SUFFICES ASSUME NEW l \in DOMAIN q, l # m PROVE \E n \in DOMAIN r : r[n] = q[l]
    BY <1>0
  <2>1. CASE l < m
    <3>1. l \in DOMAIN r /\ r[l] = q[l]
      BY <1>3, <1>4, <1>5, <2>1
    <3> QED BY <3>1
  <2>2. CASE l > m
    <3>1. l - 1 \in DOMAIN r /\ r[l - 1] = q[l]
      BY <1>3, <1>4, <1>5, <2>2
    <3> QED BY <3>1
  <2> QED BY <1>4, <2>1, <2>2
<1>10. Entries(r) = Entries(q) \ {j}
  BY <1>8, <1>9 DEF Entries
<1> QED BY <1>6, <1>7, <1>10 DEF r, OneEach

(* finish_task_1_svc() for a job that is queued.                           *)
LEMMA FinishJobs ==
  ASSUME ClusterInv, NEW t \in AllTasks, NEW ok \in BOOLEAN, FinishTask(t, ok),
         t.job \in Queued, UNCHANGED regime
  PROVE  LET new == UpdateJobInfo(all_job[t.job], t, ok)
         IN  /\ all_job' \in Seq(Job) /\ Len(all_job') = Len(all_job)
             /\ DOMAIN all_job' = DOMAIN all_job /\ UNCHANGED next_id
             /\ ~all_job[t.job].done
             /\ \A j \in DOMAIN all_job : all_job'[j] = IF j = t.job THEN new ELSE all_job[j]
             /\ waiting_queue' \in Seq(1..next_id) /\ QueueExact'
             /\ Queued' = IF new.done THEN Queued \ {t.job} ELSE Queued
<1> DEFINE new == UpdateJobInfo(all_job[t.job], t, ok)
<1>0. /\ TypeOK /\ QueueExact /\ Queued = {j \in DOMAIN all_job : ~all_job[j].done}
      /\ \A m, n \in DOMAIN waiting_queue : waiting_queue[m] = waiting_queue[n] => m = n
  BY DEF ClusterInv, QueueExact
<1>1. t.job \in DOMAIN all_job /\ ~all_job[t.job].done
  BY <1>0
<1>2. new \in Job
  BY <1>0, <1>1, UpdateJobType
<1>3. /\ all_job' = [all_job EXCEPT ![t.job] = new] /\ next_id' = next_id
      /\ waiting_queue' = IF new.done THEN WithoutJob(waiting_queue, t.job) ELSE waiting_queue
  BY DEF FinishTask
<1> HIDE DEF new
<1>4. /\ all_job' \in Seq(Job) /\ Len(all_job') = Len(all_job)
      /\ DOMAIN all_job' = DOMAIN all_job
      /\ \A j \in DOMAIN all_job : all_job'[j] = IF j = t.job THEN new ELSE all_job[j]
  <2>1. all_job \in Seq(Job)
    BY <1>0 DEF TypeOK
  <2> QED BY <1>1, <1>2, <1>3, <2>1, SeqSet
<1>5. /\ waiting_queue' \in Seq(1..next_id)
      /\ \A m, n \in DOMAIN waiting_queue' : waiting_queue'[m] = waiting_queue'[n] => m = n
      /\ Queued' = IF new.done THEN Queued \ {t.job} ELSE Queued
  <2>1. waiting_queue \in Seq(1..next_id)
    BY <1>0 DEF TypeOK
  <2>2. CASE new.done
    <3>1. waiting_queue' = WithoutJob(waiting_queue, t.job)
      BY <1>3, <2>2
    <3>2. OneEach(waiting_queue) /\ t.job \in Entries(waiting_queue)
      BY <1>0 DEF OneEach, Entries, Queued
    <3>3. /\ WithoutJob(waiting_queue, t.job) \in Seq(1..next_id)
          /\ OneEach(WithoutJob(waiting_queue, t.job))
          /\ Entries(WithoutJob(waiting_queue, t.job)) = Entries(waiting_queue) \ {t.job}
      BY <2>1, <3>2, WithoutJobIs
    <3> QED BY <2>2, <3>1, <3>3, ZenonT(60) DEF Queued, OneEach, Entries
  <2>3. CASE ~new.done
    BY <1>0, <1>3, <2>1, <2>3 DEF Queued
  <2> QED BY <2>2, <2>3
<1>6. QueueExact'
  <2>1. new.done \in BOOLEAN
    BY <1>2 DEF Job
  <2>2. Queued' = {j \in DOMAIN all_job' : ~all_job'[j].done}
    BY <1>0, <1>1, <1>4, <1>5, <2>1
  <2> QED BY <1>5, <2>2 DEF QueueExact
<1> QED BY <1>1, <1>3, <1>4, <1>5, <1>6 DEF new

LEMMA FinishTypes ==
  ASSUME ClusterInv, NEW m \in BagToSet(wire), m.type = "finish",
         HandleFinish(m.task, m.success)
  PROVE  /\ ClusterInv'
         /\ m.task \in AllTasks /\ m.success \in BOOLEAN /\ m = FinishRequest(m.task, m.success)
<1>1. m.task \in AllTasks /\ m.success \in BOOLEAN /\ m = FinishRequest(m.task, m.success)
  BY DEF ClusterInv, TypeOK, Requests, SubmitRequest, GetRequest, FinishRequest
<1> DEFINE t == m.task
           ok == m.success
<1> HIDE DEF t, ok
<1>2. /\ t \in AllTasks /\ ok \in BOOLEAN
      /\ FinishTask(t, ok) /\ Receive(FinishRequest(t, ok))
      /\ UNCHANGED <<files, cl, poll, success, regime, retries, crashes>>
      /\ losses' \in Nat
  BY <1>1 DEF t, ok, HandleFinish, workers, clients, ReplyLost, ReplyArrives, ClusterInv, TypeOK
<1>3. /\ all_job' \in Seq(Job) /\ Len(all_job') = Len(all_job)
      /\ DOMAIN all_job' = DOMAIN all_job /\ UNCHANGED next_id
      /\ waiting_queue' \in Seq(1..next_id) /\ QueueExact'
  <2>1. CASE t.job \in Queued
    BY <1>2, <2>1, FinishJobs
  <2>2. CASE t.job \notin Queued
    <3>1. UNCHANGED <<next_id, waiting_queue, all_job>>
      BY <1>2, <2>2 DEF FinishTask, coordinator
    <3> QED BY <1>2, <3>1, SameQueue DEF ClusterInv, TypeOK
  <2> QED BY <2>1, <2>2
<1>4. AllTasks' = AllTasks /\ Requests' = Requests /\ Job' = Job
      /\ \A S : Table(S)' = Table(S)
  BY <1>2, <1>3, TasksKept, Static
<1>5. IsABag(wire') /\ BagToSet(wire') \subseteq Requests
  BY <1>2, ReceiveBag DEF ClusterInv, TypeOK
<1>6. \/ UNCHANGED <<at, task>>
      \/ \E w \in Worker : /\ at' = [at EXCEPT ![w] = "idle"]
                           /\ task' = [task EXCEPT ![w] = NoTask]
  BY DEF HandleFinish, workers
<1>7. /\ at' \in [Worker -> {"idle", "asking", "assigned", "opened", "counted", "short", "finishing", "dead"}]
      /\ task' \in [Worker -> AllTasks \cup {NoTask}]
  BY <1>6 DEF ClusterInv, TypeOK
<1>8. TypeOK'
  BY <1>2, <1>3, <1>4, <1>5, <1>7 DEF ClusterInv, TypeOK, NoTask
<1>9. BusyWorkers'
  BY <1>4, <1>6 DEF ClusterInv, TypeOK, BusyWorkers, Busy
<1> QED BY <1>1, <1>3, <1>8, <1>9 DEF ClusterInv

LEMMA ClusterInit == Init => ClusterInv
<1> SUFFICES ASSUME Init PROVE ClusterInv
  OBVIOUS
<1>1. regime \in Regimes
  BY DEF Init
<1>2. retries \in Nat /\ losses \in Nat /\ crashes \in Nat
  BY <1>1, MRBounds DEF Init
<1>3. files \in [Client -> Table({"absent", "partial", "complete"})]
  <2>1. Filled("absent") \in Table({"absent", "partial", "complete"})
    BY FilledType
  <2> QED BY <2>1 DEF Init
<1>4. IsABag(wire) /\ BagToSet(wire) = {}
  BY DEF Init, EmptyBag, SetToBag, IsABag, BagToSet
<1>5. TypeOK
  BY <1>1, <1>2, <1>3, <1>4 DEF Init, TypeOK
<1>6. BusyWorkers
  BY DEF Init, BusyWorkers, Busy
<1>7. QueueExact
  BY DEF Init, QueueExact, Queued
<1> QED BY <1>5, <1>6, <1>7 DEF ClusterInv

LEMMA ClusterNext == ClusterInv /\ [Next]_vars => ClusterInv'
<1> SUFFICES ASSUME ClusterInv, [Next]_vars PROVE ClusterInv'
  OBVIOUS
<1>1. ASSUME NEW c \in Client, HandleSubmit(c) PROVE ClusterInv'
  BY <1>1, SubmitTypes
<1>2. ASSUME HandleGet PROVE ClusterInv'
  BY <1>2, GetTypes
<1>3. ASSUME NEW m \in BagToSet(wire), m.type = "finish", HandleFinish(m.task, m.success)
      PROVE  ClusterInv'
  BY <1>3, FinishTypes
<1>4. ASSUME NEW w \in Worker, WorkerStep(w) \/ Crash(w) PROVE ClusterInv'
  BY <1>4, WorkerTypes
<1>5. ASSUME NEW c \in Client, ClientStep(c) PROVE ClusterInv'
  BY <1>5, ClientTypes
<1>6. CASE Retransmit \/ Lose
  BY <1>6, NetworkTypes
<1>7. CASE Tick
  BY <1>7, TickTypes
<1>8. CASE UNCHANGED vars
  <2>1. UNCHANGED <<coordinator, files, at, task, success, cl, poll, wire,
                    regime, retries, losses, crashes>>
    BY <1>8 DEF vars, workers, clients, bounds
  <2> QED BY <2>1, NoCall DEF ClusterInv, TypeOK, BusyWorkers, Busy
<1> QED BY <1>1, <1>2, <1>3, <1>4, <1>5, <1>6, <1>7, <1>8 DEF Next, Coordinator

(* The cluster's variables keep their types, and a busy worker has a task. *)
THEOREM ClusterInductive == Spec => []ClusterInv
BY ClusterInit, ClusterNext, PTL DEF Spec

(* Every variable keeps its type, whatever is lost, repeated or crashes.   *)
THEOREM ClusterTypes == Spec => []TypeOK
<1>1. ClusterInv => TypeOK
  BY DEF ClusterInv
<1> QED BY <1>1, ClusterInductive, PTL

(* The queue of get_task_1_svc() and finish_task_1_svc() holds exactly the *)
(* jobs that are not done, each once, in every regime.                     *)
THEOREM QueueIsExact == Spec => []QueueExact
<1>1. ClusterInv => QueueExact
  BY DEF ClusterInv
<1> QED BY <1>1, ClusterInductive, PTL

(* No step touches a job outside the queue.                                *)
LEMMA DoneJobsStand ==
  ASSUME ClusterInv, [Next]_vars, NEW j \in DOMAIN all_job, j \notin Queued
  PROVE  all_job'[j] = all_job[j]
<1>1. ASSUME NEW c \in Client, HandleSubmit(c) PROVE all_job'[j] = all_job[j]
  BY <1>1, SubmitJobs DEF HandleSubmit
<1>2. ASSUME HandleGet PROVE all_job'[j] = all_job[j]
  BY <1>2, GetJobs DEF HandleGet
<1>3. ASSUME NEW m \in BagToSet(wire), m.type = "finish", HandleFinish(m.task, m.success)
      PROVE  all_job'[j] = all_job[j]
  <2>1. m.task \in AllTasks /\ m.success \in BOOLEAN
    BY <1>3, FinishTypes
  <2>2. FinishTask(m.task, m.success) /\ UNCHANGED regime
    BY <1>3 DEF HandleFinish
  <2>3. CASE m.task.job \in Queued
    BY <2>1, <2>2, <2>3, FinishJobs
  <2>4. CASE m.task.job \notin Queued
    BY <2>2, <2>4 DEF FinishTask, coordinator
  <2> QED BY <2>3, <2>4
<1>4. CASE Tick
  BY <1>4, TickJobs
<1>5. ASSUME UNCHANGED coordinator PROVE all_job'[j] = all_job[j]
  BY <1>5 DEF coordinator
<1>6. ASSUME NEW w \in Worker, WorkerStep(w) \/ Crash(w) PROVE all_job'[j] = all_job[j]
  BY <1>5, <1>6 DEF WorkerStep, AskTask, MapOpen, MapWrite, MapFails, ReduceFails,
                    ReduceOpen, ReduceWrite, Report, CallFails, Crash
<1>7. ASSUME NEW c \in Client, ClientStep(c) PROVE all_job'[j] = all_job[j]
  BY <1>5, <1>7 DEF ClientStep, Submit, SubmitFails, PollJob
<1>8. CASE Retransmit \/ Lose
  BY <1>5, <1>8 DEF Retransmit, Lose
<1>9. CASE UNCHANGED vars
  BY <1>5, <1>9 DEF vars
<1> QED
  BY <1>1, <1>2, <1>3, <1>4, <1>6, <1>7, <1>8, <1>9 DEF Next, Coordinator

(* The outcome of a finished job stands: late, repeated or lost reports    *)
(* of its tasks change nothing that poll_job_1_svc() returns.              *)
THEOREM OutcomesFinal == Spec => OutcomeFinal
<1>1. ClusterInv /\ [Next]_vars =>
        [\A j \in DOMAIN all_job : all_job[j].done => all_job'[j] = all_job[j]]_vars
  <2> SUFFICES ASSUME ClusterInv, [Next]_vars, NEW j \in DOMAIN all_job, all_job[j].done
               PROVE  all_job'[j] = all_job[j]
    OBVIOUS
  <2>1. j \notin Queued
    BY DEF ClusterInv, QueueExact
  <2> QED BY <2>1, DoneJobsStand
<1> QED BY <1>1, ClusterInductive, PTL DEF Spec, OutcomeFinal

-----------------------------------------------------------------------------
(* The timely cluster: what the operators of its invariant mean.           *)
LEMMA IndicesCount ==
  ASSUME TypeOK, NEW k \in Kinds
  PROVE  IsFiniteSet(Indices(k)) /\ Cardinality(Indices(k)) = Count(k)
<1>1. Count(k) \in Nat \ {0}
  BY RegimeType
<1>2. IsFiniteSet(0 .. Count(k) - 1) /\ Cardinality(0 .. Count(k) - 1) = Count(k)
  <2> DEFINE n == Count(k) - 1
  <2>1. n \in Int /\ 0 \in Int /\ 0 <= n /\ n - 0 + 1 = Count(k)
    BY <1>1
  <2> HIDE DEF n
  <2>2. IsFiniteSet(0..n) /\ Cardinality(0..n) = n - 0 + 1
    BY <2>1, FS_Interval
  <2> QED BY <2>1, <2>2 DEF n
<1> QED BY <1>2 DEF Indices

(* A phase is over when as many tasks have succeeded as it has.            *)
LEMMA AllSucceeded ==
  ASSUME TypeOK, NEW j, NEW k \in Kinds
  PROVE  /\ IsFiniteSet(Succeeded(j, k)) /\ Cardinality(Succeeded(j, k)) \in Nat
         /\ Cardinality(Succeeded(j, k)) = Count(k) <=> Succeeded(j, k) = Indices(k)
<1>1. IsFiniteSet(Indices(k)) /\ Cardinality(Indices(k)) = Count(k)
  BY IndicesCount
<1>2. Succeeded(j, k) \subseteq Indices(k)
  BY DEF Succeeded
<1> QED BY <1>1, <1>2, FS_Subset, FS_CardinalityType

LEMMA UnderwayIs ==
  ASSUME TypeOK, NEW t
  PROVE  InProgress(t) <=> Underway(t)
<1>1. (\E w \in Worker : at[w] \in {"assigned", "opened", "counted", "short", "finishing"} /\ task[w] = t)
        <=> \E w \in Worker : Holds(w, t)
  BY DEF Holds, Busy
<1>2. ASSUME NEW m \in BagToSet(wire), m.type = "finish", m.task = t
      PROVE  \E ok \in BOOLEAN : Reported(t, ok)
  <2>1. m \in Requests
    BY DEF TypeOK
  <2>2. PICK u \in AllTasks, ok \in BOOLEAN : m = FinishRequest(u, ok)
    BY <1>2, <2>1 DEF Requests, SubmitRequest, GetRequest
  <2>3. u = t
    BY <1>2, <2>2 DEF FinishRequest
  <2> QED BY <2>2, <2>3 DEF Reported, BagIn
<1>3. ASSUME NEW ok \in BOOLEAN, Reported(t, ok)
      PROVE  \E m \in BagToSet(wire) : m.type = "finish" /\ m.task = t
  BY <1>3 DEF Reported, BagIn, FinishRequest
<1> QED BY <1>1, <1>2, <1>3 DEF InProgress, Underway

(* A step that neither gives t to a worker nor reports it.                 *)
LEMMA OneWorkerTimed ==
  ASSUME NEW t, OneWorker(t),
         \A w \in Worker : Holds(w, t)' =>
           /\ Holds(w, t)
           /\ at[w] = "finishing" => at'[w] = "finishing" /\ success'[w] = success[w],
         \A ok \in BOOLEAN : Reported(t, ok)' =>
           Reported(t, ok) /\ wire'[FinishRequest(t, ok)] = wire[FinishRequest(t, ok)],
         Time(t) # Unassigned => Time(t)' # Unassigned,
         Underway(t) /\ t.job \in Queued' => Time(t)' # TaskTimeout,
         Done(t)' <=> Done(t)
  PROVE  OneWorker(t)'
<1>1. (\A v, w \in Worker : Holds(v, t) /\ Holds(w, t) => v = w)'
  BY DEF OneWorker
<1>2. (\A ok \in BOOLEAN : Reported(t, ok) =>
         /\ wire[FinishRequest(t, ok)] = 1 /\ ~Reported(t, ~ok) /\ ~Done(t)
         /\ \A w \in Worker : Holds(w, t) => at[w] = "finishing" /\ success[w] = ok)'
  <2> SUFFICES ASSUME NEW ok \in BOOLEAN, Reported(t, ok)'
               PROVE  /\ wire'[FinishRequest(t, ok)] = 1 /\ ~Reported(t, ~ok)' /\ ~Done(t)'
                      /\ \A w \in Worker : Holds(w, t)' => at'[w] = "finishing" /\ success'[w] = ok
    BY DEF FinishRequest
  <2>1. /\ Reported(t, ok) /\ wire'[FinishRequest(t, ok)] = wire[FinishRequest(t, ok)]
        /\ (~ok) \in BOOLEAN
    OBVIOUS
  <2>2. /\ wire[FinishRequest(t, ok)] = 1 /\ ~Reported(t, ~ok) /\ ~Done(t)
        /\ \A w \in Worker : Holds(w, t) => at[w] = "finishing" /\ success[w] = ok
    BY <2>1 DEF OneWorker
  <2> QED BY <2>1, <2>2
<1>3. (Underway(t) => Time(t) # Unassigned /\ (t.job \in Queued => Time(t) # TaskTimeout))'
  <2>1. Underway(t)' => Underway(t)
    BY DEF Underway
  <2> QED BY <2>1 DEF OneWorker, Unassigned
<1>4. (Done(t) => /\ Time(t) # Unassigned
                  /\ \A w \in Worker : Holds(w, t) => at[w] = "finishing")'
  BY DEF OneWorker, Unassigned
<1> QED BY <1>1, <1>2, <1>3, <1>4 DEF OneWorker

LEMMA OneWorkerKept ==
  ASSUME NEW t, OneWorker(t),
         \A w \in Worker : Holds(w, t)' =>
           /\ Holds(w, t)
           /\ at[w] = "finishing" => at'[w] = "finishing" /\ success'[w] = success[w],
         \A ok \in BOOLEAN : Reported(t, ok)' =>
           Reported(t, ok) /\ wire'[FinishRequest(t, ok)] = wire[FinishRequest(t, ok)],
         Time(t)' = Time(t), Done(t)' <=> Done(t), t.job \in Queued' => t.job \in Queued
  PROVE  OneWorker(t)'
<1>1. Underway(t) /\ t.job \in Queued' => Time(t)' # TaskTimeout
  BY DEF OneWorker
<1> QED BY <1>1, OneWorkerTimed

(* Requests of different kinds, tasks or outcomes are different.           *)
LEMMA RequestsDiffer ==
  ASSUME NEW t, NEW ok \in BOOLEAN
  PROVE  /\ FinishRequest(t, ok) # GetRequest
         /\ \A c : FinishRequest(t, ok) # SubmitRequest(c)
         /\ \A c : SubmitRequest(c) # GetRequest
         /\ \A b, c : SubmitRequest(b) = SubmitRequest(c) => b = c
         /\ \A u : \A o \in BOOLEAN :
              FinishRequest(t, ok) = FinishRequest(u, o) => t = u /\ ok = o
<1>1. /\ FinishRequest(t, ok).type = "finish" /\ GetRequest.type = "get"
      /\ \A c : SubmitRequest(c).type = "submit" /\ SubmitRequest(c).client = c
      /\ \A u, o : FinishRequest(u, o).task = u /\ FinishRequest(u, o).success = o
  BY DEF FinishRequest, GetRequest, SubmitRequest
<1> QED BY <1>1

(* A message arrives on the wire, or leaves it.                            *)
LEMMA Sent ==
  ASSUME TypeOK, NEW m, Send(m)
  PROVE  /\ \A n : n # m => /\ BagIn(n, wire)' <=> BagIn(n, wire)
                            /\ BagIn(n, wire) => wire'[n] = wire[n]
         /\ BagIn(m, wire)'
         /\ ~BagIn(m, wire) => wire'[m] = 1
<1>1. IsABag(wire)
  BY DEF TypeOK
<1> QED BY <1>1, SendBag DEF BagIn

LEMMA Received ==
  ASSUME TypeOK, NEW m, Receive(m)
  PROVE  /\ BagIn(m, wire)
         /\ \A n : BagIn(n, wire)' => BagIn(n, wire)
         /\ \A n : n # m /\ BagIn(n, wire) => BagIn(n, wire)' /\ wire'[n] = wire[n]
         /\ wire[m] = 1 => ~BagIn(m, wire)'
<1>1. IsABag(wire)
  BY DEF TypeOK
<1> QED BY <1>1, ReceiveBag DEF BagIn

LEMMA OneWorkerReceive ==
  ASSUME TypeOK, NEW m, Receive(m), NEW t, OneWorker(t), NEW ok \in BOOLEAN, Reported(t, ok)'
  PROVE  /\ Reported(t, ok) /\ FinishRequest(t, ok) # m
         /\ wire'[FinishRequest(t, ok)] = wire[FinishRequest(t, ok)]
<1> DEFINE r == FinishRequest(t, ok)
<1>0. BagIn(r, wire)'
  BY DEF Reported, FinishRequest
<1>1. BagIn(r, wire)
  BY <1>0, Received
<1>2. wire[r] = 1
  BY <1>1 DEF OneWorker, Reported
<1>3. r # m
  BY <1>0, <1>2, Received
<1> QED BY <1>1, <1>3, Received DEF Reported

(* A step that does not reach the coordinator.                             *)
LEMMA JobsKept ==
  ASSUME UNCHANGED <<regime, coordinator>>
  PROVE  /\ AllTasks' = AllTasks /\ Queued' = Queued
         /\ \A t : Time(t)' = Time(t) /\ Done(t)' = Done(t)
         /\ \A c : JobsOf(c)' = JobsOf(c)
         /\ \A j : TasksCounted(j) => TasksCounted(j)'
<1>1. \A k : Indices(k)' = Indices(k)
  BY Static
<1>2. \A j, k : Succeeded(j, k)' = Succeeded(j, k)
  BY <1>1 DEF Succeeded, coordinator
<1>3. \A j : TasksCounted(j) => TasksCounted(j)'
  BY <1>1, <1>2 DEF TasksCounted, coordinator, Unassigned
<1>4. AllTasks' = AllTasks
  BY TasksKept DEF coordinator
<1> QED BY <1>3, <1>4 DEF coordinator, Queued, Time, Done, JobsOf

LEMMA OneJobKept ==
  ASSUME OneJobEach, UNCHANGED <<coordinator, cl, poll>>,
         \A c \in Client : BagIn(SubmitRequest(c), wire)' =>
           BagIn(SubmitRequest(c), wire) /\ wire'[SubmitRequest(c)] = wire[SubmitRequest(c)]
  PROVE  OneJobEach'
<1>1. ASSUME NEW c \in Client PROVE OneJob(c)'
  <2>1. OneJob(c) /\ JobsOf(c)' = JobsOf(c)
    BY DEF OneJobEach, JobsOf, coordinator
  <2> QED BY <2>1 DEF OneJob, coordinator, SubmitRequest
<1>2. (\A i, j \in DOMAIN all_job : all_job[i].client = all_job[j].client => i = j)'
  BY DEF OneJobEach, coordinator
<1> QED BY <1>1, <1>2 DEF OneJobEach

LEMMA Orderly ==
  ASSUME OrderlyCluster, UNCHANGED <<regime, coordinator, retries>>, OneJobEach',
         \A t \in AllTasks : OneWorker(t)' /\ OutputComplete(t)'
  PROVE  OrderlyCluster'
BY JobsKept DEF OrderlyCluster, coordinator

(* A task's files stay what they are unless they are written.              *)
LEMMA OutputKept ==
  ASSUME NEW t, OutputComplete(t), UNCHANGED <<coordinator, files>>,
         Reported(t, TRUE)' => Reported(t, TRUE)
  PROVE  OutputComplete(t)'
BY DEF OutputComplete, FilesOf, Done, coordinator

(* A worker that holds t has not reported it before it is finishing.       *)
LEMMA NotYet ==
  ASSUME NEW t, OneWorker(t), NEW w \in Worker, Holds(w, t), at[w] # "finishing"
  PROVE  /\ ~Done(t) /\ \A ok \in BOOLEAN : ~Reported(t, ok)
         /\ Time(t) # Unassigned /\ \A v \in Worker : Holds(v, t) => v = w
<1>1. Underway(t)
  BY DEF Underway
<1> QED BY <1>1 DEF OneWorker

(* The worker of t reports it.                                             *)
LEMMA OneWorkerReport ==
  ASSUME ClusterInv, OrderlyCluster, NEW w \in Worker, NEW res \in BOOLEAN,
         Busy(w), at[w] # "finishing", Report(w, res), NEW t \in AllTasks
  PROVE  /\ OneWorker(t)'
         /\ Reported(t, TRUE)' => Reported(t, TRUE) \/ (t = task[w] /\ res = TRUE)
<1>0. /\ TypeOK /\ OneWorker(t) /\ UNCHANGED <<regime, coordinator, task>>
      /\ at' = [at EXCEPT ![w] = "finishing"] /\ success' = [success EXCEPT ![w] = res]
      /\ at \in [Worker -> {"idle", "asking", "assigned", "opened", "counted", "short", "finishing", "dead"}]
      /\ success \in [Worker -> BOOLEAN]
      /\ Send(FinishRequest(task[w], res))
  BY DEF ClusterInv, TypeOK, OrderlyCluster, Report, bounds
<1>1. /\ \A v \in Worker : Busy(v)' <=> Busy(v)
      /\ \A v \in Worker : Holds(v, t)' <=> Holds(v, t)
      /\ \A v \in Worker : v # w => at'[v] = at[v] /\ success'[v] = success[v]
      /\ at'[w] = "finishing" /\ success'[w] = res
  BY <1>0 DEF Busy, Holds
<1>2. Time(t)' = Time(t) /\ Done(t)' = Done(t) /\ Queued' = Queued
  BY <1>0, JobsKept
<1>3. CASE t # task[w]
  <2>1. \A ok \in BOOLEAN : FinishRequest(t, ok) # FinishRequest(task[w], res)
    BY <1>3, RequestsDiffer
  <2>2. \A ok \in BOOLEAN : Reported(t, ok)' =>
           Reported(t, ok) /\ wire'[FinishRequest(t, ok)] = wire[FinishRequest(t, ok)]
    BY <1>0, <2>1, Sent DEF Reported, FinishRequest
  <2>3. ~Holds(w, t)
    BY <1>3 DEF Holds
  <2>4. \A v \in Worker : Holds(v, t)' =>
          /\ Holds(v, t)
          /\ at[v] = "finishing" => at'[v] = "finishing" /\ success'[v] = success[v]
    BY <1>1, <2>3
  <2>5. OneWorker(t)'
    BY <1>0, <1>2, <2>2, <2>4, OneWorkerKept
  <2> DEFINE yes == TRUE
  <2>6. yes \in BOOLEAN
    OBVIOUS
  <2>7. Reported(t, yes)' => Reported(t, yes)
    <3> HIDE DEF yes
    <3> QED BY <2>2, <2>6
  <2> QED BY <2>5, <2>7
<1>4. CASE t = task[w]
  <2>1. Holds(w, t)
    BY <1>4 DEF Holds
  <2>2. /\ ~Done(t) /\ \A ok \in BOOLEAN : ~Reported(t, ok)
        /\ Time(t) # Unassigned /\ \A v \in Worker : Holds(v, t) => v = w
    BY <1>0, <2>1, NotYet
  <2>3. t.job \in Queued => Time(t) # TaskTimeout
    BY <1>0, <2>1 DEF OneWorker, Underway
  <2>4. \A ok \in BOOLEAN : Reported(t, ok)' =>
           ok = res /\ wire'[FinishRequest(t, ok)] = 1
    <3> SUFFICES ASSUME NEW ok \in BOOLEAN, Reported(t, ok)'
                 PROVE  ok = res /\ wire'[FinishRequest(t, ok)] = 1
      OBVIOUS
    <3>1. BagIn(FinishRequest(t, ok), wire)' /\ ~BagIn(FinishRequest(t, ok), wire)
      BY <2>2 DEF Reported, FinishRequest
    <3>2. FinishRequest(t, ok) = FinishRequest(task[w], res)
      BY <1>0, <3>1, Sent
    <3> QED BY <1>0, <3>1, <3>2, Sent, RequestsDiffer
  <2>5. (\A ok \in BOOLEAN : Reported(t, ok) =>
           /\ wire[FinishRequest(t, ok)] = 1 /\ ~Reported(t, ~ok) /\ ~Done(t)
           /\ \A v \in Worker : Holds(v, t) => at[v] = "finishing" /\ success[v] = ok)'
    <3> SUFFICES ASSUME NEW ok \in BOOLEAN, Reported(t, ok)'
                 PROVE  /\ wire'[FinishRequest(t, ok)] = 1 /\ ~Reported(t, ~ok)' /\ ~Done(t)'
                        /\ \A v \in Worker : Holds(v, t)' =>
                             at'[v] = "finishing" /\ success'[v] = ok
      BY DEF FinishRequest
    <3>1. ok = res /\ wire'[FinishRequest(t, ok)] = 1
      BY <2>4
    <3>2. (~ok) \in BOOLEAN /\ (~ok) # res
      BY <3>1
    <3>3. ~Reported(t, ~ok)'
      BY <2>4, <3>2
    <3> QED BY <1>1, <1>2, <2>2, <3>1, <3>3
  <2>6. (\A v, u \in Worker : Holds(v, t) /\ Holds(u, t) => v = u)'
    BY <1>1, <2>2
  <2>7. (Underway(t) => Time(t) # Unassigned /\ (t.job \in Queued => Time(t) # TaskTimeout))'
    BY <1>2, <2>2, <2>3 DEF Unassigned
  <2>8. (Done(t) => /\ Time(t) # Unassigned
                    /\ \A v \in Worker : Holds(v, t) => at[v] = "finishing")'
    BY <1>2, <2>2
  <2>9. OneWorker(t)'
    BY <2>5, <2>6, <2>7, <2>8 DEF OneWorker
  <2> QED BY <1>4, <2>4, <2>9
<1> QED BY <1>3, <1>4

(* Two tasks that write the same files are the same task.                  *)
LEMMA OwnFiles ==
  ASSUME OrderlyCluster, NEW t \in AllTasks, NEW u \in AllTasks, t.kind = u.kind, t.index = u.index,
         all_job[t.job].client = all_job[u.job].client
  PROVE  t = u
<1>1. t.job = u.job
  BY TaskFields DEF OrderlyCluster, OneJobEach
<1> QED BY <1>1, TaskFields

(* The worker w of task u has written u's files and, unless it has only    *)
(* opened them, they are complete.                                         *)
LEMMA OutputWritten ==
  ASSUME ClusterInv, OrderlyCluster, NEW w \in Worker, Busy(w), at[w] # "finishing",
         NEW x \in {"partial", "complete"},
         files' = SetFiles(Dir(w), task[w].kind, task[w].index, x),
         UNCHANGED <<regime, coordinator>>, NEW t \in AllTasks,
         Reported(t, TRUE)' => Reported(t, TRUE) \/ (t = task[w] /\ x = "complete")
  PROVE  OutputComplete(t)'
<1> DEFINE u == task[w]
<1>1. /\ u \in AllTasks /\ u.job \in DOMAIN all_job
      /\ u.kind \in Kinds /\ u.index \in Indices(u.kind)
      /\ Dir(w) \in Client
  BY BusyTask
<1>2. /\ t.job \in DOMAIN all_job /\ t.kind \in Kinds /\ t.index \in Indices(t.kind)
      /\ all_job[t.job].client \in Client
  BY TaskFields, JobType DEF ClusterInv
<1>3. files'[all_job[t.job].client][t.kind][t.index] =
        IF all_job[t.job].client = Dir(w) /\ t.kind = u.kind /\ t.index = u.index
          THEN x ELSE files[all_job[t.job].client][t.kind][t.index]
  <2>1. TypeOK /\ x \in {"absent", "partial", "complete"}
    BY DEF ClusterInv
  <2>2. \A c \in Client : \A l \in Kinds : \A n \in Indices(l) :
          SetFiles(Dir(w), u.kind, u.index, x)[c][l][n] =
            IF c = Dir(w) /\ l = u.kind /\ n = u.index THEN x ELSE files[c][l][n]
    BY <1>1, <2>1, FilesType
  <2> HIDE DEF u
  <2>3. files' = SetFiles(Dir(w), u.kind, u.index, x)
    BY DEF u
  <2> QED BY <1>2, <2>2, <2>3
<1>4. FilesOf(t)' = IF all_job[t.job].client = Dir(w) /\ t.kind = u.kind /\ t.index = u.index
                      THEN x ELSE FilesOf(t)
  BY <1>3 DEF FilesOf, coordinator
<1>5. Done(t)' = Done(t)
  BY JobsKept
<1>6. CASE t = u
  <2>1. OneWorker(t) /\ Holds(w, t)
    BY <1>6 DEF OrderlyCluster, Holds
  <2>2. ~Done(t) /\ \A ok \in BOOLEAN : ~Reported(t, ok)
    BY <2>1, NotYet
  <2>3. ~Reported(t, TRUE)
    BY <2>2
  <2>4. x = "complete" => FilesOf(t)' = "complete"
    BY <1>4, <1>6 DEF Dir
  <2> QED BY <1>5, <2>2, <2>3, <2>4 DEF OutputComplete
<1>7. CASE t # u
  <2>1. ~(all_job[t.job].client = Dir(w) /\ t.kind = u.kind /\ t.index = u.index)
    BY <1>1, <1>7, OwnFiles DEF Dir
  <2>2. FilesOf(t)' = FilesOf(t) /\ OutputComplete(t)
    BY <1>4, <2>1 DEF OrderlyCluster
  <2> QED BY <1>5, <1>7, <2>2 DEF OutputComplete
<1> QED BY <1>6, <1>7

(* With every map task done, a reduce task finds every file complete.      *)
LEMMA ReduceInputs ==
  ASSUME ClusterInv, OrderlyCluster, NEW w \in Worker, at[w] \in {"assigned", "counted"},
         task[w].kind = "reduce"
  PROVE  Inputs(w) = {"complete"}
<1> DEFINE u == task[w]
           j == u.job
<1>1. /\ u \in AllTasks /\ j \in DOMAIN all_job /\ u.index \in Indices("reduce")
      /\ OneWorker(u) /\ TasksCounted(j) /\ TypeOK
  BY BusyTask DEF Busy, OrderlyCluster, ClusterInv
<1>2. Time(u) # Unassigned
  <2>1. Holds(w, u) /\ at[w] # "finishing"
    BY DEF Holds, Busy
  <2> QED BY <1>1, <2>1, NotYet
<1>3. Succeeded(j, "map") = Indices("map")
  BY <1>1, <1>2 DEF TasksCounted, Time
<1>4. ASSUME NEW i \in Indices("map") PROVE files[Dir(w)]["map"][i] = "complete"
  <2> DEFINE t == [job |-> j, kind |-> "map", index |-> i]
  <2>1. t \in AllTasks
    BY <1>1, TaskFields DEF Kinds
  <2>2. OutputComplete(t)
    BY <2>1 DEF OrderlyCluster
  <2>3. Done(t)
    BY <1>3 DEF Succeeded, Done
  <2> QED BY <2>2, <2>3 DEF OutputComplete, FilesOf, Dir
<1>5. 0 \in Indices("map")
  BY <1>1, RegimeType DEF Indices, Count, Kinds
<1> QED BY <1>4, <1>5 DEF Inputs

LEMMA SubmitsKept ==
  ASSUME TypeOK, NEW m, \A c : SubmitRequest(c) # m, Send(m)
  PROVE  \A c \in Client : BagIn(SubmitRequest(c), wire)' =>
           BagIn(SubmitRequest(c), wire) /\ wire'[SubmitRequest(c)] = wire[SubmitRequest(c)]
BY Sent DEF SubmitRequest

(* A report, with the task's files as the worker left them.                *)
LEMMA OrderlyReport ==
  ASSUME ClusterInv, OrderlyCluster, NEW w \in Worker, NEW res \in BOOLEAN,
         Busy(w), at[w] # "finishing", Report(w, res),
         \/ res = FALSE /\ files' = files
         \/ files' = SetFiles(Dir(w), task[w].kind, task[w].index, "complete")
  PROVE  OrderlyCluster'
<1>1. /\ TypeOK /\ UNCHANGED <<regime, coordinator, cl, poll, retries>>
      /\ Send(FinishRequest(task[w], res))
  BY DEF Report, bounds, clients, ClusterInv
<1>2. OneJobEach'
  <2>1. \A c : SubmitRequest(c) # FinishRequest(task[w], res)
    BY RequestsDiffer
  <2> QED BY <1>1, <2>1, SubmitsKept, OneJobKept DEF OrderlyCluster
<1>3. ASSUME NEW t \in AllTasks PROVE OneWorker(t)' /\ OutputComplete(t)'
  <2>1. /\ OneWorker(t)'
        /\ Reported(t, TRUE)' => Reported(t, TRUE) \/ (t = task[w] /\ res = TRUE)
    BY OneWorkerReport
  <2>2. CASE res = FALSE /\ files' = files
    BY <1>1, <2>1, <2>2, OutputKept DEF OrderlyCluster
  <2>3. CASE files' = SetFiles(Dir(w), task[w].kind, task[w].index, "complete")
    BY <1>1, <2>1, <2>3, OutputWritten
  <2> QED BY <2>1, <2>2, <2>3
<1> QED BY <1>1, <1>2, <1>3, Orderly

(* Steps that take a task from a worker, or nothing.                       *)
LEMMA OrderlyQuiet ==
  ASSUME ClusterInv, OrderlyCluster, UNCHANGED <<regime, coordinator, success, files, retries>>,
         \A w \in Worker : /\ at'[w] \in {"assigned", "opened", "counted", "short", "finishing"} => Busy(w) /\ task'[w] = task[w]
                           /\ at[w] = "finishing" /\ at'[w] \in {"assigned", "opened", "counted", "short", "finishing"}
                                => at'[w] = "finishing",
         \/ wire' = wire
         \/ \E m : Send(m) /\ \A t : \A ok \in BOOLEAN : FinishRequest(t, ok) # m
         \/ \E m : Receive(m),
         OneJobEach'
  PROVE  OrderlyCluster'
<1> SUFFICES ASSUME NEW t \in AllTasks PROVE OneWorker(t)' /\ OutputComplete(t)'
  BY Orderly
<1>0. TypeOK /\ OneWorker(t) /\ OutputComplete(t)
  BY DEF ClusterInv, OrderlyCluster
<1>1. \A w \in Worker : Holds(w, t)' =>
        /\ Holds(w, t)
        /\ at[w] = "finishing" => at'[w] = "finishing" /\ success'[w] = success[w]
  BY DEF Holds, Busy
<1>2. \A ok \in BOOLEAN : Reported(t, ok)' =>
        Reported(t, ok) /\ wire'[FinishRequest(t, ok)] = wire[FinishRequest(t, ok)]
  <2> SUFFICES ASSUME NEW ok \in BOOLEAN, Reported(t, ok)'
               PROVE  Reported(t, ok) /\ wire'[FinishRequest(t, ok)] = wire[FinishRequest(t, ok)]
    OBVIOUS
  <2>1. CASE wire' = wire
    BY <2>1 DEF Reported, FinishRequest
  <2>2. ASSUME NEW m, Send(m), FinishRequest(t, ok) # m
        PROVE  Reported(t, ok) /\ wire'[FinishRequest(t, ok)] = wire[FinishRequest(t, ok)]
    BY <1>0, <2>2, Sent DEF Reported, FinishRequest
  <2>3. ASSUME NEW m, Receive(m)
        PROVE  Reported(t, ok) /\ wire'[FinishRequest(t, ok)] = wire[FinishRequest(t, ok)]
    BY <1>0, <2>3, OneWorkerReceive
  <2> QED BY <2>1, <2>2, <2>3
<1>3. Time(t)' = Time(t) /\ Done(t)' = Done(t) /\ Queued' = Queued
  BY JobsKept
<1>4. OneWorker(t)'
  BY <1>0, <1>1, <1>2, <1>3, OneWorkerKept
<1>5. OutputComplete(t)'
  <2> DEFINE yes == TRUE
  <2>1. yes \in BOOLEAN
    OBVIOUS
  <2>2. Reported(t, yes)' => Reported(t, yes)
    <3> HIDE DEF yes
    <3> QED BY <1>2, <2>1
  <2> QED BY <1>0, <2>2, OutputKept
<1> QED BY <1>4, <1>5

(* A worker opens, and truncates, the files of its task.                   *)
LEMMA OrderlyOpen ==
  ASSUME ClusterInv, OrderlyCluster, NEW w \in Worker, at[w] = "assigned",
         NEW to \in {"opened", "counted"},
         UNCHANGED <<regime, coordinator, task, success, cl, poll, retries, wire>>,
         at' = [at EXCEPT ![w] = to],
         files' = SetFiles(Dir(w), task[w].kind, task[w].index, "partial")
  PROVE  OrderlyCluster'
<1>1. /\ at \in [Worker -> {"idle", "asking", "assigned", "opened", "counted", "short", "finishing", "dead"}]
      /\ TypeOK /\ OneJobEach
  BY DEF ClusterInv, TypeOK, OrderlyCluster
<1>2. Busy(w) /\ at[w] # "finishing"
  BY DEF Busy
<1>3. OneJobEach'
  BY <1>1, OneJobKept DEF SubmitRequest
<1>4. ASSUME NEW t \in AllTasks PROVE OneWorker(t)' /\ OutputComplete(t)'
  <2>1. OneWorker(t) /\ Time(t)' = Time(t) /\ Done(t)' = Done(t) /\ Queued' = Queued
    BY JobsKept DEF OrderlyCluster
  <2>2. \A v \in Worker : Holds(v, t)' =>
          /\ Holds(v, t)
          /\ at[v] = "finishing" => at'[v] = "finishing" /\ success'[v] = success[v]
    BY <1>1 DEF Holds, Busy
  <2>3. \A ok : Reported(t, ok)' <=> Reported(t, ok)
    BY DEF Reported, FinishRequest
  <2>4. OneWorker(t)'
    BY <2>1, <2>2, <2>3, OneWorkerKept
  <2>5. OutputComplete(t)'
    BY <1>2, <2>3, OutputWritten
  <2> QED BY <2>4, <2>5
<1> QED BY <1>3, <1>4, Orderly

LEMMA OrderlyWorker ==
  ASSUME ClusterInv, OrderlyCluster, NEW w \in Worker, WorkerStep(w) \/ Crash(w),
         at[w] # "short"
  PROVE  OrderlyCluster'
<1>0. /\ at \in [Worker -> {"idle", "asking", "assigned", "opened", "counted", "short", "finishing", "dead"}]
      /\ TypeOK /\ OneJobEach /\ (at[w] = "opened" => task[w].kind = "map")
  BY DEF ClusterInv, TypeOK, OrderlyCluster, BusyWorkers
<1>1. ASSUME AskTask(w) PROVE OrderlyCluster'
  <2>1. /\ UNCHANGED <<regime, coordinator, task, success, files, cl, poll, retries>>
        /\ at' = [at EXCEPT ![w] = "asking"] /\ Send(GetRequest)
    BY <1>1 DEF AskTask, bounds, clients
  <2>2. \A v \in Worker : /\ at'[v] \in {"assigned", "opened", "counted", "short", "finishing"} => Busy(v) /\ task'[v] = task[v]
                          /\ at[v] = "finishing" /\ at'[v] \in {"assigned", "opened", "counted", "short", "finishing"}
                               => at'[v] = "finishing"
    BY <1>0, <2>1 DEF Busy
  <2>3. /\ \A t : \A ok \in BOOLEAN : FinishRequest(t, ok) # GetRequest
        /\ \A c : SubmitRequest(c) # GetRequest
    BY DEF FinishRequest, GetRequest, SubmitRequest
  <2>4. OneJobEach'
    BY <1>0, <2>1, <2>3, SubmitsKept, OneJobKept
  <2> QED BY <2>1, <2>2, <2>3, <2>4, OrderlyQuiet
<1>2. ASSUME MapOpen(w) PROVE OrderlyCluster'
  <2>1. /\ UNCHANGED <<regime, coordinator, task, success, cl, poll, retries, wire>>
        /\ at' = [at EXCEPT ![w] = "opened"] /\ at[w] = "assigned" /\ task[w].kind = "map"
        /\ files' = SetFiles(Dir(w), task[w].kind, task[w].index, "partial")
    BY <1>2 DEF MapOpen, bounds, clients, SetFiles
  <2> QED BY <2>1, OrderlyOpen
<1>3. ASSUME MapWrite(w) PROVE OrderlyCluster'
  <2>1. /\ Busy(w) /\ at[w] # "finishing" /\ Report(w, TRUE)
        /\ files' = SetFiles(Dir(w), task[w].kind, task[w].index, "complete")
    BY <1>0, <1>3 DEF MapWrite, Busy, SetFiles
  <2> QED BY <2>1, OrderlyReport
<1>4. ASSUME MapFails(w) PROVE OrderlyCluster'
  <2>1. /\ Busy(w) /\ at[w] # "finishing" /\ Report(w, FALSE) /\ files' = files
    BY <1>4 DEF MapFails, Busy
  <2> QED BY <2>1, OrderlyReport
<1>5. ASSUME ReduceFails(w) PROVE OrderlyCluster'
  BY <1>5, ReduceInputs DEF ReduceFails
<1>6. ASSUME ReduceOpen(w) PROVE OrderlyCluster'
  <2>1. at[w] = "assigned" /\ task[w].kind = "reduce" /\ Inputs(w) = {"complete"}
    BY <1>6, ReduceInputs DEF ReduceOpen
  <2>2. /\ UNCHANGED <<regime, coordinator, task, success, cl, poll, retries, wire>>
        /\ at' = [at EXCEPT ![w] = "counted"]
        /\ files' = SetFiles(Dir(w), task[w].kind, task[w].index, "partial")
    BY <1>6, <2>1 DEF ReduceOpen, bounds, clients, SetFiles
  <2> QED BY <2>1, <2>2, OrderlyOpen
<1>7. ASSUME ReduceWrite(w) PROVE OrderlyCluster'
  <2>1. at[w] = "counted" /\ task[w].kind = "reduce" /\ Report(w, TRUE)
    BY <1>7 DEF ReduceWrite
  <2>2. Inputs(w) = {"complete"}
    BY <2>1, ReduceInputs
  <2>3. files' = SetFiles(Dir(w), task[w].kind, task[w].index, "complete")
    BY <1>7, <2>1, <2>2 DEF ReduceWrite, SetFiles
  <2>4. Busy(w) /\ at[w] # "finishing"
    BY <2>1 DEF Busy
  <2> QED BY <2>1, <2>3, <2>4, OrderlyReport
<1>8. ASSUME CallFails(w) \/ Crash(w) PROVE OrderlyCluster'
  <2>1. /\ UNCHANGED <<regime, coordinator, task, success, files, cl, poll, retries, wire>>
        /\ at' = [at EXCEPT ![w] = "dead"]
    BY <1>8 DEF CallFails, Crash, bounds, clients
  <2>2. \A v \in Worker : /\ at'[v] \in {"assigned", "opened", "counted", "short", "finishing"} => Busy(v) /\ task'[v] = task[v]
                          /\ at[v] = "finishing" /\ at'[v] \in {"assigned", "opened", "counted", "short", "finishing"}
                               => at'[v] = "finishing"
    BY <1>0, <2>1 DEF Busy
  <2>3. OneJobEach'
    BY <1>0, <2>1, OneJobKept DEF SubmitRequest
  <2> QED BY <2>1, <2>2, <2>3, OrderlyQuiet
<1> QED BY <1>1, <1>2, <1>3, <1>4, <1>5, <1>6, <1>7, <1>8 DEF WorkerStep

LEMMA OrderlyClient ==
  ASSUME ClusterInv, OrderlyCluster, NEW c \in Client, ClientStep(c)
  PROVE  OrderlyCluster'
<1>0. /\ cl \in [Client -> {"new", "submitting", "polling", "completed", "failed", "exited"}]
      /\ TypeOK /\ OneJobEach /\ \A d \in Client : OneJob(d)
  BY DEF ClusterInv, TypeOK, OrderlyCluster, OneJobEach
<1>1. /\ UNCHANGED <<regime, coordinator, at, task, success, files, poll, retries>>
      /\ Send(SubmitRequest(c)) \/ wire' = wire
      /\ \E x : cl' = [cl EXCEPT ![c] = x]
  BY DEF ClientStep, Submit, SubmitFails, PollJob, workers, bounds
<1>2. \A d \in Client : d # c => cl'[d] = cl[d]
  BY <1>0, <1>1
<1>3. \A d : JobsOf(d)' = JobsOf(d)
  BY <1>1, JobsKept
<1>4. ASSUME NEW d \in Client, d # c PROVE OneJob(d)'
  <2>1. SubmitRequest(d) # SubmitRequest(c)
    BY <1>4 DEF SubmitRequest
  <2>2. BagIn(SubmitRequest(d), wire)' =>
           BagIn(SubmitRequest(d), wire) /\ wire'[SubmitRequest(d)] = wire[SubmitRequest(d)]
    BY <1>0, <1>1, <2>1, Sent DEF SubmitRequest
  <2>3. cl'[d] = cl[d] /\ OneJob(d)
    BY <1>0, <1>2, <1>4
  <2> QED BY <1>1, <1>3, <2>2, <2>3 DEF OneJob, coordinator, SubmitRequest
<1>5. OneJob(c)'
  <2>1. ASSUME Submit(c) PROVE OneJob(c)'
    <3>1. cl[c] = "new" /\ cl'[c] = "submitting" /\ Send(SubmitRequest(c))
      BY <1>0, <2>1 DEF Submit
    <3>2. JobsOf(c) = {} /\ ~BagIn(SubmitRequest(c), wire)
      BY <1>0, <3>1 DEF OneJob
    <3>3. wire'[SubmitRequest(c)] = 1
      BY <1>0, <3>1, <3>2, Sent
    <3> QED BY <1>3, <3>1, <3>2, <3>3 DEF OneJob, SubmitRequest
  <2>2. ASSUME SubmitFails(c) PROVE OneJob(c)'
    <3>1. cl'[c] = "exited" /\ ~BagIn(SubmitRequest(c), wire)'
      BY <1>0, <2>2 DEF SubmitFails, SubmitRequest
    <3> QED BY <3>1 DEF OneJob, SubmitRequest
  <2>3. ASSUME PollJob(c) PROVE OneJob(c)'
    <3>1. /\ cl[c] = "polling" /\ wire' = wire /\ PollReply(poll[c]).done
          /\ cl'[c] = IF PollReply(poll[c]).failed THEN "failed" ELSE "completed"
      BY <1>0, <2>3 DEF PollJob
    <3>2. poll[c] \in JobsOf(c) /\ poll[c] \in DOMAIN all_job
      BY <1>0, <3>1 DEF OneJob, JobsOf
    <3>3. /\ all_job[poll[c]].done
          /\ cl'[c] = "completed" => ~all_job[poll[c]].failed
      BY <3>1, <3>2 DEF PollReply
    <3>4. cl'[c] # "new" /\ (BagIn(SubmitRequest(c), wire)' => BagIn(SubmitRequest(c), wire))
      BY <3>1 DEF SubmitRequest
    <3> QED BY <1>0, <1>1, <1>3, <3>1, <3>2, <3>3, <3>4 DEF OneJob, coordinator, SubmitRequest
  <2> QED BY <2>1, <2>2, <2>3 DEF ClientStep
<1>6. OneJobEach'
  BY <1>0, <1>1, <1>4, <1>5 DEF OneJobEach, coordinator
<1>7. \A t : \A ok \in BOOLEAN : FinishRequest(t, ok) # SubmitRequest(c)
  BY DEF FinishRequest, SubmitRequest
<1>8. \A w \in Worker : /\ at'[w] \in {"assigned", "opened", "counted", "short", "finishing"} => Busy(w) /\ task'[w] = task[w]
                        /\ at[w] = "finishing" /\ at'[w] \in {"assigned", "opened", "counted", "short", "finishing"}
                             => at'[w] = "finishing"
  BY <1>1 DEF Busy
<1> QED BY <1>1, <1>6, <1>7, <1>8, OrderlyQuiet

(* A message is lost; none is sent again.                                  *)
LEMMA OrderlyNetwork ==
  ASSUME ClusterInv, OrderlyCluster, Retransmit \/ Lose
  PROVE  OrderlyCluster'
<1>0. TypeOK /\ retries = 0 /\ OneJobEach
  BY DEF ClusterInv, OrderlyCluster
<1>1. Lose
  BY <1>0 DEF Retransmit
<1>2. PICK m : Receive(m)
  BY <1>1 DEF Lose
<1>3. UNCHANGED <<regime, coordinator, at, task, success, files, cl, poll, retries>>
  BY <1>1 DEF Lose, workers, clients
<1>4. ASSUME NEW c \in Client, BagIn(SubmitRequest(c), wire)'
      PROVE  BagIn(SubmitRequest(c), wire) /\ wire'[SubmitRequest(c)] = wire[SubmitRequest(c)]
  <2> DEFINE r == SubmitRequest(c)
  <2>0. BagIn(r, wire)'
    BY <1>4 DEF SubmitRequest
  <2>1. BagIn(r, wire) /\ wire[r] = 1
    BY <1>0, <1>2, <2>0, Received DEF OneJobEach, OneJob
  <2>2. r # m
    BY <1>0, <1>2, <2>0, <2>1, Received
  <2> QED BY <1>0, <1>2, <2>1, <2>2, Received
<1>5. OneJobEach'
  BY <1>0, <1>3, <1>4, OneJobKept DEF SubmitRequest
<1>6. \A w \in Worker : /\ at'[w] \in {"assigned", "opened", "counted", "short", "finishing"} => Busy(w) /\ task'[w] = task[w]
                        /\ at[w] = "finishing" /\ at'[w] \in {"assigned", "opened", "counted", "short", "finishing"}
                             => at'[w] = "finishing"
  BY <1>3 DEF Busy
<1> QED BY <1>2, <1>3, <1>5, <1>6, OrderlyQuiet

(* Changes to jobs that leave their number, clients and outcomes alone.    *)
LEMMA OneJobSame ==
  ASSUME OneJobEach, UNCHANGED <<cl, poll>>, DOMAIN all_job' = DOMAIN all_job,
         \A j \in DOMAIN all_job :
           /\ all_job'[j].client = all_job[j].client
           /\ all_job[j].done => all_job'[j] = all_job[j],
         \A c \in Client : BagIn(SubmitRequest(c), wire)' =>
           BagIn(SubmitRequest(c), wire) /\ wire'[SubmitRequest(c)] = wire[SubmitRequest(c)]
  PROVE  OneJobEach'
<1>1. ASSUME NEW c \in Client PROVE OneJob(c)'
  <2>1. OneJob(c) /\ JobsOf(c)' = JobsOf(c)
    BY DEF OneJobEach, JobsOf
  <2>2. cl[c] = "completed" => poll[c] \in DOMAIN all_job
    BY <2>1 DEF OneJob, JobsOf
  <2>3. cl[c] = "completed" => all_job'[poll[c]] = all_job[poll[c]]
    BY <2>1, <2>2 DEF OneJob
  <2> QED BY <2>1, <2>3 DEF OneJob, SubmitRequest
<1>2. (\A i, j \in DOMAIN all_job : all_job[i].client = all_job[j].client => i = j)'
  BY DEF OneJobEach
<1> QED BY <1>1, <1>2 DEF OneJobEach

(* A job keeps its counts.                                                 *)
LEMMA CountedKept ==
  ASSUME UNCHANGED regime, NEW j, TasksCounted(j),
         all_job'[j].finished = all_job[j].finished, all_job'[j].success = all_job[j].success,
         all_job'[j].done = all_job[j].done, all_job'[j].failed = all_job[j].failed,
         (\E i \in Indices("reduce") : all_job'[j].time["reduce"][i] # Unassigned)
           => Succeeded(j, "map") = Indices("map")
  PROVE  TasksCounted(j)'
<1>1. /\ \A k : Indices(k)' = Indices(k)
      /\ \A k : Succeeded(j, k)' = Succeeded(j, k)
  BY Static DEF Succeeded
<1> QED BY <1>1 DEF TasksCounted, Unassigned

(* In a timely cluster no second passes while a task that is under way is  *)
(* about to time out.                                                      *)
LEMMA TickInTime ==
  ASSUME ClusterInv, OrderlyCluster, Timely, Tick, NEW t \in AllTasks,
         Underway(t), t.job \in Queued
  PROVE  Time(t) # TaskTimeout - 1 /\ Time(t) # Unassigned /\ Time(t) # TaskTimeout
<1>1. /\ t.job \in DOMAIN all_job /\ t.kind \in Kinds /\ t.index \in Indices(t.kind)
      /\ t = [job |-> t.job, kind |-> t.kind, index |-> t.index]
      /\ TypeOK /\ OneWorker(t) /\ TasksCounted(t.job)
  BY TaskFields DEF ClusterInv, OrderlyCluster
<1>2. Time(t) # Unassigned /\ Time(t) # TaskTimeout
  BY <1>1 DEF OneWorker
<1>3. t \in Open(t.job)
  <2>1. t \in TasksOf(t.job, t.kind)
    BY <1>1 DEF TasksOf
  <2>2. CASE t.kind = "map"
    BY <2>1, <2>2 DEF Open
  <2>3. CASE t.kind = "reduce"
    <3>1. Succeeded(t.job, "map") = Indices("map")
      BY <1>1, <1>2, <2>3 DEF TasksCounted, Time
    <3>2. all_job[t.job].finished["map"] = regime.maps
      BY <1>1, <3>1, AllSucceeded DEF TasksCounted, Count, Kinds
    <3> QED BY <2>1, <2>3, <3>2 DEF Open
  <2> QED BY <1>1, <2>2, <2>3 DEF Kinds
<1>4. InProgress(t)
  BY <1>1, UnderwayIs
<1> QED BY <1>2, <1>3, <1>4 DEF Tick, Timely

LEMMA OrderlyTick ==
  ASSUME ClusterInv, OrderlyCluster, Timely, Tick
  PROVE  OrderlyCluster'
<1>0. /\ UNCHANGED <<next_id, waiting_queue, files, at, task, success, cl, poll, wire, regime, retries>>
      /\ TypeOK /\ OneJobEach /\ retries = 0
      /\ Queued = {j \in DOMAIN all_job : ~all_job[j].done}
  BY DEF Tick, workers, clients, bounds, ClusterInv, OrderlyCluster, QueueExact
<1>1. /\ DOMAIN all_job' = DOMAIN all_job
      /\ \A j \in DOMAIN all_job :
           /\ all_job'[j].client = all_job[j].client
           /\ all_job'[j].success = all_job[j].success
           /\ all_job'[j].finished = all_job[j].finished
           /\ all_job'[j].done = all_job[j].done
           /\ all_job'[j].failed = all_job[j].failed
           /\ all_job[j].done => all_job'[j] = all_job[j]
           /\ \A k \in Kinds : \A i \in Indices(k) :
                all_job'[j].time[k][i] = IF j \in Queued THEN Older(all_job[j].time[k][i])
                                                         ELSE all_job[j].time[k][i]
  <2>1. DOMAIN all_job' = DOMAIN all_job
    BY TickJobs
  <2>2. ASSUME NEW j \in DOMAIN all_job
        PROVE  /\ all_job[j] \in Job
               /\ all_job'[j] = IF j \in Queued THEN Aged(all_job[j]) ELSE all_job[j]
    BY <1>0, TickJobs, JobType
  <2> QED BY <1>0, <2>1, <2>2, AgedType
<1>2. AllTasks' = AllTasks /\ Queued' = Queued
  BY <1>0, <1>1, TasksKept DEF Queued
<1>3. OneJobEach'
  BY <1>0, <1>1, OneJobSame DEF SubmitRequest
<1>4. \A n \in Unassigned .. TaskTimeout : Older(n) = Unassigned <=> n = Unassigned
  BY MRTimeout DEF Older, Unassigned
<1>5. ASSUME NEW t \in AllTasks PROVE OneWorker(t)' /\ OutputComplete(t)'
  <2>0. /\ t.job \in DOMAIN all_job /\ t.kind \in Kinds /\ t.index \in Indices(t.kind)
        /\ OneWorker(t) /\ OutputComplete(t) /\ Time(t) \in Unassigned .. TaskTimeout
    BY <1>0, TaskFields, JobType DEF OrderlyCluster, Time
  <2>1. /\ Time(t)' = IF t.job \in Queued THEN Older(Time(t)) ELSE Time(t)
        /\ Done(t)' = Done(t) /\ FilesOf(t)' = FilesOf(t)
    BY <1>0, <1>1, <2>0 DEF Time, Done, FilesOf
  <2>2. /\ \A w \in Worker : Holds(w, t)' <=> Holds(w, t)
        /\ \A ok : Reported(t, ok)' <=> Reported(t, ok)
    BY <1>0 DEF Holds, Busy, Reported, FinishRequest
  <2>3. Time(t) # Unassigned => Time(t)' # Unassigned
    BY <1>4, <2>0, <2>1
  <2>4. Underway(t) /\ t.job \in Queued' => Time(t)' # TaskTimeout
    <3> SUFFICES ASSUME Underway(t), t.job \in Queued PROVE Time(t)' # TaskTimeout
      BY <1>2
    <3>1. Time(t) # TaskTimeout - 1 /\ Time(t) # Unassigned /\ Time(t) # TaskTimeout
      BY TickInTime
    <3> QED BY <2>0, <2>1, <3>1, MRTimeout DEF Older, Unassigned
  <2>5. OneWorker(t)'
    BY <1>0, <2>0, <2>1, <2>2, <2>3, <2>4, OneWorkerTimed
  <2>6. OutputComplete(t)'
    BY <2>0, <2>1, <2>2 DEF OutputComplete
  <2> QED BY <2>5, <2>6
<1>6. ASSUME NEW j \in DOMAIN all_job PROVE TasksCounted(j)'
  <2>1. TasksCounted(j) /\ \A k \in Kinds : \A i \in Indices(k) :
          all_job[j].time[k][i] \in Unassigned .. TaskTimeout
    BY <1>0, JobType DEF OrderlyCluster
  <2>2. \A i \in Indices("reduce") : all_job'[j].time["reduce"][i] # Unassigned =>
          all_job[j].time["reduce"][i] # Unassigned
    BY <1>1, <1>4, <2>1 DEF Kinds
  <2>3. (\E i \in Indices("reduce") : all_job'[j].time["reduce"][i] # Unassigned)
           => Succeeded(j, "map") = Indices("map")
    BY <2>1, <2>2 DEF TasksCounted
  <2> QED BY <1>0, <1>1, <2>1, <2>3, CountedKept
<1> QED BY <1>0, <1>1, <1>2, <1>3, <1>5, <1>6 DEF OrderlyCluster

LEMMA OrderlySubmit ==
  ASSUME ClusterInv, OrderlyCluster, NEW c \in Client, HandleSubmit(c)
  PROVE  OrderlyCluster'
<1> DEFINE new == next_id'
<1>0. /\ UNCHANGED <<files, at, task, success, regime, retries>>
      /\ SubmitJob(c) /\ Receive(SubmitRequest(c))
      /\ TypeOK /\ OneJobEach /\ retries = 0 /\ \A d \in Client : OneJob(d)
      /\ cl \in [Client -> {"new", "submitting", "polling", "completed", "failed", "exited"}]
      /\ poll \in [Client -> 0..next_id]
  BY DEF HandleSubmit, workers, clients, ClusterInv, OrderlyCluster, OneJobEach, TypeOK
<1>1. /\ DOMAIN all_job' = DOMAIN all_job \cup {new} /\ new \notin DOMAIN all_job
      /\ new = next_id + 1
      /\ \A j \in DOMAIN all_job : all_job'[j] = all_job[j]
      /\ all_job'[new] = NewJob(c) /\ Queued' = Queued \cup {new}
  BY <1>0, SubmitJobs
<1>2. /\ ~NewJob(c).done /\ NewJob(c).client = c
      /\ \A k \in Kinds : NewJob(c).finished[k] = 0
      /\ \A k \in Kinds : \A i \in Indices(k) :
           NewJob(c).time[k][i] = Unassigned /\ ~NewJob(c).success[k][i]
  BY NewJobType
<1> HIDE DEF new
<1>3. BagIn(SubmitRequest(c), wire) /\ JobsOf(c) = {} /\ ~BagIn(SubmitRequest(c), wire)'
  BY <1>0, Received DEF OneJob
<1>4. JobsOf(c)' = {new} /\ \A d : d # c => JobsOf(d)' = JobsOf(d)
  BY <1>1, <1>2, <1>3 DEF JobsOf
<1>5. \/ cl' = cl /\ poll' = poll
      \/ cl' = [cl EXCEPT ![c] = "polling"] /\ poll' = [poll EXCEPT ![c] = new]
  BY <1>1 DEF HandleSubmit, clients
<1>6. OneJobEach'
  <2>1. ASSUME NEW d \in Client, d # c PROVE OneJob(d)'
    <3>1. cl'[d] = cl[d] /\ poll'[d] = poll[d] /\ OneJob(d) /\ JobsOf(d)' = JobsOf(d)
      BY <1>0, <1>4, <1>5, <2>1
    <3>2. SubmitRequest(d) # SubmitRequest(c)
      BY <2>1 DEF SubmitRequest
    <3>3. BagIn(SubmitRequest(d), wire)' =>
            BagIn(SubmitRequest(d), wire) /\ wire'[SubmitRequest(d)] = wire[SubmitRequest(d)]
      BY <1>0, <3>2, Received DEF SubmitRequest
    <3>4. cl[d] = "completed" => all_job'[poll[d]] = all_job[poll[d]]
      BY <1>1, <3>1 DEF OneJob, JobsOf
    <3> QED BY <3>1, <3>3, <3>4 DEF OneJob, SubmitRequest
  <2>2. OneJob(c)'
    <3>1. cl[c] \notin {"new", "polling", "completed"}
      BY <1>0, <1>3 DEF OneJob
    <3>2. cl'[c] \notin {"new", "completed"} /\ (cl'[c] = "polling" => poll'[c] = new)
      BY <1>0, <1>5, <3>1
    <3> QED BY <1>3, <1>4, <3>2 DEF OneJob, SubmitRequest
  <2>3. (\A i, j \in DOMAIN all_job : all_job[i].client = all_job[j].client => i = j)'
    <3>1. \A j \in DOMAIN all_job : all_job[j].client # c
      BY <1>3 DEF JobsOf
    <3> QED BY <1>0, <1>1, <1>2, <3>1 DEF OneJobEach
  <2> QED BY <2>1, <2>2, <2>3 DEF OneJobEach
<1>7. ASSUME NEW t \in AllTasks' PROVE OneWorker(t)' /\ OutputComplete(t)'
  <2>0. t.job \in DOMAIN all_job' /\ t.kind \in Kinds /\ t.index \in Indices(t.kind)
    BY <1>0, Static DEF AllTasks, JobTasks, TasksOf
  <2>1. CASE t.job # new
    <3>1. t \in AllTasks
      BY <1>0, <1>1, <2>1, Static DEF AllTasks, JobTasks, TasksOf
    <3>2. /\ OneWorker(t) /\ OutputComplete(t)
          /\ Time(t)' = Time(t) /\ Done(t)' = Done(t) /\ FilesOf(t)' = FilesOf(t)
          /\ (t.job \in Queued' => t.job \in Queued)
      BY <1>0, <1>1, <2>0, <2>1, <3>1 DEF OrderlyCluster, Time, Done, FilesOf
    <3>3. \A w \in Worker : Holds(w, t)' <=> Holds(w, t)
      BY <1>0 DEF Holds, Busy
    <3>4. \A ok \in BOOLEAN : Reported(t, ok)' =>
            Reported(t, ok) /\ wire'[FinishRequest(t, ok)] = wire[FinishRequest(t, ok)]
      BY <1>0, <3>2, OneWorkerReceive
    <3>5. OneWorker(t)'
      BY <1>0, <3>2, <3>3, <3>4, OneWorkerKept
    <3>6. OutputComplete(t)'
      <4> DEFINE yes == TRUE
      <4>1. yes \in BOOLEAN
        OBVIOUS
      <4>2. Reported(t, yes)' => Reported(t, yes)
        <5> HIDE DEF yes
        <5> QED BY <3>4, <4>1
      <4> QED BY <3>2, <4>2 DEF OutputComplete
    <3> QED BY <3>5, <3>6
  <2>2. CASE t.job = new
    <3>1. t \notin AllTasks
      BY <1>1, <2>2, TaskFields
    <3>2. ~Done(t)'
      BY <1>1, <1>2, <2>0, <2>2 DEF Done
    <3>3. \A w \in Worker : ~Holds(w, t)'
      BY <1>0, <3>1 DEF Holds, Busy, ClusterInv, BusyWorkers
    <3>4. \A ok \in BOOLEAN : ~Reported(t, ok)'
      <4> SUFFICES ASSUME NEW ok \in BOOLEAN, Reported(t, ok)' PROVE FALSE
        OBVIOUS
      <4>1. BagIn(FinishRequest(t, ok), wire)
        BY <1>0, Received DEF Reported, FinishRequest
      <4>2. FinishRequest(t, ok) \in Requests
        BY <1>0, <4>1 DEF TypeOK, BagIn
      <4>3. PICK u \in AllTasks, o \in BOOLEAN : FinishRequest(t, ok) = FinishRequest(u, o)
        BY <4>2, RequestsDiffer DEF Requests
      <4> QED BY <3>1, <4>3, RequestsDiffer
    <3>5. ~Underway(t)'
      BY <3>3, <3>4 DEF Underway
    <3>6. OneWorker(t)'
      BY <3>2, <3>3, <3>4, <3>5 DEF OneWorker
    <3>7. OutputComplete(t)'
      <4> DEFINE yes == TRUE
      <4>1. yes \in BOOLEAN
        OBVIOUS
      <4>2. ~Reported(t, yes)'
        <5> HIDE DEF yes
        <5> QED BY <3>4, <4>1
      <4> QED BY <3>2, <4>2 DEF OutputComplete
    <3> QED BY <3>6, <3>7
  <2> QED BY <2>1, <2>2
<1>8. ASSUME NEW j \in DOMAIN all_job' PROVE TasksCounted(j)'
  <2>1. CASE j # new
    <3>1. j \in DOMAIN all_job /\ all_job'[j] = all_job[j] /\ TasksCounted(j)
      BY <1>1, <2>1 DEF OrderlyCluster
    <3> QED BY <1>0, <3>1, CountedKept DEF TasksCounted
  <2>2. CASE j = new
    <3>1. \A k : Indices(k)' = Indices(k)
      BY <1>0, Static
    <3>2. \A k \in Kinds : Succeeded(j, k)' = {}
      BY <1>1, <1>2, <2>2, <3>1 DEF Succeeded
    <3>3. Cardinality({}) = 0
      BY FS_EmptySet
    <3> QED BY <1>1, <1>2, <2>2, <3>1, <3>2, <3>3 DEF TasksCounted, Kinds, Unassigned
  <2> QED BY <2>1, <2>2
<1> QED BY <1>0, <1>6, <1>7, <1>8 DEF OrderlyCluster

(* The task a worker is given is not under way and not done.               *)
LEMMA GivenTask ==
  ASSUME ClusterInv, OrderlyCluster, NextTask # NoTask
  PROVE  /\ NextTask \in AllTasks /\ ~Underway(NextTask) /\ ~Done(NextTask)
         /\ NextTask.kind = "reduce" => Succeeded(NextTask.job, "map") = Indices("map")
<1> DEFINE t == NextTask
<1> HIDE DEF t
<1>1. /\ t \in AllTasks /\ t.job \in Queued /\ t \in Open(t.job)
      /\ Expired(t) \/ Time(t) = Unassigned
  BY NextTaskChoice DEF ClusterInv, t
<1>2. /\ t.job \in DOMAIN all_job /\ t.kind \in Kinds /\ t.index \in Indices(t.kind)
      /\ TypeOK /\ OneWorker(t) /\ TasksCounted(t.job) /\ Time(t) \in Unassigned .. TaskTimeout
  BY <1>1, TaskFields, JobType DEF ClusterInv, OrderlyCluster, Time
<1>3. ~Underway(t) /\ ~Done(t)
  <2>1. CASE Expired(t)
    <3>1. Time(t) = TaskTimeout /\ ~Done(t)
      BY <1>2, <2>1, MRTimeout DEF Expired, Done, Unassigned
    <3> QED BY <1>1, <1>2, <3>1 DEF OneWorker
  <2>2. CASE Time(t) = Unassigned
    BY <1>2, <2>2 DEF OneWorker
  <2> QED BY <1>1, <2>1, <2>2
<1>4. t.kind = "reduce" => Succeeded(t.job, "map") = Indices("map")
  <2> SUFFICES ASSUME t.kind = "reduce" PROVE Succeeded(t.job, "map") = Indices("map")
    OBVIOUS
  <2>1. all_job[t.job].finished["map"] = regime.maps
    BY <1>1 DEF Open, TasksOf
  <2> QED BY <1>2, <2>1, AllSucceeded DEF TasksCounted, Count, Kinds
<1> QED BY <1>1, <1>3, <1>4 DEF t

LEMMA OrderlyGet ==
  ASSUME ClusterInv, OrderlyCluster, HandleGet
  PROVE  OrderlyCluster'
<1> DEFINE g == NextTask
<1>0. /\ UNCHANGED <<files, success, cl, poll, regime, retries>>
      /\ GetTask(g) /\ Receive(GetRequest)
      /\ TypeOK /\ OneJobEach /\ retries = 0
      /\ Queued = {j \in DOMAIN all_job : ~all_job[j].done}
  BY DEF HandleGet, workers, clients, ClusterInv, OrderlyCluster, QueueExact
<1>1. /\ DOMAIN all_job' = DOMAIN all_job /\ UNCHANGED <<next_id, waiting_queue>>
      /\ \A j \in DOMAIN all_job :
           /\ all_job'[j].client = all_job[j].client
           /\ all_job'[j].success = all_job[j].success
           /\ all_job'[j].finished = all_job[j].finished
           /\ all_job'[j].done = all_job[j].done
           /\ all_job'[j].failed = all_job[j].failed
           /\ j \notin Queued => all_job'[j] = all_job[j]
           /\ \A k \in Kinds : \A i \in Indices(k) :
                all_job'[j].time[k][i] = IF g = [job |-> j, kind |-> k, index |-> i] THEN 0
                                         ELSE all_job[j].time[k][i]
  BY <1>0, GetJobs
<1>2. g = NoTask \/ /\ g \in AllTasks /\ ~Underway(g) /\ ~Done(g)
                    /\ g.kind = "reduce" => Succeeded(g.job, "map") = Indices("map")
  BY GivenTask
<1>3. \/ UNCHANGED <<at, task>>
      \/ \E w \in Worker :
           /\ at[w] = "asking"
           /\ at' = [at EXCEPT ![w] = IF g = NoTask THEN "idle" ELSE "assigned"]
           /\ task' = [task EXCEPT ![w] = g]
  BY DEF HandleGet, workers
<1>4. NoTask \notin AllTasks
  BY <1>0, TaskFields DEF NoTask, TypeOK
<1> HIDE DEF g
<1>5. AllTasks' = AllTasks /\ Queued' = Queued
  BY <1>0, <1>1, TasksKept DEF Queued
<1>6. OneJobEach'
  <2>1. \A c \in Client : BagIn(SubmitRequest(c), wire)' =>
          BagIn(SubmitRequest(c), wire) /\ wire'[SubmitRequest(c)] = wire[SubmitRequest(c)]
    <3>1. \A c : SubmitRequest(c) # GetRequest
      BY DEF SubmitRequest, GetRequest
    <3> QED BY <1>0, <3>1, Received DEF SubmitRequest
  <2> QED BY <1>0, <1>1, <2>1, OneJobSame
<1>7. ASSUME NEW t \in AllTasks PROVE OneWorker(t)' /\ OutputComplete(t)'
  <2>0. /\ t.job \in DOMAIN all_job /\ t.kind \in Kinds /\ t.index \in Indices(t.kind)
        /\ t = [job |-> t.job, kind |-> t.kind, index |-> t.index]
        /\ OneWorker(t) /\ OutputComplete(t) /\ t # NoTask
    BY <1>4, TaskFields DEF OrderlyCluster
  <2>1. /\ Time(t)' = IF g = t THEN 0 ELSE Time(t)
        /\ Done(t)' = Done(t) /\ FilesOf(t)' = FilesOf(t)
    BY <1>0, <1>1, <2>0 DEF Time, Done, FilesOf
  <2>2. \A ok \in BOOLEAN : Reported(t, ok)' =>
          Reported(t, ok) /\ wire'[FinishRequest(t, ok)] = wire[FinishRequest(t, ok)]
    BY <1>0, <2>0, OneWorkerReceive
  <2>3. OutputComplete(t)'
    <3> DEFINE yes == TRUE
    <3>1. yes \in BOOLEAN
      OBVIOUS
    <3>2. Reported(t, yes)' => Reported(t, yes)
      <4> HIDE DEF yes
      <4> QED BY <2>2, <3>1
    <3> QED BY <2>0, <2>1, <3>2 DEF OutputComplete
  <2>4. CASE g # t
    <3>1. \A w \in Worker : Holds(w, t)' =>
            /\ Holds(w, t)
            /\ at[w] = "finishing" => at'[w] = "finishing" /\ success'[w] = success[w]
      BY <1>0, <1>3, <2>0, <2>4 DEF Holds, Busy, TypeOK
    <3>2. OneWorker(t)'
      BY <1>5, <2>0, <2>1, <2>2, <2>4, <3>1, OneWorkerKept
    <3> QED BY <2>3, <3>2
  <2>5. CASE g = t
    <3>1. ~Underway(t) /\ ~Done(t)
      BY <1>2, <2>0, <2>5
    <3>2. /\ \A w \in Worker : ~Holds(w, t)
          /\ \A ok \in BOOLEAN : ~Reported(t, ok)'
      BY <2>2, <3>1 DEF Underway
    <3>3. \A v, w \in Worker : Holds(v, t)' /\ Holds(w, t)' => v = w
      BY <1>0, <1>3, <3>2 DEF Holds, Busy, TypeOK
    <3>4. Time(t)' # Unassigned /\ Time(t)' # TaskTimeout
      BY <2>1, <2>5, MRTimeout DEF Unassigned
    <3>5. OneWorker(t)'
      BY <2>1, <3>1, <3>2, <3>3, <3>4 DEF OneWorker, Unassigned
    <3> QED BY <2>3, <3>5
  <2> QED BY <2>4, <2>5
<1>8. ASSUME NEW j \in DOMAIN all_job PROVE TasksCounted(j)'
  <2>0. TasksCounted(j)
    BY DEF OrderlyCluster
  <2>1. ASSUME NEW i \in Indices("reduce"), all_job'[j].time["reduce"][i] # Unassigned
        PROVE  Succeeded(j, "map") = Indices("map")
    <3>1. CASE g = [job |-> j, kind |-> "reduce", index |-> i]
      BY <1>2, <1>4, <3>1 DEF NoTask
    <3>2. CASE g # [job |-> j, kind |-> "reduce", index |-> i]
      <4>1. all_job[j].time["reduce"][i] # Unassigned
        BY <1>1, <2>1, <3>2 DEF Kinds
      <4> QED BY <2>0, <4>1 DEF TasksCounted
    <3> QED BY <3>1, <3>2
  <2> QED BY <1>0, <1>1, <2>0, <2>1, CountedKept
<1> QED BY <1>0, <1>1, <1>5, <1>6, <1>7, <1>8 DEF OrderlyCluster

(* A report is taken off the wire, and its worker may get the answer.      *)
LEMMA FinishWorkers ==
  ASSUME ClusterInv, OrderlyCluster, NEW u \in AllTasks, NEW res \in BOOLEAN,
         HandleFinish(u, res)
  PROVE  /\ Reported(u, res) /\ \A ok \in BOOLEAN : ~Reported(u, ok)'
         /\ \A w \in Worker :
              /\ at'[w] \in {"assigned", "opened", "counted", "short", "finishing"} => Busy(w) /\ task'[w] = task[w]
              /\ at[w] = "finishing" /\ at'[w] \in {"assigned", "opened", "counted", "short", "finishing"}
                   => at'[w] = "finishing"
         /\ UNCHANGED <<files, success, cl, poll, regime, retries>>
         /\ \A c \in Client : BagIn(SubmitRequest(c), wire)' =>
              BagIn(SubmitRequest(c), wire) /\ wire'[SubmitRequest(c)] = wire[SubmitRequest(c)]
<1>0. /\ Receive(FinishRequest(u, res)) /\ TypeOK /\ OneWorker(u)
      /\ UNCHANGED <<files, success, cl, poll, regime, retries>>
  BY DEF HandleFinish, workers, clients, ClusterInv, OrderlyCluster
<1>1. Reported(u, res)
  BY <1>0, Received DEF Reported
<1>2. \A ok \in BOOLEAN : ~Reported(u, ok)'
  <2> SUFFICES ASSUME NEW ok \in BOOLEAN, Reported(u, ok)' PROVE FALSE
    OBVIOUS
  <2>1. Reported(u, ok) /\ FinishRequest(u, ok) # FinishRequest(u, res)
    BY <1>0, OneWorkerReceive
  <2>2. ok = ~res
    BY <2>1
  <2> QED BY <1>0, <1>1, <2>1, <2>2 DEF OneWorker
<1>3. \/ UNCHANGED <<at, task>>
      \/ \E w \in Worker : /\ at' = [at EXCEPT ![w] = "idle"]
                           /\ task' = [task EXCEPT ![w] = NoTask]
  BY DEF HandleFinish, workers
<1>4. \A w \in Worker :
        /\ at'[w] \in {"assigned", "opened", "counted", "short", "finishing"} => Busy(w) /\ task'[w] = task[w]
        /\ at[w] = "finishing" /\ at'[w] \in {"assigned", "opened", "counted", "short", "finishing"}
             => at'[w] = "finishing"
  BY <1>0, <1>3 DEF Busy, TypeOK
<1>5. \A c \in Client : BagIn(SubmitRequest(c), wire)' =>
        BagIn(SubmitRequest(c), wire) /\ wire'[SubmitRequest(c)] = wire[SubmitRequest(c)]
  <2>1. \A c : SubmitRequest(c) # FinishRequest(u, res)
    BY RequestsDiffer
  <2> QED BY <1>0, <2>1, Received DEF SubmitRequest
<1> QED BY <1>0, <1>1, <1>2, <1>4, <1>5

(* One more task of its kind has succeeded.                                *)
LEMMA OneMore ==
  ASSUME TypeOK, NEW j, NEW k \in Kinds, NEW i \in Indices(k), i \notin Succeeded(j, k)
  PROVE  Cardinality(Succeeded(j, k) \cup {i}) = Cardinality(Succeeded(j, k)) + 1
<1>1. IsFiniteSet(Succeeded(j, k))
  BY AllSucceeded
<1> QED BY <1>1, FS_AddElement

LEMMA FinishCounted ==
  ASSUME ClusterInv, OrderlyCluster, NEW u \in AllTasks, NEW res \in BOOLEAN,
         u.job \in Queued, UNCHANGED regime, ~Done(u), Time(u) # Unassigned,
         all_job'[u.job] = UpdateJobInfo(all_job[u.job], u, res)
  PROVE  TasksCounted(u.job)'
<1> DEFINE j == u.job
           old == all_job[j]
           new == all_job'[j]
<1>0. /\ TypeOK /\ j \in DOMAIN all_job /\ u.kind \in Kinds /\ u.index \in Indices(u.kind)
      /\ TasksCounted(j) /\ ~old.done
      /\ \A k \in Kinds : \A i \in Indices(k) : old.success[k][i] \in BOOLEAN
  BY TaskFields, JobType DEF ClusterInv, OrderlyCluster, QueueExact
<1>1. /\ new.time = old.time
      /\ ~res => /\ new.success = old.success /\ new.finished = old.finished
                 /\ new.done /\ new.failed
      /\ res => /\ \A k \in Kinds : \A i \in Indices(k) :
                     new.success[k][i] <=> old.success[k][i] \/ (k = u.kind /\ i = u.index)
                /\ \A k \in Kinds : new.finished[k] =
                     IF k = u.kind THEN old.finished[k] + 1 ELSE old.finished[k]
                /\ new.done <=> u.kind = "reduce" /\ new.finished["reduce"] = regime.reduces
  BY <1>0, UpdateJobType
<1>2. \A k : Indices(k)' = Indices(k) /\ Count(k)' = Count(k)
  BY Static
<1>3. \A k \in Kinds : Succeeded(j, k)' =
        IF res /\ k = u.kind THEN Succeeded(j, k) \cup {u.index} ELSE Succeeded(j, k)
  <2>1. \A k \in Kinds : Succeeded(j, k) = {i \in Indices(k) : old.success[k][i]}
    BY DEF Succeeded
  <2>2. \A k \in Kinds : Succeeded(j, k)' = {i \in Indices(k) : new.success[k][i]}
    BY <1>2 DEF Succeeded
  <2> HIDE DEF old, new, j
  <2>3. CASE res
    <3>1. ASSUME NEW k \in Kinds, k = u.kind
          PROVE  Succeeded(j, k)' = Succeeded(j, k) \cup {u.index}
      <4>1. u.index \in Indices(k)
        BY <1>0, <3>1
      <4>2. \A i \in Indices(k) : new.success[k][i] <=> old.success[k][i] \/ i = u.index
        BY <1>1, <2>3, <3>1
      <4> QED BY <2>1, <2>2, <4>1, <4>2
    <3>2. ASSUME NEW k \in Kinds, k # u.kind PROVE Succeeded(j, k)' = Succeeded(j, k)
      <4>1. \A i \in Indices(k) : new.success[k][i] <=> old.success[k][i]
        BY <1>1, <2>3, <3>2
      <4> QED BY <2>1, <2>2, <4>1
    <3> QED BY <2>3, <3>1, <3>2
  <2>4. CASE ~res
    BY <1>1, <2>1, <2>2, <2>4
  <2> QED BY <2>3, <2>4
<1>4. u.index \notin Succeeded(j, u.kind)
  BY DEF Succeeded, Done
<1>5. \A k \in Kinds : new.finished[k] = Cardinality(Succeeded(j, k)')
  <2>1. \A k \in Kinds : old.finished[k] = Cardinality(Succeeded(j, k))
    BY <1>0 DEF TasksCounted
  <2>2. Cardinality(Succeeded(j, u.kind) \cup {u.index}) = Cardinality(Succeeded(j, u.kind)) + 1
    BY <1>0, <1>4, OneMore
  <2> HIDE DEF old, new, j
  <2>3. CASE res
    BY <1>1, <1>3, <2>1, <2>2, <2>3
  <2>4. CASE ~res
    BY <1>1, <1>3, <2>1, <2>4
  <2> QED BY <2>3, <2>4
<1>6. (\E i \in Indices("reduce") : new.time["reduce"][i] # Unassigned)
        => Succeeded(j, "map")' = Indices("map")
  <2>1. Succeeded(j, "map") \subseteq Succeeded(j, "map")'
    BY <1>3 DEF Kinds
  <2>2. Succeeded(j, "map")' \subseteq Indices("map")
    BY <1>2 DEF Succeeded
  <2>3. (\E i \in Indices("reduce") : old.time["reduce"][i] # Unassigned)
          => Succeeded(j, "map") = Indices("map")
    BY <1>0 DEF TasksCounted
  <2>4. new.time = old.time
    BY <1>1
  <2> HIDE DEF old, new, j
  <2>5. (\E i \in Indices("reduce") : new.time["reduce"][i] # Unassigned)
          => Succeeded(j, "map") = Indices("map")
    BY <2>3, <2>4
  <2> QED BY <2>1, <2>2, <2>5
<1>7. new.done /\ ~new.failed => Succeeded(j, "reduce")' = Indices("reduce")
  <2> SUFFICES ASSUME new.done, ~new.failed PROVE Succeeded(j, "reduce")' = Indices("reduce")
    OBVIOUS
  <2>1. new.finished["reduce"] = Count("reduce")
    BY <1>1 DEF Count
  <2>2. Cardinality(Succeeded(j, "reduce")') = Cardinality(Indices("reduce"))
    BY <1>0, <1>5, <2>1, IndicesCount DEF Kinds
  <2>3. Succeeded(j, "reduce")' \subseteq Indices("reduce")
    BY <1>2 DEF Succeeded
  <2>4. IsFiniteSet(Indices("reduce"))
    BY <1>0, IndicesCount DEF Kinds
  <2> QED BY <2>2, <2>3, <2>4, FS_Subset
<1> QED BY <1>2, <1>5, <1>6, <1>7 DEF TasksCounted, Unassigned

LEMMA OrderlyFinish ==
  ASSUME ClusterInv, OrderlyCluster, NEW u \in AllTasks, NEW res \in BOOLEAN,
         HandleFinish(u, res)
  PROVE  OrderlyCluster'
<1>0. /\ TypeOK /\ OneJobEach /\ retries = 0 /\ OneWorker(u) /\ FinishTask(u, res)
      /\ Queued = {j \in DOMAIN all_job : ~all_job[j].done}
      /\ u.job \in DOMAIN all_job /\ u.kind \in Kinds /\ u.index \in Indices(u.kind)
      /\ Receive(FinishRequest(u, res))
  BY TaskFields DEF ClusterInv, OrderlyCluster, QueueExact, HandleFinish
<1>1. /\ Reported(u, res) /\ \A ok \in BOOLEAN : ~Reported(u, ok)'
      /\ \A w \in Worker :
           /\ at'[w] \in {"assigned", "opened", "counted", "short", "finishing"} => Busy(w) /\ task'[w] = task[w]
           /\ at[w] = "finishing" /\ at'[w] \in {"assigned", "opened", "counted", "short", "finishing"}
                => at'[w] = "finishing"
      /\ UNCHANGED <<files, success, cl, poll, regime, retries>>
      /\ \A c \in Client : BagIn(SubmitRequest(c), wire)' =>
           BagIn(SubmitRequest(c), wire) /\ wire'[SubmitRequest(c)] = wire[SubmitRequest(c)]
  BY FinishWorkers
<1>2. CASE u.job \notin Queued
  <2>1. UNCHANGED coordinator
    BY <1>0, <1>2 DEF FinishTask
  <2>2. OneJobEach'
    BY <1>0, <1>1, <2>1, OneJobKept
  <2> QED BY <1>0, <1>1, <2>1, <2>2, OrderlyQuiet
<1>3. CASE u.job \in Queued
  <2> DEFINE new == UpdateJobInfo(all_job[u.job], u, res)
  <2>1. /\ DOMAIN all_job' = DOMAIN all_job
        /\ ~all_job[u.job].done
        /\ \A j \in DOMAIN all_job : all_job'[j] = IF j = u.job THEN new ELSE all_job[j]
        /\ Queued' = IF new.done THEN Queued \ {u.job} ELSE Queued
    BY <1>0, <1>1, <1>3, FinishJobs
  <2>2. /\ new.client = all_job[u.job].client /\ new.time = all_job[u.job].time
        /\ ~res => new.success = all_job[u.job].success
        /\ res => \A k \in Kinds : \A i \in Indices(k) :
             new.success[k][i] <=> all_job[u.job].success[k][i] \/ (k = u.kind /\ i = u.index)
    BY <1>0, <2>1, UpdateJobType
  <2> HIDE DEF new
  <2>3. AllTasks' = AllTasks /\ Queued' \subseteq Queued
    BY <1>1, <2>1, TasksKept
  <2>4. OneJobEach'
    BY <1>0, <1>1, <2>1, <2>2, OneJobSame
  <2>5. ~Done(u) /\ Time(u) # Unassigned /\ \A w \in Worker : Holds(w, u) => at[w] = "finishing"
    BY <1>0, <1>1 DEF OneWorker, Underway
  <2>6. ASSUME NEW t \in AllTasks PROVE OneWorker(t)' /\ OutputComplete(t)'
    <3>0. /\ t.job \in DOMAIN all_job /\ t.kind \in Kinds /\ t.index \in Indices(t.kind)
          /\ t = [job |-> t.job, kind |-> t.kind, index |-> t.index]
          /\ u = [job |-> u.job, kind |-> u.kind, index |-> u.index]
          /\ OneWorker(t) /\ OutputComplete(t)
      BY TaskFields DEF OrderlyCluster
    <3>1. /\ Time(t)' = Time(t) /\ FilesOf(t)' = FilesOf(t)
          /\ Done(t)' <=> Done(t) \/ (t = u /\ res)
      BY <1>1, <2>1, <2>2, <3>0 DEF Time, FilesOf, Done
    <3>2. \A ok \in BOOLEAN : Reported(t, ok)' =>
            Reported(t, ok) /\ wire'[FinishRequest(t, ok)] = wire[FinishRequest(t, ok)]
      BY <1>0, <3>0, OneWorkerReceive
    <3>3. \A w \in Worker : Holds(w, t)' =>
            /\ Holds(w, t)
            /\ at[w] = "finishing" => at'[w] = "finishing" /\ success'[w] = success[w]
      BY <1>1 DEF Holds, Busy
    <3> DEFINE yes == TRUE
    <3>4. yes \in BOOLEAN
      OBVIOUS
    <3>5. Reported(t, yes)' => Reported(t, yes)
      <4> HIDE DEF yes
      <4> QED BY <3>2, <3>4
    <3>6. CASE ~(t = u /\ res)
      <4>1. OneWorker(t)'
        BY <2>3, <3>0, <3>1, <3>2, <3>3, <3>6, OneWorkerKept
      <4>2. OutputComplete(t)'
        BY <3>0, <3>1, <3>5, <3>6 DEF OutputComplete
      <4> QED BY <4>1, <4>2
    <3>7. CASE t = u /\ res
      <4>1. \A w \in Worker : Holds(w, t)' => at'[w] = "finishing"
        BY <2>5, <3>3, <3>7
      <4>2. \A v, w \in Worker : Holds(v, t)' /\ Holds(w, t)' => v = w
        BY <3>0, <3>3 DEF OneWorker
      <4>3. Underway(t)' => Underway(t)
        BY <3>2, <3>3 DEF Underway
      <4>4. \A ok \in BOOLEAN : ~Reported(t, ok)'
        BY <1>1, <3>7
      <4>5. OneWorker(t)'
        BY <2>3, <2>5, <3>0, <3>1, <3>7, <4>1, <4>2, <4>3, <4>4 DEF OneWorker, Unassigned
      <4>6. Reported(t, TRUE)
        BY <1>1, <3>7
      <4>7. OutputComplete(t)'
        BY <3>0, <3>1, <4>6 DEF OutputComplete
      <4> QED BY <4>5, <4>7
    <3> QED BY <3>6, <3>7
  <2>7. ASSUME NEW j \in DOMAIN all_job PROVE TasksCounted(j)'
    <3>0. TasksCounted(j)
      BY DEF OrderlyCluster
    <3>1. CASE j = u.job
      BY <1>0, <1>1, <1>3, <2>1, <2>5, <3>1, FinishCounted DEF new
    <3>2. CASE j # u.job
      <4>1. all_job'[j] = all_job[j]
        BY <2>1, <3>2
      <4> QED BY <1>1, <3>0, <4>1, CountedKept DEF TasksCounted
    <3> QED BY <3>1, <3>2
  <2> QED BY <1>0, <1>1, <2>1, <2>3, <2>4, <2>6, <2>7 DEF OrderlyCluster
<1> QED BY <1>2, <1>3

LEMMA TimelyInit == Init => TimelyInv
<1> SUFFICES ASSUME Init, Timely PROVE OrderlyCluster /\ NoneShort
  BY DEF TimelyInv
<1>1. DOMAIN all_job = {}
  BY DEF Init
<1>2. AllTasks = {} /\ \A c : JobsOf(c) = {}
  BY <1>1 DEF AllTasks, JobsOf
<1>3. \A m : ~BagIn(m, wire)
  BY DEF Init, EmptyBag, SetToBag, BagIn, BagToSet
<1>4. \A c \in Client : OneJob(c)
  BY <1>2, <1>3 DEF Init, OneJob
<1>5. retries = 0
  BY DEF Init, Timely
<1>6. NoneShort
  BY DEF Init, NoneShort
<1> QED BY <1>1, <1>2, <1>4, <1>5, <1>6 DEF OrderlyCluster, OneJobEach

LEMMA RegimeKept == [Next]_vars => UNCHANGED regime
BY DEF Next, Coordinator, HandleSubmit, HandleGet, HandleFinish, WorkerStep, AskTask, MapOpen,
       MapWrite, MapFails, ReduceFails, ReduceOpen, ReduceWrite, Report, CallFails, Crash,
       ClientStep, Submit, SubmitFails, PollJob, Retransmit, Lose, Tick, bounds, vars

(* A reducer that opens its files in a timely cluster finds them complete. *)
LEMMA NoneShortNext ==
  ASSUME ClusterInv, OrderlyCluster, NoneShort, [Next]_vars
  PROVE  NoneShort'
<1> SUFFICES ASSUME NEW w \in Worker, at'[w] = "short" PROVE FALSE
  BY DEF NoneShort
<1>0. /\ at \in [Worker -> {"idle", "asking", "assigned", "opened", "counted", "short", "finishing", "dead"}]
      /\ at[w] # "short"
  BY DEF ClusterInv, TypeOK, NoneShort
<1>1. ASSUME NEW v \in Worker, WorkerStep(v) \/ Crash(v) PROVE FALSE
  <2>1. CASE ReduceOpen(v)
    <3>1. at[v] = "assigned" /\ Inputs(v) = {"complete"}
      BY <2>1, ReduceInputs DEF ReduceOpen
    <3> QED BY <1>0, <2>1, <3>1 DEF ReduceOpen
  <2>2. CASE ~ReduceOpen(v)
    BY <1>0, <1>1, <2>2 DEF WorkerStep, AskTask, MapOpen, MapWrite, MapFails, ReduceFails,
                            ReduceWrite, Report, CallFails, Crash
  <2> QED BY <2>1, <2>2
<1>2. ASSUME NEW c \in Client, HandleSubmit(c) PROVE FALSE
  BY <1>0, <1>2 DEF HandleSubmit, workers
<1>3. ASSUME HandleGet PROVE FALSE
  BY <1>0, <1>3 DEF HandleGet, workers
<1>4. ASSUME NEW t, NEW ok, HandleFinish(t, ok) PROVE FALSE
  BY <1>0, <1>4 DEF HandleFinish, workers
<1>5. ASSUME NEW c \in Client, ClientStep(c) PROVE FALSE
  BY <1>0, <1>5 DEF ClientStep, Submit, SubmitFails, PollJob, workers
<1>6. CASE Retransmit \/ Lose \/ Tick \/ UNCHANGED vars
  BY <1>0, <1>6 DEF Retransmit, Lose, Tick, vars, workers
<1> QED BY <1>1, <1>2, <1>3, <1>4, <1>5, <1>6 DEF Next, Coordinator

LEMMA TimelyNext == ClusterInv /\ TimelyInv /\ [Next]_vars => TimelyInv'
<1> SUFFICES ASSUME ClusterInv, TimelyInv, [Next]_vars, Timely'
             PROVE  OrderlyCluster'
  BY NoneShortNext, RegimeKept DEF TimelyInv, Timely
<1>0. UNCHANGED regime
  BY RegimeKept
<1>1. Timely /\ OrderlyCluster /\ NoneShort
  BY <1>0 DEF TimelyInv, Timely
<1>2. ASSUME NEW c \in Client, HandleSubmit(c) PROVE OrderlyCluster'
  BY <1>1, <1>2, OrderlySubmit
<1>3. CASE HandleGet
  BY <1>1, <1>3, OrderlyGet
<1>4. ASSUME NEW m \in BagToSet(wire), m.type = "finish", HandleFinish(m.task, m.success)
      PROVE  OrderlyCluster'
  <2>1. m.task \in AllTasks /\ m.success \in BOOLEAN
    BY <1>4, FinishTypes
  <2> QED BY <1>1, <1>4, <2>1, OrderlyFinish
<1>5. ASSUME NEW w \in Worker, WorkerStep(w) \/ Crash(w) PROVE OrderlyCluster'
  BY <1>1, <1>5, OrderlyWorker DEF NoneShort
<1>6. ASSUME NEW c \in Client, ClientStep(c) PROVE OrderlyCluster'
  BY <1>1, <1>6, OrderlyClient
<1>7. CASE Retransmit \/ Lose
  BY <1>1, <1>7, OrderlyNetwork
<1>8. CASE Tick
  BY <1>1, <1>8, OrderlyTick
<1>9. CASE UNCHANGED vars
  <2>1. UNCHANGED <<coordinator, files, at, task, success, cl, poll, wire, regime, retries>>
    BY <1>9 DEF vars, workers, clients, bounds
  <2>2. OneJobEach'
    BY <1>1, <2>1, OneJobKept DEF OrderlyCluster, SubmitRequest
  <2> QED BY <1>1, <2>1, <2>2, OrderlyQuiet DEF Busy
<1> QED BY <1>2, <1>3, <1>4, <1>5, <1>6, <1>7, <1>8, <1>9 DEF Next, Coordinator

(* In a timely cluster every client has one job, every task one worker,    *)
(* and every count is the number of tasks that succeeded.                  *)
THEOREM TimelyInductive == Spec => [](ClusterInv /\ TimelyInv)
<1>1. Init => TimelyInv
  BY TimelyInit
<1>2. ClusterInv /\ TimelyInv /\ [Next]_vars => TimelyInv'
  BY TimelyNext
<1> QED BY <1>1, <1>2, ClusterInductive, PTL DEF Spec

(* With timely reports get_task_1_svc() hands out no reduce task before    *)
(* every map task of its job has succeeded.                                *)
THEOREM ReducesAfterMaps == Spec => []ReduceAfterMaps
<1>1. TimelyInv => ReduceAfterMaps
  BY DEF TimelyInv, OrderlyCluster, TasksCounted, ReduceAfterMaps
<1> QED BY <1>1, TimelyInductive, PTL

(* With timely reports, a client told by poll_job_1_svc() that its job     *)
(* completed finds all of its output, made from the output of every map.   *)
THEOREM ClientsToldTruth == Spec => []PromptlyToldTruth
<1>1. ClusterInv /\ TimelyInv => PromptlyToldTruth
  <2> SUFFICES ASSUME ClusterInv, OrderlyCluster, NEW c \in Client, cl[c] = "completed",
                      NEW i \in Indices("reduce")
               PROVE  files[c]["reduce"][i] = "complete"
    BY DEF TimelyInv, PromptlyToldTruth, ToldTruth
  <2> DEFINE j == poll[c]
             t == [job |-> j, kind |-> "reduce", index |-> i]
  <2>1. j \in DOMAIN all_job /\ all_job[j].client = c /\ all_job[j].done /\ ~all_job[j].failed
    BY DEF OrderlyCluster, OneJobEach, OneJob, JobsOf
  <2>2. TasksCounted(j)
    BY <2>1 DEF OrderlyCluster
  <2>3. Succeeded(j, "reduce") = Indices("reduce")
    BY <2>1, <2>2 DEF TasksCounted
  <2>4. t \in AllTasks
    BY <2>1, TaskFields DEF Kinds
  <2>5. Done(t)
    BY <2>3 DEF Done, Succeeded
  <2>6. OutputComplete(t)
    BY <2>4 DEF OrderlyCluster
  <2> QED BY <2>1, <2>5, <2>6 DEF OutputComplete, FilesOf
<1> QED BY <1>1, TimelyInductive, PTL
=============================================================================
