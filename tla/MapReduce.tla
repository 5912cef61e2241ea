----------------------------- MODULE MapReduce ------------------------------
(***************************************************************************)
(* The MapReduce cluster of hw-map-reduce: the coordinator's job queue and *)
(* its four RPC handlers, the workers' loop, the files tasks leave in a    *)
(* job's output directory, and the client that submits a job and polls it. *)
(*                                                                         *)
(* RPC runs over UDP without a reply cache: a request may be lost, or      *)
(* retransmitted and then executed again, and a reply may be lost.  Two    *)
(* copies of a request are indistinguishable to the coordinator, so the    *)
(* network is a bag of requests and a reply goes to a caller of that       *)
(* request, or to nobody.                                                  *)
(***************************************************************************)
EXTENDS Integers, Sequences, FiniteSets, Bags, FiniteSetsExt
LOCAL INSTANCE TLC

CONSTANTS
  Worker, Client,
  TaskTimeout,    \* TASK_TIMEOUT_SECS, in ticks
  TasksMayFail,   \* whether a map task may find its input unreadable
  Regimes         \* what may happen to a cluster, a set of records: the
                  \* tasks of a job (maps: input files, reduces: option -n),
                  \* bounds on the requests sent again (retries), requests or
                  \* replies lost (losses) and workers that crash (crashes),
                  \* and whether every report arrives before its task times
                  \* out (prompt)

ASSUME MRTimeout == TaskTimeout \in Nat \ {0}
ASSUME MRBounds ==
  /\ TasksMayFail \in BOOLEAN
  /\ Regimes \subseteq [maps : Nat \ {0}, reduces : Nat \ {0}, retries : Nat,
                        losses : Nat, crashes : Nat, prompt : BOOLEAN]

VARIABLES
  next_id, waiting_queue,  \* coordinator
  all_job,                 \* the hash table: job_id |-> struct job
  files,                   \* the output directory of each client's job
  at, task, success,       \* each worker's place, get_task reply and outcome
  cl, poll,                \* each client's place, and its job_id
  wire,                    \* requests in flight
  regime,                  \* the regime of this behaviour, and
  retries, losses, crashes \* what is left of its bounds

coordinator == <<next_id, waiting_queue, all_job>>
workers == <<at, task, success>>
clients == <<cl, poll>>
bounds == <<regime, retries, losses, crashes>>
vars == <<coordinator, files, workers, clients, wire, bounds>>

Kinds == {"map", "reduce"}
Count(kind) == IF kind = "map" THEN regime.maps ELSE regime.reduces
Indices(kind) == 0 .. Count(kind) - 1

(* The time_t of a task that was never handed out; otherwise the model     *)
(* keeps the seconds since, up to the timeout.                             *)
Unassigned == -1

(* The arrays of a job with one element for each of its tasks.             *)
Table(S) ==
  {f \in [Kinds -> UNION {[Indices(k) -> S] : k \in Kinds}] :
     \A k \in Kinds : f[k] \in [Indices(k) -> S]}
Filled(x) == [k \in Kinds |-> [i \in Indices(k) |-> x]]

TasksOf(j, k) == {[job |-> j, kind |-> k, index |-> i] : i \in Indices(k)}
NoTask == [job |-> 0, kind |-> "map", index |-> 0]

SubmitRequest(c) == [type |-> "submit", client |-> c]
GetRequest == [type |-> "get"]
FinishRequest(t, ok) == [type |-> "finish", task |-> t, success |-> ok]

(* coordinator_init(), and no process has called yet.                      *)
Init ==
  /\ regime \in Regimes
  /\ next_id = 0
  /\ waiting_queue = <<>>
  /\ all_job = <<>>
  /\ files = [c \in Client |-> Filled("absent")]
  /\ at = [w \in Worker |-> "idle"]
  /\ task = [w \in Worker |-> NoTask]
  /\ success = [w \in Worker |-> TRUE]
  /\ cl = [c \in Client |-> "new"]
  /\ poll = [c \in Client |-> 0]
  /\ wire = EmptyBag
  /\ retries = regime.retries /\ losses = regime.losses /\ crashes = regime.crashes

Send(m) == wire' = wire (+) SetToBag({m})
Receive(m) == BagIn(m, wire) /\ wire' = wire (-) SetToBag({m})

-----------------------------------------------------------------------------
NewJob(c) ==
  [client |-> c,
   time |-> Filled(Unassigned), success |-> Filled(FALSE),
   finished |-> [k \in Kinds |-> 0],
   done |-> FALSE, failed |-> FALSE]

(* Mutant: the id is computed but next_id is not advanced.                 *)
SubmitJobSameId(c) ==
  /\ all_job' = Append(all_job, NewJob(c))
  /\ waiting_queue' = Append(waiting_queue, next_id + 1)
  /\ UNCHANGED next_id

(* submit_job_1_svc(), for an application the coordinator knows: the       *)
(* client's submit_job() has looked it up before.                          *)
SubmitJob(c) ==
  /\ next_id' = next_id + 1
  /\ all_job' = Append(all_job, NewJob(c))
  /\ waiting_queue' = Append(waiting_queue, next_id + 1)

(* The tasks find_expired_task() and find_unassigned_task() look at: the   *)
(* reduce tasks only when the map phase is over.                           *)
Open(j) ==
  TasksOf(j, "map") \cup
    (IF all_job[j].finished["map"] = regime.maps THEN TasksOf(j, "reduce") ELSE {})
Time(t) == all_job[t.job].time[t.kind][t.index]

(* Mutant: a task that was handed out never expires.                       *)
ExpiredNever(t) == FALSE

Expired(t) == /\ Time(t) # Unassigned /\ Time(t) >= TaskTimeout
              /\ ~all_job[t.job].success[t.kind][t.index]

(* Mutant: the unassigned tasks are not limited to the current phase.      *)
UnassignedAnyPhase(j) ==
  {t \in TasksOf(j, "map") \cup TasksOf(j, "reduce") : Time(t) = Unassigned}

ExpiredTasks(j) == {t \in Open(j) : Expired(t)}
UnassignedTasks(j) == {t \in Open(j) : Time(t) = Unassigned}

Queued == {waiting_queue[n] : n \in DOMAIN waiting_queue}

(* The first of a job's tasks in the order of the loops, for the first job *)
(* in the queue that has one.                                              *)
FirstOf(found) ==
  LET j == waiting_queue[Min({n \in DOMAIN waiting_queue :
                                found[waiting_queue[n]] # {}})]
  IN  CHOOSE t \in found[j] : \A u \in found[j] :
        \/ t.kind = "map" /\ u.kind = "reduce"
        \/ t.kind = u.kind /\ t.index <= u.index

(* get_task_1_svc(): NoTask stands for the reply `wait'.                   *)
NextTask ==
  LET expired == [j \in Queued |-> ExpiredTasks(j)]
      unassigned == [j \in Queued |-> UnassignedTasks(j)]
  IN  IF \E j \in Queued : expired[j] # {} THEN FirstOf(expired)
      ELSE IF \E j \in Queued : unassigned[j] # {} THEN FirstOf(unassigned)
      ELSE NoTask

GetTask(t) ==
  /\ all_job' = IF t = NoTask THEN all_job
                ELSE [all_job EXCEPT ![t.job].time[t.kind][t.index] = 0]
  /\ UNCHANGED <<next_id, waiting_queue>>

(* Mutant: the job is done one reduce task early.                          *)
UpdateJobInfoEarly(job, t, ok) ==
  IF ~ok THEN [job EXCEPT !.done = TRUE, !.failed = TRUE]
  ELSE LET n == job.finished[t.kind] + 1
           up == [job EXCEPT !.finished[t.kind] = n,
                             !.success[t.kind][t.index] = TRUE]
       IN  IF t.kind = "reduce" /\ n + 1 >= regime.reduces
             THEN [up EXCEPT !.done = TRUE] ELSE up

(* update_job_info()                                                       *)
UpdateJobInfo(job, t, ok) ==
  IF ~ok THEN [job EXCEPT !.done = TRUE, !.failed = TRUE]
  ELSE LET n == job.finished[t.kind] + 1
           up == [job EXCEPT !.finished[t.kind] = n,
                             !.success[t.kind][t.index] = TRUE]
       IN  IF t.kind = "reduce" /\ n = regime.reduces
             THEN [up EXCEPT !.done = TRUE, !.failed = FALSE]
             ELSE up

(* g_list_remove(): the queue without the first entry for job j.           *)
WithoutJob(queue, j) ==
  LET first == Min({n \in DOMAIN queue : queue[n] = j})
  IN  [n \in 1 .. Len(queue) - 1 |-> IF n < first THEN queue[n] ELSE queue[n + 1]]

(* Mutant: a late report is applied to a job that is done.                 *)
FinishTaskLate(t, ok) ==
  LET job == UpdateJobInfo(all_job[t.job], t, ok)
  IN  /\ all_job' = [all_job EXCEPT ![t.job] = job]
      /\ waiting_queue' = IF job.done /\ t.job \in Queued
                             THEN WithoutJob(waiting_queue, t.job) ELSE waiting_queue
      /\ UNCHANGED next_id

(* Mutant: a job that is done stays in the queue.                          *)
FinishTaskStays(t, ok) ==
  IF t.job \notin Queued THEN UNCHANGED coordinator
  ELSE /\ all_job' = [all_job EXCEPT ![t.job] = UpdateJobInfo(@, t, ok)]
       /\ UNCHANGED <<waiting_queue, next_id>>

(* finish_task_1_svc(): reports for a job that left the queue are ignored. *)
FinishTask(t, ok) ==
  IF t.job \notin Queued THEN UNCHANGED coordinator
  ELSE LET job == UpdateJobInfo(all_job[t.job], t, ok)
       IN  /\ all_job' = [all_job EXCEPT ![t.job] = job]
           /\ waiting_queue' = IF job.done THEN WithoutJob(waiting_queue, t.job)
                                          ELSE waiting_queue
           /\ UNCHANGED next_id

-----------------------------------------------------------------------------
(* A reply reaches a caller, or is lost.                                   *)
ReplyLost == losses > 0 /\ losses' = losses - 1
ReplyArrives == UNCHANGED losses

HandleSubmit(c) ==
  /\ Receive(SubmitRequest(c))
  /\ SubmitJob(c)
  /\ \/ /\ ReplyLost
        /\ UNCHANGED clients
     \/ /\ ReplyArrives
        /\ IF cl[c] = "submitting"
             THEN /\ cl' = [cl EXCEPT ![c] = "polling"]
                  /\ poll' = [poll EXCEPT ![c] = next_id + 1]
             ELSE UNCHANGED clients
  /\ UNCHANGED <<files, workers, regime, retries, crashes>>

(* The worker that gets a task runs it; one told to wait asks again later. *)
HandleGet ==
  /\ Receive(GetRequest)
  /\ LET t == NextTask IN
       /\ GetTask(t)
       /\ \/ /\ ReplyLost
             /\ UNCHANGED workers
          \/ /\ ReplyArrives
             /\ \A w \in Worker : at[w] # "asking"
             /\ UNCHANGED workers
          \/ /\ ReplyArrives
             /\ \E w \in Worker :
                  /\ at[w] = "asking"
                  /\ at' = [at EXCEPT ![w] = IF t = NoTask THEN "idle" ELSE "assigned"]
                  /\ task' = [task EXCEPT ![w] = t]
             /\ UNCHANGED success
  /\ UNCHANGED <<files, clients, regime, retries, crashes>>

HandleFinish(t, ok) ==
  LET callers == {w \in Worker : at[w] = "finishing" /\ task[w] = t /\ success[w] = ok}
  IN  /\ Receive(FinishRequest(t, ok))
      /\ FinishTask(t, ok)
      /\ \/ /\ ReplyLost
            /\ UNCHANGED workers
         \/ /\ ReplyArrives
            /\ callers = {}
            /\ UNCHANGED workers
         \/ /\ ReplyArrives
            /\ \E w \in callers :
                 /\ at' = [at EXCEPT ![w] = "idle"]
                 /\ task' = [task EXCEPT ![w] = NoTask]
            /\ UNCHANGED success
      /\ UNCHANGED <<files, clients, regime, retries, crashes>>

-----------------------------------------------------------------------------
(* run_worker(): ask, run the task, report.                                *)
AskTask(w) ==
  /\ at[w] = "idle"
  /\ at' = [at EXCEPT ![w] = "asking"]
  /\ Send(GetRequest)
  /\ UNCHANGED <<coordinator, files, task, success, clients, bounds>>

Dir(w) == all_job[task[w].job].client

Report(w, ok) ==
  /\ success' = [success EXCEPT ![w] = ok]
  /\ at' = [at EXCEPT ![w] = "finishing"]
  /\ Send(FinishRequest(task[w], ok))
  /\ UNCHANGED <<coordinator, task, clients, bounds>>

(* handle_map_task(): open_map_writers() truncates the task's intermediate *)
(* files; when the input has been read they are written and closed.        *)
MapOpen(w) ==
  /\ at[w] = "assigned" /\ task[w].kind = "map"
  /\ at' = [at EXCEPT ![w] = "opened"]
  /\ files' = [files EXCEPT ![Dir(w)]["map"][task[w].index] = "partial"]
  /\ UNCHANGED <<coordinator, task, success, clients, wire, bounds>>

MapWrite(w) ==
  /\ at[w] = "opened"
  /\ files' = [files EXCEPT ![Dir(w)]["map"][task[w].index] = "complete"]
  /\ Report(w, TRUE)

MapFails(w) ==
  /\ at[w] = "opened" /\ TasksMayFail
  /\ Report(w, FALSE)
  /\ UNCHANGED files

(* handle_reduce_task(): it opens and counts the intermediate files, and   *)
(* fails when one is missing or has half a pair; it truncates its output,  *)
(* then reads the pairs that were counted, reduces and writes.             *)
Inputs(w) == {files[Dir(w)]["map"][i] : i \in Indices("map")}

ReduceFails(w) ==
  /\ at[w] = "assigned" /\ task[w].kind = "reduce" /\ Inputs(w) # {"complete"}
  /\ Report(w, FALSE)
  /\ UNCHANGED files

ReduceOpen(w) ==
  /\ at[w] = "assigned" /\ task[w].kind = "reduce" /\ "absent" \notin Inputs(w)
  /\ at' = [at EXCEPT ![w] = IF Inputs(w) = {"complete"} THEN "counted" ELSE "short"]
  /\ files' = [files EXCEPT ![Dir(w)]["reduce"][task[w].index] = "partial"]
  /\ UNCHANGED <<coordinator, task, success, clients, wire, bounds>>

ReduceWrite(w) ==
  /\ at[w] \in {"counted", "short"} /\ task[w].kind = "reduce"
  /\ files' = [files EXCEPT ![Dir(w)]["reduce"][task[w].index] =
                 IF at[w] = "counted" /\ Inputs(w) = {"complete"} THEN "complete" ELSE "partial"]
  /\ Report(w, TRUE)

(* A call that gets no answer makes the process exit.                      *)
Pending(w) == IF at[w] = "asking" THEN GetRequest ELSE FinishRequest(task[w], success[w])
CallFails(w) ==
  /\ at[w] \in {"asking", "finishing"}
  /\ ~BagIn(Pending(w), wire)
  /\ at' = [at EXCEPT ![w] = "dead"]
  /\ UNCHANGED <<coordinator, files, task, success, clients, wire, bounds>>

Crash(w) ==
  /\ at[w] # "dead" /\ crashes > 0
  /\ crashes' = crashes - 1
  /\ at' = [at EXCEPT ![w] = "dead"]
  /\ UNCHANGED <<coordinator, files, task, success, clients, wire, regime, retries, losses>>

-----------------------------------------------------------------------------
(* submit_job() and poll_job() of the client, with --wait.                 *)
Submit(c) ==
  /\ cl[c] = "new"
  /\ cl' = [cl EXCEPT ![c] = "submitting"]
  /\ Send(SubmitRequest(c))
  /\ UNCHANGED <<coordinator, files, workers, poll, bounds>>

SubmitFails(c) ==
  /\ cl[c] = "submitting" /\ ~BagIn(SubmitRequest(c), wire)
  /\ cl' = [cl EXCEPT ![c] = "exited"]
  /\ UNCHANGED <<coordinator, files, workers, poll, wire, bounds>>

(* poll_job_1_svc() changes nothing.                                       *)
PollReply(j) ==
  IF j \notin DOMAIN all_job THEN [invalid |-> TRUE, done |-> FALSE, failed |-> FALSE]
  ELSE [invalid |-> FALSE, done |-> all_job[j].done, failed |-> all_job[j].failed]

(* The client asks every second until its job is done.                     *)
PollJob(c) ==
  /\ cl[c] = "polling"
  /\ PollReply(poll[c]).done
  /\ cl' = [cl EXCEPT ![c] = IF PollReply(poll[c]).failed THEN "failed" ELSE "completed"]
  /\ UNCHANGED <<coordinator, files, workers, poll, wire, bounds>>

-----------------------------------------------------------------------------
(* The RPC library sends the request of a call in progress once more.      *)
Retransmit ==
  /\ retries > 0 /\ retries' = retries - 1
  /\ \/ \E w \in Worker : at[w] \in {"asking", "finishing"} /\ Send(Pending(w))
     \/ \E c \in Client : cl[c] = "submitting" /\ Send(SubmitRequest(c))
  /\ UNCHANGED <<coordinator, files, workers, clients, regime, losses, crashes>>

Lose ==
  /\ losses > 0 /\ losses' = losses - 1
  /\ \E m \in BagToSet(wire) : Receive(m)
  /\ UNCHANGED <<coordinator, files, workers, clients, regime, retries, crashes>>

(* A second passes.  In a prompt regime, not while a task about to time    *)
(* out is still worked on or its report is under way.                      *)
Older(n) == IF n = Unassigned \/ n = TaskTimeout THEN n ELSE n + 1
InProgress(t) ==
  \/ \E w \in Worker : at[w] \in {"assigned", "opened", "counted", "short", "finishing"} /\ task[w] = t
  \/ \E m \in BagToSet(wire) : m.type = "finish" /\ m.task = t
Tick ==
  /\ regime.prompt => \A j \in Queued : \A t \in Open(j) :
                 InProgress(t) => Time(t) # TaskTimeout - 1
  /\ all_job' = [j \in DOMAIN all_job |->
       IF j \notin Queued THEN all_job[j]
       ELSE [all_job[j] EXCEPT !.time =
               [k \in Kinds |-> [i \in Indices(k) |-> Older(@[k][i])]]]]
  /\ all_job' # all_job
  /\ UNCHANGED <<next_id, waiting_queue, files, workers, clients, wire, bounds>>

Coordinator ==
  \/ \E c \in Client : HandleSubmit(c)
  \/ HandleGet
  \/ \E m \in BagToSet(wire) : m.type = "finish" /\ HandleFinish(m.task, m.success)

WorkerStep(w) == \/ AskTask(w) \/ MapOpen(w) \/ MapWrite(w) \/ MapFails(w)
                 \/ ReduceFails(w) \/ ReduceOpen(w) \/ ReduceWrite(w) \/ CallFails(w)
ClientStep(c) == Submit(c) \/ SubmitFails(c) \/ PollJob(c)

Next ==
  \/ Coordinator
  \/ \E w \in Worker : WorkerStep(w) \/ Crash(w)
  \/ \E c \in Client : ClientStep(c)
  \/ Retransmit \/ Lose \/ Tick

Spec == Init /\ [][Next]_vars

(* The coordinator serves what arrives, processes run, and time passes.    *)
FairSpec ==
  /\ Spec
  /\ WF_vars(\E c \in Client : HandleSubmit(c))
  /\ \A w \in Worker : SF_vars(HandleGet /\ at[w] = "asking" /\ at'[w] # "asking")
  /\ WF_vars(\E m \in BagToSet(wire) : m.type = "finish" /\ HandleFinish(m.task, m.success))
  /\ \A w \in Worker : WF_vars(WorkerStep(w))
  /\ \A c \in Client : WF_vars(ClientStep(c))
  /\ WF_vars(Tick)

-----------------------------------------------------------------------------
JobTasks(j) == UNION {TasksOf(j, k) : k \in Kinds}
AllTasks == UNION {JobTasks(j) : j \in DOMAIN all_job}

Job ==
  [client : Client, time : Table(Unassigned .. TaskTimeout), success : Table(BOOLEAN),
   finished : [Kinds -> Nat], done : BOOLEAN, failed : BOOLEAN]

Requests ==
  {SubmitRequest(c) : c \in Client} \cup {GetRequest}
    \cup {FinishRequest(t, ok) : t \in AllTasks, ok \in BOOLEAN}

(* Type correctness of the cluster's state.                                *)
TypeOK ==
  /\ regime \in Regimes
  /\ next_id \in Nat /\ all_job \in Seq(Job) /\ Len(all_job) = next_id
  /\ waiting_queue \in Seq(1..next_id)
  /\ files \in [Client -> Table({"absent", "partial", "complete"})]
  /\ at \in [Worker -> {"idle", "asking", "assigned", "opened", "counted", "short",
                    "finishing", "dead"}]
  /\ task \in [Worker -> AllTasks \cup {NoTask}]
  /\ success \in [Worker -> BOOLEAN]
  /\ cl \in [Client -> {"new", "submitting", "polling", "completed", "failed", "exited"}]
  /\ poll \in [Client -> 0..next_id]
  /\ IsABag(wire) /\ BagToSet(wire) \subseteq Requests
  /\ retries \in Nat /\ losses \in Nat /\ crashes \in Nat

(* The waiting queue holds exactly the unfinished jobs, each once: the     *)
(* handlers only touch jobs whose arrays free_job_memory() has not freed,  *)
(* and no unfinished job is forgotten.                                     *)
QueueExact ==
  /\ Queued = {j \in DOMAIN all_job : ~all_job[j].done}
  /\ \A m, n \in DOMAIN waiting_queue : waiting_queue[m] = waiting_queue[n] => m = n

(* Whatever reports still arrive, the outcome of a finished job stands:    *)
(* every poll after the first `done' gets the same answer.                 *)
OutcomeFinal ==
  [][\A j \in DOMAIN all_job : all_job[j].done => all_job'[j] = all_job[j]]_vars

Succeeded(j, k) == {i \in Indices(k) : all_job[j].success[k][i]}

(* Every report arrives before its task times out, and the RPC library has *)
(* no cause to send a request again.                                       *)
Timely == regime.prompt /\ regime.retries = 0

(* With timely reports, no reduce task is handed out before every map task *)
(* has succeeded, so a reduce task finds every intermediate file.          *)
ReduceAfterMaps ==
  Timely => \A j \in DOMAIN all_job :
    (\E i \in Indices("reduce") : all_job[j].time["reduce"][i] # Unassigned)
      => Succeeded(j, "map") = Indices("map")

(* A client told that its job completed finds every output file, computed  *)
(* from the complete output of every map task.                             *)
ToldTruth ==
  \A c \in Client : cl[c] = "completed" =>
    \A i \in Indices("reduce") : files[c]["reduce"][i] = "complete"

(* The same for a cluster whose reports are timely.                        *)
PromptlyToldTruth == Timely => ToldTruth

(* With a worker left alive and timely reports, every client is told an    *)
(* outcome.  (A map task reported twice is counted twice, and then the     *)
(* reduce phase, which waits for map_finished == n_map, never begins.)     *)
ClientsTold == Timely => \A c \in Client : <>(cl[c] \in {"completed", "failed", "exited"})

-----------------------------------------------------------------------------
(***************************************************************************)
(* What makes these inductive.  A busy worker has a task of a job.         *)
(***************************************************************************)
Busy(w) == at[w] \in {"assigned", "opened", "counted", "short", "finishing"}
BusyWorkers ==
  \A w \in Worker : /\ Busy(w) => task[w] \in AllTasks
                    /\ at[w] = "opened" => task[w].kind = "map"

ClusterInv == TypeOK /\ BusyWorkers /\ QueueExact

(***************************************************************************)
(* With timely reports: a client has at most one job, and polls that one.  *)
(***************************************************************************)
JobsOf(c) == {j \in DOMAIN all_job : all_job[j].client = c}
OneJob(c) ==
  /\ BagIn(SubmitRequest(c), wire) \/ cl[c] = "new" => JobsOf(c) = {}
  /\ BagIn(SubmitRequest(c), wire) => cl[c] # "new" /\ wire[SubmitRequest(c)] = 1
  /\ cl[c] \in {"polling", "completed"} => poll[c] \in JobsOf(c)
  /\ cl[c] = "completed" => all_job[poll[c]].done /\ ~all_job[poll[c]].failed
OneJobEach ==
  /\ \A c \in Client : OneJob(c)
  /\ \A i, j \in DOMAIN all_job : all_job[i].client = all_job[j].client => i = j

(* A task is in the hands of one worker, who reports it once; until then   *)
(* its time runs and is not over.  Nobody works on a task that is done.    *)
Holds(w, t) == Busy(w) /\ task[w] = t
Reported(t, ok) == BagIn(FinishRequest(t, ok), wire)
Underway(t) == (\E w \in Worker : Holds(w, t)) \/ \E ok \in BOOLEAN : Reported(t, ok)
Done(t) == all_job[t.job].success[t.kind][t.index]
OneWorker(t) ==
  /\ \A v, w \in Worker : Holds(v, t) /\ Holds(w, t) => v = w
  /\ \A ok \in BOOLEAN : Reported(t, ok) =>
       /\ wire[FinishRequest(t, ok)] = 1 /\ ~Reported(t, ~ok) /\ ~Done(t)
       /\ \A w \in Worker : Holds(w, t) => at[w] = "finishing" /\ success[w] = ok
  /\ Underway(t) => Time(t) # Unassigned /\ (t.job \in Queued => Time(t) # TaskTimeout)
  /\ Done(t) => /\ Time(t) # Unassigned
                /\ \A w \in Worker : Holds(w, t) => at[w] = "finishing"

(* The files of a task that is done or reported are complete.              *)
FilesOf(t) == files[all_job[t.job].client][t.kind][t.index]
OutputComplete(t) == Done(t) \/ Reported(t, TRUE) => FilesOf(t) = "complete"

(* The tasks of a job are counted once each.                               *)
TasksCounted(j) ==
  /\ \A k \in Kinds : all_job[j].finished[k] = Cardinality(Succeeded(j, k))
  /\ (\E i \in Indices("reduce") : all_job[j].time["reduce"][i] # Unassigned)
       => Succeeded(j, "map") = Indices("map")
  /\ all_job[j].done /\ ~all_job[j].failed => Succeeded(j, "reduce") = Indices("reduce")

OrderlyCluster ==
  /\ retries = 0 /\ OneJobEach
  /\ \A t \in AllTasks : OneWorker(t) /\ OutputComplete(t)
  /\ \A j \in DOMAIN all_job : TasksCounted(j)

(* No reducer counts a file that is not complete.                          *)
NoneShort == \A w \in Worker : at[w] # "short"

TimelyInv == Timely => OrderlyCluster /\ NoneShort
-----------------------------------------------------------------------------
(* The instances that TLC checks.                                          *)
WorkerSymmetry == Permutations(Worker)

Regime(m, n, r, l, c, p) ==
  [maps |-> m, reduces |-> n, retries |-> r, losses |-> l, crashes |-> c, prompt |-> p]

(* A crash in a cluster whose reports are prompt; a request sent again, a  *)
(* lost message and late reports.                                          *)
CrashOrLoss == {Regime(2, 2, 0, 0, 1, TRUE), Regime(1, 1, 1, 1, 0, FALSE)}

(* A perfect network and no crash, but tasks that outlive their timeout.   *)
OnlySlow == {Regime(1, 2, 0, 0, 0, FALSE)}
=============================================================================
