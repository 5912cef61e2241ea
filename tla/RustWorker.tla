----------------------------- MODULE RustWorker -----------------------------
(***************************************************************************)
(* The MapReduce worker and client in Rust (hw-map-reduce-rs).  A worker      *)
(* keeps the output of its map tasks in memory, under a mutex, and serves it  *)
(* to the workers that reduce, itself included; a crash loses it.  The        *)
(* repository's coordinator is a skeleton: the one here is what the worker's  *)
(* messages ask for (external).                                               *)
(*                                                                            *)
(* Map functions are deterministic, so the content of a map output is left    *)
(* out: a worker has the output of a map task or not.  tokio's File hands     *)
(* what is written to it to a background thread: write_all() returns before   *)
(* the bytes are in the file, and nothing flushes them or learns of the last  *)
(* write's error.                                                             *)
(***************************************************************************)
EXTENDS Integers, FiniteSets

CONSTANTS RustWorkers, NMap, NReduce,
          Crashes,         \* bound on the number of crashes
          NoWorker

RustBounds == Crashes < Cardinality(RustWorkers)

VARIABLES rwAt,            \* where each worker is
          rwTask,          \* the task it works on
          rwGot,           \* reduce(): map tasks read so far
          rwLock,          \* inner: who holds the mutex ("map", "reduce" or "none")
          rwData,          \* data: the map tasks whose output it has
          outFile,         \* mr-out-r: whole, or cut short for ever
          writing,         \* reduce tasks whose last write is still in the background
          mapDone,         \* coordinator: the worker that has finished map task m
          redDone,         \* coordinator: reduce tasks reported as finished
          aborted,         \* coordinator: a failure without retry was reported
          appKnown,        \* app::named() knows the job's app
          badInputs,       \* map tasks whose file cannot be opened or mapped
          diskBad,         \* creating or writing an output file may fail
          clientSees       \* what the client that waits was told

rustVars == <<rwAt, rwTask, rwGot, rwLock, rwData, outFile, writing, mapDone, redDone,
              aborted, appKnown, badInputs, diskBad, clientSees>>
jobVars == <<appKnown, badInputs, diskBad, clientSees>>
fileVars == <<outFile, writing>>
coordVars == <<mapDone, redDone, aborted>>

Maps == 1..NMap
Reduces == 1..NReduce
NoTask == [reduce |-> FALSE, task |-> 0, assigns |-> <<>>]
Goes(w, at) == rwAt' = [rwAt EXCEPT ![w] = at]

RustInit ==
  /\ rwAt = [w \in RustWorkers |-> "idle"] /\ rwTask = [w \in RustWorkers |-> NoTask]
  /\ rwGot = [w \in RustWorkers |-> 0] /\ rwLock = [w \in RustWorkers |-> "none"]
  /\ rwData = [w \in RustWorkers |-> {}]
  /\ outFile = [r \in Reduces |-> "none"] /\ writing = [w \in RustWorkers |-> {}]
  /\ mapDone = [m \in Maps |-> NoWorker] /\ redDone = {} /\ aborted = FALSE
  /\ appKnown = FALSE /\ badInputs = {} /\ diskBad = FALSE /\ clientSees = "none"

(* submit_job(), for a job of one or another app, input and output directory. *)
SubmitJob(known, bad, disk) ==
  /\ clientSees = "none" /\ clientSees' = "pending"
  /\ appKnown' = known /\ badInputs' = bad /\ diskBad' = disk
  /\ UNCHANGED <<rwAt, rwTask, rwGot, rwLock, rwData, fileVars, coordVars>>

---------------------------------------------------------------------------
(* The coordinator hands out tasks that nobody alive works on: map tasks
   without a live owner, then reduce tasks with the owners of all map tasks. *)
AtWork(reduce, t) == \E w \in RustWorkers : /\ rwAt[w] \notin {"idle", "dead"}
                                            /\ rwTask[w].reduce = reduce /\ rwTask[w].task = t
LiveOwner(m) == mapDone[m] # NoWorker /\ rwAt[mapDone[m]] # "dead"
Offered ==
  IF clientSees = "none" \/ aborted \/ redDone = Reduces THEN {}
  ELSE {[NoTask EXCEPT !.task = m] : m \in {m \in Maps : ~LiveOwner(m) /\ ~AtWork(FALSE, m)}}
    \cup {[reduce |-> TRUE, task |-> r, assigns |-> mapDone] :
            r \in {r \in Reduces \ redDone : ~AtWork(TRUE, r) /\ \A m \in Maps : LiveOwner(m)}}

(* reduce() that would hold the mutex as map() does. *)
GetTaskLocked(w) ==
  /\ rwAt[w] = "idle" /\ appKnown /\ rwLock[w] = "none"
  /\ \E task \in Offered :
       /\ rwTask' = [rwTask EXCEPT ![w] = task]
       /\ Goes(w, IF task.reduce THEN "fetch" ELSE "map")
       /\ rwLock' = [rwLock EXCEPT ![w] = IF task.reduce THEN "reduce" ELSE "none"]
  /\ UNCHANGED <<rwGot, rwData, fileVars, coordVars, jobVars>>

(* get_task(), and the start of handle_task(): an unknown app ends it with an
   error that the coordinator is not told. *)
GetTask(w) ==
  /\ rwAt[w] = "idle" /\ appKnown
  /\ \E task \in Offered :
       /\ rwTask' = [rwTask EXCEPT ![w] = task]
       /\ Goes(w, IF task.reduce THEN "fetch" ELSE "map")
  /\ UNCHANGED <<rwGot, rwLock, rwData, fileVars, coordVars, jobVars>>

(* map(): the mutex is held while the file is read and mapped; all parts of
   the output are stored before it is released. *)
MapLock(w) ==
  /\ rwAt[w] = "map" /\ rwLock[w] = "none"
  /\ rwLock' = [rwLock EXCEPT ![w] = "map"] /\ Goes(w, "mapping")
  /\ UNCHANGED <<rwTask, rwGot, rwData, fileVars, coordVars, jobVars>>

MapStore(w) ==
  /\ rwAt[w] = "mapping" /\ rwTask[w].task \notin badInputs
  /\ rwData' = [rwData EXCEPT ![w] = @ \cup {rwTask[w].task}]
  /\ rwLock' = [rwLock EXCEPT ![w] = "none"] /\ Goes(w, "finish")
  /\ UNCHANGED <<rwTask, rwGot, fileVars, coordVars, jobVars>>

MapFails(w) ==
  /\ rwAt[w] = "mapping" /\ rwTask[w].task \in badInputs
  /\ rwLock' = [rwLock EXCEPT ![w] = "none"] /\ Goes(w, "fail")
  /\ UNCHANGED <<rwTask, rwGot, rwData, fileVars, coordVars, jobVars>>

(* reduce(): connect() and read_map() of the worker that has the next map
   task.  It answers once its mutex is free. *)
Source(w) == rwTask[w].assigns[rwGot[w] + 1]
Fetching(w) == rwAt[w] = "fetch" /\ rwGot[w] < NMap
ReadMap(w) ==
  /\ Fetching(w) /\ rwAt[Source(w)] # "dead" /\ rwLock[Source(w)] = "none"
  /\ rwGot[w] + 1 \in rwData[Source(w)]
  /\ rwGot' = [rwGot EXCEPT ![w] = @ + 1]
  /\ UNCHANGED <<rwAt, rwTask, rwLock, rwData, fileVars, coordVars, jobVars>>

(* A read that fails as an error that aborts the job. *)
ReadMapAborts(w) ==
  /\ Fetching(w)
  /\ \/ rwAt[Source(w)] = "dead"
     \/ rwLock[Source(w)] = "none" /\ rwGot[w] + 1 \notin rwData[Source(w)]
  /\ Goes(w, "fail")
  /\ UNCHANGED <<rwTask, rwGot, rwLock, rwData, fileVars, coordVars, jobVars>>

(* The worker is gone, or get_data() finds nothing: an error to retry. *)
ReadMapFails(w) ==
  /\ Fetching(w)
  /\ \/ rwAt[Source(w)] = "dead"
     \/ rwLock[Source(w)] = "none" /\ rwGot[w] + 1 \notin rwData[Source(w)]
  /\ Goes(w, "retry")
  /\ UNCHANGED <<rwTask, rwGot, rwLock, rwData, fileVars, coordVars, jobVars>>

(* File::create() truncates the file; write_all() returns with the last of the
   bytes on their way.  An error of either, or of a write before the last, is
   one without retry. *)
Creating(w) == rwAt[w] = "fetch" /\ rwGot[w] = NMap
CreateFile(w) ==
  /\ Creating(w) /\ Goes(w, "write")
  /\ outFile' = [outFile EXCEPT ![rwTask[w].task] = "partial"]
  /\ UNCHANGED <<rwTask, rwGot, rwLock, rwData, writing, coordVars, jobVars>>

CreateFails(w) ==
  /\ Creating(w) /\ diskBad /\ Goes(w, "fail")
  /\ UNCHANGED <<rwTask, rwGot, rwLock, rwData, fileVars, coordVars, jobVars>>

WriteAll(w) ==
  /\ rwAt[w] = "write" /\ Goes(w, "finish")
  /\ writing' = [writing EXCEPT ![w] = @ \cup {rwTask[w].task}]
  /\ UNCHANGED <<rwTask, rwGot, rwLock, rwData, outFile, coordVars, jobVars>>

WriteFails(w) ==
  /\ rwAt[w] = "write" /\ diskBad /\ Goes(w, "fail")
  /\ outFile' = [outFile EXCEPT ![rwTask[w].task] = "cut"]
  /\ UNCHANGED <<rwTask, rwGot, rwLock, rwData, writing, coordVars, jobVars>>

(* The background write ends; nobody is left to hear of its error. *)
LastWrite(w, r) ==
  /\ r \in writing[w]
  /\ writing' = [writing EXCEPT ![w] = @ \ {r}]
  /\ \E end \in IF diskBad THEN {"whole", "cut"} ELSE {"whole"} :
       outFile' = [outFile EXCEPT ![r] = end]
  /\ UNCHANGED <<rwAt, rwTask, rwGot, rwLock, rwData, coordVars, jobVars>>

(* The end of handle_task(): finish_task(), or fail_task() with retry or
   without. *)
Leaves(w, at) ==
  /\ Goes(w, at)
  /\ rwTask' = [rwTask EXCEPT ![w] = NoTask] /\ rwGot' = [rwGot EXCEPT ![w] = 0]

FinishTask(w) ==
  /\ rwAt[w] = "finish" /\ Leaves(w, "idle")
  /\ IF rwTask[w].reduce
     THEN redDone' = redDone \cup {rwTask[w].task} /\ UNCHANGED mapDone
     ELSE mapDone' = [mapDone EXCEPT ![rwTask[w].task] = w] /\ UNCHANGED redDone
  /\ UNCHANGED <<rwLock, rwData, fileVars, aborted, jobVars>>

FailTask(w) ==
  /\ rwAt[w] \in {"fail", "retry"} /\ Leaves(w, "idle")
  /\ aborted' = (aborted \/ rwAt[w] = "fail")
  /\ UNCHANGED <<rwLock, rwData, fileVars, mapDone, redDone, jobVars>>

(* remove_job(): the coordinator sends it once the job has ended; a reduce
   task that was handed out before may still read. *)
RemoveJob(w) ==
  /\ aborted \/ redDone = Reduces
  /\ rwAt[w] # "dead" /\ rwLock[w] = "none" /\ rwData[w] # {}
  /\ rwData' = [rwData EXCEPT ![w] = {}]
  /\ UNCHANGED <<rwAt, rwTask, rwGot, rwLock, fileVars, coordVars, jobVars>>

Crash(w) ==
  /\ rwAt[w] # "dead"
  /\ Cardinality({v \in RustWorkers : rwAt[v] = "dead"}) < Crashes
  /\ Leaves(w, "dead")
  /\ rwData' = [rwData EXCEPT ![w] = {}] /\ rwLock' = [rwLock EXCEPT ![w] = "none"]
  /\ outFile' = [r \in Reduces |-> IF r \in writing[w] THEN "cut" ELSE outFile[r]]
  /\ writing' = [writing EXCEPT ![w] = {}]
  /\ UNCHANGED <<coordVars, jobVars>>

(* wait_job(): the first poll that says done or failed; postprocess_job()
   then reads the files. *)
PollJob ==
  /\ clientSees = "pending"
  /\ aborted \/ redDone = Reduces
  /\ clientSees' = IF aborted THEN "failed"
                   ELSE IF \A r \in Reduces : outFile[r] = "whole" THEN "output" ELSE "garbage"
  /\ UNCHANGED <<rwAt, rwTask, rwGot, rwLock, rwData, fileVars, coordVars, appKnown, badInputs,
                 diskBad>>

RustStep(w) ==
  \/ GetTask(w) \/ MapLock(w) \/ MapStore(w) \/ MapFails(w) \/ ReadMap(w) \/ ReadMapFails(w)
  \/ CreateFile(w) \/ CreateFails(w) \/ WriteAll(w) \/ WriteFails(w)
  \/ FinishTask(w) \/ FailTask(w)

RustNext ==
  \/ \E known, disk \in BOOLEAN, bad \in {{}, {NMap}} : SubmitJob(known, bad, disk)
  \/ \E w \in RustWorkers : \/ RustStep(w) \/ RemoveJob(w) \/ Crash(w)
                            \/ \E r \in Reduces : LastWrite(w, r)
  \/ PollJob

RustSpec == RustInit /\ [][RustNext]_rustVars

---------------------------------------------------------------------------
(* What a done job is worth.  Its files are whole, or still being written by
   the one live worker that reported them, or were cut short by a crash or by
   the disk before they got whole: a client that polls early reads such a file
   as it is.  A client that found whole files keeps them, whatever late reduce
   tasks do.  The job is aborted only because of its input or its disk, never
   because a worker or its data has gone (handle_task()'s retry). *)
BeingWritten(r) == \E w \in RustWorkers : /\ rwAt[w] # "dead"
                                           /\ {v \in RustWorkers : r \in writing[v]} = {w}

Accounted(r) ==
  \/ outFile[r] = "whole"
  \/ outFile[r] = "partial" /\ BeingWritten(r)
  \/ outFile[r] = "cut" /\ (diskBad \/ \E w \in RustWorkers : rwAt[w] = "dead")

RustOutcome ==
  /\ aborted => badInputs # {} \/ diskBad
  /\ \A r \in redDone : Accounted(r)
  /\ clientSees = "output" => \A r \in Reduces : outFile[r] = "whole"

(* Every job of a known app ends, as long as one worker lives: the readers of
   a map output, the worker that has it among them, never wait for each other. *)
RustJobEnds == appKnown ~> clientSees \in {"output", "garbage", "failed"}
=============================================================================
