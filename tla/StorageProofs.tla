--------------------------- MODULE StorageProofs ----------------------------
(***************************************************************************)
(* Proofs about storage, from the disk's sectors to a file's bytes: Ide,   *)
(* for any number of threads, disks, sectors and requests and any number   *)
(* of spurious interrupts, and SectorIO, for any sizes of the sectors, the *)
(* device, the file and the transfers.  And about small devices (Devices): *)
(* the console's lock, the sleeps and the speaker, the real-time clock.    *)
(***************************************************************************)
EXTENDS Ide, SectorIO, Devices, SequenceTheorems, TLAPS

(* Whoever is inside the driver, past lock_acquire(), has the lock.        *)
Exclusion ==
  \A t \in Thread : pc[t] \in Steps \ {"out", "lock"} <=> lock = t

(* What the controller may be doing, for every point of the driver the     *)
(* lock's holder may be at.  Even after a spurious interrupt the only      *)
(* command that outlives its call is a write.                              *)
Protocol ==
  /\ lock = Nobody => dev \in {"idle", "writing"}
  /\ \A t \in Thread :
       /\ pc[t] = "select" => dev \in {"idle", "writing"}
       /\ pc[t] \in {"device", "selected", "sector", "issue"} => dev = "idle"
       /\ req[t].op = "read" =>
            /\ pc[t] \in {"down", "busy"} => dev \in {"reading", "readable"}
            /\ pc[t] = "transfer" => dev = "readable"
            /\ pc[t] = "unlock" => dev = "idle"
       /\ req[t].op = "write" =>
            /\ pc[t] = "busy" => dev \in {"preparing", "writable"}
            /\ pc[t] = "transfer" => dev = "writable"
            /\ pc[t] \in {"down", "unlock"} => dev \in {"idle", "writing"}
       /\ pc[t] # "panic"

(* Where the completion of the command in progress is, as long as no       *)
(* interrupt was spurious.                                                 *)
Quiet == dev = "idle" /\ ~irq /\ completion_wait = 0
Completion ==
  /\ lock = Nobody => Quiet
  /\ \A t \in Thread :
       /\ pc[t] \in {"select", "device", "selected", "sector", "issue", "unlock"} => Quiet
       /\ pc[t] = "down" =>
            /\ expecting_interrupt
            /\ \/ dev \in {"reading", "writing"} /\ ~irq /\ completion_wait = 0
               \/ dev \in {"readable", "idle"} /\ irq /\ completion_wait = 0
               \/ dev \in {"readable", "idle"} /\ ~irq /\ completion_wait = 1
       /\ pc[t] \in {"busy", "transfer"} =>
            /\ ~irq /\ completion_wait = 0
            /\ expecting_interrupt
            /\ dev \notin {"reading", "writing"}

(* The controller works on what the lock's holder asked for.               *)
Selected ==
  \A t \in Thread :
    /\ pc[t] = "selected" => reg.disk = req[t].disk
    /\ pc[t] \in {"issue", "down", "busy", "transfer"} =>
         reg.disk = req[t].disk /\ reg.sector = req[t].sector

(* The data: the disks hold what was stored, save for a write in progress. *)
Contents ==
  /\ dev # "writing" => data = stored
  /\ dev = "writing" =>
       stored = [data EXCEPT ![reg.disk][reg.sector] = dataReg]
  /\ dev = "readable" => dataReg = data[reg.disk][reg.sector]
  /\ \A t \in Thread :
       /\ (pc[t] \in {"down", "unlock"} /\ req[t].op = "write") =>
            stored[req[t].disk][req[t].sector] = req[t].value
       /\ (pc[t] = "unlock" /\ req[t].op = "read") =>
            buffer[t] = stored[req[t].disk][req[t].sector]

IInv ==
  /\ TypeOK /\ spurious <= MaxSpurious
  /\ Exclusion /\ Protocol /\ Selected /\ Contents
  /\ NoneSpurious => Completion

(* What a thread that is outside the driver holds as its request.          *)
LEMMA NoRequestType ==
  NoRequest \in Request
BY IdeDisks, IdeValues DEF NoRequest, Request

(* The state after ide_init() satisfies the invariant.                     *)
LEMMA InitInv ==
  Init => IInv
<1> SUFFICES ASSUME Init PROVE IInv
  OBVIOUS
<1>1. NoRequest.disk \in Disk /\ NoRequest.sector \in Sector
  BY NoRequestType DEF Request
<1>2. TypeOK
  BY <1>1, NoRequestType, IdeValues, IdeBounds DEF Init, TypeOK, Steps, Device
<1>3. spurious <= MaxSpurious
  BY IdeBounds DEF Init
<1>4. Exclusion /\ Protocol /\ Selected /\ Contents /\ Completion
  BY IdeThreads DEF Init, Exclusion, Protocol, Quiet, Completion, Selected, Contents, Steps
<1> QED
  BY <1>2, <1>3, <1>4 DEF IInv

(* Every step of the driver, of the handler and of the controller keeps    *)
(* the invariant.                                                          *)
LEMMA NextInv ==
  IInv /\ [Next]_vars => IInv'
<1> SUFFICES ASSUME IInv, [Next]_vars PROVE IInv'
  OBVIOUS
<1> USE IdeThreads DEF IInv, Step, channel, controller, threads, bounds
<1>1. ASSUME NEW t \in Thread, NEW r \in Request, Call(t, r) PROVE IInv'
  <2>1. TypeOK' /\ spurious' <= MaxSpurious
    BY <1>1 DEF Call, TypeOK, Steps, Device
  <2>2. Exclusion'
    BY <1>1 DEF Call, TypeOK, Exclusion, Steps
  <2>3. Protocol'
    BY <1>1 DEF Call, TypeOK, Exclusion, Protocol, Steps, Busy, DataRequest, Request
  <2>4. Selected'
    BY <1>1 DEF Call, TypeOK, Exclusion, Selected, Steps, Request
  <2>5. Contents'
    BY <1>1 DEF Call, TypeOK, Exclusion, Protocol, Selected, Contents, Steps, Request
  <2>6. NoneSpurious' => Completion'
    BY <1>1 DEF Call, NoneSpurious, TypeOK, Exclusion, Protocol, Completion, Quiet, Steps, Busy, Request
  <2> QED BY <2>1, <2>2, <2>3, <2>4, <2>5, <2>6
<1>2. ASSUME NEW t \in Thread, LockAcquire(t) PROVE IInv'
  <2>1. TypeOK' /\ spurious' <= MaxSpurious
    BY <1>2 DEF LockAcquire, TypeOK, Steps, Device
  <2>2. Exclusion'
    BY <1>2 DEF LockAcquire, TypeOK, Exclusion, Steps
  <2>3. Protocol'
    BY <1>2 DEF LockAcquire, TypeOK, Exclusion, Protocol, Steps, Busy, DataRequest, Request
  <2>4. Selected'
    BY <1>2 DEF LockAcquire, TypeOK, Exclusion, Selected, Steps, Request
  <2>5. Contents'
    BY <1>2 DEF LockAcquire, TypeOK, Exclusion, Protocol, Selected, Contents, Steps, Request
  <2>6. NoneSpurious' => Completion'
    BY <1>2 DEF LockAcquire, NoneSpurious, TypeOK, Exclusion, Protocol, Completion, Quiet, Steps, Busy, Request
  <2> QED BY <2>1, <2>2, <2>3, <2>4, <2>5, <2>6
<1>3. ASSUME NEW t \in Thread, WaitUntilIdle(t) PROVE IInv'
  <2>1. TypeOK' /\ spurious' <= MaxSpurious
    BY <1>3 DEF WaitUntilIdle, TypeOK, Steps, Device
  <2>2. Exclusion'
    BY <1>3 DEF WaitUntilIdle, TypeOK, Exclusion, Steps
  <2>3. Protocol'
    BY <1>3 DEF WaitUntilIdle, TypeOK, Exclusion, Protocol, Steps, Busy, DataRequest, Request
  <2>4. Selected'
    BY <1>3 DEF WaitUntilIdle, TypeOK, Exclusion, Selected, Steps, Request
  <2>5. Contents'
    BY <1>3 DEF WaitUntilIdle, TypeOK, Exclusion, Protocol, Selected, Contents, Steps, Request
  <2>6. NoneSpurious' => Completion'
    BY <1>3 DEF WaitUntilIdle, NoneSpurious, TypeOK, Exclusion, Protocol, Completion, Quiet, Steps, Busy, Request
  <2> QED BY <2>1, <2>2, <2>3, <2>4, <2>5, <2>6
<1>4. ASSUME NEW t \in Thread, SelectDevice(t) PROVE IInv'
  <2>1. TypeOK' /\ spurious' <= MaxSpurious
    BY <1>4 DEF SelectDevice, TypeOK, Steps, Device, Request
  <2>2. Exclusion'
    BY <1>4 DEF SelectDevice, TypeOK, Exclusion, Steps
  <2>3. Protocol'
    BY <1>4 DEF SelectDevice, TypeOK, Exclusion, Protocol, Steps, Busy, DataRequest, Request
  <2>4. Selected'
    BY <1>4 DEF SelectDevice, TypeOK, Exclusion, Selected, Steps, Request
  <2>5. Contents'
    BY <1>4 DEF SelectDevice, TypeOK, Exclusion, Protocol, Selected, Contents, Steps, Request
  <2>6. NoneSpurious' => Completion'
    BY <1>4 DEF SelectDevice, NoneSpurious, TypeOK, Exclusion, Protocol, Completion, Quiet, Steps, Busy, Request
  <2> QED BY <2>1, <2>2, <2>3, <2>4, <2>5, <2>6
<1>5. ASSUME NEW t \in Thread, SelectSector(t) PROVE IInv'
  <2>1. TypeOK' /\ spurious' <= MaxSpurious
    BY <1>5 DEF SelectSector, TypeOK, Steps, Device, Request
  <2>2. Exclusion'
    BY <1>5 DEF SelectSector, TypeOK, Exclusion, Steps
  <2>3. Protocol'
    BY <1>5 DEF SelectSector, TypeOK, Exclusion, Protocol, Steps, Busy, DataRequest, Request
  <2>4. Selected'
    BY <1>5 DEF SelectSector, TypeOK, Exclusion, Selected, Steps, Request
  <2>5. Contents'
    BY <1>5 DEF SelectSector, TypeOK, Exclusion, Protocol, Selected, Contents, Steps, Request
  <2>6. NoneSpurious' => Completion'
    BY <1>5 DEF SelectSector, NoneSpurious, TypeOK, Exclusion, Protocol, Completion, Quiet, Steps, Busy, Request
  <2> QED BY <2>1, <2>2, <2>3, <2>4, <2>5, <2>6
<1>6. ASSUME NEW t \in Thread, IssuePioCommand(t) PROVE IInv'
  <2>1. TypeOK' /\ spurious' <= MaxSpurious
    BY <1>6 DEF IssuePioCommand, TypeOK, Steps, Device
  <2>2. Exclusion'
    BY <1>6 DEF IssuePioCommand, TypeOK, Exclusion, Steps
  <2>3. Protocol'
    <3>1. CASE req[t].op = "read"
      BY <1>6, <3>1 DEF IssuePioCommand, TypeOK, Exclusion, Protocol, Steps
    <3>2. CASE req[t].op = "write"
      BY <1>6, <3>2 DEF IssuePioCommand, TypeOK, Exclusion, Protocol, Steps
    <3> QED
      BY <3>1, <3>2 DEF TypeOK, Request
  <2>4. Selected'
    BY <1>6 DEF IssuePioCommand, TypeOK, Exclusion, Selected, Steps, Request
  <2>5. Contents'
    BY <1>6 DEF IssuePioCommand, TypeOK, Exclusion, Protocol, Selected, Contents, Steps, Request
  <2>6. NoneSpurious' => Completion'
    <3>1. CASE req[t].op = "read"
      BY <1>6, <3>1 DEF IssuePioCommand, NoneSpurious, TypeOK, Exclusion, Completion, Quiet, Steps
    <3>2. CASE req[t].op = "write"
      BY <1>6, <3>2 DEF IssuePioCommand, NoneSpurious, TypeOK, Exclusion, Completion, Quiet, Steps
    <3> QED
      BY <3>1, <3>2 DEF TypeOK, Request
  <2> QED BY <2>1, <2>2, <2>3, <2>4, <2>5, <2>6
<1>7. ASSUME NEW t \in Thread, SemaDown(t) PROVE IInv'
  <2>1. TypeOK' /\ spurious' <= MaxSpurious
    BY <1>7 DEF SemaDown, TypeOK, Steps, Device
  <2>2. Exclusion'
    BY <1>7 DEF SemaDown, TypeOK, Exclusion, Steps
  <2>3. Protocol'
    BY <1>7 DEF SemaDown, TypeOK, Exclusion, Protocol, Steps, Busy, DataRequest, Request
  <2>4. Selected'
    BY <1>7 DEF SemaDown, TypeOK, Exclusion, Selected, Steps, Request
  <2>5. Contents'
    BY <1>7 DEF SemaDown, TypeOK, Exclusion, Protocol, Selected, Contents, Steps, Request
  <2>6. NoneSpurious' => Completion'
    BY <1>7 DEF SemaDown, NoneSpurious, TypeOK, Exclusion, Protocol, Completion, Quiet, Steps, Busy, Request
  <2> QED BY <2>1, <2>2, <2>3, <2>4, <2>5, <2>6
<1>8. ASSUME NEW t \in Thread, WaitWhileBusy(t) PROVE IInv'
  <2>1. TypeOK' /\ spurious' <= MaxSpurious
    BY <1>8 DEF WaitWhileBusy, TypeOK, Steps, Device
  <2>2. Exclusion'
    BY <1>8 DEF WaitWhileBusy, TypeOK, Exclusion, Steps
  <2>3. Protocol'
    BY <1>8 DEF WaitWhileBusy, TypeOK, Exclusion, Protocol, Steps, Busy, DataRequest, Request
  <2>4. Selected'
    BY <1>8 DEF WaitWhileBusy, TypeOK, Exclusion, Selected, Steps, Request
  <2>5. Contents'
    BY <1>8 DEF WaitWhileBusy, TypeOK, Exclusion, Protocol, Selected, Contents, Steps, Request
  <2>6. NoneSpurious' => Completion'
    BY <1>8 DEF WaitWhileBusy, NoneSpurious, TypeOK, Exclusion, Protocol, Completion, Quiet, Steps, Busy, Request
  <2> QED BY <2>1, <2>2, <2>3, <2>4, <2>5, <2>6
<1>9. ASSUME NEW t \in Thread, InputSector(t) PROVE IInv'
  <2>1. TypeOK' /\ spurious' <= MaxSpurious
    BY <1>9 DEF InputSector, TypeOK, Steps, Device
  <2>2. Exclusion'
    BY <1>9 DEF InputSector, TypeOK, Exclusion, Steps
  <2>3. Protocol'
    BY <1>9 DEF InputSector, TypeOK, Exclusion, Protocol, Steps, Busy, DataRequest, Request
  <2>4. Selected'
    BY <1>9 DEF InputSector, TypeOK, Exclusion, Selected, Steps, Request
  <2>5. Contents'
    BY <1>9 DEF InputSector, TypeOK, Exclusion, Protocol, Selected, Contents, Steps, Request
  <2>6. NoneSpurious' => Completion'
    BY <1>9 DEF InputSector, NoneSpurious, TypeOK, Exclusion, Protocol, Completion, Quiet, Steps, Busy, Request
  <2> QED BY <2>1, <2>2, <2>3, <2>4, <2>5, <2>6
<1>10. ASSUME NEW t \in Thread, OutputSector(t) PROVE IInv'
  <2>1. TypeOK' /\ spurious' <= MaxSpurious
    BY <1>10 DEF OutputSector, TypeOK, Steps, Device, Request
  <2>2. Exclusion'
    BY <1>10 DEF OutputSector, TypeOK, Exclusion, Steps
  <2>3. Protocol'
    BY <1>10 DEF OutputSector, TypeOK, Exclusion, Protocol, Steps, Busy, DataRequest, Request
  <2>4. Selected'
    BY <1>10 DEF OutputSector, TypeOK, Exclusion, Selected, Steps, Request
  <2>5. Contents'
    <3> DEFINE d == req[t].disk
               s == req[t].sector
    <3>1. d \in Disk /\ s \in Sector /\ req[t].value \in Value
      BY <1>10 DEF TypeOK, Request
    <3>2. /\ reg.disk = d /\ reg.sector = s /\ dev = "writable" /\ data = stored
          /\ lock = t
      BY <1>10 DEF OutputSector, TypeOK, Exclusion, Protocol, Selected, Contents, Steps
    <3>3. /\ dev' = "writing" /\ data' = data /\ reg' = reg /\ req' = req
          /\ dataReg' = req[t].value
          /\ stored' = [stored EXCEPT ![d][s] = req[t].value]
      BY <1>10 DEF OutputSector
    <3>4. stored' = [data EXCEPT ![reg.disk][reg.sector] = dataReg]'
      BY <3>2, <3>3
    <3>5. stored'[d][s] = req[t].value
      BY <3>1, <3>3 DEF TypeOK
    <3>6. \A u \in Thread : pc'[u] \in {"down", "unlock"} => u = t
      BY <1>10, <3>2 DEF OutputSector, TypeOK, Exclusion, Steps
    <3>7. pc'[t] = "down" /\ req'[t] = req[t]
      BY <1>10 DEF OutputSector, TypeOK
    <3> QED
      BY <3>3, <3>4, <3>5, <3>6, <3>7 DEF Contents
  <2>6. NoneSpurious' => Completion'
    BY <1>10 DEF OutputSector, NoneSpurious, TypeOK, Exclusion, Protocol, Completion, Quiet, Steps, Busy, Request
  <2> QED BY <2>1, <2>2, <2>3, <2>4, <2>5, <2>6
<1>11. ASSUME NEW t \in Thread, LockRelease(t) PROVE IInv'
  <2>1. TypeOK' /\ spurious' <= MaxSpurious
    BY <1>11, NoRequestType, IdeValues DEF LockRelease, TypeOK, Steps
  <2>2. Exclusion'
    BY <1>11 DEF LockRelease, TypeOK, Exclusion, Steps
  <2>3. Protocol'
    BY <1>11 DEF LockRelease, TypeOK, Exclusion, Protocol, Steps, Busy, DataRequest, Request
  <2>4. Selected'
    BY <1>11 DEF LockRelease, TypeOK, Exclusion, Selected, Steps, Request
  <2>5. Contents'
    BY <1>11 DEF LockRelease, TypeOK, Exclusion, Protocol, Selected, Contents, Steps, Request
  <2>6. NoneSpurious' => Completion'
    BY <1>11 DEF LockRelease, NoneSpurious, TypeOK, Exclusion, Protocol, Completion, Quiet, Steps, Busy, Request
  <2> QED BY <2>1, <2>2, <2>3, <2>4, <2>5, <2>6
<1>12. CASE InterruptHandler
  <2>1. TypeOK' /\ spurious' <= MaxSpurious
    <3>1. completion_wait' \in Nat
      BY <1>12 DEF InterruptHandler, TypeOK
    <3>2. irq' = FALSE
      BY <1>12 DEF InterruptHandler
    <3> QED
      BY <1>12, <3>1, <3>2 DEF InterruptHandler, TypeOK
  <2>2. Exclusion'
    BY <1>12 DEF InterruptHandler, TypeOK, Exclusion, Steps
  <2>3. Protocol'
    BY <1>12 DEF InterruptHandler, TypeOK, Exclusion, Protocol, Steps, Busy, DataRequest, Request
  <2>4. Selected'
    BY <1>12 DEF InterruptHandler, TypeOK, Exclusion, Selected, Steps, Request
  <2>5. Contents'
    BY <1>12 DEF InterruptHandler, TypeOK, Exclusion, Protocol, Selected, Contents, Steps, Request
  <2>6. NoneSpurious' => Completion'
    BY <1>12 DEF InterruptHandler, NoneSpurious, TypeOK, Exclusion, Protocol, Completion, Quiet, Steps, Busy, Request
  <2> QED BY <2>1, <2>2, <2>3, <2>4, <2>5, <2>6
<1>13. CASE PrepareWrite
  <2>1. TypeOK' /\ spurious' <= MaxSpurious
    BY <1>13 DEF PrepareWrite, TypeOK, Steps, Device
  <2>2. Exclusion'
    BY <1>13 DEF PrepareWrite, TypeOK, Exclusion, Steps
  <2>3. Protocol'
    BY <1>13 DEF PrepareWrite, TypeOK, Exclusion, Protocol, Steps, Busy, DataRequest, Request
  <2>4. Selected'
    BY <1>13 DEF PrepareWrite, TypeOK, Exclusion, Selected, Steps, Request
  <2>5. Contents'
    BY <1>13 DEF PrepareWrite, TypeOK, Exclusion, Protocol, Selected, Contents, Steps, Request
  <2>6. NoneSpurious' => Completion'
    BY <1>13 DEF PrepareWrite, NoneSpurious, TypeOK, Exclusion, Protocol, Completion, Quiet, Steps, Busy, Request
  <2> QED BY <2>1, <2>2, <2>3, <2>4, <2>5, <2>6
<1>14. CASE CompleteRead
  <2>1. TypeOK' /\ spurious' <= MaxSpurious
    BY <1>14 DEF CompleteRead, TypeOK, Steps, Device
  <2>2. Exclusion'
    BY <1>14 DEF CompleteRead, TypeOK, Exclusion, Steps
  <2>3. Protocol'
    BY <1>14 DEF CompleteRead, TypeOK, Exclusion, Protocol, Steps, Busy, DataRequest, Request
  <2>4. Selected'
    BY <1>14 DEF CompleteRead, TypeOK, Exclusion, Selected, Steps, Request
  <2>5. Contents'
    BY <1>14 DEF CompleteRead, TypeOK, Exclusion, Protocol, Selected, Contents, Steps, Request
  <2>6. NoneSpurious' => Completion'
    BY <1>14 DEF CompleteRead, NoneSpurious, TypeOK, Exclusion, Protocol, Completion, Quiet, Steps, Busy, Request
  <2> QED BY <2>1, <2>2, <2>3, <2>4, <2>5, <2>6
<1>15. CASE CompleteWrite
  <2>1. TypeOK' /\ spurious' <= MaxSpurious
    BY <1>15 DEF CompleteWrite, TypeOK, Steps, Device
  <2>2. Exclusion'
    BY <1>15 DEF CompleteWrite, TypeOK, Exclusion, Steps
  <2>3. Protocol'
    BY <1>15 DEF CompleteWrite, TypeOK, Exclusion, Protocol, Steps, Busy, DataRequest, Request
  <2>4. Selected'
    BY <1>15 DEF CompleteWrite, TypeOK, Exclusion, Selected, Steps, Request
  <2>5. Contents'
    BY <1>15 DEF CompleteWrite, TypeOK, Exclusion, Protocol, Selected, Contents, Steps, Request
  <2>6. NoneSpurious' => Completion'
    BY <1>15 DEF CompleteWrite, NoneSpurious, TypeOK, Exclusion, Protocol, Completion, Quiet, Steps, Busy, Request
  <2> QED BY <2>1, <2>2, <2>3, <2>4, <2>5, <2>6
<1>16. CASE Spurious
  <2>1. TypeOK' /\ spurious' <= MaxSpurious
    <3>1. spurious' \in Nat /\ spurious' <= MaxSpurious
      BY <1>16, IdeBounds DEF Spurious, TypeOK
    <3>2. irq' = TRUE
      BY <1>16 DEF Spurious
    <3> QED
      BY <1>16, <3>1, <3>2 DEF Spurious, TypeOK
  <2>2. Exclusion'
    BY <1>16 DEF Spurious, TypeOK, Exclusion, Steps
  <2>3. Protocol'
    BY <1>16 DEF Spurious, TypeOK, Exclusion, Protocol, Steps, Busy, DataRequest, Request
  <2>4. Selected'
    BY <1>16 DEF Spurious, TypeOK, Exclusion, Selected, Steps, Request
  <2>5. Contents'
    BY <1>16 DEF Spurious, TypeOK, Exclusion, Protocol, Selected, Contents, Steps, Request
  <2>6. ~NoneSpurious'
    BY <1>16, IdeBounds DEF Spurious, NoneSpurious, TypeOK
  <2> QED BY <2>1, <2>2, <2>3, <2>4, <2>5, <2>6
<1>17. CASE UNCHANGED vars
  BY <1>17 DEF vars, TypeOK, Exclusion, Protocol, Selected, Contents, NoneSpurious, Completion, Quiet
<1> QED
  BY <1>1, <1>2, <1>3, <1>4, <1>5, <1>6, <1>7, <1>8, <1>9, <1>10, <1>11, <1>12, <1>13, <1>14, <1>15, <1>16, <1>17 DEF Next, ThreadStep

-----------------------------------------------------------------------------
(* The driver's invariant holds in every state.                            *)
THEOREM DriverInvariant ==
  Spec => []IInv
<1>1. Init => IInv
  BY InitInv
<1>2. IInv /\ [Next]_vars => IInv'
  BY NextInv
<1> QED
  BY <1>1, <1>2, PTL DEF Spec

(* Type correctness of the driver and of the controller's state.           *)
THEOREM TypeCorrect ==
  Spec => []TypeOK
<1>1. IInv => TypeOK
  BY DEF IInv
<1> QED
  BY <1>1, DriverInvariant, PTL

(* ide_read() returns what was last written to the sector of the disk it   *)
(* was asked for, whatever interrupts arrive.                              *)
THEOREM ReadCorrect ==
  Spec => []ReadsRight
<1>1. IInv => ReadsRight
  BY DEF IInv, Contents, ReadsRight
<1> QED
  BY <1>1, DriverInvariant, PTL

(* The driver never panics over a disk that behaves, whatever interrupts   *)
(* arrive.                                                                 *)
THEOREM PanicFree ==
  Spec => []NoPanic
<1>1. IInv => NoPanic
  BY DEF IInv, Protocol, NoPanic
<1> QED
  BY <1>1, DriverInvariant, PTL

(* ide_write() returns after the disk has the data, as long as no          *)
(* interrupt was spurious.                                                 *)
THEOREM WriteCorrect ==
  Spec => []WriteSafe
<1>1. IInv => WriteSafe
  BY DEF IInv, Completion, Quiet, Contents, WriteAcknowledged, WriteSafe
<1> QED
  BY <1>1, DriverInvariant, PTL

(* Every command of ide_read() and ide_write() has exactly one completion, *)
(* in the disk, pending or in completion_wait, and nothing else has one,   *)
(* as long as no interrupt was spurious.                                   *)
THEOREM CompletionCorrect ==
  Spec => []CompletionExact
<1>1. IInv => CompletionExact
  <2> SUFFICES ASSUME IInv, NoneSpurious PROVE CompletionExact
    BY DEF CompletionExact
  <2> USE DEF IInv
  <2>1. CASE Awaiting
    BY <2>1 DEF Awaiting, Completion, CompletionExact
  <2>2. CASE ~Awaiting /\ lock = Nobody
    BY <2>2 DEF Completion, Quiet, CompletionExact
  <2>3. CASE ~Awaiting /\ lock \in Thread
    <3>1. pc[lock] \in Steps \ {"out", "lock", "down", "panic"}
      BY <2>3 DEF Exclusion, Protocol, Awaiting
    <3> QED
      BY <2>3, <3>1 DEF Completion, Quiet, CompletionExact, Steps
  <2> QED
    BY <2>1, <2>2, <2>3 DEF TypeOK
<1> QED
  BY <1>1, DriverInvariant, PTL

-----------------------------------------------------------------------------
(* Byte access to files: SectorIO.                                         *)
Disks == [DevSector -> [InSector -> Byte]]

(* What a call in progress consists of.                                    *)
TransferCalls ==
  [call : {"read", "write"}, size : Nat, offset : Nat, advance : BOOLEAN, done : Nat,
   bounce : BOOLEAN, failed : BOOLEAN, buffer : Seq(Byte), total : 0..MaxSize,
   start : Nat, before : Disks]

SioTypes ==
  /\ disk \in Disks
  /\ pos \in Nat /\ deny \in BOOLEAN
  /\ op # Idle => op \in TransferCalls

(* The loop's variables, between its iterations.                           *)
LoopCounts ==
  op # Idle =>
    /\ op.size + op.done = op.total
    /\ op.offset = op.start + op.done
    /\ op.done > 0 => op.offset <= Length
    /\ op.call = "write" => op.buffer = Buffer(op.total)
    /\ op.call = "write" /\ deny => op.done = 0
    /\ op.failed => op.size > 0 /\ Chunks > 0

SioInv == SioTypes /\ LoopCounts /\ TransferExact

-----------------------------------------------------------------------------
(* Division with a remainder, and products.                                *)
LEMMA DivMod ==
  ASSUME NEW x \in Nat, NEW b \in Nat \ {0}
  PROVE  /\ x \div b \in Nat /\ x % b \in 0..(b - 1) /\ x = (b * (x \div b)) + (x % b)
OBVIOUS

LEMMA MulGrows ==
  ASSUME NEW q \in Nat, NEW n \in Nat, NEW b \in Nat, q >= n
  PROVE  b * q >= b * n /\ b * n = n * b
OBVIOUS

LEMMA MulStep ==
  ASSUME NEW q \in Nat, NEW n \in Nat, NEW b \in Nat
  PROVE  /\ b * q \in Nat /\ b * (q + 1) = (b * q) + b
         /\ b * (n + q) = (n * b) + (b * q)
OBVIOUS

(* A quotient and a remainder are the only ones.                           *)
LEMMA DivUnique ==
  ASSUME NEW b \in Nat \ {0}, NEW q \in Nat, NEW r \in 0..(b - 1),
         NEW p \in Nat, NEW s \in 0..(b - 1), (b * q) + r = (b * p) + s
  PROVE  q = p /\ r = s
<1>1. /\ b * q \in Nat /\ b * (q + 1) = (b * q) + b /\ b * p \in Nat
      /\ b * (p + 1) = (b * p) + b
  BY MulStep
<1>2. ASSUME q > p PROVE FALSE
  <2>1. b * q >= b * (p + 1)
    BY <1>2, MulGrows
  <2> QED BY <1>1, <2>1
<1>3. ASSUME p > q PROVE FALSE
  <2>1. b * p >= b * (q + 1)
    BY <1>3, MulGrows
  <2> QED BY <1>1, <2>1
<1>4. q = p
  BY <1>2, <1>3
<1> QED BY <1>1, <1>4

(* The sector of an address of the device, and the place in it.            *)
LEMMA Addresses ==
  ASSUME SIOSizes, NEW a \in 0..(NSectors * SectorSize - 1)
  PROVE  /\ a \in Nat /\ a \div SectorSize \in DevSector /\ a % SectorSize \in InSector
         /\ a = (SectorSize * (a \div SectorSize)) + (a % SectorSize)
<1> DEFINE q == a \div SectorSize
           r == a % SectorSize
<1>1. a \in Nat /\ NSectors * SectorSize \in Nat /\ a < NSectors * SectorSize
  BY DEF SIOSizes
<1>2. q \in Nat /\ r \in 0..(SectorSize - 1) /\ a = (SectorSize * q) + r
  BY <1>1, DivMod DEF SIOSizes
<1> HIDE DEF q, r
<1>3. ASSUME q >= NSectors PROVE FALSE
  <2>1. SectorSize * q >= SectorSize * NSectors /\ SectorSize * NSectors = NSectors * SectorSize
    BY <1>2, <1>3, MulGrows DEF SIOSizes
  <2>2. SectorSize * q \in Nat
    BY <1>2, MulStep DEF SIOSizes
  <2> QED BY <1>1, <1>2, <2>1, <2>2
<1>4. q \in 0..(NSectors - 1)
  BY <1>2, <1>3 DEF SIOSizes
<1> QED BY <1>1, <1>2, <1>4 DEF q, r, DevSector, InSector

(* A chunk lies in one sector of the file: the one of its first byte.      *)
LEMMA ChunkPlace ==
  ASSUME SIOSizes, SIOFile, NEW size \in Nat, NEW offset \in Nat, Chunk(size, offset) > 0
  PROVE  LET c == Chunk(size, offset)
             s == ByteToSector(offset)
             o == offset % SectorSize
         IN  /\ c \in Nat /\ c <= size /\ offset + c <= Length
             /\ o \in InSector /\ o + c <= SectorSize
             /\ s \in DevSector /\ Base \in Nat
             /\ Base + offset = (SectorSize * s) + o
             /\ Base + offset + c <= NSectors * SectorSize
<1> DEFINE c == Chunk(size, offset)
           s == ByteToSector(offset)
           o == offset % SectorSize
           q == offset \div SectorSize
<1>1. q \in Nat /\ o \in 0..(SectorSize - 1) /\ offset = (SectorSize * q) + o
  BY DivMod DEF SIOSizes
<1>2. s = Start + q
  BY DEF ByteToSector
<1>3. c \in Nat /\ c > 0 /\ c <= size /\ offset + c <= Length /\ o + c <= SectorSize
  <2> HIDE DEF o
  <2>1. Chunk(size, offset) = Lesser(size, Lesser(Length - offset, SectorSize - o))
    BY DEF Chunk, o
  <2> QED BY <1>1, <2>1 DEF Lesser, SIOSizes, SIOFile
<1>4. Base \in Nat /\ Base = Start * SectorSize
      /\ Base + Length <= NSectors * SectorSize /\ NSectors * SectorSize \in Nat
  BY DEF Base, SIOSizes, SIOFile
<1>5. SectorSize * (Start + q) = Base + (SectorSize * q) /\ SectorSize * q \in Nat
  BY <1>1, <1>4, MulStep DEF SIOSizes, SIOFile
<1>6. Base + offset = (SectorSize * s) + o
  BY <1>1, <1>2, <1>4, <1>5
<1>7. Base + offset + c <= NSectors * SectorSize
  <2> HIDE DEF c
  <2> QED BY <1>3, <1>4 DEF SIOFile
<1>8. s \in DevSector
  <2> DEFINE a == Base + offset
             p == a \div SectorSize
             r == a % SectorSize
  <2>1. a \in 0..(NSectors * SectorSize - 1)
    <3> HIDE DEF c
    <3> QED BY <1>3, <1>4, <1>7
  <2>2. p \in DevSector /\ r \in InSector /\ a = (SectorSize * p) + r
    <3> HIDE DEF a
    <3> QED BY <2>1, Addresses
  <2>3. s \in Nat /\ a = (SectorSize * s) + o
    BY <1>1, <1>2, <1>6 DEF SIOFile
  <2> HIDE DEF a, p, r, s, o, c, q
  <2>4. p \in Nat /\ r \in 0..(SectorSize - 1)
    BY <2>2 DEF DevSector, InSector, SIOSizes
  <2>5. p = s
    BY <1>1, <2>2, <2>3, <2>4, DivUnique DEF SIOSizes
  <2> QED BY <2>2, <2>5
<1>9. o \in InSector
  BY <1>1 DEF InSector
<1> QED BY <1>3, <1>4, <1>6, <1>7, <1>8, <1>9

(* The addresses of a chunk are the places of its sector it covers.        *)
LEMMA InChunk ==
  ASSUME SIOSizes, NEW a \in 0..(NSectors * SectorSize - 1), NEW s \in DevSector,
         NEW o \in InSector, NEW c \in Nat, o + c <= SectorSize
  PROVE  LET first == (SectorSize * s) + o
         IN  /\ first \in Nat
             /\ a - first \in 0..(c - 1)
                  <=> a \div SectorSize = s /\ a % SectorSize \in o..(o + c - 1)
             /\ a \div SectorSize = s => a - first = (a % SectorSize) - o
<1> DEFINE q == a \div SectorSize
           r == a % SectorSize
<1>1. a \in Nat /\ q \in Nat /\ r \in 0..(SectorSize - 1) /\ a = (SectorSize * q) + r
      /\ s \in Nat /\ o \in 0..(SectorSize - 1) /\ SectorSize * s \in Nat
  <2>1. a \in Nat /\ q \in DevSector /\ r \in InSector /\ a = (SectorSize * q) + r
    BY Addresses
  <2>2. s \in Nat
    BY DEF DevSector, SIOSizes
  <2>3. SectorSize * s \in Nat
    BY <2>2, MulStep DEF SIOSizes
  <2> QED BY <2>1, <2>2, <2>3 DEF DevSector, InSector, SIOSizes
<1> HIDE DEF q, r
<1>2. q = s => a - ((SectorSize * s) + o) = r - o
  BY <1>1
<1>3. ASSUME a - ((SectorSize * s) + o) \in 0..(c - 1) PROVE q = s
  <2> DEFINE k == a - (SectorSize * s)
  <2>1. k \in 0..(SectorSize - 1) /\ a = (SectorSize * s) + k
    BY <1>1, <1>3 DEF SIOSizes
  <2> HIDE DEF k
  <2> QED BY <1>1, <2>1, DivUnique DEF SIOSizes
<1>4. a - ((SectorSize * s) + o) \in 0..(c - 1) <=> q = s /\ r \in o..(o + c - 1)
  BY <1>1, <1>2, <1>3
<1> QED BY <1>1, <1>2, <1>4 DEF q, r

(* Two pieces of a sequence, put together.                                 *)
LEMMA Joined ==
  ASSUME NEW S, NEW x \in Seq(S), NEW y \in Seq(S), NEW f \in Seq(S),
         Len(f) = Len(x) + Len(y), \A k \in 1..Len(x) : x[k] = f[k],
         \A k \in 1..Len(y) : y[k] = f[Len(x) + k]
  PROVE  x \o y = f
<1> DEFINE z == x \o y
<1>1. z \in Seq(S) /\ Len(z) = Len(f)
  OBVIOUS
<1>2. \A k \in 1..Len(f) : z[k] = f[k]
  <2> TAKE k \in 1..Len(f)
  <2>1. Len(x) \in Nat /\ Len(y) \in Nat
    OBVIOUS
  <2>2. CASE k <= Len(x)
    BY <2>1, <2>2
  <2>3. CASE k > Len(x)
    <3>1. k - Len(x) \in 1..Len(y) /\ z[k] = y[k - Len(x)] /\ Len(x) + (k - Len(x)) = k
      BY <2>1, <2>3
    <3> QED BY <3>1
  <2> QED BY <2>1, <2>2, <2>3
<1> HIDE DEF z
<1>3. z = f
  BY <1>1, <1>2
<1> QED BY <1>3 DEF z

LEMMA BufferIs ==
  ASSUME NEW n \in 0..MaxSize, SIOSizes
  PROVE  /\ Buffer(n) \in Seq(Byte) /\ Len(Buffer(n)) = n
         /\ \A i \in 1..n : Buffer(n)[i] \in Byte
<1>1. Buffer(n) \in [1..n -> Byte] /\ n \in Nat
  BY DEF Buffer, Byte, SIOSizes
<1> QED BY <1>1

(* The byte at an address of the device is a byte.                         *)
LEMMA ByteThere ==
  ASSUME SIOSizes, NEW d \in Disks, NEW a \in 0..(NSectors * SectorSize - 1)
  PROVE  ByteAt(d, a) \in Byte
BY Addresses DEF ByteAt, Disks

-----------------------------------------------------------------------------
LEMMA SioInitInv ==
  ASSUME SIOSizes, SioInit
  PROVE  SioInv
<1>1. disk \in Disks
  BY DEF SioInit, Disks, Byte, SIOSizes
<1>2. op = Idle /\ op.call = "none"
  BY DEF SioInit, Idle
<1> QED
  BY <1>1, <1>2 DEF SioInit, SioInv, SioTypes, LoopCounts, TransferExact, WriteExact, ReadExact

(* A call starts with nothing moved.                                       *)
LEMMA CallInv ==
  ASSUME SIOSizes, SIOFile, SioInv, NEW call \in {"read", "write"}, NEW size \in 0..MaxSize,
         NEW offset \in Nat, NEW advance \in BOOLEAN, FileCall(call, size, offset, advance)
  PROVE  SioInv'
<1>1. /\ op' = [call |-> call, size |-> size, offset |-> offset, advance |-> advance,
                done |-> 0, bounce |-> FALSE, failed |-> FALSE,
                buffer |-> IF call = "read" THEN <<>> ELSE Buffer(size),
                total |-> size, start |-> offset, before |-> disk]
      /\ disk' = disk /\ pos' = pos /\ deny' = deny
  BY DEF FileCall
<1>2. disk \in Disks /\ pos \in Nat /\ deny \in BOOLEAN /\ size \in Nat
  BY DEF SioInv, SioTypes, SIOSizes
<1>3. (IF call = "read" THEN <<>> ELSE Buffer(size)) \in Seq(Byte)
  BY BufferIs
<1>4. op' \in TransferCalls
  BY <1>1, <1>2, <1>3 DEF TransferCalls
<1>5. SioTypes'
  BY <1>1, <1>2, <1>4 DEF SioTypes
<1>6. LoopCounts'
  BY <1>1, <1>2 DEF LoopCounts
<1>7. WriteExact'
  <2> SUFFICES ASSUME NEW a \in 0..(NSectors * SectorSize - 1)
               PROVE  ByteAt(disk, a) =
                        IF a - Base - offset \in 0..(0 - 1)
                          THEN (op'.buffer)[(a - Base - offset) + 1] ELSE ByteAt(disk, a)
    BY <1>1 DEF WriteExact, ByteAt, Base
  <2> QED OBVIOUS
<1>8. ReadExact'
  <2>1. <<>> = [i \in 1..0 |-> ByteAt(disk, Base + offset + i - 1)]
    OBVIOUS
  <2> QED BY <1>1, <2>1 DEF ReadExact, ByteAt, Base
<1> QED BY <1>5, <1>6, <1>7, <1>8 DEF SioInv, TransferExact

(* What an iteration finds.                                                *)
LEMMA LoopFacts ==
  ASSUME SIOSizes, SIOFile, SioInv, InLoop
  PROVE  LET c == Chunks
             s == ByteToSector(op.offset)
             o == op.offset % SectorSize
         IN  /\ op \in TransferCalls /\ op # Idle
             /\ c \in Nat /\ c > 0 /\ c <= op.size /\ op.offset + c <= Length
             /\ o \in InSector /\ o + c <= SectorSize
             /\ s \in DevSector /\ Base \in Nat
             /\ Base + op.offset = (SectorSize * s) + o
             /\ Base + op.offset + c <= NSectors * SectorSize
             /\ op.size + op.done = op.total /\ op.offset = op.start + op.done
<1>1. op # Idle /\ op \in TransferCalls /\ Chunks > 0
  BY DEF InLoop, SioInv, SioTypes
<1>2. op.size \in Nat /\ op.offset \in Nat
  BY <1>1 DEF TransferCalls
<1>3. op.size + op.done = op.total /\ op.offset = op.start + op.done
  BY <1>1 DEF SioInv, LoopCounts
<1> QED
  BY <1>1, <1>2, <1>3, ChunkPlace DEF Chunks

(* An iteration counts the bytes it moves.                                 *)
LEMMA AdvanceInv ==
  ASSUME SIOSizes, SIOFile, SioInv, InLoop, NEW b \in Seq(Byte),
         op' = [Advance EXCEPT !.buffer = b], disk' \in Disks, UNCHANGED <<pos, deny>>,
         op.call = "write" => b = op.buffer
  PROVE  /\ SioTypes' /\ LoopCounts'
         /\ op' # Idle /\ op'.call = op.call /\ op'.done = op.done + Chunks
         /\ op'.start = op.start /\ op'.before = op.before /\ op'.buffer = b
<1> DEFINE c == Chunks
<1>1. op \in TransferCalls /\ op # Idle
      /\ c \in Nat /\ c > 0 /\ c <= op.size /\ op.offset + c <= Length
      /\ op.size + op.done = op.total /\ op.offset = op.start + op.done
  BY LoopFacts
<1>2. /\ Advance = [op EXCEPT !.size = @ - c, !.offset = @ + c, !.done = @ + c,
                              !.bounce = @ \/ ~Whole(op.size, op.offset)]
  BY DEF Advance
<1>3. (op.bounce \/ ~Whole(op.size, op.offset)) \in BOOLEAN
  OBVIOUS
<1> HIDE DEF c
<1>4. /\ op'.call = op.call /\ op'.size = op.size - c /\ op'.offset = op.offset + c
      /\ op'.advance = op.advance /\ op'.done = op.done + c /\ op'.failed = op.failed
      /\ op'.buffer = b /\ op'.total = op.total /\ op'.start = op.start
      /\ op'.before = op.before
      /\ op' \in TransferCalls
  <2> DEFINE size == op.size
             offset == op.offset
             done == op.done
  <2>0. /\ op.call \in {"read", "write"} /\ size \in Nat /\ offset \in Nat
        /\ op.advance \in BOOLEAN /\ done \in Nat /\ op.failed \in BOOLEAN
        /\ op.total \in 0..MaxSize /\ op.start \in Nat /\ op.before \in Disks
    BY <1>1 DEF TransferCalls
  <2> DEFINE more == op.bounce \/ ~Whole(op.size, op.offset)
  <2>1. more \in BOOLEAN
    BY <1>3
  <2> HIDE DEF more
  <2>2. op' = [op EXCEPT !.size = op.size - c, !.offset = op.offset + c, !.done = op.done + c,
                         !.bounce = more, !.buffer = b]
    BY <1>1, <1>2 DEF TransferCalls, more
  <2>3. size - c \in Nat /\ offset + c \in Nat /\ done + c \in Nat
    <3>1. c \in Nat /\ c <= size
      BY <1>1
    <3> HIDE DEF size, offset, done
    <3> QED BY <2>0, <3>1
  <2>4. /\ op'.call = op.call /\ op'.size = op.size - c /\ op'.offset = op.offset + c
        /\ op'.advance = op.advance /\ op'.done = op.done + c /\ op'.failed = op.failed
        /\ op'.buffer = b /\ op'.total = op.total /\ op'.start = op.start
        /\ op'.before = op.before
    BY <1>1, <2>2 DEF TransferCalls
  <2>5. op' = [call |-> op.call, size |-> size - c, offset |-> offset + c, advance |-> op.advance,
               done |-> done + c, bounce |-> more, failed |-> op.failed, buffer |-> b,
               total |-> op.total, start |-> op.start, before |-> op.before]
    BY <1>1, <2>2 DEF TransferCalls
  <2>6. op' \in TransferCalls
    <3> DEFINE z == size - c
               u == offset + c
               d == done + c
    <3>1. z \in Nat /\ u \in Nat /\ d \in Nat
      BY <2>3
    <3>2. op' = [call |-> op.call, size |-> z, offset |-> u, advance |-> op.advance,
                 done |-> d, bounce |-> more, failed |-> op.failed, buffer |-> b,
                 total |-> op.total, start |-> op.start, before |-> op.before]
      BY <2>5
    <3> HIDE DEF size, offset, done, z, u, d
    <3>3. [call |-> op.call, size |-> z, offset |-> u, advance |-> op.advance,
           done |-> d, bounce |-> more, failed |-> op.failed, buffer |-> b,
           total |-> op.total, start |-> op.start, before |-> op.before] \in TransferCalls
      BY <2>0, <2>1, <3>1 DEF TransferCalls
    <3> QED BY <3>2, <3>3
  <2> QED BY <2>4, <2>6
<1>5. op' # Idle
  BY <1>4 DEF TransferCalls, Idle
<1>6. SioTypes'
  BY <1>4 DEF SioTypes, SioInv
<1>7. ~op.failed /\ (op.call = "write" => ~deny)
  BY DEF InLoop
<1>8. LoopCounts'
  <2>1. op.call = "write" => op.buffer = Buffer(op.total)
    BY <1>1 DEF SioInv, LoopCounts
  <2>2. op.size \in Nat /\ op.done \in Nat /\ op.offset \in Nat /\ op.start \in Nat
        /\ op.total \in Nat
    BY <1>1 DEF TransferCalls, SIOSizes
  <2>3. op'.size + op'.done = op'.total /\ op'.offset = op'.start + op'.done
        /\ op'.offset <= Length
    <3> DEFINE z == op.size
               u == op.offset
               d == op.done
               f == op.start
               t == op.total
    <3>1. /\ z \in Nat /\ u \in Nat /\ d \in Nat /\ f \in Nat /\ t \in Nat /\ c \in Nat
          /\ c <= z /\ u + c <= Length /\ z + d = t /\ u = f + d
      BY <1>1, <2>2
    <3>2. /\ op'.size = z - c /\ op'.done = d + c /\ op'.total = t /\ op'.offset = u + c
          /\ op'.start = f
      BY <1>4
    <3> HIDE DEF z, u, d, f, t
    <3> QED BY <3>1, <3>2
  <2>4. op'.call = "write" => op'.buffer = Buffer(op'.total)
    BY <1>4, <2>1
  <2>5. ~op'.failed /\ ~(op'.call = "write" /\ deny')
    BY <1>4, <1>7
  <2> QED BY <2>3, <2>4, <2>5 DEF LoopCounts
<1> QED BY <1>4, <1>5, <1>6, <1>8 DEF c

LEMMA ReadInv ==
  ASSUME SIOSizes, SIOFile, SioInv, ReadChunk
  PROVE  SioInv'
<1> DEFINE c == Chunks
           s == ByteToSector(op.offset)
           o == op.offset % SectorSize
           piece == [i \in 1..c |-> disk[s][o + i - 1]]
           all == [i \in 1..(op.done + c) |-> ByteAt(disk, Base + op.start + i - 1)]
<1>1. /\ InLoop /\ op.call = "read" /\ op' = [Advance EXCEPT !.buffer = @ \o piece]
      /\ disk' = disk /\ UNCHANGED <<pos, deny>>
  BY DEF ReadChunk
<1>2. /\ op \in TransferCalls /\ op # Idle
      /\ c \in Nat /\ c > 0 /\ c <= op.size /\ op.offset + c <= Length
      /\ o \in InSector /\ o + c <= SectorSize
      /\ s \in DevSector /\ Base \in Nat
      /\ Base + op.offset = (SectorSize * s) + o
      /\ Base + op.offset + c <= NSectors * SectorSize
      /\ op.size + op.done = op.total /\ op.offset = op.start + op.done
  BY <1>1, LoopFacts
<1>3. /\ disk = op.before /\ disk \in Disks
      /\ op.buffer = [i \in 1..op.done |-> ByteAt(disk, Base + op.start + i - 1)]
  BY <1>1, <1>2 DEF SioInv, SioTypes, TransferExact, ReadExact
<1>4. op.done \in Nat /\ op.start \in Nat /\ op.buffer \in Seq(Byte)
      /\ o \in Nat /\ SectorSize \in Nat \ {0} /\ InSector = 0..(SectorSize - 1)
  BY <1>2 DEF TransferCalls, InSector, SIOSizes
<1>5. \A k \in 1..(op.done + c) :
        Base + op.start + k - 1 \in 0..(NSectors * SectorSize - 1)
  <2> DEFINE d == op.done
             f == op.start
             m == NSectors * SectorSize
  <2>1. d \in Nat /\ f \in Nat /\ Base \in Nat /\ c \in Nat /\ m \in Nat
        /\ Base + (f + d) + c <= m
    BY <1>2, <1>4 DEF SIOSizes
  <2> HIDE DEF d, f, m, c
  <2>2. \A k \in 1..(d + c) : Base + f + k - 1 \in 0..(m - 1)
    BY <2>1
  <2> QED BY <2>2 DEF d, f, m
<1>6. all \in [1..(op.done + c) -> Byte]
  BY <1>3, <1>5, ByteThere
<1>7. \A k \in 1..c : piece[k] = all[op.done + k]
  <2> TAKE k \in 1..c
  <2> DEFINE a == Base + op.start + (op.done + k) - 1
  <2>1. op.done + k \in 1..(op.done + c) /\ a \in 0..(NSectors * SectorSize - 1)
    <3> DEFINE d == op.done
    <3>1. d \in Nat /\ c \in Nat
      BY <1>2, <1>4
    <3> HIDE DEF d, c
    <3>2. d + k \in 1..(d + c)
      BY <3>1
    <3> QED BY <1>5, <3>2 DEF d
  <2>2. all[op.done + k] = disk[a \div SectorSize][a % SectorSize]
    BY <2>1 DEF ByteAt
  <2>3. a - ((SectorSize * s) + o) = k - 1
    <3> DEFINE d == op.done
               f == op.start
               x == (SectorSize * s) + o
    <3>1. d \in Nat /\ f \in Nat /\ Base \in Nat /\ Base + (f + d) = x /\ a = Base + f + (d + k) - 1
          /\ k \in Nat
      BY <1>2, <1>4
    <3> HIDE DEF a, d, f, x
    <3>2. a - x = k - 1
      BY <3>1
    <3> QED BY <3>2 DEF x
  <2> HIDE DEF a, c, s, o
  <2>4. a - ((SectorSize * s) + o) \in 0..(c - 1)
    BY <1>2, <2>3
  <2>5. /\ a \div SectorSize = s
        /\ a - ((SectorSize * s) + o) = (a % SectorSize) - o
    BY <1>2, <2>1, <2>4, InChunk
  <2>6. a % SectorSize = o + k - 1
    <3>1. a % SectorSize \in InSector
      BY <2>1, Addresses
    <3> QED BY <1>4, <2>3, <2>5, <3>1
  <2>7. piece[k] = disk[s][o + k - 1]
    OBVIOUS
  <2> QED BY <2>2, <2>5, <2>6, <2>7
<1>8. piece \in [1..c -> Byte]
  <2> HIDE DEF c, s, o
  <2>1. \A i \in 1..c : o + i - 1 \in InSector
    BY <1>2, <1>4
  <2> QED BY <1>2, <1>3, <2>1 DEF Disks
<1>9. /\ op.buffer \o piece = all /\ op.buffer \o piece \in Seq(Byte)
      /\ Len(op.buffer \o piece) = op.done + c
  <2> HIDE DEF c, s, o
  <2>1. \A k \in 1..op.done : k \in 1..(op.done + c)
    <3> DEFINE d == op.done
    <3>1. d \in Nat /\ c \in Nat
      BY <1>2, <1>4
    <3> HIDE DEF d
    <3>2. \A k \in 1..d : k \in 1..(d + c)
      BY <3>1
    <3> QED BY <3>2 DEF d
  <2>2. /\ DOMAIN op.buffer = 1..op.done
        /\ \A k \in 1..op.done : op.buffer[k] = ByteAt(disk, Base + op.start + k - 1)
    BY <1>3
  <2>3. \A k \in 1..op.done : op.buffer[k] = all[k]
    BY <2>1, <2>2
  <2>4. Len(op.buffer) = op.done
    BY <1>4, <2>2
  <2>5. piece \in Seq(Byte) /\ Len(piece) = c
    BY <1>2, <1>8
  <2> DEFINE d == op.done
             x == op.buffer
  <2>6. d \in Nat /\ c \in Nat /\ x \in Seq(Byte) /\ Len(x) = d
        /\ \A k \in 1..d : x[k] = all[k]
    BY <1>2, <1>4, <2>3, <2>4
  <2>7. all \in Seq(Byte) /\ Len(all) = d + c /\ \A k \in 1..c : piece[k] = all[d + k]
    <3>1. d + c \in Nat /\ all \in [1..(d + c) -> Byte]
      BY <1>2, <1>4, <1>6
    <3> HIDE DEF all, d
    <3> QED BY <1>7, <3>1 DEF d
  <2> HIDE DEF piece, all, d, x
  <2>8. x \o piece = all
    BY <2>5, <2>6, <2>7, Joined
  <2> QED BY <2>7, <2>8 DEF d, x
<1> HIDE DEF piece
<1>10. op' = [Advance EXCEPT !.buffer = op.buffer \o piece]
  BY <1>1, <1>2 DEF Advance, TransferCalls
<1>11. /\ SioTypes' /\ LoopCounts'
       /\ op' # Idle /\ op'.call = op.call /\ op'.done = op.done + Chunks
       /\ op'.start = op.start /\ op'.before = op.before /\ op'.buffer = op.buffer \o piece
  <2>1. op.call # "write" /\ disk' \in Disks
    BY <1>1, <1>3
  <2> QED BY <1>1, <1>9, <1>10, <2>1, AdvanceInv
<1>12. ReadExact'
  BY <1>1, <1>3, <1>9, <1>11 DEF ReadExact, ByteAt, Base
<1>13. WriteExact'
  BY <1>1, <1>11 DEF WriteExact
<1> QED BY <1>11, <1>12, <1>13 DEF SioInv, TransferExact

LEMMA WriteInv ==
  ASSUME SIOSizes, SIOFile, SioInv, WriteChunk
  PROVE  SioInv'
<1> DEFINE c == Chunks
           s == ByteToSector(op.offset)
           o == op.offset % SectorSize
           old == IF o > 0 \/ c < SectorSize - o THEN disk[s] ELSE [i \in InSector |-> 0]
           new == [i \in InSector |-> IF i \in o .. o + c - 1
                                        THEN op.buffer[op.done + i - o + 1] ELSE old[i]]
<1>1. /\ InLoop /\ op.call = "write" /\ op' = Advance
      /\ disk' = [disk EXCEPT ![s] = new] /\ UNCHANGED <<pos, deny>>
  BY DEF WriteChunk
<1>2. /\ op \in TransferCalls /\ op # Idle
      /\ c \in Nat /\ c > 0 /\ c <= op.size /\ op.offset + c <= Length
      /\ o \in InSector /\ o + c <= SectorSize
      /\ s \in DevSector /\ Base \in Nat
      /\ Base + op.offset = (SectorSize * s) + o
      /\ Base + op.offset + c <= NSectors * SectorSize
      /\ op.size + op.done = op.total /\ op.offset = op.start + op.done
  BY <1>1, LoopFacts
<1>3. disk \in Disks /\ op.before \in Disks
      /\ \A a \in 0..(NSectors * SectorSize - 1) :
           ByteAt(disk, a) = IF a - Base - op.start \in 0..(op.done - 1)
                               THEN op.buffer[(a - Base - op.start) + 1] ELSE ByteAt(op.before, a)
  BY <1>1, <1>2 DEF SioInv, SioTypes, TransferExact, WriteExact, TransferCalls
<1>4. op.done \in Nat /\ op.start \in Nat /\ op.buffer \in Seq(Byte) /\ op.size \in Nat
      /\ op.total \in 0..MaxSize
      /\ o \in Nat /\ SectorSize \in Nat \ {0} /\ InSector = 0..(SectorSize - 1)
  BY <1>2 DEF TransferCalls, InSector, SIOSizes
<1>5. old \in [InSector -> Byte] /\ disk[s] \in [InSector -> Byte]
  <2>1. disk[s] \in [InSector -> Byte] /\ 0 \in Byte
    BY <1>2, <1>3 DEF Disks, Byte, SIOSizes
  <2> QED BY <2>1
<1>6. \A i \in InSector : ~(i \in o .. o + c - 1) => old[i] = disk[s][i]
  <2> TAKE i \in InSector
  <2> HAVE ~(i \in o .. o + c - 1)
  <2>1. CASE o > 0 \/ c < SectorSize - o
    BY <2>1
  <2>2. CASE ~(o > 0 \/ c < SectorSize - o)
    <3> HIDE DEF o, c, s
    <3>1. o = 0 /\ c >= SectorSize
      BY <1>2, <1>4, <2>2
    <3>2. i \in 0..(0 + c - 1)
      BY <1>2, <1>4, <3>1
    <3> QED BY <3>1, <3>2
  <2> QED BY <2>1, <2>2
<1>7. \A i \in o .. o + c - 1 : op.done + i - o + 1 \in 1..op.total
  <2> DEFINE d == op.done
             t == op.total
             z == op.size
  <2>1. d \in Nat /\ t \in Nat /\ z \in Nat /\ c \in Nat /\ o \in Nat /\ c <= z /\ z + d = t
    BY <1>2, <1>4 DEF SIOSizes
  <2> HIDE DEF d, t, z, c, o
  <2>2. \A i \in o .. o + c - 1 : d + i - o + 1 \in 1..t
    BY <2>1
  <2> QED BY <2>2 DEF d, t
<1>8. \A i \in 1..op.total : op.buffer[i] \in Byte
  <2>1. op.buffer = Buffer(op.total)
    BY <1>1, <1>2 DEF SioInv, LoopCounts
  <2> QED BY <1>4, <2>1, BufferIs
<1>9. new \in [InSector -> Byte]
  <2> HIDE DEF old, o, c
  <2> QED BY <1>5, <1>7, <1>8
<1> HIDE DEF new
<1>10. disk' \in Disks /\ disk'[s] = new /\ \A x \in DevSector \ {s} : disk'[x] = disk[x]
  BY <1>1, <1>2, <1>3, <1>9 DEF Disks
<1>11. op' = [Advance EXCEPT !.buffer = op.buffer]
  BY <1>1, <1>2 DEF Advance, TransferCalls
<1>12. /\ SioTypes' /\ LoopCounts'
       /\ op' # Idle /\ op'.call = op.call /\ op'.done = op.done + Chunks
       /\ op'.start = op.start /\ op'.before = op.before /\ op'.buffer = op.buffer
  BY <1>1, <1>4, <1>10, <1>11, AdvanceInv
<1>13. ASSUME NEW a \in 0..(NSectors * SectorSize - 1)
       PROVE  ByteAt(disk', a) =
                IF a - Base - op.start \in 0..((op.done + c) - 1)
                  THEN op.buffer[(a - Base - op.start) + 1] ELSE ByteAt(op.before, a)
  <2> DEFINE q == a \div SectorSize
             r == a % SectorSize
             i == a - Base - op.start
             first == (SectorSize * s) + o
             d == op.done
  <2>1. q \in DevSector /\ r \in InSector
    BY Addresses
  <2>2. /\ a - first \in 0..(c - 1) <=> q = s /\ r \in o..(o + c - 1)
        /\ q = s => a - first = r - o
        /\ first \in Nat
    BY <1>2, InChunk
  <2>3. a \in Int /\ i \in Int /\ d \in Nat /\ a - first = i - d
    <3> DEFINE f == op.start
    <3>1. d \in Nat /\ f \in Nat /\ Base \in Nat /\ Base + (f + d) = first /\ a \in Int
          /\ i = a - Base - f
      BY <1>2, <1>4 DEF SIOSizes
    <3> HIDE DEF first, i, d, f
    <3> QED BY <3>1
  <2>4. ByteAt(disk', a) = disk'[q][r]
    BY DEF ByteAt
  <2>5. CASE a - first \in 0..(c - 1)
    <3>1. q = s /\ r \in o..(o + c - 1) /\ r - o = i - d
      BY <2>2, <2>3, <2>5
    <3>2. new[r] = op.buffer[d + r - o + 1]
      BY <2>1, <3>1 DEF new
    <3>3. d + r - o + 1 = i + 1 /\ i \in 0..((d + c) - 1)
      <4>1. r \in Nat /\ o \in Nat /\ c \in Nat
        BY <1>2, <1>4, <2>1
      <4>2. i - d \in 0..(c - 1)
        BY <2>3, <2>5
      <4> HIDE DEF i, d, r, o, c
      <4> QED BY <2>3, <3>1, <4>1, <4>2
    <3> QED BY <1>10, <2>4, <3>1, <3>2, <3>3
  <2>6. CASE ~(a - first \in 0..(c - 1))
    <3>1. disk'[q][r] = disk[q][r]
      <4>1. CASE q = s
        <5>1. ~(r \in o..(o + c - 1))
          BY <2>2, <2>6, <4>1
        <5>2. new[r] = old[r]
          BY <2>1, <5>1 DEF new
        <5> HIDE DEF old, o, c, r, q, s
        <5> QED BY <1>6, <1>10, <2>1, <4>1, <5>1, <5>2
      <4>2. CASE q # s
        BY <1>10, <2>1, <4>2
      <4> QED BY <4>1, <4>2
    <3>2. i \in 0..((d + c) - 1) <=> i \in 0..(d - 1)
      <4>1. c \in Nat /\ ~(i - d \in 0..(c - 1))
        BY <1>2, <2>3, <2>6
      <4> HIDE DEF i, d, c
      <4> QED BY <2>3, <4>1
    <3>3. ByteAt(disk, a) = disk[q][r]
      BY DEF ByteAt
    <3>4. ByteAt(disk, a) = IF i \in 0..(d - 1) THEN op.buffer[i + 1] ELSE ByteAt(op.before, a)
      BY <1>3
    <3> HIDE DEF i, d
    <3>5. ByteAt(disk', a) = IF i \in 0..((d + c) - 1) THEN op.buffer[i + 1] ELSE ByteAt(op.before, a)
      BY <2>4, <3>1, <3>2, <3>3, <3>4
    <3> QED BY <3>5 DEF i, d
  <2> QED BY <2>5, <2>6
<1>14. WriteExact'
  <2> DEFINE Moved(a, f, d, b, before) ==
               IF a - Base - f \in 0..(d - 1) THEN b[(a - Base - f) + 1] ELSE ByteAt(before, a)
  <2>1. op'.done = op.done + c /\ op'.start = op.start /\ op'.before = op.before
        /\ op'.buffer = op.buffer
    BY <1>12
  <2>2. \A a \in 0..(NSectors * SectorSize - 1) :
          ByteAt(disk', a) = Moved(a, op.start, op.done + c, op.buffer, op.before)
    <3> TAKE a \in 0..(NSectors * SectorSize - 1)
    <3> QED BY <1>13
  <2> HIDE DEF c, Moved
  <2>3. \A a \in 0..(NSectors * SectorSize - 1) :
          ByteAt(disk', a) = Moved(a, op'.start, op'.done, op'.buffer, op'.before)
    BY <2>1, <2>2
  <2> QED BY <2>3 DEF Moved, WriteExact, ByteAt, Base
<1>15. ReadExact'
  BY <1>1, <1>12 DEF ReadExact
<1> QED BY <1>12, <1>14, <1>15 DEF SioInv, TransferExact

(* No memory for the bounce buffer: nothing moves.                         *)
LEMMA NoBounceInv ==
  ASSUME SIOSizes, SIOFile, SioInv, NoBounce
  PROVE  SioInv'
<1>1. /\ InLoop /\ op' = [op EXCEPT !.failed = TRUE] /\ UNCHANGED <<disk, pos, deny>>
      /\ op # Idle /\ op \in TransferCalls
  BY DEF NoBounce, InLoop, SioInv, SioTypes
<1>2. /\ op' \in TransferCalls /\ op'.call = op.call /\ op'.size = op.size
      /\ op'.offset = op.offset /\ op'.done = op.done /\ op'.buffer = op.buffer
      /\ op'.total = op.total /\ op'.start = op.start /\ op'.before = op.before
  BY <1>1 DEF TransferCalls
<1>3. op' # Idle
  BY <1>2 DEF TransferCalls, Idle
<1>4. SioTypes' /\ LoopCounts'
  BY <1>1, <1>2, <1>3 DEF SioInv, SioTypes, LoopCounts, InLoop, Chunks
<1>5. WriteExact' /\ ReadExact'
  BY <1>1, <1>2, <1>3 DEF SioInv, TransferExact, WriteExact, ReadExact, ByteAt, Base
<1> QED BY <1>4, <1>5 DEF SioInv, TransferExact

(* Between calls there is only the file's position.                        *)
LEMMA IdleInv ==
  ASSUME op' = Idle, disk' \in Disks, pos' \in Nat, deny' \in BOOLEAN
  PROVE  SioInv'
<1>1. op'.call = "none"
  BY DEF Idle
<1> QED
  BY <1>1 DEF SioInv, SioTypes, LoopCounts, TransferExact, WriteExact, ReadExact

LEMMA SioStepInv ==
  ASSUME SIOSizes, SIOFile, SioInv, [SioNext]_sioVars
  PROVE  SioInv'
<1>0. disk \in Disks /\ pos \in Nat /\ deny \in BOOLEAN /\ MaxPos \in Nat
  BY DEF SioInv, SioTypes, SIOFile
<1>1. ASSUME NEW call \in {"read", "write"}, NEW size \in 0..MaxSize, ReadOrWrite(call, size)
      PROVE  SioInv'
  BY <1>0, <1>1, CallInv DEF ReadOrWrite
<1>2. ASSUME NEW call \in {"read", "write"}, NEW size \in 0..MaxSize, NEW offset \in 0..MaxPos,
             ReadOrWriteAt(call, size, offset)
      PROVE  SioInv'
  <2>1. offset \in Nat
    BY <1>0
  <2> QED BY <1>2, <2>1, CallInv DEF ReadOrWriteAt
<1>3. CASE ReadChunk
  BY <1>3, ReadInv
<1>4. CASE WriteChunk
  BY <1>4, WriteInv
<1>5. CASE NoBounce
  BY <1>5, NoBounceInv
<1>6. CASE Return
  <2>1. op \in TransferCalls
    BY <1>6 DEF Return, SioInv, SioTypes
  <2>2. pos' \in Nat
    BY <1>0, <1>6, <2>1 DEF Return, TransferCalls
  <2> QED BY <1>0, <1>6, <2>2, IdleInv DEF Return
<1>7. ASSUME NEW p \in 0..MaxPos, Seek(p) PROVE SioInv'
  BY <1>0, <1>7, IdleInv DEF Seek
<1>8. CASE DenyWrite \/ AllowWrite
  BY <1>0, <1>8, IdleInv DEF DenyWrite, AllowWrite
<1>9. CASE UNCHANGED sioVars
  BY <1>9 DEF sioVars, SioInv, SioTypes, LoopCounts, Chunks, TransferExact, WriteExact, ReadExact
<1> QED
  BY <1>1, <1>2, <1>3, <1>4, <1>5, <1>6, <1>7, <1>8, <1>9 DEF SioNext

(* The number of bytes a call returns.                                     *)
LEMMA CountsRight ==
  ASSUME SIOSizes, SIOFile, SioInv
  PROVE  CountExact
<1> SUFFICES ASSUME op # Idle, ~InLoop
             PROVE  LET available == IF op.start < Length THEN Lesser(op.total, Length - op.start)
                                     ELSE 0
                    IN  IF op.call = "write" /\ deny THEN op.done = 0
                        ELSE IF op.failed THEN op.done < available
                        ELSE op.done = available
  BY DEF CountExact
<1>1. /\ op \in TransferCalls /\ op.size + op.done = op.total
      /\ op.offset = op.start + op.done /\ (op.done > 0 => op.offset <= Length)
      /\ (op.call = "write" /\ deny => op.done = 0)
      /\ (op.failed => op.size > 0 /\ Chunks > 0)
  BY DEF SioInv, SioTypes, LoopCounts
<1>2. /\ op.size \in Nat /\ op.done \in Nat /\ op.total \in Nat /\ op.offset \in Nat
      /\ op.start \in Nat /\ Length \in Nat /\ op.failed \in BOOLEAN
  BY <1>1 DEF TransferCalls, SIOFile, SIOSizes
<1>3. Chunks > 0 <=> op.size > 0 /\ op.offset < Length
  <2>1. op.offset % SectorSize \in 0..(SectorSize - 1)
    BY <1>2, DivMod DEF SIOSizes
  <2> DEFINE o == op.offset % SectorSize
  <2> HIDE DEF o
  <2>2. Chunks = Lesser(op.size, Lesser(Length - op.offset, SectorSize - o))
    BY DEF Chunks, Chunk, o
  <2>3. o \in 0..(SectorSize - 1)
    BY <2>1 DEF o
  <2> QED BY <1>2, <2>2, <2>3 DEF Lesser, SIOSizes
<1>4. op.failed \/ op.size = 0 \/ op.offset >= Length \/ (op.call = "write" /\ deny)
  BY <1>2, <1>3 DEF InLoop
<1> DEFINE z == op.size
           d == op.done
           t == op.total
           f == op.start
           u == op.offset
           available == IF f < Length THEN Lesser(t, Length - f) ELSE 0
<1>5. z \in Nat /\ d \in Nat /\ t \in Nat /\ f \in Nat /\ u \in Nat /\ Length \in Nat
      /\ z + d = t /\ u = f + d /\ (d > 0 => u <= Length)
  BY <1>1, <1>2
<1>6. op.failed => z > 0 /\ u < Length
  BY <1>1, <1>3
<1>7. z = 0 \/ u >= Length \/ op.failed \/ (op.call = "write" /\ deny)
  BY <1>4
<1> HIDE DEF z, d, t, f, u
<1>8. z > 0 /\ u < Length => d < available
  BY <1>5 DEF Lesser
<1>9. z = 0 \/ u >= Length => d = available
  BY <1>5 DEF Lesser
<1>10. op.call = "write" /\ deny => d = 0
  BY <1>1 DEF d
<1> QED BY <1>6, <1>7, <1>8, <1>9, <1>10 DEF d, t, f

(* inode_read_at() and inode_write_at() move exactly the bytes asked for,  *)
(* through however many sectors, change no other byte of the device, and   *)
(* return their number, for any sizes of file, sector and transfer.        *)
THEOREM TransfersAlwaysRight ==
  ASSUME SIOSizes, SIOFile
  PROVE  SioSpec => []TransfersRight
<1>1. SioInit => SioInv
  BY SioInitInv
<1>2. SioInv /\ [SioNext]_sioVars => SioInv'
  BY SioStepInv
<1>3. SioInv => TransfersRight
  <2> SUFFICES ASSUME SioInv PROVE TransfersRight
    OBVIOUS
  <2>1. SioTypeOK
    BY DEF SioInv, SioTypes, SioTypeOK, TransferCalls, Disks
  <2> QED BY <2>1, CountsRight DEF SioInv, TransfersRight
<1> QED BY <1>1, <1>2, <1>3, PTL DEF SioSpec

-----------------------------------------------------------------------------
(* The console lock: Devices, on its part about console.c.                 *)
Characters == [who : Printers, kind : {"thread", "intr", "panic"}, msg : Nat]

PrintFrames == [msg : Nat, out : Nat]

PrintTypes ==
  /\ conHolder \in Printers \cup {NoPrinter} /\ conDepth \in Nat
  /\ frames \in [Printers -> Seq(PrintFrames)] /\ msgs \in [Printers -> Nat]
  /\ conOut \in Seq(Characters)

(* Who prints holds the lock, once more for each message in another one.   *)
LockHeld ==
  /\ \A t \in Printers : (frames[t] # <<>>) = (conHolder = t)
  /\ conDepth = IF conHolder = NoPrinter THEN 0 ELSE Len(frames[conHolder]) - 1

(* A message that is begun has a number that none before it has.           *)
Numbered ==
  /\ \A t \in Printers : \A f \in 1..Len(frames[t]) : frames[t][f].msg <= msgs[t]
  /\ \A i \in 1..Len(conOut) :
       conOut[i].kind = "thread" => conOut[i].msg <= msgs[conOut[i].who]

(* Since the first character of a message that is being printed no other   *)
(* thread has printed.                                                     *)
OpenAlone ==
  \A t \in Printers : \A f \in 1..Len(frames[t]), i \in 1..Len(conOut) :
    conOut[i] = [who |-> t, kind |-> "thread", msg |-> frames[t][f].msg] =>
      \A j \in i..Len(conOut) : conOut[j].kind = "thread" => conOut[j].who = t

MessagesWhole ==
  \A i, k \in 1..Len(conOut) :
    i < k /\ conOut[i].kind = "thread" /\ conOut[k] = conOut[i] =>
      \A j \in i..k : conOut[j].kind = "thread" => conOut[j].who = conOut[i].who

PrintInv == PrintTypes /\ LockHeld /\ Numbered /\ OpenAlone /\ MessagesWhole

LEMMA BeginPrintKeeps ==
  ASSUME NoPrinter \notin Printers, PrintInv, NEW t \in Printers, BeginPrint(t)
  PROVE  PrintInv'
<1> DEFINE s == frames[t]
           fresh == [msg |-> msgs[t] + 1, out |-> 0]
<1>1. /\ s \in Seq(PrintFrames) /\ msgs[t] \in Nat /\ conDepth \in Nat
      /\ conOut' = conOut
      /\ msgs' = [msgs EXCEPT ![t] = msgs[t] + 1] /\ frames' = [frames EXCEPT ![t] = <<fresh>> \o s]
  BY DEF PrintInv, PrintTypes, BeginPrint, Frame
<1>2. /\ fresh \in PrintFrames /\ <<fresh>> \o s \in Seq(PrintFrames)
      /\ Len(<<fresh>> \o s) = Len(s) + 1 /\ (<<fresh>> \o s)[1] = fresh
      /\ \A f \in 2..(Len(s) + 1) : (<<fresh>> \o s)[f] = s[f - 1] /\ f - 1 \in 1..Len(s)
      /\ Len(s) \in Nat
  <2>1. fresh \in PrintFrames
    BY <1>1 DEF PrintFrames
  <2> HIDE DEF fresh
  <2> QED BY <1>1, <2>1
<1> HIDE DEF fresh
<1>3. /\ frames'[t] = <<fresh>> \o s /\ msgs'[t] = msgs[t] + 1
      /\ \A u \in Printers \ {t} : frames'[u] = frames[u] /\ msgs'[u] = msgs[u]
  BY <1>1 DEF PrintInv, PrintTypes
<1>4. PrintTypes'
  BY <1>1, <1>2 DEF PrintInv, PrintTypes, BeginPrint, AcquireConsole
<1>5. LockHeld'
  <2>1. conHolder' = t /\ frames'[t] # <<>>
    BY <1>2, <1>3 DEF BeginPrint, AcquireConsole
  <2>2. \A u \in Printers \ {t} : frames[u] = <<>>
    BY DEF PrintInv, LockHeld, BeginPrint, AcquireConsole
  <2>3. conDepth' = Len(frames'[t]) - 1
    <3>1. CASE conHolder = t
      <4>1. conDepth = Len(s) - 1 /\ conDepth' = conDepth + 1
        BY <3>1 DEF PrintInv, LockHeld, BeginPrint, AcquireConsole
      <4> QED BY <1>2, <1>3, <4>1
    <3>2. CASE conHolder # t
      <4>1. conHolder = NoPrinter /\ conDepth = 0 /\ conDepth' = 0 /\ s = <<>>
        BY <3>2 DEF PrintInv, LockHeld, BeginPrint, AcquireConsole
      <4> QED BY <1>2, <1>3, <4>1
    <3> QED BY <3>1, <3>2
  <2> QED BY <1>3, <2>1, <2>2, <2>3 DEF LockHeld
<1>6. Numbered'
  <2>1. ASSUME NEW u \in Printers, NEW f \in 1..Len(frames'[u])
        PROVE  frames'[u][f].msg <= msgs'[u]
    <3>1. CASE u = t /\ f = 1
      BY <1>1, <1>2, <1>3, <3>1 DEF fresh
    <3>2. CASE u = t /\ f # 1
      <4>1. f \in 2..(Len(s) + 1)
        BY <1>2, <1>3, <2>1, <3>2
      <4>2. frames'[u][f] = s[f - 1] /\ f - 1 \in 1..Len(s) /\ s[f - 1] \in PrintFrames
        BY <1>1, <1>2, <1>3, <3>2, <4>1
      <4>3. s[f - 1].msg <= msgs[t]
        BY <4>2 DEF PrintInv, Numbered
      <4> QED BY <1>1, <1>3, <3>2, <4>2, <4>3 DEF PrintFrames
    <3>3. CASE u # t
      BY <1>3, <2>1, <3>3 DEF PrintInv, Numbered
    <3> QED BY <3>1, <3>2, <3>3
  <2>2. ASSUME NEW i \in 1..Len(conOut), conOut[i].kind = "thread"
        PROVE  conOut[i].msg <= msgs'[conOut[i].who]
    <3>1. conOut[i] \in Characters /\ conOut[i].msg <= msgs[conOut[i].who]
      BY <2>2 DEF PrintInv, PrintTypes, Numbered
    <3>2. conOut[i].msg \in Nat /\ conOut[i].who \in Printers
      BY <3>1 DEF Characters
    <3> QED BY <1>1, <1>3, <3>1, <3>2
  <2> QED BY <1>1, <2>1, <2>2 DEF Numbered
<1>7. OpenAlone'
  <2> SUFFICES ASSUME NEW u \in Printers, NEW f \in 1..Len(frames'[u]), NEW i \in 1..Len(conOut),
                      conOut[i] = [who |-> u, kind |-> "thread", msg |-> frames'[u][f].msg]
               PROVE  \A j \in i..Len(conOut) : conOut[j].kind = "thread" => conOut[j].who = u
    <3>1. conOut' = conOut
      BY <1>1
    <3> HIDE DEF s
    <3> QED BY <3>1 DEF OpenAlone
  <2>1. CASE u = t /\ f = 1
    <3>1. conOut[i].kind = "thread" /\ conOut[i].who = t /\ conOut[i].msg = msgs[t] + 1
      BY <1>2, <1>3, <2>1 DEF fresh
    <3>2. conOut[i].msg <= msgs[t]
      BY <3>1 DEF PrintInv, Numbered
    <3> QED BY <1>1, <3>1, <3>2
  <2>2. CASE u = t /\ f # 1
    <3>1. f \in 2..(Len(s) + 1)
      BY <1>2, <1>3, <2>2
    <3>2. frames'[u][f] = s[f - 1] /\ f - 1 \in 1..Len(s)
      BY <1>2, <1>3, <2>2, <3>1
    <3> QED BY <2>2, <3>2 DEF PrintInv, OpenAlone
  <2>3. CASE u # t
    BY <1>3, <2>3 DEF PrintInv, OpenAlone
  <2> QED BY <2>1, <2>2, <2>3
<1>8. MessagesWhole'
  <2>1. conOut' = conOut
    BY <1>1
  <2>2. MessagesWhole
    BY DEF PrintInv
  <2> HIDE DEF s
  <2> QED BY <2>1, <2>2 DEF MessagesWhole
<1> QED BY <1>4, <1>5, <1>6, <1>7, <1>8 DEF PrintInv

(* A character of an open message follows characters of its thread only.   *)
LEMMA PutCharKeeps ==
  ASSUME NoPrinter \notin Printers, PrintInv, NEW t \in Printers, PutChar(t)
  PROVE  PrintInv'
<1> DEFINE s == frames[t]
           char == [who |-> t, kind |-> "thread", msg |-> s[1].msg]
           n == Len(conOut)
<1> DEFINE more == [s[1] EXCEPT !.out = s[1].out + 1]
           r == [s EXCEPT ![1] = more]
<1>1. /\ s \in Seq(PrintFrames) /\ s # <<>> /\ Len(s) \in Nat \ {0} /\ s[1] \in PrintFrames
      /\ Head(s) = s[1] /\ s[1].msg \in Nat /\ s[1].out \in Nat
  <2>1. s \in Seq(PrintFrames) /\ s # <<>>
    BY DEF PrintInv, PrintTypes, PutChar
  <2>2. Len(s) \in Nat \ {0}
    BY <2>1, EmptySeq
  <2>3. s[1] \in PrintFrames /\ Head(s) = s[1]
    BY <2>1, <2>2
  <2> QED BY <2>1, <2>2, <2>3 DEF PrintFrames
<1>2. /\ frames' = [frames EXCEPT ![t] = r]
      /\ conOut' = Append(conOut, char)
      /\ conHolder' = conHolder /\ conDepth' = conDepth /\ msgs' = msgs
  BY <1>1 DEF PutChar
<1>3. /\ frames'[t] \in Seq(PrintFrames) /\ Len(frames'[t]) = Len(s)
      /\ \A f \in 1..Len(s) : frames'[t][f].msg = s[f].msg
      /\ \A u \in Printers \ {t} : frames'[u] = frames[u]
  <2>1. frames'[t] = r /\ \A u \in Printers \ {t} : frames'[u] = frames[u]
    BY <1>2 DEF PrintInv, PrintTypes
  <2>2. more \in PrintFrames /\ more.msg = s[1].msg
    BY <1>1 DEF PrintFrames
  <2> HIDE DEF more
  <2>3. r \in Seq(PrintFrames) /\ Len(r) = Len(s)
    BY <1>1, <2>2
  <2>4. \A f \in 1..Len(s) : r[f].msg = s[f].msg
    BY <1>1, <2>2
  <2> QED BY <2>1, <2>3, <2>4
<1> HIDE DEF more, r
<1>4. /\ char \in Characters /\ conOut \in Seq(Characters) /\ n \in Nat
      /\ conOut' \in Seq(Characters) /\ Len(conOut') = n + 1 /\ conOut'[n + 1] = char
      /\ \A i \in 1..n : conOut'[i] = conOut[i]
  <2>1. char \in Characters /\ conOut \in Seq(Characters)
    BY <1>1 DEF Characters, PrintInv, PrintTypes
  <2> HIDE DEF char
  <2> QED BY <1>2, <2>1
<1>5. conHolder = t
  BY <1>1 DEF PrintInv, LockHeld
<1>6. ASSUME NEW f \in 1..Len(s), NEW i \in 1..n,
             conOut[i] = [who |-> t, kind |-> "thread", msg |-> s[f].msg]
      PROVE  \A j \in i..(n + 1) : conOut'[j].kind = "thread" => conOut'[j].who = t
  <2>1. \A j \in i..n : conOut[j].kind = "thread" => conOut[j].who = t
    BY <1>6 DEF PrintInv, OpenAlone
  <2>2. ASSUME NEW j \in i..(n + 1) PROVE (j \in i..n /\ conOut'[j] = conOut[j]) \/ conOut'[j] = char
    BY <1>4, <2>2
  <2> QED BY <2>1, <2>2
<1> HIDE DEF char
<1>7. PrintTypes'
  BY <1>2, <1>3, <1>4 DEF PrintInv, PrintTypes
<1>8. LockHeld'
  <2>1. frames'[t] # <<>>
    BY <1>1, <1>3
  <2> QED BY <1>1, <1>2, <1>3, <1>5, <2>1 DEF PrintInv, LockHeld
<1>9. Numbered'
  <2>1. ASSUME NEW u \in Printers, NEW f \in 1..Len(frames'[u]) PROVE frames'[u][f].msg <= msgs[u]
    BY <1>3, <2>1 DEF PrintInv, Numbered
  <2>2. ASSUME NEW i \in 1..(n + 1), conOut'[i].kind = "thread"
        PROVE  conOut'[i].msg <= msgs[conOut'[i].who]
    <3>1. CASE i \in 1..n
      BY <1>4, <2>2, <3>1 DEF PrintInv, Numbered
    <3>2. CASE i = n + 1
      BY <1>1, <1>4, <3>2 DEF PrintInv, Numbered, char
    <3> QED BY <1>4, <2>2, <3>1, <3>2
  <2> QED BY <1>2, <1>4, <2>1, <2>2 DEF Numbered
<1>10. OpenAlone'
  <2> SUFFICES ASSUME NEW u \in Printers, NEW f \in 1..Len(frames'[u]), NEW i \in 1..Len(conOut'),
                      conOut'[i] = [who |-> u, kind |-> "thread", msg |-> frames'[u][f].msg]
               PROVE  \A j \in i..Len(conOut') : conOut'[j].kind = "thread" => conOut'[j].who = u
    BY DEF OpenAlone
  <2>1. u = t
    <3>1. Len(frames'[u]) # 0
      OBVIOUS
    <3>2. u # t => frames[u] # <<>>
      BY <1>3, <3>1 DEF PrintInv, PrintTypes
    <3> QED BY <1>5, <3>2 DEF PrintInv, LockHeld
  <2>2. f \in 1..Len(s) /\ frames'[u][f].msg = s[f].msg
    BY <1>3, <2>1
  <2>3. CASE i \in 1..n
    <3>1. conOut[i] = [who |-> t, kind |-> "thread", msg |-> s[f].msg]
      BY <1>4, <2>1, <2>2, <2>3
    <3>2. \A j \in i..(n + 1) : conOut'[j].kind = "thread" => conOut'[j].who = t
      BY <1>6, <2>2, <2>3, <3>1
    <3> QED BY <1>4, <2>1, <3>2
  <2>4. CASE i = n + 1
    <3>1. \A j \in i..(n + 1) : j = n + 1
      BY <1>4, <2>4
    <3> QED BY <1>4, <2>1, <3>1 DEF char
  <2>5. n \in Nat /\ Len(conOut') = n + 1
    BY <1>4
  <2>6. i \in 1..n \/ i = n + 1
    BY <2>5
  <2> QED BY <2>3, <2>4, <2>6
<1>11. MessagesWhole'
  <2> SUFFICES ASSUME NEW i \in 1..(n + 1), NEW k \in 1..(n + 1), i < k,
                      conOut'[i].kind = "thread", conOut'[k] = conOut'[i]
               PROVE  \A j \in i..k : conOut'[j].kind = "thread" => conOut'[j].who = conOut'[i].who
    BY <1>4 DEF MessagesWhole
  <2>1. i \in 1..n /\ conOut'[i] = conOut[i]
    BY <1>4
  <2>2. CASE k \in 1..n
    <3>1. \A j \in i..k : conOut'[j] = conOut[j]
      BY <1>4, <2>1, <2>2
    <3> QED BY <1>4, <2>1, <2>2, <3>1 DEF PrintInv, MessagesWhole
  <2>3. CASE k = n + 1
    <3>1. conOut[i] = [who |-> t, kind |-> "thread", msg |-> s[1].msg] /\ conOut'[i].who = t
      BY <1>4, <2>1, <2>3 DEF char
    <3>2. 1 \in 1..Len(s)
      BY <1>1
    <3> QED BY <1>6, <2>1, <2>3, <3>1, <3>2
  <2> QED BY <1>4, <2>2, <2>3
<1> QED BY <1>7, <1>8, <1>9, <1>10, <1>11 DEF PrintInv

LEMMA EndPrintKeeps ==
  ASSUME NoPrinter \notin Printers, PrintInv, NEW t \in Printers, EndPrint(t)
  PROVE  PrintInv'
<1> DEFINE s == frames[t]
<1>1. /\ s \in Seq(PrintFrames) /\ s # <<>> /\ Len(s) \in Nat \ {0}
      /\ frames' = [frames EXCEPT ![t] = Tail(s)] /\ conOut' = conOut /\ msgs' = msgs
  <2>1. s \in Seq(PrintFrames) /\ s # <<>>
    BY DEF PrintInv, PrintTypes, EndPrint
  <2>2. Len(s) \in Nat \ {0}
    BY <2>1, EmptySeq
  <2> QED BY <2>1, <2>2 DEF EndPrint
<1>2. /\ Tail(s) \in Seq(PrintFrames) /\ Len(Tail(s)) = Len(s) - 1
      /\ \A f \in 1..(Len(s) - 1) : Tail(s)[f] = s[f + 1] /\ f + 1 \in 1..Len(s)
  BY <1>1
<1>3. /\ frames'[t] = Tail(s) /\ \A u \in Printers \ {t} : frames'[u] = frames[u]
      /\ Len(frames'[t]) = Len(s) - 1 /\ (frames'[t] = <<>> <=> Len(s) = 1)
  <2>1. frames'[t] = Tail(s) /\ \A u \in Printers \ {t} : frames'[u] = frames[u]
    BY <1>1 DEF PrintInv, PrintTypes
  <2> DEFINE rest == Tail(s)
  <2>2. rest \in Seq(PrintFrames) /\ Len(rest) = Len(s) - 1
    BY <1>2
  <2> HIDE DEF rest
  <2>3. rest = <<>> <=> Len(rest) = 0
    BY <2>2, EmptySeq
  <2>4. Len(s) - 1 = 0 <=> Len(s) = 1
    BY <1>1
  <2>5. frames'[t] = rest
    BY <2>1 DEF rest
  <2> QED BY <2>1, <2>2, <2>3, <2>4, <2>5
<1>4. conHolder = t /\ conDepth = Len(s) - 1
  BY <1>1 DEF PrintInv, LockHeld
<1>5. \/ Len(s) > 1 /\ conHolder' = t /\ conDepth' = conDepth - 1
      \/ Len(s) = 1 /\ conHolder' = NoPrinter /\ conDepth' = conDepth
  <2>1. ReleaseConsole(t)
    BY DEF EndPrint
  <2> HIDE DEF s
  <2> QED BY <1>1, <1>4, <2>1 DEF ReleaseConsole
<1>6. \A u \in Printers : \A f \in 1..Len(frames'[u]) :
        \E g \in 1..Len(frames[u]) : frames'[u][f] = frames[u][g]
  <2> TAKE u \in Printers
  <2> TAKE f \in 1..Len(frames'[u])
  <2>1. CASE u = t
    BY <1>2, <1>3, <2>1
  <2>2. CASE u # t
    BY <1>3, <2>2
  <2> QED BY <2>1, <2>2
<1>7. PrintTypes'
  BY <1>1, <1>2, <1>4, <1>5 DEF PrintInv, PrintTypes
<1>8. LockHeld'
  <2>1. \A u \in Printers \ {t} : frames'[u] = <<>>
    BY <1>3, <1>4 DEF PrintInv, LockHeld
  <2>2. CASE Len(s) > 1
    <3>1. frames'[t] # <<>> /\ Len(frames'[t]) = Len(s) - 1
      BY <1>1, <1>3, <2>2
    <3>2. /\ conHolder' = t /\ conDepth' = Len(frames'[t]) - 1
          /\ \A u \in Printers : (frames'[u] # <<>>) = (conHolder' = u)
      BY <1>1, <1>4, <1>5, <2>1, <2>2, <3>1
    <3> QED BY <3>2 DEF LockHeld
  <2>3. CASE Len(s) = 1
    <3>1. frames'[t] = <<>>
      BY <1>3, <2>3
    <3> QED BY <1>4, <1>5, <2>1, <2>3, <3>1 DEF LockHeld
  <2> QED BY <1>5, <2>2, <2>3
<1>9. Numbered' /\ OpenAlone' /\ MessagesWhole'
  <2>1. Numbered'
    BY <1>1, <1>6 DEF PrintInv, Numbered
  <2>2. OpenAlone'
    <3> SUFFICES ASSUME NEW u \in Printers, NEW f \in 1..Len(frames'[u]), NEW i \in 1..Len(conOut'),
                        conOut'[i] = [who |-> u, kind |-> "thread", msg |-> frames'[u][f].msg]
                 PROVE  \A j \in i..Len(conOut') : conOut'[j].kind = "thread" => conOut'[j].who = u
      BY DEF OpenAlone
    <3>1. PICK g \in 1..Len(frames[u]) : frames'[u][f] = frames[u][g]
      BY <1>6
    <3>2. conOut' = conOut /\ OpenAlone
      BY <1>1 DEF PrintInv
    <3>3. i \in 1..Len(conOut) /\ conOut[i] = [who |-> u, kind |-> "thread", msg |-> frames[u][g].msg]
      BY <3>1, <3>2
    <3>4. \A j \in i..Len(conOut) : conOut[j].kind = "thread" => conOut[j].who = u
      BY <3>2, <3>3 DEF OpenAlone
    <3> QED BY <3>2, <3>4
  <2>3. MessagesWhole'
    <3>1. conOut' = conOut /\ MessagesWhole
      BY <1>1 DEF PrintInv
    <3> QED BY <3>1 DEF MessagesWhole
  <2> QED BY <2>1, <2>2, <2>3
<1> QED BY <1>7, <1>8, <1>9 DEF PrintInv

(* What interrupt handlers and a panic print is no character of a thread.  *)
LEMMA OtherOutputKeeps ==
  ASSUME PrintInv, NEW char \in Characters, char.kind # "thread", conOut' = Append(conOut, char),
         UNCHANGED <<conHolder, conDepth, frames, msgs>>
  PROVE  PrintInv'
<1> DEFINE n == Len(conOut)
<1>1. /\ conOut \in Seq(Characters) /\ n \in Nat
      /\ conOut' \in Seq(Characters) /\ Len(conOut') = n + 1 /\ conOut'[n + 1] = char
      /\ \A i \in 1..n : conOut'[i] = conOut[i]
  <2>1. conOut \in Seq(Characters)
    BY DEF PrintInv, PrintTypes
  <2> QED BY <2>1
<1>2. ASSUME NEW i \in 1..Len(conOut'), conOut'[i].kind = "thread"
      PROVE  i \in 1..n /\ conOut'[i] = conOut[i]
  <2>1. i # n + 1
    BY <1>1, <1>2
  <2> QED BY <1>1, <2>1
<1>3. PrintTypes' /\ LockHeld'
  BY <1>1 DEF PrintInv, PrintTypes, LockHeld
<1>4. Numbered'
  BY <1>2 DEF PrintInv, Numbered
<1>5. OpenAlone'
  <2> SUFFICES ASSUME NEW u \in Printers, NEW f \in 1..Len(frames[u]), NEW i \in 1..Len(conOut'),
                      conOut'[i] = [who |-> u, kind |-> "thread", msg |-> frames[u][f].msg],
                      NEW j \in i..Len(conOut'), conOut'[j].kind = "thread"
               PROVE  conOut'[j].who = u
    BY DEF OpenAlone
  <2>1. i \in 1..n /\ conOut'[i] = conOut[i]
    BY <1>2
  <2>2. j \in 1..Len(conOut')
    BY <1>1, <2>1
  <2>3. j \in i..n /\ conOut'[j] = conOut[j]
    BY <1>1, <1>2, <2>2
  <2> QED BY <2>1, <2>3 DEF PrintInv, OpenAlone
<1>6. MessagesWhole'
  <2> SUFFICES ASSUME NEW i \in 1..Len(conOut'), NEW k \in 1..Len(conOut'), i < k,
                      conOut'[i].kind = "thread", conOut'[k] = conOut'[i]
               PROVE  \A j \in i..k : conOut'[j].kind = "thread" => conOut'[j].who = conOut'[i].who
    BY DEF MessagesWhole
  <2>1. i \in 1..n /\ k \in 1..n /\ conOut'[i] = conOut[i] /\ conOut'[k] = conOut[k]
    BY <1>2
  <2>2. \A j \in i..k : conOut'[j] = conOut[j]
    BY <1>1, <2>1
  <2> QED BY <2>1, <2>2 DEF PrintInv, MessagesWhole
<1> QED BY <1>3, <1>4, <1>5, <1>6 DEF PrintInv

(* console.c: the messages of different threads are not mixed, and the     *)
(* lock is released when, and only when, the outermost call of its holder  *)
(* ends: for any number of threads, messages and characters.               *)
THEOREM ConsoleAlwaysWhole ==
  ASSUME NoPrinter \notin Printers
  PROVE  PrintSpec => []ConsoleWhole
<1>1. PrintInit => PrintInv
  BY DEF PrintInit, PrintInv, PrintTypes, LockHeld, Numbered, OpenAlone, MessagesWhole
<1>2. PrintInv /\ [PrintNext]_consoleVars => PrintInv'
  <2> SUFFICES ASSUME PrintInv, [PrintNext]_consoleVars PROVE PrintInv'
    OBVIOUS
  <2>1. ASSUME NEW t \in Printers, IntrPrint(t) PROVE PrintInv'
    <3>1. [who |-> t, kind |-> "intr", msg |-> 0] \in Characters
      BY DEF Characters
    <3> QED BY <2>1, <3>1, OtherOutputKeeps DEF IntrPrint
  <2>2. ASSUME NEW t \in Printers, ConsolePanic(t) PROVE PrintInv'
    <3>1. [who |-> t, kind |-> "panic", msg |-> 0] \in Characters
      BY DEF Characters
    <3> QED BY <2>2, <3>1, OtherOutputKeeps DEF ConsolePanic
  <2>3. CASE UNCHANGED consoleVars
    <3>1. /\ conHolder' = conHolder /\ conDepth' = conDepth /\ frames' = frames
          /\ conOut' = conOut /\ msgs' = msgs
      BY <2>3 DEF consoleVars
    <3>2. PrintTypes' /\ Numbered'
      BY <3>1 DEF PrintInv, PrintTypes, Numbered
    <3>3. OpenAlone'
      BY <3>1 DEF PrintInv, OpenAlone
    <3>4. LockHeld'
      BY <3>1 DEF PrintInv, LockHeld
    <3>5. MessagesWhole'
      BY <3>1 DEF PrintInv, MessagesWhole
    <3> QED BY <3>2, <3>3, <3>4, <3>5 DEF PrintInv
  <2> QED BY <2>1, <2>2, <2>3, BeginPrintKeeps, PutCharKeeps, EndPrintKeeps DEF PrintNext
<1>3. PrintInv => ConsoleWhole
  BY DEF PrintInv, ConsoleWhole, LockHeld, MessagesWhole
<1> QED BY <1>1, <1>2, <1>3, PTL DEF PrintSpec

-----------------------------------------------------------------------------
(* Sleeping threads and the speaker.                                       *)
SleepTypes ==
  /\ ticks \in Nat /\ gate \in BOOLEAN
  /\ sleeper \in [Printers -> [at : {"awake", "sleep", "beep", "slept"}, start : Nat, for : Int]]

(* timer.c and speaker.c: who has slept has slept long enough, and the     *)
(* speaker sounds only while somebody beeps, for any number of threads and *)
(* any ticks.                                                              *)
THEOREM SleepsAlwaysRight ==
  ASSUME Sleeps \subseteq Int
  PROVE  TimerSpec => []SleepsRight
<1>1. TimerInit => SleepTypes /\ SleepsRight
  <2> SUFFICES ASSUME TimerInit PROVE SleepTypes /\ SleepsRight
    OBVIOUS
  <2>1. Awake \in [at : {"awake", "sleep", "beep", "slept"}, start : Nat, for : Int]
        /\ Awake.at = "awake"
    BY DEF Awake
  <2>2. \A t \in Printers : sleeper[t] = Awake
    BY DEF TimerInit
  <2>3. SleepTypes
    BY <2>1 DEF TimerInit, SleepTypes
  <2>4. SleepsRight
    BY <2>1, <2>2 DEF TimerInit, SleepsRight
  <2> QED BY <2>3, <2>4
<1>2. SleepTypes /\ SleepsRight /\ [TimerNext]_timerVars => (SleepTypes /\ SleepsRight)'
  <2> SUFFICES ASSUME SleepTypes, SleepsRight, [TimerNext]_timerVars
               PROVE  (SleepTypes /\ SleepsRight)'
    OBVIOUS
  <2>1. CASE TimerInterrupt
    BY <2>1 DEF TimerInterrupt, SleepTypes, SleepsRight, Elapsed
  <2>2. ASSUME NEW t \in Printers, NEW n \in Sleeps, TimerSleep(t, n)
        PROVE  (SleepTypes /\ SleepsRight)'
    BY <2>2 DEF TimerSleep, SleepTypes, SleepsRight, Elapsed
  <2>3. ASSUME NEW t \in Printers, NEW n \in Sleeps, SpeakerBeep(t, n)
        PROVE  (SleepTypes /\ SleepsRight)'
    BY <2>3 DEF SpeakerBeep, SleepTypes, SleepsRight, Elapsed
  <2>4. ASSUME NEW t \in Printers, SleepReturns(t)
        PROVE  (SleepTypes /\ SleepsRight)'
    BY <2>4 DEF SleepReturns, SleepOver, SleepTypes, SleepsRight, Elapsed
  <2>5. ASSUME NEW t \in Printers, SpeakerOff(t)
        PROVE  (SleepTypes /\ SleepsRight)'
    BY <2>5 DEF SpeakerOff, SleepOver, SleepTypes, SleepsRight, Elapsed
  <2>6. ASSUME NEW t \in Printers, WakeUp(t)
        PROVE  (SleepTypes /\ SleepsRight)'
    BY <2>6 DEF WakeUp, Awake, SleepTypes, SleepsRight, Elapsed
  <2>7. CASE UNCHANGED timerVars
    BY <2>7 DEF timerVars, SleepTypes, SleepsRight, Elapsed
  <2> QED BY <2>1, <2>2, <2>3, <2>4, <2>5, <2>6, <2>7 DEF TimerNext
<1> QED BY <1>1, <1>2, PTL DEF TimerSpec

-----------------------------------------------------------------------------
(* The real-time clock.                                                    *)
ClockValues == [sec : 0..(ClockRadix - 1), min : 0..(ClockRadix - 1), hour : 0..(ClockRadix - 1)]

RtcTypes ==
  /\ rtcClock \in ClockValues
  /\ rtcRead \in [at : {"sec", "min", "hour", "check", "done"}, sec : 0..(ClockRadix - 1),
                  min : 0..(ClockRadix - 1), hour : 0..(ClockRadix - 1), beats : 0..MaxBeats]

(* Once the seconds are read, they tell how often the clock has beaten     *)
(* since, and while it has not, what was read is what it shows.            *)
SecondsTell ==
  rtcRead.at \in {"min", "hour", "check"} =>
    LET now == rtcRead.sec + rtcRead.beats
    IN  /\ rtcClock.sec = IF now < ClockRadix THEN now ELSE now - ClockRadix
        /\ rtcRead.beats = 0 =>
             /\ rtcRead.at \in {"hour", "check"} => rtcRead.min = rtcClock.min
             /\ rtcRead.at = "check" => rtcRead.hour = rtcClock.hour
        /\ rtcClock \in rtcSeen

RtcInv == RtcTypes /\ SecondsTell /\ RtcSnapshot

LEMMA RtcUpdateKeeps ==
  ASSUME BeatBound, ClockRadix \in Nat, MaxBeats \in Nat, RtcInv, RtcUpdate
  PROVE  RtcInv'
<1>1. /\ rtcClock \in ClockValues /\ rtcRead.beats \in 0..MaxBeats /\ rtcRead.sec \in 0..(ClockRadix - 1)
      /\ rtcRead.beats < MaxBeats /\ MaxBeats < ClockRadix /\ rtcRead.at # "done"
  BY DEF RtcInv, RtcTypes, RtcUpdate, BeatBound
<1>2. /\ rtcClock' \in ClockValues
      /\ rtcClock'.sec = IF rtcClock.sec + 1 < ClockRadix THEN rtcClock.sec + 1 ELSE 0
  <2>1. (rtcClock.hour + 1) % ClockRadix \in 0..(ClockRadix - 1)
    BY <1>1 DEF ClockValues
  <2>2. /\ rtcClock.sec \in 0..(ClockRadix - 1) /\ rtcClock.min \in 0..(ClockRadix - 1)
        /\ rtcClock.hour \in 0..(ClockRadix - 1) /\ 0 \in 0..(ClockRadix - 1)
        /\ rtcClock = [sec |-> rtcClock.sec, min |-> rtcClock.min, hour |-> rtcClock.hour]
        /\ rtcClock' = Beat(rtcClock)
    BY <1>1 DEF RtcUpdate, ClockValues
  <2>3. CASE rtcClock.sec + 1 < ClockRadix
    <3>1. rtcClock' = [sec |-> rtcClock.sec + 1, min |-> rtcClock.min, hour |-> rtcClock.hour]
      BY <2>2, <2>3 DEF Beat
    <3> QED BY <2>2, <2>3, <3>1 DEF ClockValues
  <2>4. CASE ~(rtcClock.sec + 1 < ClockRadix) /\ rtcClock.min + 1 < ClockRadix
    <3>1. rtcClock' = [sec |-> 0, min |-> rtcClock.min + 1, hour |-> rtcClock.hour]
      BY <2>2, <2>4 DEF Beat
    <3> QED BY <2>2, <2>4, <3>1 DEF ClockValues
  <2>5. CASE ~(rtcClock.sec + 1 < ClockRadix) /\ ~(rtcClock.min + 1 < ClockRadix)
    <3>1. rtcClock' = [sec |-> 0, min |-> 0, hour |-> (rtcClock.hour + 1) % ClockRadix]
      BY <2>2, <2>5 DEF Beat
    <3> QED BY <2>1, <2>2, <2>5, <3>1 DEF ClockValues
  <2> QED BY <2>3, <2>4, <2>5
<1>3. /\ rtcRead' = [rtcRead EXCEPT !.beats = @ + 1] /\ rtcClock' \in rtcSeen'
  BY DEF RtcUpdate
<1>4. /\ rtcRead'.at = rtcRead.at /\ rtcRead'.beats = rtcRead.beats + 1
      /\ rtcRead'.sec = rtcRead.sec
  BY <1>3 DEF RtcInv, RtcTypes
<1>5. RtcTypes'
  BY <1>1, <1>2, <1>3 DEF RtcInv, RtcTypes
<1>6. rtcClock.sec \in 0..(ClockRadix - 1)
  BY <1>1 DEF ClockValues
<1>7. SecondsTell'
  BY <1>1, <1>2, <1>3, <1>4, <1>6 DEF RtcInv, SecondsTell
<1>8. RtcSnapshot'
  BY <1>1, <1>4 DEF RtcSnapshot
<1> QED BY <1>5, <1>7, <1>8 DEF RtcInv

(* rtc.c: the time that is read is one that the clock showed, never parts  *)
(* of two, as long as the clock does not go once around its seconds while  *)
(* it is read: for clocks and attempts of any length.                      *)
THEOREM SnapshotsAlwaysWhole ==
  ASSUME BeatBound, ClockRadix \in Nat, MaxBeats \in Nat
  PROVE  RtcSpec => []RtcSnapshot
<1>1. RtcInit => RtcInv
  BY DEF RtcInit, RtcInv, RtcTypes, SecondsTell, RtcSnapshot, ClockValues, BeatBound
<1>2. RtcInv /\ [RtcNext]_rtcVars => RtcInv'
  <2> SUFFICES ASSUME RtcInv, [RtcNext]_rtcVars PROVE RtcInv'
    OBVIOUS
  <2>0. /\ rtcClock.sec \in 0..(ClockRadix - 1) /\ rtcClock.min \in 0..(ClockRadix - 1)
        /\ rtcClock.hour \in 0..(ClockRadix - 1) /\ rtcRead.sec \in 0..(ClockRadix - 1)
        /\ rtcRead.beats \in 0..MaxBeats /\ MaxBeats < ClockRadix
        /\ rtcClock = [sec |-> rtcClock.sec, min |-> rtcClock.min, hour |-> rtcClock.hour]
    BY DEF RtcInv, RtcTypes, ClockValues, BeatBound
  <2>1. CASE RtcReads("sec", "min")
    <3>1. /\ rtcRead' = [rtcRead EXCEPT !.sec = rtcClock.sec, !.at = "min", !.beats = 0]
          /\ rtcClock' = rtcClock /\ rtcSeen' = {rtcClock}
      BY <2>1 DEF RtcReads
    <3>2. /\ rtcRead' = [at |-> "min", sec |-> rtcClock.sec, min |-> rtcRead.min,
                          hour |-> rtcRead.hour, beats |-> 0]
          /\ rtcRead.min \in 0..(ClockRadix - 1) /\ rtcRead.hour \in 0..(ClockRadix - 1)
      BY <3>1 DEF RtcInv, RtcTypes
    <3>3. RtcTypes'
      BY <2>0, <3>1, <3>2 DEF RtcInv, RtcTypes
    <3> QED BY <2>0, <3>1, <3>2, <3>3 DEF RtcInv, SecondsTell, RtcSnapshot
  <2>2. CASE RtcReads("min", "hour")
    BY <2>0, <2>2 DEF RtcReads, RtcInv, RtcTypes, SecondsTell, RtcSnapshot
  <2>3. CASE RtcReads("hour", "check")
    BY <2>0, <2>3 DEF RtcReads, RtcInv, RtcTypes, SecondsTell, RtcSnapshot
  <2>4. CASE RtcCheck
    <3>1. /\ rtcRead.at = "check" /\ rtcClock' = rtcClock /\ rtcSeen' = rtcSeen
          /\ rtcRead' = [rtcRead EXCEPT !.at = IF RtcStable THEN "done" ELSE "sec"]
      BY <2>4 DEF RtcCheck
    <3>2. RtcStable => rtcRead.beats = 0
      BY <2>0, <3>1 DEF RtcStable, RtcInv, SecondsTell
    <3>3. RtcStable => [sec |-> rtcRead.sec, min |-> rtcRead.min, hour |-> rtcRead.hour] = rtcClock
                       /\ rtcClock \in rtcSeen
      BY <2>0, <3>1, <3>2 DEF RtcStable, RtcInv, SecondsTell
    <3>4. RtcTypes' /\ rtcRead'.at \in {"done", "sec"} /\ (rtcRead'.at = "done" => RtcStable)
      BY <3>1 DEF RtcInv, RtcTypes
    <3>5. rtcRead'.sec = rtcRead.sec /\ rtcRead'.min = rtcRead.min /\ rtcRead'.hour = rtcRead.hour
      BY <3>1 DEF RtcInv, RtcTypes
    <3> QED BY <3>1, <3>3, <3>4, <3>5 DEF RtcInv, SecondsTell, RtcSnapshot
  <2>5. CASE UNCHANGED rtcVars
    BY <2>5 DEF rtcVars, RtcInv, RtcTypes, SecondsTell, RtcSnapshot
  <2> QED BY <2>1, <2>2, <2>3, <2>4, <2>5, RtcUpdateKeeps DEF RtcNext
<1>3. RtcInv => RtcSnapshot
  BY DEF RtcInv
<1> QED BY <1>1, <1>2, <1>3, PTL DEF RtcSpec
=============================================================================
