-------------------------------- MODULE Ide ---------------------------------
(***************************************************************************)
(* The IDE driver: one channel of devices/ide.c with the disks attached to *)
(* it, reached through block_read() and block_write() of devices/block.c.  *)
(*                                                                         *)
(* Threads go through ide_read() and ide_write() under the channel's lock; *)
(* a step is what happens between two accesses to the controller or to the *)
(* semaphore.  The controller and its disks (Complete*, Spurious) are      *)
(* external: they behave as the driver expects of an ATA device, answer    *)
(* before the driver's timeouts, and never fail a command.                 *)
(***************************************************************************)
EXTENDS Integers, FiniteSets

CONSTANTS
  Thread, Nobody,
  Disk,          \* the devices on the channel
  Sector, Value, \* sectors of a disk, and what a sector may hold
  Blank,         \* what every sector holds at first
  MaxRequests,   \* bound on requests
  MaxSpurious    \* bound on interrupts that no command asked for

ASSUME IdeThreads == Nobody \notin Thread
ASSUME IdeDisks == Disk # {} /\ Sector # {}
ASSUME IdeValues == Blank \in Value
ASSUME IdeBounds == MaxRequests \in Nat /\ MaxSpurious \in Nat

VARIABLES
  lock, expecting_interrupt, completion_wait, \* struct channel
  reg,                 \* the selected disk and sector
  dev,                 \* the state of the controller
  data,                \* what is on the disks, and what is in the data register
  dataReg,
  irq,                 \* the channel's interrupt is pending
  pc, req, buffer,     \* threads
  stored,              \* what the last write of a sector passed to the driver
  requests, spurious   \* what is left of the bounds

channel == <<lock, expecting_interrupt, completion_wait>>
controller == <<reg, dev, data, dataReg, irq>>
threads == <<pc, req, buffer>>
bounds == <<requests, spurious>>
vars == <<channel, controller, threads, stored, bounds>>

Device == {"idle", "reading", "readable", "preparing", "writable", "writing"}
Busy == dev \in {"reading", "preparing", "writing"}  \* STA_BSY
DataRequest == dev \in {"readable", "writable"}      \* STA_DRQ

Request ==
  {r \in [op : {"read", "write"}, disk : Disk, sector : Sector, value : Value] :
     r.op = "read" => r.value = Blank}
NoRequest == [op |-> "read", disk |-> CHOOSE d \in Disk : TRUE,
              sector |-> CHOOSE s \in Sector : TRUE, value |-> Blank]

(* ide_init() of the channel                                               *)
Init ==
  /\ lock = Nobody /\ expecting_interrupt = FALSE /\ completion_wait = 0
  /\ reg = [disk |-> NoRequest.disk, sector |-> NoRequest.sector]
  /\ dev = "idle" /\ irq = FALSE
  /\ data = [d \in Disk |-> [s \in Sector |-> Blank]]
  /\ dataReg = Blank
  /\ pc = [t \in Thread |-> "out"]
  /\ req = [t \in Thread |-> NoRequest]
  /\ buffer = [t \in Thread |-> Blank]
  /\ stored = data
  /\ requests = MaxRequests
  /\ spurious = MaxSpurious

Step(t, from, to) == pc[t] = from /\ pc' = [pc EXCEPT ![t] = to]

-----------------------------------------------------------------------------
(* block_read() or block_write() calls the driver.                         *)
Call(t, r) ==
  /\ requests > 0
  /\ Step(t, "out", "lock")
  /\ req' = [req EXCEPT ![t] = r]
  /\ requests' = requests - 1
  /\ UNCHANGED <<channel, controller, buffer, stored, spurious>>

LockAcquire(t) ==
  /\ lock = Nobody
  /\ lock' = t
  /\ Step(t, "lock", "select")
  /\ UNCHANGED <<expecting_interrupt, completion_wait, controller, req, buffer, stored, bounds>>

(* wait_until_idle(), before the device is selected and again after; to    *)
(* read the status clears a pending interrupt.                             *)
WaitUntilIdle(t) ==
  /\ ~Busy /\ ~DataRequest
  /\ irq' = FALSE
  /\ \/ Step(t, "select", "device")
     \/ Step(t, "selected", "sector")
  /\ UNCHANGED <<channel, reg, dev, data, dataReg, req, buffer, stored, bounds>>

(* select_device()                                                         *)
SelectDevice(t) ==
  /\ Step(t, "device", "selected")
  /\ reg' = [reg EXCEPT !.disk = req[t].disk]
  /\ UNCHANGED <<channel, dev, data, dataReg, irq, req, buffer, stored, bounds>>

(* The rest of select_sector()                                             *)
SelectSector(t) ==
  /\ Step(t, "sector", "issue")
  /\ reg' = [disk |-> req[t].disk, sector |-> req[t].sector]
  /\ UNCHANGED <<channel, dev, data, dataReg, irq, req, buffer, stored, bounds>>

(* Mutant: no interrupt is announced to the handler.                       *)
IssueUnexpected(t) ==
  /\ IF req[t].op = "read" THEN Step(t, "issue", "down") /\ dev' = "reading"
                           ELSE Step(t, "issue", "busy") /\ dev' = "preparing"
  /\ UNCHANGED <<channel, reg, data, dataReg, irq, req, buffer, stored, bounds>>

(* issue_pio_command()                                                     *)
IssuePioCommand(t) ==
  /\ IF req[t].op = "read" THEN Step(t, "issue", "down") /\ dev' = "reading"
                           ELSE Step(t, "issue", "busy") /\ dev' = "preparing"
  /\ expecting_interrupt' = TRUE
  /\ UNCHANGED <<lock, completion_wait, reg, data, dataReg, irq, req, buffer, stored, bounds>>

(* Mutant: a read trusts the interrupt and does not wait for BSY to clear. *)
SemaDownTransfers(t) ==
  /\ completion_wait > 0
  /\ completion_wait' = completion_wait - 1
  /\ Step(t, "down", IF req[t].op = "read" THEN "transfer" ELSE "unlock")
  /\ UNCHANGED <<lock, expecting_interrupt, controller, req, buffer, stored, bounds>>

(* sema_down(&completion_wait): in the middle of a read, at the end of a   *)
(* write.                                                                  *)
SemaDown(t) ==
  /\ completion_wait > 0
  /\ completion_wait' = completion_wait - 1
  /\ Step(t, "down", IF req[t].op = "read" THEN "busy" ELSE "unlock")
  /\ UNCHANGED <<lock, expecting_interrupt, controller, req, buffer, stored, bounds>>

(* Mutant: the status is looked at once, busy or not.                      *)
WaitWhileBusyOnce(t) ==
  /\ Step(t, "busy", IF DataRequest THEN "transfer" ELSE "panic")
  /\ UNCHANGED <<channel, controller, req, buffer, stored, bounds>>

(* wait_while_busy(): the driver panics when the device requests no data.  *)
WaitWhileBusy(t) ==
  /\ ~Busy
  /\ Step(t, "busy", IF DataRequest THEN "transfer" ELSE "panic")
  /\ UNCHANGED <<channel, controller, req, buffer, stored, bounds>>

(* input_sector()                                                          *)
InputSector(t) ==
  /\ req[t].op = "read"
  /\ Step(t, "transfer", "unlock")
  /\ buffer' = [buffer EXCEPT ![t] = dataReg]
  /\ dev' = "idle"
  /\ UNCHANGED <<channel, reg, data, dataReg, irq, req, stored, bounds>>

(* Mutant: the driver does not wait for the end of a write.                *)
OutputSectorNoWait(t) ==
  /\ req[t].op = "write"
  /\ Step(t, "transfer", "unlock")
  /\ dataReg' = req[t].value
  /\ dev' = "writing"
  /\ stored' = [stored EXCEPT ![req[t].disk][req[t].sector] = req[t].value]
  /\ UNCHANGED <<channel, reg, data, irq, req, buffer, bounds>>

(* output_sector()                                                         *)
OutputSector(t) ==
  /\ req[t].op = "write"
  /\ Step(t, "transfer", "down")
  /\ dataReg' = req[t].value
  /\ dev' = "writing"
  /\ stored' = [stored EXCEPT ![req[t].disk][req[t].sector] = req[t].value]
  /\ UNCHANGED <<channel, reg, data, irq, req, buffer, bounds>>

(* lock_release(), and the return from the driver.                         *)
LockRelease(t) ==
  /\ Step(t, "unlock", "out")
  /\ lock' = Nobody
  /\ req' = [req EXCEPT ![t] = NoRequest]
  /\ buffer' = [buffer EXCEPT ![t] = Blank]
  /\ UNCHANGED <<expecting_interrupt, completion_wait, controller, stored, bounds>>

(* interrupt_handler()                                                     *)
InterruptHandler ==
  /\ irq /\ irq' = FALSE
  /\ completion_wait' = completion_wait + IF expecting_interrupt THEN 1 ELSE 0
  /\ UNCHANGED <<lock, expecting_interrupt, reg, dev, data, dataReg, threads, stored, bounds>>

-----------------------------------------------------------------------------
(* The controller accepts the data of a write, without an interrupt.       *)
PrepareWrite ==
  /\ dev = "preparing"
  /\ dev' = "writable"
  /\ UNCHANGED <<channel, reg, data, dataReg, irq, threads, stored, bounds>>

(* The controller has read the sector, and has written the sector.         *)
CompleteRead ==
  /\ dev = "reading"
  /\ dev' = "readable" /\ irq' = TRUE
  /\ dataReg' = data[reg.disk][reg.sector]
  /\ UNCHANGED <<channel, reg, data, threads, stored, bounds>>

CompleteWrite ==
  /\ dev = "writing"
  /\ dev' = "idle" /\ irq' = TRUE
  /\ data' = [data EXCEPT ![reg.disk][reg.sector] = dataReg]
  /\ UNCHANGED <<channel, reg, dataReg, threads, stored, bounds>>

(* An interrupt that no command asked for: the case of "unexpected         *)
(* interrupt" in interrupt_handler().                                      *)
Spurious ==
  /\ spurious > 0 /\ ~irq
  /\ spurious' = spurious - 1
  /\ irq' = TRUE
  /\ UNCHANGED <<channel, reg, dev, data, dataReg, threads, stored, requests>>

ThreadStep(t) ==
  \/ LockAcquire(t) \/ WaitUntilIdle(t) \/ SelectDevice(t) \/ SelectSector(t)
  \/ IssuePioCommand(t) \/ SemaDown(t) \/ WaitWhileBusy(t)
  \/ InputSector(t) \/ OutputSector(t) \/ LockRelease(t)

Next ==
  \/ \E t \in Thread, r \in Request : Call(t, r)
  \/ \E t \in Thread : ThreadStep(t)
  \/ InterruptHandler \/ PrepareWrite \/ CompleteRead \/ CompleteWrite \/ Spurious

Spec == Init /\ [][Next]_vars

(* The scheduler runs every thread, the controller goes on with commands,  *)
(* and interrupts are delivered: they are on whenever a thread waits.      *)
FairSpec ==
  /\ Spec
  /\ \A t \in Thread : WF_vars(ThreadStep(t))
  /\ WF_vars(InterruptHandler)
  /\ WF_vars(PrepareWrite) /\ WF_vars(CompleteRead) /\ WF_vars(CompleteWrite)

-----------------------------------------------------------------------------
Steps == {"out", "lock", "select", "device", "selected", "sector", "issue", "down",
          "busy", "transfer", "unlock", "panic"}

(* Type correctness; the semaphore is never taken below zero.              *)
TypeOK ==
  /\ lock \in Thread \cup {Nobody} /\ expecting_interrupt \in BOOLEAN
  /\ completion_wait \in Nat
  /\ reg \in [disk : Disk, sector : Sector]
  /\ dev \in Device /\ irq \in BOOLEAN
  /\ data \in [Disk -> [Sector -> Value]] /\ stored \in [Disk -> [Sector -> Value]]
  /\ dataReg \in Value
  /\ pc \in [Thread -> Steps]
  /\ req \in [Thread -> Request]
  /\ buffer \in [Thread -> Value]
  /\ requests \in Nat /\ spurious \in Nat

(* A read returns what was last written to that sector of that disk,       *)
(* whatever the other threads and the other disk do on the channel.        *)
ReadsRight ==
  \A t \in Thread : (pc[t] = "unlock" /\ req[t].op = "read") =>
    buffer[t] = stored[req[t].disk][req[t].sector]

(* wait_while_busy() always finds the data request it expects.             *)
NoPanic == \A t \in Thread : pc[t] # "panic"

(* ide.c:328: ide_write() "Returns after the disk has acknowledged         *)
(* receiving the data."                                                    *)
WriteAcknowledged ==
  \A t \in Thread : (pc[t] = "unlock" /\ req[t].op = "write") =>
    dev = "idle" /\ data[req[t].disk][req[t].sector] = req[t].value

(* No interrupt so far but those of completed commands.                    *)
NoneSpurious == spurious = MaxSpurious

(* As long as no interrupt was spurious, ide_write() returns after the     *)
(* disk has the data.                                                      *)
WriteSafe == NoneSpurious => WriteAcknowledged

(* As long as no interrupt was spurious, there is one completion for each  *)
(* command, and for nothing else: while a thread is to go down on          *)
(* completion_wait for a command it issued, exactly one of the command in  *)
(* the disk, the pending interrupt and the semaphore stands for it; at all *)
(* other times there is none.                                              *)
Awaiting == \E t \in Thread : pc[t] = "down"
CompletionExact ==
  NoneSpurious =>
    (IF dev \in {"reading", "writing"} THEN 1 ELSE 0) + (IF irq THEN 1 ELSE 0)
      + completion_wait = IF Awaiting THEN 1 ELSE 0

(* Every request to the driver is served: no interrupt is lost between the *)
(* semaphore, the status register and the handler.                         *)
AllServed == \A t \in Thread : (pc[t] = "lock") ~> (pc[t] = "out")
=============================================================================
