----------------------------- MODULE Interrupts -----------------------------
(***************************************************************************)
(* threads/interrupt.c with the two 8259A controllers it programs: the    *)
(* descriptor table, the registration of handlers while the machine       *)
(* boots, intr_handler() and the threads it interrupts.  The body of a     *)
(* handler is left open: an external one may ask to yield, an internal one *)
(* runs for a while and can be interrupted.                                *)
(***************************************************************************)
EXTENDS Naturals, Sequences

CONSTANTS
  KThread,      \* kernel threads
  Boots,        \* the thread that runs pintos_init()
  MaxRaised,    \* interrupts the devices raise
  MaxFaults     \* exceptions and system calls of the threads

VARIABLES
  registry,         \* idt[] and intr_handlers[] of the vectors in use
  registering,      \* the calls of intr_register_*() still to come
  in_external_intr, yield_on_return, unexpected_cnt,
  irr, master, slave,   \* the controllers: requests, lines in service
  onCpu, level,   \* the running thread, the interrupt flag of each
  frames,           \* the interrupt frames on each thread's stack
  raised, faults    \* what is left of the bounds

intrVars == <<registry, registering, in_external_intr, yield_on_return,
              unexpected_cnt, irr, master, slave, onCpu, level, frames,
              raised, faults>>
controllers == <<irr, master, slave>>
table == <<registry, registering>>

Timer == 32
Spurious7 == 39
Ide0 == 46
Ide1 == 47
External(v) == v >= 32 /\ v < 48

(* make_gate(): an interrupt gate turns interrupts off, a trap gate does   *)
(* not.                                                                    *)
MakeGate(dpl, type) == [dpl |-> dpl, type |-> type]
MakeIntrGate(dpl) == MakeGate(dpl, "intr")
MakeTrapGate(dpl) == MakeGate(dpl, "trap")

(* The calls of intr_register_ext() and intr_register_int() in the order   *)
(* of pintos_init(): some before thread_start() turns interrupts on, the   *)
(* disks' after it.                                                        *)
ExtReg(v) == [op |-> "ext", vec |-> v, dpl |-> 0, level |-> "off"]
IntReg(v, dpl, l) == [op |-> "int", vec |-> v, dpl |-> dpl, level |-> l]
ThreadStart == [op |-> "start", vec |-> 0, dpl |-> 0, level |-> "on"]
ExceptionInit == <<IntReg(3, 3, "on"), IntReg(13, 0, "on"), IntReg(14, 0, "off")>>
SyscallInit == <<IntReg(48, 3, "on")>>
IdeInit == <<ExtReg(Ide0), ExtReg(Ide1)>>
Registrations == <<ExtReg(Timer)>> \o ExceptionInit \o SyscallInit
                 \o <<ThreadStart>> \o IdeInit

Vectors == {3, 13, 14, 48, Timer, Spurious7, Ide0, Ide1}

(* intr_init(): every vector has an interrupt gate and no handler.         *)
IntrInit == [v \in Vectors |-> [gate |-> MakeIntrGate(0), handler |-> FALSE]]

(* pic_init(): all lines unmasked, none in service.                        *)
PicInit == irr = {} /\ master = {} /\ slave = {}

InterruptsInit ==
  /\ registry = IntrInit /\ registering = Registrations
  /\ in_external_intr = FALSE /\ yield_on_return = FALSE
  /\ unexpected_cnt = [v \in Vectors |-> 0]
  /\ PicInit
  /\ onCpu = Boots /\ level = [t \in KThread |-> IF t = Boots THEN "off" ELSE "on"]
  /\ frames = [t \in KThread |-> <<>>]
  /\ raised = MaxRaised /\ faults = MaxFaults

-----------------------------------------------------------------------------
Top(t) == frames[t][Len(frames[t])]
At(t, stage) == frames[t] # <<>> /\ Top(t).at = stage
(* The thread runs its own code or the body of an internal handler.        *)
OwnCode(t) == onCpu = t /\ (frames[t] # <<>> =>
                /\ Top(t).at = "called" /\ ~External(Top(t).vec))

(* register_handler()                                                      *)
RegisterHandler(r) ==
  [registry EXCEPT ![r.vec] =
     [gate |-> IF r.level = "on" THEN MakeTrapGate(r.dpl) ELSE MakeIntrGate(r.dpl),
      handler |-> TRUE]]

Register ==
  /\ registering # <<>> /\ OwnCode(Boots) /\ frames[Boots] = <<>>
  /\ registering' = Tail(registering)
  /\ LET r == Head(registering)
     IN  IF r.op = "start"
           THEN level' = [level EXCEPT ![Boots] = "on"] /\ UNCHANGED registry
           ELSE registry' = RegisterHandler(r) /\ UNCHANGED level
  /\ UNCHANGED <<in_external_intr, yield_on_return, unexpected_cnt,
                 controllers, onCpu, frames, raised, faults>>

(* A device requests an interrupt.                                         *)
Raise(v) ==
  /\ raised > 0 /\ raised' = raised - 1
  /\ v \in {Timer, Ide0, Ide1} /\ irr' = irr \cup {v}
  /\ UNCHANGED <<table, in_external_intr, yield_on_return, unexpected_cnt,
                 master, slave, onCpu, level, frames, faults>>

Line(v) == IF v >= 40 THEN 2 ELSE v - 32
Blocked(v) == \/ \E l \in master : l <= Line(v)
              \/ v >= 40 /\ \E u \in slave : u <= v

(* The processor enters vector v: intrNN_stub and intr_entry.              *)
Enter(t, v) ==
  /\ frames' = [frames EXCEPT ![t] = Append(@, [vec |-> v, flag |-> level[t], at |-> "enter"])]
  /\ level' = [level EXCEPT ![t] = IF registry[v].gate.type = "intr" THEN "off" ELSE @]

(* The controllers deliver the most urgent request that is not blocked.    *)
Deliver(t, v) ==
  /\ onCpu = t /\ level[t] = "on"
  /\ v \in irr /\ ~Blocked(v) /\ \A u \in irr : ~Blocked(u) => Line(v) <= Line(u)
  /\ irr' = irr \ {v}
  /\ master' = master \cup {Line(v)}
  /\ slave' = IF v >= 40 THEN slave \cup {v} ELSE slave
  /\ Enter(t, v)
  /\ UNCHANGED <<table, in_external_intr, yield_on_return, unexpected_cnt,
                 onCpu, raised, faults>>

(* A request that went away: line 7 of a controller without a line in      *)
(* service; the slave's still has the master serve line 2.                 *)
DeliverSpurious(t, v) ==
  /\ onCpu = t /\ level[t] = "on" /\ raised > 0 /\ raised' = raised - 1
  /\ v \in {Spurious7, Ide1} /\ ~Blocked(v)
  /\ master' = IF v = Ide1 THEN master \cup {2} ELSE master
  /\ Enter(t, v)
  /\ UNCHANGED <<table, in_external_intr, yield_on_return, unexpected_cnt,
                 irr, slave, onCpu, faults>>

(* An exception or a system call of the running thread.                    *)
Fault(t, v) ==
  /\ OwnCode(t) /\ registering = <<>>
  /\ v \in {3, 13, 14, 48} /\ faults > 0 /\ faults' = faults - 1
  /\ Enter(t, v)
  /\ UNCHANGED <<table, in_external_intr, yield_on_return, unexpected_cnt,
                 controllers, onCpu, raised>>

-----------------------------------------------------------------------------
Stage(t, s) == [frames EXCEPT ![t][Len(frames[t])].at = s]

(* intr_handler(), to the call of the handler.                             *)
HandlerEntry(t) ==
  /\ onCpu = t /\ At(t, "enter")
  /\ IF External(Top(t).vec)
       THEN in_external_intr' = TRUE /\ yield_on_return' = FALSE
       ELSE UNCHANGED <<in_external_intr, yield_on_return>>
  /\ frames' = Stage(t, "called")
  /\ UNCHANGED <<table, unexpected_cnt, controllers, onCpu, level, raised, faults>>

(* page_fault() turns interrupts back on.                                  *)
PageFaultEnables(t) ==
  /\ OwnCode(t) /\ At(t, "called") /\ Top(t).vec = 14 /\ level[t] = "off"
  /\ level' = [level EXCEPT ![t] = "on"]
  /\ UNCHANGED <<table, in_external_intr, yield_on_return, unexpected_cnt,
                 controllers, onCpu, frames, raised, faults>>

(* The handler returns; timer_interrupt() may have called                  *)
(* intr_yield_on_return().  A vector without one is counted, except for    *)
(* the two that come spuriously.                                           *)
Unexpected(v) == ~registry[v].handler /\ v \notin {Spurious7, Ide1}

HandlerReturns(t, asks) ==
  /\ onCpu = t /\ At(t, "called")
  /\ LET v == Top(t).vec
     IN  /\ asks => v = Timer /\ registry[v].handler
         /\ yield_on_return' = (yield_on_return \/ asks)
         /\ unexpected_cnt' = IF Unexpected(v) THEN [unexpected_cnt EXCEPT ![v] = @ + 1]
                              ELSE unexpected_cnt
         /\ frames' = Stage(t, IF External(v) THEN "complete" ELSE "exit")
  /\ UNCHANGED <<table, in_external_intr, controllers, onCpu, level, raised, faults>>

First(S) == CHOOSE x \in S : \A y \in S : x <= y
Served(S) == IF S = {} THEN {} ELSE S \ {First(S)}

(* Mutant: the slave is not acknowledged.                                  *)
EndOfInterruptMaster(v) == master' = Served(master) /\ UNCHANGED slave

(* pic_end_of_interrupt(): an unspecific acknowledgement, which ends the   *)
(* most urgent line in service of a controller.                            *)
EndOfInterrupt(v) ==
  /\ master' = Served(master)
  /\ slave' = IF v >= 40 THEN Served(slave) ELSE slave

(* Mutant: the thread yields before the interrupt is completed.            *)
HandlerCompleteYields(t) ==
  /\ onCpu = t /\ At(t, "complete")
  /\ IF yield_on_return
       THEN /\ onCpu' \in KThread /\ yield_on_return' = FALSE
            /\ UNCHANGED <<in_external_intr, master, slave, frames>>
       ELSE /\ in_external_intr' = FALSE /\ EndOfInterrupt(Top(t).vec)
            /\ frames' = Stage(t, "exit") /\ UNCHANGED <<onCpu, yield_on_return>>
  /\ UNCHANGED <<table, unexpected_cnt, irr, level, raised, faults>>

(* intr_handler(), after an external handler: completion, then the yield.  *)
HandlerComplete(t) ==
  /\ onCpu = t /\ At(t, "complete")
  /\ in_external_intr' = FALSE
  /\ EndOfInterrupt(Top(t).vec)
  /\ frames' = Stage(t, "exit")
  /\ IF yield_on_return THEN onCpu' \in KThread ELSE UNCHANGED onCpu
  /\ UNCHANGED <<table, yield_on_return, unexpected_cnt, irr, level, raised, faults>>

(* intr_exit: the interrupted code continues with its own flags.           *)
IntrExit(t) ==
  /\ onCpu = t /\ At(t, "exit")
  /\ level' = [level EXCEPT ![t] = Top(t).flag]
  /\ frames' = [frames EXCEPT ![t] = SubSeq(@, 1, Len(@) - 1)]
  /\ UNCHANGED <<table, in_external_intr, yield_on_return, unexpected_cnt,
                 controllers, onCpu, raised, faults>>

(* thread_yield() of a thread that runs its own code or a handler of its.  *)
ThreadYields(t) ==
  /\ OwnCode(t) /\ registering = <<>>
  /\ onCpu' \in KThread
  /\ UNCHANGED <<table, in_external_intr, yield_on_return, unexpected_cnt,
                 controllers, level, frames, raised, faults>>

InterruptsNext ==
  \/ Register
  \/ \E v \in Vectors : Raise(v)
  \/ \E t \in KThread :
       \/ \E v \in Vectors : Deliver(t, v) \/ DeliverSpurious(t, v) \/ Fault(t, v)
       \/ HandlerEntry(t) \/ PageFaultEnables(t) \/ HandlerComplete(t)
       \/ \E asks \in BOOLEAN : HandlerReturns(t, asks)
       \/ IntrExit(t) \/ ThreadYields(t)

InterruptsSpec == InterruptsInit /\ [][InterruptsNext]_intrVars

-----------------------------------------------------------------------------
Outstanding(t) == {n \in 1..Len(frames[t]) :
                     External(frames[t][n].vec) /\ frames[t][n].at # "exit"}

(* intr_handler(): external interrupts never nest and are acknowledged     *)
(* before anything else runs.  One is being handled exactly while its      *)
(* frame is on top of the running thread's stack, with interrupts off;     *)
(* when interrupts are on, or another thread has been scheduled, neither   *)
(* controller has a line in service, so that every later request can be    *)
(* delivered, whatever was raised spuriously, unregistered or through the  *)
(* slave in between.                                                       *)
InterruptsRight ==
  /\ \A t \in KThread \ {onCpu} : Outstanding(t) = {}
  /\ Outstanding(onCpu) \subseteq {Len(frames[onCpu])}
  /\ Outstanding(onCpu) # {} => level[onCpu] = "off"
  /\ Outstanding(onCpu) = {} => master = {} /\ slave = {} /\ ~in_external_intr
  /\ in_external_intr => Outstanding(onCpu) # {}
=============================================================================
