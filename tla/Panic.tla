-------------------------------- MODULE Panic --------------------------------
(***************************************************************************)
(* The end of a Pintos machine: debug_panic() of lib/kernel/debug.c, which *)
(* may fail again in what it does itself, and devices/shutdown.c.  A part  *)
(* of the kernel that is broken panics every time it is used.              *)
(***************************************************************************)
EXTENDS Naturals

VARIABLES
  how,        \* as set by shutdown_configure()
  broken,     \* the parts that panic when they are used
  panicLevel, \* level of debug_panic(), which tells 1, 2 and more apart
  doing,      \* the step that is executed
  interrupts, \* "on" or "off"
  said        \* what was printed of the panics

panicVars == <<how, broken, panicLevel, doing, interrupts, said>>

Parts == {"print", "flush", "filesys"}
Types == {"none", "power_off", "reboot"}
Ended == {"spinning", "off", "rebooted"}

PanicInit ==
  /\ how = "none" /\ broken \in SUBSET Parts
  /\ panicLevel = 0 /\ doing = "running" /\ interrupts = "on" /\ said = {}

(* shutdown_configure(), called when the command line is parsed.           *)
ShutdownConfigure(type) ==
  /\ doing = "running" /\ how = "none" /\ how' = type
  /\ UNCHANGED <<broken, panicLevel, doing, interrupts, said>>

(* Mutant: the level is not raised.                                        *)
DebugPanicFlat ==
  /\ interrupts' = "off"
  /\ panicLevel' = 1
  /\ doing' = "report"

(* debug_panic(), to the comparison of its level.                          *)
DebugPanic ==
  /\ interrupts' = "off"
  /\ panicLevel' = IF panicLevel < 3 THEN panicLevel + 1 ELSE 3
  /\ doing' = IF panicLevel < 2 THEN "report" ELSE "flush"

(* A step of the current activity that uses a part of the kernel.          *)
Uses(part, next) ==
  IF part \in broken
    THEN DebugPanic
    ELSE doing' = next /\ UNCHANGED <<panicLevel, interrupts>>

(* An assertion fails in the running system.                               *)
AssertionFails ==
  /\ doing = "running" /\ DebugPanic
  /\ UNCHANGED <<how, broken, said>>

Report ==
  /\ doing = "report" /\ Uses("print", "flush")
  /\ said' = said \cup {IF panicLevel = 1 THEN "panic" ELSE "recursion"}
  /\ UNCHANGED <<how, broken>>

PanicFlush ==
  /\ doing = "flush" /\ Uses("flush", "shutdown")
  /\ UNCHANGED <<how, broken, said>>

(* shutdown() returns when nothing is configured, and the panic spins.     *)
Shutdown ==
  /\ doing = "shutdown"
  /\ doing' = CASE how = "power_off" -> "filesys_done"
                [] how = "reboot"    -> "announce"
                [] OTHER             -> "spinning"
  /\ UNCHANGED <<how, broken, panicLevel, interrupts, said>>

(* The kernel's tasks are done, or halt() was called.                      *)
Finishes ==
  /\ doing = "running"
  /\ doing' = IF how = "none" THEN "running" ELSE "shutdown"
  /\ UNCHANGED <<how, broken, panicLevel, interrupts, said>>

(* shutdown_power_off()                                                    *)
PowerOffFilesys ==
  /\ doing = "filesys_done" /\ Uses("filesys", "stats")
  /\ UNCHANGED <<how, broken, said>>
PrintStats ==
  /\ doing = "stats" /\ Uses("print", "last_flush")
  /\ UNCHANGED <<how, broken, said>>
PowerOff ==
  /\ doing = "last_flush" /\ Uses("flush", "off")
  /\ UNCHANGED <<how, broken, said>>

(* shutdown_reboot()                                                       *)
ShutdownReboot ==
  /\ doing = "announce" /\ Uses("print", "rebooted")
  /\ UNCHANGED <<how, broken, said>>

PanicStep == Report \/ PanicFlush \/ Shutdown \/ PowerOffFilesys \/ PrintStats
             \/ PowerOff \/ ShutdownReboot

PanicNext == (\E type \in Types \ {"none"} : ShutdownConfigure(type))
             \/ AssertionFails \/ Finishes \/ PanicStep

(* debug_panic() says why it distinguishes levels: "Don't print anything:  *)
(* that's probably why we recursed."  Where the machine does not shut      *)
(* itself down, a panic comes to its final loop even though all printing   *)
(* fails, and where it does, when nothing else is broken.                  *)
PanicEnds ==
  (doing = "report" /\ IF how = "none" THEN broken \subseteq {"print", "filesys"}
                                       ELSE broken = {})
    ~> doing \in Ended
=============================================================================
