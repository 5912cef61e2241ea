-------------------------------- MODULE Shell -------------------------------
(***************************************************************************)
(* The shell of hw-shell/shell.c and the processes of a pipeline.          *)
(*                                                                         *)
(* For each line that is no built-in the shell forks and waits for that    *)
(* child.  The child forks once per command before the last, giving each   *)
(* the write end of a new pipe as its output, keeps the read end as its    *)
(* own input, and becomes the last command itself.  The read ends stay     *)
(* open under their old numbers, also in the children forked later.        *)
(*                                                                         *)
(* Command i of a line runs in process i and reads pipe i - 1 and writes   *)
(* pipe i.  Input is not a terminal, so the calls of tcsetpgrp() fail.     *)
(* Fork may fail (ForkFailures times).                                     *)
(***************************************************************************)
EXTENDS Integers, FiniteSets

CONSTANTS
  MaxCmds,      \* bound: commands in a pipeline
  Capacity,     \* units that a pipe holds
  Output,       \* units that a command writes on its own
  ForkFailures, \* bound: failing forks
  Lines         \* bound: lines of input

ShellBounds ==
  {MaxCmds, Capacity, Output, ForkFailures, Lines} \subseteq Nat /\ MaxCmds > 0

Cmd == 1..MaxCmds

VARIABLES
  shellPc,      \* the shell, or the process that runs its main() loop
  builder,      \* the child of the shell: where it is
  ncmds,            \* commands of the line
  atCmd,           \* the command that the child prepares
  cmdProc,         \* process i: "none", "setup", "runs" or "gone"
  cmdKind,         \* command i: a filter reads to the end of input, a source does not read
  pipeReaders, pipeWriters, \* processes that have pipe i open for reading, writing
  inPipe,       \* units in pipe i
  cmdWrote, cmdGot,   \* history: units that command i wrote and read
  sawEof,       \* history: commands that met the end of their input
  linesRead, forksFailed  \* bounds used up

shellVars == <<shellPc, builder, ncmds, atCmd, cmdProc, cmdKind, pipeReaders, pipeWriters, inPipe, cmdWrote, cmdGot,
               sawEof, linesRead, forksFailed>>
ioVars == <<inPipe, cmdWrote, cmdGot, sawEof>>
runVars == <<ncmds, cmdKind, linesRead>>

CmdKinds == {"source", "filter"}

ShellInit ==
  /\ shellPc = "read" /\ builder = "none" /\ ncmds = 1 /\ atCmd = 1
  /\ cmdProc = [i \in Cmd |-> "none"] /\ cmdKind = [i \in Cmd |-> "source"]
  /\ pipeReaders = [i \in Cmd |-> {}] /\ pipeWriters = [i \in Cmd |-> {}]
  /\ inPipe = [i \in Cmd |-> 0]
  /\ cmdWrote = [i \in Cmd |-> 0] /\ cmdGot = [i \in Cmd |-> 0]
  /\ sawEof = {}
  /\ linesRead = 0 /\ forksFailed = 0

(* The processes of the line before may still run: a new line is only read *)
(* when they have ended, so that process numbers can be used again.        *)
AllGone == \A i \in Cmd : cmdProc[i] \in {"none", "gone"}

-----------------------------------------------------------------------------
(* A line with `cmds' commands, and fork(): process n is the child.        *)
StartLine(cmds, kinds, shell) ==
  /\ shellPc = "read" /\ AllGone /\ linesRead < Lines
  /\ linesRead' = linesRead + 1
  /\ ncmds' = cmds /\ cmdKind' = kinds /\ atCmd' = 1
  /\ shellPc' = shell /\ builder' = "build"
  /\ cmdProc' = [i \in Cmd |-> IF i = cmds THEN "setup" ELSE "none"]
  /\ pipeReaders' = [i \in Cmd |-> {}] /\ pipeWriters' = [i \in Cmd |-> {}]
  /\ inPipe' = [i \in Cmd |-> 0]
  /\ cmdWrote' = [i \in Cmd |-> 0] /\ cmdGot' = [i \in Cmd |-> 0] /\ sawEof' = {}

(* main(): fgets(), lookup(), fork(), wait().                              *)
ReadLine(cmds, kinds) == StartLine(cmds, kinds, "wait") /\ UNCHANGED forksFailed

(* cmd_help(), cmd_pwd(), cmd_cd(): a built-in runs in the shell.          *)
BuiltIn ==
  /\ shellPc = "read" /\ linesRead < Lines
  /\ linesRead' = linesRead + 1
  /\ UNCHANGED <<shellPc, builder, atCmd, cmdProc, pipeReaders, pipeWriters, ioVars, forksFailed, ncmds, cmdKind>>

(* fork() fails: the else branch is taken by the shell itself, which       *)
(* becomes the last command and reads no further line.                     *)
ForkFailsInMain(cmds, kinds) ==
  /\ StartLine(cmds, kinds, "replaced")
  /\ forksFailed < ForkFailures /\ forksFailed' = forksFailed + 1

(* wait(NULL) returns when the child has ended, the other processes of     *)
(* the pipeline or not.                                                    *)
WaitReturnsShell ==
  /\ shellPc = "wait" /\ cmdProc[ncmds] = "gone"
  /\ shellPc' = "read" /\ builder' = "none"
  /\ UNCHANGED <<atCmd, cmdProc, pipeReaders, pipeWriters, ioVars, forksFailed, runVars>>

(* The end of the input, or cmd_exit().                                    *)
EndOfFile ==
  /\ shellPc = "read" /\ linesRead = Lines
  /\ shellPc' = "end"
  /\ UNCHANGED <<builder, atCmd, cmdProc, pipeReaders, pipeWriters, ioVars, forksFailed, runVars>>

-----------------------------------------------------------------------------
(* execute_progs() in the child: pipe() and fork() for command `at'.  The  *)
(* new process inherits every descriptor that the child has open.          *)
PipeFork ==
  /\ builder = "build" /\ atCmd < ncmds
  /\ builder' = "parent"
  /\ cmdProc' = [cmdProc EXCEPT ![atCmd] = "setup"]
  /\ pipeReaders' = [i \in Cmd |-> IF i = atCmd THEN {atCmd, ncmds}
                  ELSE IF ncmds \in pipeReaders[i] THEN pipeReaders[i] \cup {atCmd} ELSE pipeReaders[i]]
  /\ pipeWriters' = [pipeWriters EXCEPT ![atCmd] = {atCmd, ncmds}]
  /\ UNCHANGED <<shellPc, atCmd, ioVars, forksFailed, runVars>>

(* fork() fails there: the child returns to main() with both ends of the   *)
(* new pipe and goes on as a shell of its own, on its copy of the input    *)
(* (what it runs is left out), until that ends.                            *)
ForkFailsInChild ==
  /\ builder = "build" /\ atCmd < ncmds /\ forksFailed < ForkFailures
  /\ forksFailed' = forksFailed + 1
  /\ builder' = "secondShell"
  /\ pipeReaders' = [pipeReaders EXCEPT ![atCmd] = {ncmds}] /\ pipeWriters' = [pipeWriters EXCEPT ![atCmd] = {ncmds}]
  /\ UNCHANGED <<shellPc, atCmd, cmdProc, ioVars, runVars>>

SecondShellEnds ==
  /\ builder = "secondShell" /\ builder' = "none"
  /\ cmdProc' = [cmdProc EXCEPT ![ncmds] = "gone"]
  /\ pipeReaders' = [i \in Cmd |-> pipeReaders[i] \ {ncmds}] /\ pipeWriters' = [i \in Cmd |-> pipeWriters[i] \ {ncmds}]
  /\ UNCHANGED <<shellPc, atCmd, ioVars, forksFailed, runVars>>

(* Mutant: the child keeps the write end.                                  *)
ParentEndsKeep ==
  /\ builder = "parent" /\ builder' = "build" /\ atCmd' = atCmd + 1
  /\ UNCHANGED <<shellPc, cmdProc, pipeReaders, pipeWriters, ioVars, forksFailed, runVars>>

(* The child closes the write end and reads from the pipe from now on; the *)
(* read end that was its input before stays open.                          *)
ParentEnds ==
  /\ builder = "parent" /\ builder' = "build" /\ atCmd' = atCmd + 1
  /\ pipeWriters' = [pipeWriters EXCEPT ![atCmd] = @ \ {ncmds}]
  /\ UNCHANGED <<shellPc, cmdProc, pipeReaders, ioVars, forksFailed, runVars>>

(* execute_single_process() in the child: the last command.                *)
ExecLast ==
  /\ builder = "build" /\ atCmd = ncmds
  /\ builder' = "none"
  /\ cmdProc' = [cmdProc EXCEPT ![ncmds] = "runs"]
  /\ UNCHANGED <<shellPc, atCmd, pipeReaders, pipeWriters, ioVars, forksFailed, runVars>>

(* Mutant: a command that is found closes the write end of its pipe, and   *)
(* keeps the read end.                                                     *)
ExecFirstCloses(i, isFound) ==
  /\ cmdProc[i] = "setup" /\ i # ncmds
  /\ cmdProc' = [cmdProc EXCEPT ![i] = IF isFound THEN "runs" ELSE "gone"]
  /\ IF isFound
       THEN pipeWriters' = [pipeWriters EXCEPT ![i] = @ \ {i}] /\ UNCHANGED pipeReaders
       ELSE /\ pipeReaders' = [p \in Cmd |-> pipeReaders[p] \ {i}]
            /\ pipeWriters' = [p \in Cmd |-> pipeWriters[p] \ {i}]
  /\ UNCHANGED <<shellPc, builder, atCmd, ioVars, forksFailed, runVars>>

(* Command i < n: the read end is closed, the write end is the output, and *)
(* execute_single_process() executes it, or exits when it is not found.    *)
ExecFirst(i, isFound) ==
  /\ cmdProc[i] = "setup" /\ i # ncmds
  /\ cmdProc' = [cmdProc EXCEPT ![i] = IF isFound THEN "runs" ELSE "gone"]
  /\ IF isFound
       THEN pipeReaders' = [pipeReaders EXCEPT ![i] = @ \ {i}] /\ UNCHANGED pipeWriters
       ELSE /\ pipeReaders' = [p \in Cmd |-> pipeReaders[p] \ {i}]
            /\ pipeWriters' = [p \in Cmd |-> pipeWriters[p] \ {i}]
  /\ UNCHANGED <<shellPc, builder, atCmd, ioVars, forksFailed, runVars>>

-----------------------------------------------------------------------------
(* The commands, external programs: a filter reads its input to the end    *)
(* and writes a unit for each, a source writes Output units; then they     *)
(* exit.  The first command's input is empty.                              *)
Reads(i) ==
  /\ cmdProc[i] = "runs" /\ cmdKind[i] = "filter" /\ i > 1
  /\ inPipe[i - 1] > 0 /\ (i = ncmds \/ cmdWrote[i] = cmdGot[i])
  /\ inPipe' = [inPipe EXCEPT ![i - 1] = @ - 1] /\ cmdGot' = [cmdGot EXCEPT ![i] = @ + 1]
  /\ UNCHANGED <<shellPc, builder, atCmd, cmdProc, pipeReaders, pipeWriters, cmdWrote, sawEof, forksFailed, runVars>>

ReadsEof(i) ==
  /\ cmdProc[i] = "runs" /\ cmdKind[i] = "filter" /\ i \notin sawEof
  /\ i > 1 => inPipe[i - 1] = 0 /\ pipeWriters[i - 1] = {}
  /\ sawEof' = sawEof \cup {i}
  /\ UNCHANGED <<shellPc, builder, atCmd, cmdProc, pipeReaders, pipeWriters, inPipe, cmdWrote, cmdGot, forksFailed, runVars>>

HasOutput(i) == i < ncmds /\ cmdWrote[i] < IF cmdKind[i] = "filter" THEN cmdGot[i] ELSE Output

Writes(i) ==
  /\ cmdProc[i] = "runs" /\ HasOutput(i) /\ pipeReaders[i] # {} /\ inPipe[i] < Capacity
  /\ inPipe' = [inPipe EXCEPT ![i] = @ + 1] /\ cmdWrote' = [cmdWrote EXCEPT ![i] = @ + 1]
  /\ UNCHANGED <<shellPc, builder, atCmd, cmdProc, pipeReaders, pipeWriters, cmdGot, sawEof, forksFailed, runVars>>

(* The command exits, or SIGPIPE kills it; all its descriptors close.      *)
Exits(i) ==
  /\ cmdProc[i] = "runs"
  /\ \/ ~HasOutput(i) /\ (cmdKind[i] = "filter" => i \in sawEof)
     \/ HasOutput(i) /\ pipeReaders[i] = {}
  /\ cmdProc' = [cmdProc EXCEPT ![i] = "gone"]
  /\ pipeReaders' = [p \in Cmd |-> pipeReaders[p] \ {i}] /\ pipeWriters' = [p \in Cmd |-> pipeWriters[p] \ {i}]
  /\ UNCHANGED <<shellPc, builder, atCmd, ioVars, forksFailed, runVars>>

ShellMain ==
  \/ \E cmds \in Cmd, kinds \in [Cmd -> CmdKinds] :
       ReadLine(cmds, kinds) \/ ForkFailsInMain(cmds, kinds)
  \/ BuiltIn \/ WaitReturnsShell \/ EndOfFile

BuilderStep == PipeFork \/ ParentEnds \/ ExecLast \/ SecondShellEnds

CmdStep(i) ==
  (\E isFound \in BOOLEAN : ExecFirst(i, isFound)) \/ Reads(i) \/ ReadsEof(i) \/ Writes(i) \/ Exits(i)

ShellNext == ShellMain \/ BuilderStep \/ ForkFailsInChild \/ \E i \in Cmd : CmdStep(i)

ShellSpec == ShellInit /\ [][ShellNext]_shellVars

-----------------------------------------------------------------------------
(* A command meets the end of its input only when the command before it    *)
(* has ended, or never ran, and then it has read all that was written: no  *)
(* descriptor is closed too early.                                         *)
EofComplete ==
  \A i \in sawEof \ {1} : cmdProc[i - 1] # "runs" /\ cmdGot[i] = cmdWrote[i - 1]

(* Every process of a pipeline ends and the shell comes back to its prompt *)
(* (or has been replaced): no write end that is still open somewhere keeps *)
(* a reader waiting.                                                       *)
PipelineEnds == ~AllGone ~> (AllGone /\ shellPc # "wait")
=============================================================================
