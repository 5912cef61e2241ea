------------------------------ MODULE Process -------------------------------
(***************************************************************************)
(* User processes of Pintos: userprog/process.c with pagedir.c,            *)
(* exception.c and syscall.c, as run_task() of threads/init.c uses them.   *)
(*                                                                         *)
(* One CPU.  All of this code runs with interrupts on, so the timer may    *)
(* switch to another thread between any two steps (Switch), and            *)
(* process_activate() then loads the page directory that the new thread's  *)
(* PCB names at that instant.  Main runs the tasks of the command line one *)
(* after another, each as a process of its own thread.                     *)
(***************************************************************************)
EXTENDS Integers, FiniteSets

CONSTANTS
  Task,         \* the `run' actions of the command line: 1..number
  Main,         \* the initial thread
  KernelPages,  \* pages in the kernel pool at boot
  UserPages,    \* pages in the user pool at boot
  MaxSegPages   \* bound: pages of a program's segments

ProcessTasks == IsFiniteSet(Task) /\ Task = 1..Cardinality(Task) /\ Task # {}
ProcessMain == Main \notin Task
ProcessPages == KernelPages \in Nat /\ UserPages \in Nat /\ MaxSegPages \in Nat

VARIABLES
  ppc,        \* where each thread is
  running,    \* the thread on the CPU
  cr3,        \* the active page directory: a task's, or Main for init_page_dir
  hasPcb,     \* threads with t->pcb # NULL
  pcbs,       \* threads whose PCB is allocated
  pcbDir,     \* threads whose PCB has pagedir # NULL
  dirs,       \* allocated page directories
  upages, tables, \* user pages and page tables that a directory holds
  kfree, ufree,   \* free pages of the two pools
  temporary,  \* the semaphore
  task,       \* the task that Main runs
  failed      \* history: tasks whose load() failed

procVars == <<ppc, running, cr3, hasPcb, pcbs, pcbDir, dirs, upages, tables,
              kfree, ufree, temporary, task, failed>>
dirVars == <<dirs, upages, tables>>
pcbVars == <<hasPcb, pcbs, pcbDir>>
pools == <<kfree, ufree>>

PThread == Task \cup {Main}

(* After userprog_init(): Main has a PCB whose pagedir is NULL.            *)
ProcInit ==
  /\ ppc = [t \in PThread |-> IF t = Main THEN "execute" ELSE "none"]
  /\ running = Main /\ cr3 = Main
  /\ hasPcb = {Main} /\ pcbs = {Main} /\ pcbDir = {}
  /\ dirs = {}
  /\ upages = [t \in Task |-> 0] /\ tables = [t \in Task |-> 0]
  /\ kfree = KernelPages /\ ufree = UserPages
  /\ temporary = 0
  /\ task = 1
  /\ failed = {}

On(t, from, to) ==
  /\ running = t /\ ppc[t] = from
  /\ ppc' = [ppc EXCEPT ![t] = to]

(* Mutant: the directory is looked up in a PCB that may be gone.           *)
ActivateStale(t) == IF t \in dirs THEN t ELSE Main

(* process_activate() for thread t.                                        *)
ProcessActivate(t) == IF t \in hasPcb /\ t \in pcbDir THEN t ELSE Main

-----------------------------------------------------------------------------
(* run_actions() and run_task(), process_execute() and process_wait().     *)

(* process_execute() up to the copy of the file name.                      *)
ExecuteCopy ==
  /\ On(Main, "execute", IF kfree > 0 THEN "create" ELSE "wait")
  /\ temporary' = 0
  /\ kfree' = IF kfree > 0 THEN kfree - 1 ELSE kfree
  /\ UNCHANGED <<running, cr3, pcbVars, dirVars, ufree, task, failed>>

(* thread_create(): a page for the thread, or the copy is given back.      *)
ExecuteCreate ==
  /\ running = Main /\ ppc[Main] = "create"
  /\ IF kfree > 0
       THEN /\ ppc' = [ppc EXCEPT ![Main] = "wait", ![task] = "pcb"]
            /\ kfree' = kfree - 1
       ELSE /\ ppc' = [ppc EXCEPT ![Main] = "wait"]
            /\ kfree' = kfree + 1
  /\ UNCHANGED <<running, cr3, pcbVars, dirVars, ufree, temporary, task, failed>>

(* process_wait(): sema_down(), whatever process_execute() returned; then  *)
(* the next action of the command line.                                    *)
ProcessWait ==
  /\ On(Main, "wait", IF task + 1 \in Task THEN "execute" ELSE "shutdown")
  /\ temporary > 0
  /\ temporary' = temporary - 1
  /\ task' = IF task + 1 \in Task THEN task + 1 ELSE task
  /\ UNCHANGED <<running, cr3, pcbVars, dirVars, pools, failed>>

-----------------------------------------------------------------------------
(* start_process(): the PCB; malloc() may fail.                            *)
StartPcb(t) ==
  \/ /\ On(t, "pcb", "pagedir")
     /\ pcbs' = pcbs \cup {t} /\ hasPcb' = hasPcb \cup {t}
     /\ UNCHANGED <<running, cr3, pcbDir, dirVars, pools, temporary, task, failed>>
  \/ /\ On(t, "pcb", "cleanup")
     /\ failed' = failed \cup {t}
     /\ UNCHANGED <<running, cr3, pcbVars, dirVars, pools, temporary, task>>

(* load(): pagedir_create(), then process_activate().                      *)
LoadPagedir(t) ==
  /\ On(t, "pagedir", IF kfree > 0 THEN "activate" ELSE "loadFailed")
  /\ IF kfree > 0
       THEN /\ kfree' = kfree - 1
            /\ dirs' = dirs \cup {t} /\ pcbDir' = pcbDir \cup {t}
       ELSE UNCHANGED <<kfree, dirs, pcbDir>>
  /\ UNCHANGED <<running, cr3, hasPcb, pcbs, upages, tables, ufree, temporary, task, failed>>

LoadActivate(t) ==
  /\ On(t, "activate", "headers")
  /\ cr3' = ProcessActivate(t)
  /\ UNCHANGED <<running, pcbVars, dirVars, pools, temporary, task, failed>>

(* load(): the file, its headers and the switch on p_type.  A file that    *)
(* cannot be opened, a bad header and a segment that is refused all end in *)
(* `goto done'; another page of a segment is to be loaded; or the headers  *)
(* are finished and setup_stack() is next.                                 *)
LoadHeaders(t) ==
  /\ \/ On(t, "headers", "loadFailed")
     \/ On(t, "headers", "stack")
     \/ On(t, "headers", "segment") /\ upages[t] < MaxSegPages
  /\ UNCHANGED <<running, cr3, pcbVars, dirVars, pools, temporary, task, failed>>

(* One page of load_segment(), or the page of setup_stack(): a page of the *)
(* user pool that is filled and mapped (lookup_page() adds a page table    *)
(* for the first page of a region), or is given back when the read, or     *)
(* install_page(), fails: the address is mapped already, or no page is     *)
(* left for the page table.                                                *)
PageMapped(t, from, to) ==
  /\ ufree > 0
  /\ On(t, from, to)
  /\ upages' = [upages EXCEPT ![t] = @ + 1] /\ ufree' = ufree - 1
  /\ \/ UNCHANGED <<tables, kfree>> /\ tables[t] > 0
     \/ kfree > 0 /\ kfree' = kfree - 1 /\ tables' = [tables EXCEPT ![t] = @ + 1]
  /\ UNCHANGED <<running, cr3, pcbVars, dirs, temporary, task, failed>>

PageFails(t, from) ==
  /\ On(t, from, "loadFailed")
  /\ UNCHANGED <<running, cr3, pcbVars, dirVars, pools, temporary, task, failed>>

LoadPage(t) == PageMapped(t, "segment", "headers") \/ PageFails(t, "segment")

SetupStack(t) == PageMapped(t, "stack", "user") \/ PageFails(t, "stack")

(* Failure after the PCB: it is detached from the thread, then freed.  The *)
(* directory, if there is one, stays allocated and active.                 *)
DetachFailed(t) ==
  /\ On(t, "loadFailed", "freeFailed")
  /\ hasPcb' = hasPcb \ {t}
  /\ failed' = failed \cup {t}
  /\ UNCHANGED <<running, cr3, pcbs, pcbDir, dirVars, pools, temporary, task>>

FreeFailed(t) ==
  /\ On(t, "freeFailed", "cleanup")
  /\ pcbs' = pcbs \ {t} /\ pcbDir' = pcbDir \ {t}
  /\ UNCHANGED <<running, cr3, hasPcb, dirVars, pools, temporary, task, failed>>

(* The file name's page, then sema_up() and thread_exit().  A program that *)
(* was loaded frees the page too before it enters user mode: FreeName.     *)
StartFails(t) ==
  /\ On(t, "cleanup", "exit")
  /\ kfree' = kfree + 1
  /\ temporary' = temporary + 1
  /\ UNCHANGED <<running, cr3, pcbVars, dirVars, ufree, task, failed>>

FreeName(t) ==
  /\ On(t, "user", "userMode")
  /\ kfree' = kfree + 1
  /\ UNCHANGED <<running, cr3, pcbVars, dirVars, ufree, temporary, task, failed>>

-----------------------------------------------------------------------------
(* syscall_handler(): SYS_EXIT calls process_exit(), every other number    *)
(* returns to the program with nothing done.  The program's stack pointer  *)
(* is valid: the handler reads args[] through it.                          *)
Syscall(t, sysExit) ==
  /\ On(t, "userMode", IF sysExit THEN "clearDir" ELSE "userMode")
  /\ UNCHANGED <<running, cr3, pcbVars, dirVars, pools, temporary, task, failed>>

(* kill() and page_fault() for an exception in user mode: process_exit().  *)
Kill(t) ==
  /\ On(t, "userMode", "clearDir")
  /\ UNCHANGED <<running, cr3, pcbVars, dirVars, pools, temporary, task, failed>>

ExitClearDir(t) ==
  /\ On(t, "clearDir", "deactivate")
  /\ pcbDir' = pcbDir \ {t}
  /\ UNCHANGED <<running, cr3, hasPcb, pcbs, dirVars, pools, temporary, task, failed>>

(* Mutant: the process's own directory stays active.                       *)
ExitDeactivateLate(t) ==
  /\ On(t, "deactivate", "destroy")
  /\ UNCHANGED <<running, cr3, pcbVars, dirVars, pools, temporary, task, failed>>

ExitDeactivate(t) ==
  /\ On(t, "deactivate", "destroy")
  /\ cr3' = Main
  /\ UNCHANGED <<running, pcbVars, dirVars, pools, temporary, task, failed>>

(* Mutant: the page tables are forgotten.                                  *)
PagedirDestroyPages(t) ==
  /\ On(t, "destroy", "detach")
  /\ dirs' = dirs \ {t}
  /\ kfree' = kfree + 1 /\ ufree' = ufree + upages[t]
  /\ upages' = [upages EXCEPT ![t] = 0] /\ tables' = [tables EXCEPT ![t] = 0]
  /\ UNCHANGED <<running, cr3, pcbVars, temporary, task, failed>>

(* pagedir_destroy(): every user page and page table, and the directory.   *)
PagedirDestroy(t) ==
  /\ On(t, "destroy", "detach")
  /\ dirs' = dirs \ {t}
  /\ kfree' = kfree + tables[t] + 1 /\ ufree' = ufree + upages[t]
  /\ upages' = [upages EXCEPT ![t] = 0] /\ tables' = [tables EXCEPT ![t] = 0]
  /\ UNCHANGED <<running, cr3, pcbVars, temporary, task, failed>>

ExitDetach(t) ==
  /\ On(t, "detach", "freePcb")
  /\ hasPcb' = hasPcb \ {t}
  /\ UNCHANGED <<running, cr3, pcbs, pcbDir, dirVars, pools, temporary, task, failed>>

ExitFreePcb(t) ==
  /\ On(t, "freePcb", "up")
  /\ pcbs' = pcbs \ {t}
  /\ UNCHANGED <<running, cr3, hasPcb, pcbDir, dirVars, pools, temporary, task, failed>>

ExitUp(t) ==
  /\ On(t, "up", "exit")
  /\ temporary' = temporary + 1
  /\ UNCHANGED <<running, cr3, pcbVars, dirVars, pools, task, failed>>

(* thread_exit(): the next thread frees the page, see Switch.              *)
ThreadExits(t) ==
  /\ On(t, "exit", "dying")
  /\ UNCHANGED <<running, cr3, pcbVars, dirVars, pools, temporary, task, failed>>

-----------------------------------------------------------------------------
(* A thread that can run: Main does not while it sleeps in sema_down().    *)
Runnable(t) ==
  IF t = Main THEN ppc[Main] # "wait" \/ temporary > 0
              ELSE ppc[t] \notin {"none", "dying", "dead"}

(* schedule() and thread_switch_tail(): the timer, or a thread that blocks *)
(* or dies.  The idle thread has no PCB, like Main.                        *)
Switch(t) ==
  /\ Runnable(t) /\ t # running
  /\ running' = t
  /\ cr3' = ProcessActivate(t)
  /\ IF ppc[running] = "dying"
       THEN ppc' = [ppc EXCEPT ![running] = "dead"] /\ kfree' = kfree + 1
       ELSE UNCHANGED <<ppc, kfree>>
  /\ UNCHANGED <<pcbVars, dirVars, ufree, temporary, task, failed>>

MainStep == ExecuteCopy \/ ExecuteCreate \/ ProcessWait

ChildStep(t) ==
  \/ StartPcb(t) \/ LoadPagedir(t) \/ LoadActivate(t) \/ LoadHeaders(t)
  \/ LoadPage(t) \/ SetupStack(t)
  \/ DetachFailed(t) \/ FreeFailed(t) \/ StartFails(t) \/ FreeName(t)
  \/ Syscall(t, TRUE) \/ Kill(t) \/ ExitClearDir(t) \/ ExitDeactivate(t) \/ PagedirDestroy(t)
  \/ ExitDetach(t) \/ ExitFreePcb(t) \/ ExitUp(t) \/ ThreadExits(t)

ProcNext ==
  \/ MainStep
  \/ \E t \in Task : ChildStep(t) \/ Syscall(t, FALSE)
  \/ \E t \in PThread : Switch(t)

ProcSpec == ProcInit /\ [][ProcNext]_procVars

-----------------------------------------------------------------------------
(* The types of the variables.                                             *)
ProcTypeOK ==
  /\ running \in PThread /\ cr3 \in PThread
  /\ hasPcb \subseteq PThread /\ pcbs \subseteq PThread /\ pcbDir \subseteq PThread
  /\ dirs \subseteq Task /\ failed \subseteq Task /\ task \in Task
  /\ upages \in [Task -> Nat] /\ tables \in [Task -> Nat]
  /\ kfree \in 0..KernelPages /\ ufree \in 0..UserPages /\ temporary \in 0..1

(* The comments of process_exit() and start_process(): whenever the timer  *)
(* comes, no thread's t->pcb is freed memory, a PCB names no directory     *)
(* that is freed, and the active directory is allocated.                   *)
AddressSpacesSafe ==
  /\ hasPcb \subseteq pcbs
  /\ pcbDir \subseteq dirs
  /\ cr3 \in dirs \cup {Main}

(* The pages that are held: those of the directories in S, one for each    *)
(* number from first to last[t], the directory itself being number 0; and  *)
(* those of the threads and of the copies of their file names.             *)
Held(S, first, last) == UNION {{t} \X (first .. last[t]) : t \in S}
Alive == {t \in Task : ppc[t] \notin {"none", "dead"}}
Starting == {t \in Task : ppc[t] \in {"pcb", "pagedir", "activate", "headers", "segment",
               "stack", "user", "loadFailed", "freeFailed", "cleanup"}}
Names == Cardinality(Starting) + IF ppc[Main] = "create" THEN 1 ELSE 0

(* No page is lost or freed twice, except that a process whose load()      *)
(* failed keeps its directory for ever (start_process() frees its PCB      *)
(* only), and when process_wait() has returned its process holds nothing.  *)
PagesAccounted ==
  /\ kfree + Names + Cardinality(Alive) + Cardinality(Held(dirs, 0, tables)) = KernelPages
  /\ ufree + Cardinality(Held(Task, 1, upages)) = UserPages
  /\ \A t \in dirs : t \in failed \/ ppc[t] \notin {"none", "up", "exit", "dying", "dead"}
  /\ \A t \in Task : (t < task \/ ppc[Main] = "shutdown") =>
       t \notin pcbs /\ t \notin (dirs \ failed)

(* process_wait() returns for every process that process_execute() could   *)
(* create, whether its load() fails, it exits or it is killed.             *)
WaitReturns ==
  \A t \in Task : ppc[t] = "pcb" ~> (task > t \/ ppc[Main] = "shutdown")

(* No thread or CPU uses a freed PCB or page directory at any point where  *)
(* the timer can come, and no page is lost.                                *)
ProcessesRight == ProcTypeOK /\ AddressSpacesSafe /\ PagesAccounted
=============================================================================
