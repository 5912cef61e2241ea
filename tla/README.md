# TLA+ models of the CS 162 course systems

The repository holds the coursework of an operating systems course: a teaching kernel (Pintos),
a MapReduce cluster in C and in Rust, an HTTP server, a shell, and smaller programs. This directory
models them: what the kernel's scheduler, drivers and allocators do under interrupts and preemption, what the
file system leaves on the disk in a crash, what the cluster does when messages and workers are late or die, what the
server's threads do with reused descriptors, who holds which end of a pipeline, and what the
libraries compute at their boundaries. Everything is checked by TLC on small instances. With TLAPS, the safety of the scheduler, the
locks, the interrupts, the queues, the disk driver, the file system, processes, page directories and user heaps, the MapReduce cluster in both languages, the HTTP server with its proxy, the shell and the relays
is proved for all instances.

All paths below are relative to `src/Homework/`; those of Pintos are under `proj-pregame/src/` unless said otherwise.

## 1. Inventory

| Component | State | Operations | Hard behaviour | Module |
|---|---|---|---|---|
| Threads, semaphores (`threads/thread.c`, `synch.c`) | status of each thread, ready list, wait lists, `idle_thread`, `next_tid` | create, exit, block, unblock, yield, `sema_down/try_down/up`, timer tick | preemption at every instruction with interrupts on; ups from handlers; reuse of a dead thread's page | `Threads` |
| Locks, conditions, readers-writers lock (`threads/synch.c`) | holder, waiters, AR, WR, AW, WW | acquire, release, wait, signal, broadcast | signals before the sleep, late waiters, barging | `RWLock`, `ReadersWriters` |
| Interrupts (`threads/interrupt.c`) | descriptor table, controllers, `in_external_intr`, `yield_on_return` | register, handle, acknowledge, yield on return | nesting, acknowledgement before another thread runs | `Interrupts` |
| Interrupt queues, input, serial port (`devices/intq.c`, `input.c`, `serial.c`) | two rings, a waiter slot each, IER | `input_getc`, `serial_putc`, serial interrupt | the handler is on the other side of each queue | `Console` |
| IDE driver (`devices/ide.c`) | channel lock, `expecting_interrupt`, `completion_wait`, registers | read, write, interrupt handler; reset, identify | asynchronous completion, two disks on a channel, spurious interrupts | `Ide`, `IdeProbe` |
| File system (`filesys/*.c`) | free map, inodes, root directory on disk; open inodes and files | create, open, reopen, remove, close, deny/allow write, read, write, seek | crash between disk writes, removal of open files, partial sectors | `FileSys`, `SectorIO`, `Archive` |
| Processes (`userprog/process.c`, `exception.c`) | one semaphore, PCBs, page directories, CR3 | execute, load, exit, kill, wait, activate | the timer between any two steps of an exit | `Process` |
| Page directories (`userprog/pagedir.c`) | tables, dirty and accessed bits, the TLB | create, set, get, clear, destroy, activate | stale translations | `PageDir` |
| Allocators (`threads/malloc.c`, `palloc.c`; `hw-memory/mm_alloc`; `hw-memory/.../syscall.c`) | arenas, free lists, bitmaps; block list; heap break | malloc, realloc, free, palloc; sbrk | concurrent callers, exhaustion in the middle, coalescing | `KernelHeap`, `MmAlloc`, `Sbrk` |
| Boot (`threads/loader.S`, `start.S`, `init.c`, `devices/partition.c`, `userprog/gdt.c`, `tss.c`) | disks and tables, options, page tables, pools, segments | the steps of booting, the actions of the command line | sizes at their limits, wrapping sums | `Boot`, `Startup` |
| Console output, screen, timer, clocks (`lib/kernel/console.c`, `devices/vga.c`, `timer.c`, `rtc.c`, `pit.c`) | console lock and depth, frame buffer and cursor, ticks | print, put, sleep, calibrate, read the clock | recursive locking, torn reads, conversions | `Devices` |
| Panic and shutdown (`lib/kernel/debug.c`, `devices/shutdown.c`) | level, what is broken | panic, shut down | panics inside a panic | `Panic` |
| Libraries (`lib/`, `hw-http/utlist.h`) | lists, hash tables, bitmaps, memory | all of their operations | pointers and boundaries | `LinkedList`, `UtList`, `HashTable`, `Bitmap`, `LibC`, `Arithmetic`, `Stdio` |
| MapReduce (`hw-map-reduce`) | waiting queue, jobs, task times and counts, output files | the four RPCs, map and reduce tasks; applications and codec | RPC over UDP, time-outs, dying and slow workers | `MapReduce`, `MRApps` |
| MapReduce in Rust (`hw-map-reduce-rs`) | map outputs in the workers' memory | get task, map, read, reduce, report | a crash loses outputs that others need | `RustWorker` |
| HTTP server (`hw-http`) | descriptor tables, work queue; the proxy's two sides | accept, dispatch, push, pop, files; relay | one condition variable, descriptor reuse and exhaustion; half-closed sides | `HttpServer`, `Proxy` |
| Serial relays (`utils/squish-pty.c`, `squish-unix.c`) | two buffers | read, write, the child's death | output in a buffer when the child dies | `Relay` |
| Shell (`hw-shell`) | each process's pipe ends | read a line, fork, pipe, exec, wait; tokenize | an end left open, a failing fork | `Shell`, `Tokenizer` |
| Word counts (`hw-list`, `hw-intro/words`), key-value RPC (`lab-rpc`) | a list; a table | add, count; put, get | two threads on a list; repeated requests | `WordCount`, `KvStore` |

The components meet where one calls another: the file system calls `block_read/block_write`, which
are `ide_read/ide_write`; those, and the queues, sleep and wake through semaphores and
`thread_block/thread_unblock`; locks are semaphores; `malloc()` takes pages from `palloc`, which scans a bitmap; hash tables are arrays of
lists; the HTTP server's work queue is a `utlist`; workers, clients and coordinator share RPC messages and an output
directory, and what their tasks compute is `MRApps`. Each module takes the interface below it as what the module below establishes (section 3).
`PROJECT.json` lists every component with its status, and the hazards with the properties that cover them.

What would make each part wrong, and so what is stated of it:
a lost wakeup, a thread on two lists or none, two live threads with one tid (threads); two writers, a
sleeper in a free lock, a counter that is off (locks); an unacknowledged or nested interrupt (interrupts); a byte lost or out of order, an interrupt left
disabled (console); another disk's or an older sector's data, a write that returns early (IDE); a
name that leads to a free sector, two files that share one, old data in a new file, space that
vanishes (file system); a freed page directory in use, a lost page, a wait that never ends (processes); a page or a block given out twice
(allocators); RAM that is not mapped, text that can be written, pools that overlap (boot); a client told that a job succeeded when an output file is missing, a job that
is never finished (MapReduce); a response to the wrong client, a connection served twice or
never, a descriptor leak (HTTP); a reader that waits for an end of file that never comes (shell).

## 2. Plan

Done: the whole list below, in this order. `Threads`, `RWLock` with `ReadersWriters`, `MapReduce`, `Console`, `FileSys` and `SectorIO`,
`Ide`, `HttpServer`; then `Process`, `Sbrk`, `MmAlloc`, `KernelHeap`, `PageDir`, `Proxy`, `Relay`, `Shell`, `RustWorker`, `KvStore`, `WordCount`,
`Interrupts`, `Panic`, `Devices`, `Boot`, `Startup`, `IdeProbe`, the libraries and the applications.

Proved (section 5): the safety properties of `Threads`, `RWLock`, `Ide`, `SectorIO`, `FileSys`, `MapReduce`, `Console`, `Interrupts`, `Process`,
`PageDir`, `Sbrk`, `HttpServer`, `Shell`, `Proxy`, `Relay` and `RustWorker`, and of `Devices` the console lock, the sleeps and the clock.

Left: abstract specifications worth stating: a queue that the work queue of `HttpServer` and the rings of
`Console` implement, and a block device that `Ide` implements and `FileSys` uses.

## 3. The modules and the code

Every definition that models code is listed in `PROJECT.json` under "map" with its lines. Definitions
commented "Mutant" are wrong versions of the definition that follows: each property is known to fail
when one of them takes its place.

### The kernel

**Threads.** A thread is the page of its `struct thread`; a page is reused as soon as
`thread_switch_tail()` frees it. Code that runs with interrupts off is one action (there is one CPU and
interrupt handlers are the only concurrency); between two actions the timer or a device may interrupt,
and the tick that ends a time slice preempts. `allocate_tid()` is cut at the read and the write of `next_tid`,
since only its lock protects it. `sema_down()` is cut where it sleeps: a woken thread looks at the
value again, and another may have taken it. "run" stands for any code of a kernel thread: it may down, try to down or up any
semaphore, create a thread, yield or exit. Interrupt handlers up the semaphores in `IntrSema`. The boot
handshake with `idle()` is included. `palloc_get_page()` is first-fit (`FirstFree`), as the bitmap scan of `palloc.c` is. Only the FIFO policy exists in the source.

**RWLock** models `struct lock`, `struct condition` and `struct rw_lock` statement by statement. Its semaphores are counters:
sleeping and waking inside them is what `Threads` is about. Steps between lock operations are
merged while the guard lock is held, which `Guarded` justifies. **ReadersWriters** is what the
lock promises; `ImplementsRW` maps the sets of threads that are inside.

**Interrupts.** The two controllers are external: a line is requested, in service until acknowledged, and the slave's go through
the master. `intr_handler()` is cut at the call of the handler, the acknowledgement and the yield. An internal handler (a system call) runs with interrupts on
and may be interrupted; an external one may ask for a yield. Frames nest as deep as the bounds on exceptions (`MaxFaults`) and device interrupts (`MaxRaised`) allow. The handlers are those that `pintos_init()` registers, in its order. Spurious interrupts on lines 7 and 15 and an unexpected exception are included.

**Console.** Threads on one side of each ring, the serial interrupt on the other, `IER_REG` as the two enable
bits, and the UART as a received byte and a ready transmitter. All this code runs with interrupts off, so a
thread is interleaved only where it blocks. Bytes are numbered, so order and loss show. Output before the
queues exist, output with interrupts off and `serial_flush()`, which poll the transmitter, are single actions. Bytes
that the UART drops in hardware are outside.

**Ide.** One channel, its lock, two disks. A step is what happens between two accesses to the controller. The
controller is external: it takes a command, is busy, requests data, interrupts when done, and may interrupt
once without reason. `stored` is a history variable: what the last write of a sector passed to the driver.
Command failures and the driver's time-outs are outside. **IdeProbe** is the channel's reset and identification, where a device may be absent, an ATAPI drive,
slow, or too large.

**FileSys.** One operation at a time (the file system has no locks, and no caller in this tree enters
it from two threads: `inode_open()` puts an inode on the list before it has read it, at `inode.c:112`, and would be wrong with two), cut at every disk write, with a crash between any two. Sizes are in sectors; the free map and
the root directory each fill one sector; zeroing a new file is one step, since nothing leads to it yet. After a crash the
machine mounts the disk again. `lost` is a history variable: sectors that a crash, or a creation that
failed in `dir_add()`, left marked. **SectorIO** is the byte loop of `inode_read_at/inode_write_at` on one file
with neighbours, where the bounce buffer's allocation may fail at any iteration. **Archive** moves files through the scratch device: a header of
characters, octal numbers and a checksum, sectors of data, and names that are cut of leading "/", "./" and "../".

**Process.** Main runs the tasks of the command line as `run_task()` does; each is a thread whose PCB and page directory come and go while the timer may switch
at any point, and `process_activate()` loads what the PCB says at that moment. Pages are counted in two pools, so that every failure of `load()` and every exit must return what it took. `load()`
takes one page at a time; its checks of the ELF file are its choice to fail. A failed load keeps its page directory for ever (the code frees none), which `PagesAccounted` counts: a
directory holds numbered pages (`Held`), itself the first, so that the pages of a pool are the elements of a set.

**Sbrk** is the same for hw-memory's kernel: 32 addresses in pages of four bytes, signed comparison of addresses as in the code, allocation and release one page at a time with two processes on one
pool. `load()` maps the segments and the stack's page, and puts the heap behind the last segment; it takes every program the code takes, those whose last segment reaches into the heap's first page, or lies in the upper half, among them.
`HeapExact` says of these only that no other process makes the kernel panic. **KernelHeap** has two threads in `malloc()`, `calloc()`, `realloc()`, `free()`, cut at every lock and at every access to the pool's bitmap, which is freed without the lock.
**PageDir** has the processor's cache of translations: an entry, once cached, is used as it was until the directory is loaded again. **MmAlloc** is the user-level allocator with its headers as memory: a header
that a merge leaves behind keeps its fields until something overwrites it.

**Boot** is the loader's search for a kernel, the options, the partition tables, the roles of block devices and the actions; a partition keeps the number it was counted under when another is refused. **Startup** is the memory size, first
page tables, pools, the final page directory, segment descriptors (byte by byte), the task-state segment and the words of the command line. Words are assumed not empty:
`read_command_line()` has room for 65 pointers, which 64 empty words would pass. **Devices** has the console lock, the screen with its cursor, sleeps, tick arithmetic, the counter of the interval timer, and the clock, which may
advance between two reads of its registers. Of the date it returns only the distance between days of one month is judged (section 4). **Panic** makes any of printing, flushing the serial port and the file system fail whenever used, and asks whether `debug_panic()` still ends.

**Libraries.** `LinkedList` and `UtList` model pointers: every element's fields, those of elements that are in no list too, against the sequence that the caller has in mind. `HashTable` has buckets of sequences and a rehash
whose allocation may fail. `Bitmap` is an array of words of two bits; where an empty group is found is not judged. `LibC` models memory as bytes because overlaps matter; `Arithmetic` divides double words of eight bits with an instruction that traps; `Stdio` is the interpreter of
formats with widths, precisions, flags and truncation by `snprintf()`. Their states are calls with all operands in a range, and their properties compare with definitions by quantifiers.

### The programs

**MapReduce.** The coordinator's state is the source's: `next_id`, `waiting_queue`, the table of
jobs, with per-task times (as ages, up to the timeout) and success flags, and the two counts. The network
is a bag of requests; a reply goes to a caller of such a request or to nobody, so a retransmission may
execute a request twice, and a loss may strand it. A worker opens its output files (truncating
them), writes, reports, each a step; a reduce task opens and counts its inputs first and reads what it counted later (`Inputs`), so that an input which another worker has truncated at either moment leaves its output incomplete. A file is absent, partial or complete. A regime, chosen at the start, fixes the number of tasks, how many messages are repeated or lost, how many workers crash, and
whether reports are prompt: then no live worker's task times out before its report. Prompt reports that are not repeated (`Timely`) are the assumption under which the
coordinator's counts are right. A reply of GET_TASK that the worker never gets leaves a task that times out.
Job names and key-value data are abstracted; `n_reduce = 0`, which divides by zero in a map task, is excluded by `MRBounds`. **MRApps** is the data: the three applications in both languages, bytes in base 4, the codec, `ihash` as a partition, the sort by key and the grouping.
**RustWorker** is the other implementation's worker and client. Its coordinator is external, what the worker's messages ask for, because the repository's is a skeleton. Creating and writing an output file may fail. tokio's `write_all()` returns
with the bytes on their way, and nothing flushes them: the last write ends in the background (`LastWrite`, external), before or after the report, or is cut short by a crash or the disk without anybody being told.

**HttpServer.** The four builds are a constant choice at start (`mode`). Each process has a descriptor table; the kernel gives
the lowest free one. `fork()` copies the table, threads share it. A request handler parses, opens a directory and a file if it
must, responds, closes. The client's request is a kind (bad, a file, a directory with or without an index, an index that is no file, ...), which decides the descriptors that are opened;
headers and bodies are a status and a token. `work` is a history variable, the connection that a descriptor stood for when it was
handed over. `fork()` and `pthread_create()` are assumed to succeed, and the parser's character loop is abstracted to
its outcome. **Proxy** is one relay between a client and a target that send, close and half-close; a write after `shutdown()` is lost, as in the code. **Relay** is `relay()` of the two squish programs, which differ in how they hear of the child's death. The reader of the output may go away as the child does: a write that nobody takes ends the program, except that `squish-pty` gives up a pty that returns EIO.

**Shell.** The shell, the child that builds the pipeline and the commands, with the set of processes that have each pipe end open; commands are sources and filters. `fork()` may fail, in the shell or in the child: the first makes the shell
become the command, the second makes the child a second shell. **Tokenizer** walks over all lines of up to four characters. **WordCount** reads characters into a buffer that a long word overruns and counts words in a list, with allocations that fail and files that are not there, and
in several threads under a mutex. **KvStore** executes requests again and late.

## 4. The runs

`tlc -workers 2 -config X.cfg M` for each; each finishes within five minutes. Systems that are independent share a run: `MCParts` and
`MCServices` have a variable `system`, and a behaviour is one of that system while the others stay in their initial states. So an invariant of one system
(`InterruptsRight`, `TranslationExact`, `TransfersRight` and the seven of `services`) can be checked as the module that the proofs are about states it, in every state; the
other properties of these runs are conjunctions over the systems they name.

| Run | Instance | What it shows |
|---|---|---|
| `threads` | initial thread and four pages, one semaphore that handlers up too | list discipline (`ListsExact`), no lost wakeup, unique tids; every ready thread runs, boot completes |
| `rwlock` | three threads, two calls each, either role | exclusion of the guard lock (`Guarded`), exact counters, writers first, implementation of `ReadersWriters`, every call returns |
| `ide` | two threads, two disks, two sectors, three requests, one spurious interrupt | right data, no panic, acknowledged writes up to the spurious interrupt (`WriteSafe`), all served |
| `filesys_crash` | two names, two handles, five sectors of data, files of one and two sectors, one crash | consistency of the disk at any instant, safety of open files, exact counts, accounted space, no foreign data |
| `mapreduce` | two workers, one client; two maps and two reduces with a crash and prompt reports, or one of each with a repeated request, a loss and late reports | reduce after maps, truthful outcome and every client told where reports are timely (prompt and not repeated); queue exact, outcome final always |
| `parts` | 26 systems, see `MCParts` | `InterruptsRight`: no nesting, acknowledged in time; `TranslationExact`: tables, TLB and bits agree; `TransfersRight`: bytes moved and counted; `KernelRight`: sbrk, malloc and palloc, the right kernel, options, memory layout and disks, whole messages, the screen, sleeps, times; `ComputedRight`: libraries, tokens, counts, applications, key-value answers |
| `services` | 8 systems, see `MCServices` | `QueuesRight`: rings; `ProcessesRight`: address spaces and pages; `HttpRight`: the right client, once, no leak; `EofComplete`: pipelines; `ProxyRelays`, `RelaySafe`: bytes in order, and what a relay may lose; `RustOutcome`: what the files of a finished job are worth; progress: `KernelProgress` (rings, processes, panic) and `ServicesProgress` (server, pipelines, relays, Rust jobs) |
| `mapreduce_slow_worker` | two workers, no crash, no loss, late reports | **violation** of `ToldTruth` |
| `console_two_readers` | two readers, ring of three | **violation** of `WaitCondition` |
| `ide_write_ack` | as `ide`, two requests | **violation** of `WriteAcknowledged` |
| `mm_alloc` | a heap of eight units, requests of up to five | **violation** of `NoOverlap` |
| `partitions` | disks with an extended partition | **violation** of `PartitionsRight` |

**Findings.** The violations are disagreements between the code and its own comments or assertions:
- `coordinator.c:198` counts reports, not finished tasks; a task that is handed out again after its
  timeout counts twice, and the client is told of success while an output file is missing.
- `intq.c:38` does not test the queue again after it slept for the lock; with two readers the
  assertion at line 73 fails.
- `ide.c:369` sets `expecting_interrupt` and nothing clears it; after a spurious interrupt `ide_write()`
  returns before the disk has the data.
- `mm_alloc.c:114`: a merge leaves the `prev` pointer of the block behind it, and a later free counts a block that is no longer there.
- `partition.c:78` reads sector 0 whatever table it was asked for, and an extended partition is followed for ever.

**Other deviations** that the models keep as the code has them, and the properties state around:
- The parent of the forking HTTP server keeps every descriptor (`httpserver.c:493`): its clients never see the end of the connection (`NoDescriptorLeak` and
  `AllServed` exclude that build). The proxy spins when the target closes first, shuts down the client's side and never closes it.
- `filesys_create()` leaks the data sectors when `dir_add()` fails (`filesys.c:44`). A failed `load()` keeps its page directory, and when no thread can be created `run_task()` waits for ever.
- A map task that is reported twice makes `map_finished` pass `n_map`, and the reduce phase, which waits for equality, never begins: `ClientsTold` is stated for timely reports. Over UDP a late repetition of a put overwrites a newer value.
- The loader stops at a drive whose signature is less than 0xaa55 (`loader.S:95`), and its partition offsets wrap (`loader.S:147`). `start.S` writes 17 directory entries for 16 tables; the cap at 64 MB hides it.
  The seed of `-rs` is overwritten by the clock, and the default policy is FIFO although a comment in `init.c` says otherwise.
- `debug_panic()` does not print at level 3, but `shutdown()` with `-q` or `-r` does, or enters the file system: a kernel with both broken panics for ever. The PIT's counter is 1 for frequencies from 795454 to 1193180 Hz.
- `rtc_get_time()` adds the days of the current month too (`rtc.c:87`), so that its result is not the number of seconds since the epoch that `rtc.c:40` promises: it is a month ahead, by 28 to 31 days, and
  decreases at the end of some months. `RtcDays` computes what the code does, and no property covers the comment: `TimingRight` says only that days of one month keep their distance.
- `load()` of hw-memory starts the heap at the page of `p_vaddr` plus `p_memsz` (`hw-memory/pintos/src/userprog/process.c:262`), without the offset in the page that `load_segment()` adds: a segment whose end thereby crosses into another page leaves
  the heap starting on a loaded page, and the first `sbrk()` fails an assertion in `pagedir_set_page()` or, undone, unmaps that page. A segment in the upper half of the address space makes the signed comparison of `sbrk()` refuse nothing, and an assertion fails past the end of user
  space. `Load` takes such programs; `HeapExact` asks for an exact heap of the others (`HeapApart`), and that only these panic.
- Both squish programs leave SIGPIPE as it is and call `fail_io()` otherwise: when their output is closed they die with the child's output undelivered. `squish-unix` also does when the child is gone and input for it is still in the buffer, before it has read what the child left
  in the socket (lines 187 to 194), although it means to deliver it; and when the child did not read all its input, reading the socket's end may fail. `DiesForReason` has these cases and no others.
- A Rust client that hears of a finished job may read an output file that is still being written, and the error of the last write is nobody's (`hw-map-reduce-rs/src/worker/mod.rs:139`). `RustOutcome` has both.
- `words` does not check the length of a word, and writes past its buffer of 64 bytes (`hw-intro/words/main.c:106`); with a file that is not there, `num_words()` closes a null pointer. The model stops at both (`Overrun`, `NoFile`), and `CountsRight` says when they happen. A
  character 255 reads as the end of the file.
- `free_map_release()` does not look at the result of `bitmap_write()` (`free-map.c:40`): a disk write that fails there is not modelled, as no disk write of `FileSys` fails.
- The last byte of a descrambled identification string is dropped, by the code (`ide.c`) and so by `IdeProbe`.
- `umod64()` and `smod64()` return 32 bits; `printf("%0*d")` with a negative width pads both sides; `bitmap_scan_and_flip()` of no bits returns its start, where its comment says 0 (`bitmap.c:253`): `BitmapRight` leaves that result out.
- `by_key()` compares binary keys as strings, so that vertices whose numbers share leading zero bytes are merged; the C `grep` drops a last line without a newline; the C `wc` drops words of one letter and the Rust one counts them; a Rust worker does not report an unknown application.
- `squish-unix` loses what is in its buffer when the socket ends (`ChildOutputKept`). In the shell's tokenizer `""` gives no token.

**Bounds.** Constants named "bound" in the modules limit counters and nothing else. Three threads are the fewest with a
holder, a waiter and a late comer; four pages besides the initial thread's give the idle thread and three that create, meet
and replace each other (two creators at once need two free pages), and `MaxTid = 5` lets pages be reused. Rings of two slots are full with one byte, so
every byte wraps. Nine sectors leave five for data: two files of two sectors do not fit, so allocation fails and
fragments. Two crashes would start from a disk that one crash can already leave. In MapReduce two tasks of each
kind are the fewest in which a double count hides a missing task. Three descriptors for three clients let
accept(), opendir() and open() each find none. Three commands are the fewest with a middle one that has two pipes, of one unit each, so that writers block. Two processes and seven user pages, one for each stack, two threads and two pages
let one be refused while the other is in the middle; seven programs have heaps with room, none, and one page shared with a segment. Two exceptions and two device interrupts nest three frames deep. A relay's buffer of three bytes can have room behind a byte that moved up, and the
three requests of each set in `MCRequests` open none, one or two descriptors. List instances have three cells, two of equal value, so that stability shows; words of two to five bits put every wrap in range. Six RAM sizes lie below, at and past the cap and the first MB. Symmetry is used in `filesys_crash` (names and handles) and `mapreduce_slow_worker` (workers), runs
without liveness. Deadlock is checked except where a bound ends the
environment's requests or the system comes to its end: `ide`, `parts`, `services` and all violation runs but `mapreduce_slow_worker`.

**Fairness.** `Threads`: the CPU executes and a pending timer interrupt is taken, because interrupts are off only for single steps;
nothing is assumed of a particular thread. The other models assume that every thread or process that can take a step eventually does, which is
`ReadyRuns` of `Threads` for the kernel, and the host's scheduler for user programs. Strong
fairness is used for whoever must find a mutex or the CPU free again and again: threads and pool workers, readers and the serial interrupt of `Console`, idle workers of `MapReduce`. In `MCServices` systems share a strong fairness
condition (`ConsoleTurn`, `TaskTurn`, `ServerTurn`): only one of them ever behaves, so the condition means for each what its own would. Weak fairness of a disjunction is used where the steps are finite in number (the handlers and
the clients of the HTTP server, the commands of a pipeline). Devices complete commands and
raise interrupts; clients of the HTTP server send their requests; output is taken. The coordinator's fairness is per handler, as a
single-threaded `svc_run()` serves what arrives. `KernelProgress` of the console holds up to the panic of the second finding.

## 5. The proofs

`tlapm M.tla` checks each of the eight modules from nothing. The components that share a run (`Console`, `Interrupts`, `Process`, `PageDir`, `Sbrk`, `SectorIO`, `Devices`, `HttpServer`, `Shell`, `Relay`,
`Proxy`, `RustWorker`) share proof modules too, and their names differ so that one module can extend several.

Assumptions on the constants are named in the modules: sets are finite, distinct constants are distinct, buffers and disks are large enough to hold anything at all. Modules with a run of their own have them as `ASSUME`. The theorems about the
others have them as hypotheses (`ConsoleConstants`, `InterruptsConstants`, `ProcessConstants`, `PdConstants`, `HeapConstants` (the sizes of words, pages and segments that `SbrkWord`, `SbrkAligned`, `SbrkSpace` and `SbrkArguments` name), `SIOSizes` and `SIOFile`, `BeatBound`, `HttpConstants`, `ShellConstants`, `ProxyConstants`, `RelayBounds`); `MCParts` and `MCServices` give the constants values that satisfy
them, and their `ASSUME`s check it for what is not obvious. There is no bound on the number of threads, semaphores, disks, sectors,
files, handles, tasks, workers, clients, requests, connections, descriptors, processes, pages, page tables, commands of a pipeline, bytes, crashes, losses or spurious interrupts. What a bound of the models limits (`MaxFaults` and `MaxRaised` limit interrupts and their nesting) is a constant, and the theorems hold for each value of it.

- **ThreadsProofs** proves `SchedulerInv`: the type invariant, `OneRunning`, `ReadyListExact` and `WaitListsExact`,
  strengthened by what relates a thread's place in the code to its status (`PcMatchesStatus`), the
  state of the boot before `idle_thread` is set (`BootSequence`: without it `next_thread_to_run()` would have nobody to
  return) and the ownership of a thread under construction (`ChildOwned`: nobody else can unblock it).
  First come lemmas on lists as sequences without duplicates, then one lemma per shared routine (`ThreadUnblock`,
  `Schedule`), then one step per action. `TypeCorrect` and `ListsCorrect` follow: the dual use of `elem` is safe for any
  number of threads and semaphores. `WakeupsKept` (`NoLostWakeup`) is inductive together with `SchedulerInv`: `sema_up()` moves its
  waiter to `Woken` in the step that adds to the value, and a thread leaves `Woken` only in the step that takes a unit or
  finds the value 0. `TidsUnique` needs `TidInv`: one thread at a time is between `lock_acquire()` and `lock_release()` of
  `tid_lock` (a semaphore that starts at 1), what it has read is still `next_tid` when it writes, and a new tid that is not in its
  thread yet is nobody's.
- **RWLockProofs** proves `RWInv`: types, the guard's exclusion (`GuardTaken`: the semaphore is 0 while
  a thread is in a guarded section; `HolderExact`: the holder is who relies on it), `CountersExact` and
  `RWExclusion`. Exact counters make the entry tests mean what they say; cardinalities of sets that gain or lose
  a thread are the main lemmas. `RWExclusionCorrect`, `CountersCorrect`, `GuardCorrect`, `Refinement` (the lock implements
  `ReadersWriters`) and the action property `WriterFirst` (`WritersComeFirst`) follow.
- **StorageProofs** is about the two ends of storage. `Ide`: reads are right and the driver does not panic whatever the number of spurious interrupts, and
  without any the completions are exact and writes are acknowledged. The
  invariant ties the thread in the driver to the controller's state (`Protocol`), the selected disk and sector to its
  request (`Selected`) and the disks to what was stored (`Contents`). `SectorIO`: `TransfersAlwaysRight`, byte by byte. `LoopCounts` is what the loop keeps between iterations (the bytes done and to do
  add up; the position passes the end of the file never, unless it started there), and with it `TransferExact` is inductive. The work is in the addresses: `ChunkPlace` (a chunk lies in one sector of the device) and `InChunk` (an address is the chunk's
  exactly if its quotient and remainder by the sector size are) rest on the uniqueness of division, and hold for any sector size.
  `Devices`, which has no state in common with them: `ConsoleAlwaysWhole` rests on `LockHeld` (only the holder of the console lock has open messages, one more than its depth), on the numbering of messages
  and on `OpenAlone`: since the first character of an open message no other thread has printed. `SnapshotsAlwaysWhole` rests on `SecondsTell`: while the clock is read its seconds tell how often it has beaten, so equal
  seconds at the end mean that it has not, unless they went once around (`BeatBound`). `SleepsAlwaysRight` is inductive with the types.
- **FileSysProofs** proves every property of `filesys_crash`, for any device, directory, sizes, handles and number of crashes.
  The properties speak of files; the invariant `FileSysInv` has to speak of every marked sector at every instant of an operation.
  `SpaceDivided` divides the marked sectors among the metadata, the files (`Live`: listed in the directory or open), the
  operation in progress (`OpSectors`, which changes with the label it is at) and `lost`; `OpOrdered` says that a new file's inode and zeros are
  written before its entry; `InodesCurrent` that an inode in memory agrees with the disk, has a user, and is marked
  removed exactly when its entry is gone; `NamesUnique` that entries differ in name and in sector. With these a crash at any write needs no argument of its own: the disk already
  satisfies the invariant without the operation. Two lemmas carry the actions: `OffFiles` for the writes and releases of sectors that no file has,
  `FilesStep` for what happens to entries and open files. The counts need the cardinality of sets of handles that gain or lose one
  (hence `FSHandles`: handles are finite), and first-fit allocation the smallest element of a set of naturals (`MinNat`).
- **MapReduceProofs** proves every safety property of `mapreduce`. `ClusterInv` (types, `BusyWorkers`: a
  worker with a task has a task of a job that exists; `QueueExact`) is inductive for every regime, and `OutcomeFinal` follows from it: a report
  changes a job only while the job is queued. What depends on the counts needs `OrderlyCluster`, which holds in a cluster that is `Timely`: reports are prompt, and the RPC library does
  not repeat a request. Then a task that was handed out and is not done is held by one worker or reported once
  (`OneWorker`), a report of success has its output behind it (`OutputComplete`), a client has one job (`OneJobEach`), and
  `map_finished` and `reduce_finished` are the numbers of tasks that succeeded (`TasksCounted`); the last make `ReduceAfterMaps` and `PromptlyToldTruth`
  true. `NoneShort` is kept beside it: when reports are timely, no reduce task counts an input that is incomplete (`NoneShortNext`). The attempt showed that promptness is not enough: a repeated FINISH_TASK is counted twice however prompt it is, so the condition of
  these properties, and of `ClientsTold`, includes that nothing is repeated. Lost messages and crashes are allowed.

- **ConsoleProofs** proves that the rings are FIFO (`QueuesAreFifo`, `QueuesAlwaysRight`: `ConsTypeOK` and `RingExact`) for any size and any number of threads. The
  positions wrap, so the lemmas `RingPut` and `RingTake` first say, without the modulus, what a put and a take do to the bytes held; `Changes` lists the six ways in
  which a step can change a queue (among them a put and a take at once, a flush, and a byte that polling sends past the queue), and every action is one of them for each queue. `Polling` (nothing is queued
  before the queues are in use) is the strengthening. `AloneNoPanic` is the other side of the second finding: with one reader and one writer a thread never
  sleeps for a queue's lock, keeps the CPU from its test to `thread_block()` (`WaitsAtOnce`), and `WaitCondition` holds.
  `InterruptsAlwaysRight` is for any values of the bounds, and so for any depth of nesting, with the registrations of `pintos_init()`: `OneInService` adds to `InterruptsRight` which line of the master and of the slave is in service while a frame is outstanding, so that the
  acknowledgement clears just these, and `ExternalGates` that every external vector has an interrupt gate, which turns interrupts off. `PushFrame`, `PopFrame` and their like say which frames of a stack stay outstanding.
- **ProcessProofs** proves `AddressSpacesAreSafe` and `PagesAreAccounted`, together `ProcessesAlwaysRight` (with the types, since free pages never exceed a pool only because held pages are counted).
  `Own` says what a process has at each place of its code, `ActiveDir` that CR3 names the running thread's directory or `init_page_dir`, and the latter while the former is destroyed, and
  `InTurn` that Main runs one process at a time and that the semaphore is up exactly from the end of a process to the return of `process_wait()`. The order of `process_exit()` (field, CR3, directory, PCB) is what
  keeps `Own` and `ActiveDir` true at every switch. `HeldChanges` counts the pages when one directory changes.
  `TranslationAlwaysExact` needs that a page is mapped exactly when its entry is present, with the frame and the bits it should have (`Mapped`), and that a cached translation is one of the active directory's and not
  ahead of it (`Cached`: if the TLB thinks the page dirty, the entry in memory is). `PageNumbers` is the arithmetic of addresses.
  `HeapAlwaysExact` needs which pages are mapped after each turn of the loops of `sbrk()` (`HeapMapped`: while a call is undone, the pages outside the rest of its range are those of the old heap) and that nothing was
  loaded where such a heap may grow (`HeapPlaced`). `NewBreak` shows that a sum that wraps or passes the middle of the address space is refused, and `PageBegins` that a page is not past an address if it does not begin past it.
  It holds for any programs. These facts are kept for processes whose heap is apart (`HeapKept`, `HeapApart`: a fact of the loaded pages and the heap's start, which no call changes), and `PanicsFor` says that a call that panics is of another. `UserPagesAccounted` counts the pages of all processes as one set (`MappedPages`); `PoolMoves` is its only step.
- **ServicesProofs** proves the programs that serve others.
  - `HttpAlwaysRight`, for the four builds: `HttpInv` says which threads of control exist in which build (`Roles`), that
    a connection is held by one of them, in a descriptor of the right table that nobody else has (`HoldsOne`, `Sockets`), or waits in the queue once (`Queued`), that whatever else is open belongs to one
    request (`Files`), and how far the response is at each place of the handler (`Answers`). `ServesItsConnection`, `ClientsAnsweredOnce` and
    `DescriptorsReturned` are its parts. That a client gets its whole response needs a count: with three descriptors for each connection, `BusyHaveRoom` shows that
    `opendir()` and `open()` find one.
  - `EofAlwaysComplete`: a command that runs holds the write end of its pipe (`WriteEndKept`), commands are forked in order, so that a builder that has given the ends away is past them (`ForkedInOrder`), and what was written is what was read and what the pipe holds
    (`PipeCounts`). An end of file, once seen, is final (`EofFinal`).
  - `ProxyAlwaysRelays`: a side that can be written to has everything that was read for it (`InStep`); the loop leaves no readable side unread (`StaysReadable`, `EndsRead`).
  - `RelayAlwaysSafe`: a buffer holds the last bytes read that were not written, in order, wherever they lie in it (`HoldsLast`, `PipesHold`); an input is given up only when it is closed and read to
    its end (`InputsEnd`), a descriptor is written to only while bytes wait for it (`WriteIsDue`), and the order of the loop's turns is what makes the end find everything read (`EndsDrained`). `DiesForReason` is inductive with these.
  - `RustOutcomeAlways`: two workers never work on the same output (`OneWriter`), what a worker does fits its task, which nobody has reported yet (`StagesMatch`), and a write in the background is of one live worker that has reported its task or is about to (`OneWrite`), for any number of crashes and a disk that fails.

The type invariants of `Threads`, `Ide` and `RWLock` are proved and not listed in the runs again. Model-checked only:
- liveness: `ReadyRuns`, `BootCompletes`, `AllServed`, `ClientsTold`, `KernelProgress` (with `PanicEnds`) and `ServicesProgress`; fairness and `ENABLED` are outside the prover's reach;
- `ComputedRight`: what the libraries, the applications and the tokenizer compute is defined recursively and compared with definitions by quantifiers, and induction over data is outside the prover's reach (modules with `RECURSIVE`
  operators can have no theorem);
- `KernelRight`, except for its parts about `Sbrk` (`HeapAlwaysExact`, `UserPagesAccounted`) and about the console lock, the sleeps and the clock of `Devices` (`ConsoleAlwaysWhole`, `SleepsAlwaysRight`, `SnapshotsAlwaysWhole`): in `KernelHeap` an arena that becomes unused takes its blocks off a list (`SelectSeq`), induction again; boot, start-up,
  the screen and the timing arithmetic are sequential code whose inputs TLC covers at every boundary.

The violations concern the code as it is, and there is nothing to prove of them.

## 6. Not modelled

- The second copy of Pintos under `hw-memory/pintos`: devices, file system and libraries are the same code; its `sbrk()` is modelled.
- The Rust coordinator and the Rust HTTP server: their bodies are `todo!()`.
- The instructor's tests, Perl checkers and graders; the user library (stubs around an interrupt instruction), example programs, `strtok`-like helpers used by tests only.
- Formatting and text: HTTP headers and MIME types, backtraces, statistics, usage messages, file names in directories.
- Time-outs of the IDE driver's busy loops and command errors (they need a clock and a faulty device); the keyboard's scan codes; the UART's speed; the A20 gate; the checks of ELF headers; the shell's file redirections, PATH search and terminal control.
