----------------------------- MODULE MCServices -----------------------------
(***************************************************************************)
(* Instances for TLC of the services: what waits for somebody, and must    *)
(* get there.  A behaviour is one of one system; the variable system says  *)
(* which, and the others stay in their initial states, so that an          *)
(* invariant of one system is one of all.                                  *)
(***************************************************************************)
EXTENDS Console, Process, Panic, HttpServer, Shell, Relay, Proxy, RustWorker, TLC

VARIABLE system

(* Every kind of request but "dotdot" and "bad", which differ from         *)
(* "missing" in the status alone.  The connections may be accepted in any  *)
(* order.  The pool of threads gets the first requests only.               *)
MCRequests ==
  {("c1" :> "index" @@ "c2" :> "special" @@ "c3" :> "noindex"),
   ("c1" :> "listing" @@ "c2" :> "file" @@ "c3" :> "missing")}

(* A relay's buffer of three bytes can have room behind a byte that has    *)
(* moved up.                                                               *)
MCBytes == 0 :> 1 @@ 1 :> 3

(* What the modules expect of their constants.                             *)
ASSUME ServiceConstants ==
  /\ ConsoleThreads /\ ConsoleBuffer /\ ConsoleBounds
  /\ ProcessTasks /\ ProcessMain /\ ProcessPages
  /\ HttpSets /\ HttpBounds /\ HttpModes /\ HttpRequests
  /\ ShellBounds /\ RelayBounds /\ RustBounds

-----------------------------------------------------------------------------
allState == <<system, consVars, procVars, panicVars, httpVars,
    shellVars, relayVars, proxyVars, rustVars>>

Init ==
  /\ system \in {"console", "process", "panic", "http", "shell", "relay", "proxy", "rust"}
  /\ ConsInit /\ ProcInit /\ ShellInit /\ ProxyInit /\ RustInit
  /\ PanicInit /\ (system # "panic" => broken = {})
  /\ HttpInit /\ (system # "http" => mode = "BASIC")
  /\ (system # "http" \/ mode = "POOL" => kind["c1"] = "index")
  /\ RelayInit /\ (system # "relay" => squish = "pty")

Next ==
  /\ UNCHANGED system
  /\ IF system = "console" THEN ConsNext ELSE UNCHANGED consVars
  /\ IF system = "process" THEN ProcNext ELSE UNCHANGED procVars
  /\ IF system = "panic" THEN PanicNext ELSE UNCHANGED panicVars
  /\ IF system = "http" THEN HttpNext ELSE UNCHANGED httpVars
  /\ IF system = "shell" THEN ShellNext ELSE UNCHANGED shellVars
  /\ IF system = "relay" THEN RelayNext ELSE UNCHANGED relayVars
  /\ IF system = "proxy" THEN ProxyNext ELSE UNCHANGED proxyVars
  /\ IF system = "rust" THEN RustNext ELSE UNCHANGED rustVars

(* The step of a thread that others can keep from its turn.                *)
turnState == <<consVars, procVars, httpVars>>
ConsoleTurn(t) ==
  /\ system = "console" /\ UNCHANGED <<procVars, httpVars>>
  /\ ThreadStep(t) \/ (t # "w1" /\ Call(t))
TaskTurn(t) ==
  /\ system = "process" /\ UNCHANGED <<consVars, httpVars>>
  /\ IF t = 0 THEN MainStep ELSE ChildStep(t)
ServerTurn(a) ==
  /\ system = "http" /\ UNCHANGED <<consVars, procVars>>
  /\ IF a = "main" THEN ServerStep ELSE WorkerStep(a)
SerialTurn == system = "console" /\ (SerialInterrupt \/ SerialInitQueue)

(* Every thread and process that can run does so again and again, locks    *)
(* are handed on to whoever waits, readers read again and again, and the   *)
(* UART makes progress and interrupts.  One system behaves, so that two    *)
(* systems can share a strong fairness condition.                          *)
Fairness ==
  /\ SF_turnState(ConsoleTurn("r1") \/ TaskTurn(0) \/ ServerTurn("main"))
  /\ SF_turnState(ConsoleTurn("r2") \/ TaskTurn(1) \/ ServerTurn("w1"))
  /\ SF_turnState(ConsoleTurn("w1") \/ TaskTurn(2) \/ ServerTurn("w2"))
  /\ SF_consVars(SerialTurn)
  /\ WF_consVars(system = "console" /\ TransmitterReady)
  /\ \A t \in PThread : WF_procVars(system = "process" /\ Switch(t))
  /\ WF_panicVars(system = "panic" /\ PanicStep)
  /\ WF_httpVars(system = "http" /\ \E a \in Agent : Handle(a))
  /\ WF_httpVars(system = "http" /\ \E c \in {"c1", "c2", "c3"} : Send(c))
  /\ WF_shellVars(system = "shell" /\ WaitReturnsShell)
  /\ WF_shellVars(system = "shell" /\ BuilderStep)
  /\ WF_shellVars(system = "shell" /\ \E i \in Cmd : CmdStep(i))
  /\ WF_relayVars(system = "relay" /\ RelayStep)
  /\ WF_proxyVars(system = "proxy" /\ ProxyStep)
  /\ \A w \in {1, 2} : WF_rustVars(system = "rust" /\ RustStep(w))
  /\ WF_rustVars(system = "rust" /\ PollJob)

Spec == Init /\ [][Next]_allState /\ Fairness

-----------------------------------------------------------------------------
(* No byte stays in a queue or in the UART for want of an interrupt or a   *)
(* wakeup, process_wait() returns, and a panic comes to its end:           *)
(* AllDelivered of Console, WaitReturns of Process, PanicEnds of Panic.    *)
KernelProgress ==
  /\ system = "console" => AllDelivered
  /\ system = "process" => WaitReturns
  /\ system = "panic" => PanicEnds

(* Whoever connects is served, every process of a pipeline ends and the    *)
(* shell prompts again, the programs that relay between two descriptors    *)
(* end, and so does every job of the Rust workers, whichever crashes:      *)
(* AllServed of HttpServer, PipelineEnds of Shell, RelayEnds of Relay,     *)
(* ProxyEnds of Proxy, RustJobEnds of RustWorker.                          *)
ServicesProgress ==
  /\ system = "http" => AllServed
  /\ system = "shell" => PipelineEnds
  /\ system = "relay" => RelayEnds
  /\ system = "proxy" => ProxyEnds
  /\ system = "rust" => RustJobEnds
=============================================================================
