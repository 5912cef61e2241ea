--------------------------- MODULE ServicesProofs ---------------------------
(****************************************************************************)
(* Proofs about the programs that serve others: the HTTP servers, the       *)
(* shell's pipelines, the two relays and the MapReduce worker in Rust.      *)
(*                                                                          *)
(* The HTTP servers of HttpServer.tla, for any number of connections,       *)
(* threads and descriptors.  HttpInv is inductive.  A connection that was   *)
(* accepted and not closed is held by one thread of control or waits in     *)
(* the queue, and whoever holds it has it in a descriptor that nobody else  *)
(* holds; what else is open is a file or a directory of one thread.  How    *)
(* far the response is follows from where its thread is, and a thread       *)
(* finds no descriptor for a file only when there are too few:              *)
(* BusyHaveRoom counts them.                                                *)
(*                                                                          *)
(* The shell (ShellInv), for pipelines of any length: who still has the     *)
(* write end of a pipe, and how many bytes are in it.  The proxy of the     *)
(* HTTP server and the relays of the serial consoles (ProxyInv, RelayInv):  *)
(* what is delivered and what is buffered are the bytes read, in order.     *)
(* The worker in Rust (RustInv): one worker at most writes the output of a  *)
(* reduce task, and a task is done once its file is whole.                  *)
(****************************************************************************)
EXTENDS HttpServer, Shell, Proxy, Relay, RustWorker, FiniteSetTheorems, FunctionTheorems,
        SequenceTheorems, WellFoundedInduction, TLAPS

HttpConstants == HttpSets /\ HttpBounds /\ HttpModes /\ HttpRequests

(* The threads of control that have a connection, at work or about to hand *)
(* it on.                                                                  *)
Holds == {a \in Agent : pc[a] \in Busy \cup {"dispatch", "push"}}

(* Which threads there are, in which build.                                *)
Roles ==
  /\ mode = "BASIC" => pc[Server] \in Busy \cup {"accept", "dispatch"}
  /\ mode \in {"FORK", "THREAD"} => pc[Server] \in {"accept", "dispatch"}
  /\ mode = "POOL" => pc[Server] \in {"accept", "dispatch", "push"}
  /\ mode = "POOL" => \A w \in Worker : pc[w] \in Busy \cup {"lock", "test", "wait"}
  /\ mode # "POOL" => \A w \in Worker : pc[w] = "none"
  /\ mode \in {"FORK", "THREAD"} => \A c \in Conn : pc[c] \in Busy \cup {"none", "done"}
  /\ mode \in {"BASIC", "POOL"} => \A c \in Conn : pc[c] = "none"
  /\ mode # "POOL" => queue = <<>>

(* Whoever holds a connection has it open, and nobody else holds it.       *)
HoldsOne ==
  /\ \A a \in Holds :
       /\ work[a] \in Conn /\ fd[a] \in Fd /\ table[Proc(a)][fd[a]] = work[a]
       /\ a \in Conn => work[a] = a
  /\ \A a, b \in Holds : work[a] = work[b] => a = b
  /\ pc[Server] = "dispatch" => pc[work[Server]] = "none"

(* A connection is in one descriptor of a process at most, and in one of   *)
(* the server from accept() until it is closed.                            *)
Sockets ==
  /\ \A p \in Process, f, g \in Fd :
       table[p][f] \in Conn /\ table[p][f] = table[p][g] => f = g
  /\ \A p \in Process, f \in Fd :
       table[p][f] \in Conn => client[table[p][f]] \in {"accepted", "sent"}
  /\ \A c \in Conn : client[c] \in {"accepted", "sent"} => \E f \in Fd : table[Server][f] = c
  /\ \A c \in Conn : client[c] = "backlog" => pc[c] = "none"
  /\ mode = "FORK" => \A c \in Conn : client[c] # "closed"
  /\ mode # "FORK" => \A c \in Conn : table[c] = Closed

(* The queue has connections that nobody holds, each once.                 *)
Queued ==
  /\ \A i \in 1..Len(queue) :
       /\ table[Server][queue[i]] \in Conn
       /\ \A a \in Holds : work[a] # table[Server][queue[i]]
  /\ \A i, j \in 1..Len(queue) : queue[i] = queue[j] => i = j

(* In the basic server the main thread has the only connection.            *)
OneAtATime ==
  mode = "BASIC" => \A f \in Fd : table[Server][f] \in Conn => Server \in Holds /\ f = fd[Server]

(* Open files and directories belong to one thread of the process, which   *)
(* has two at most.                                                        *)
Files ==
  /\ \A a \in Agent : aux[a] # {} => a \in Handling
  /\ \A a \in Agent : \A f \in aux[a] : table[Proc(a)][f] = Opened
  /\ \A a, b \in Agent : Proc(a) = Proc(b) /\ a # b => aux[a] \cap aux[b] = {}
  /\ \A p \in Process, f \in Fd : table[p][f] = Opened =>
       \E a \in Handling : Proc(a) = p /\ f \in aux[a]
  /\ \A a \in Handling :
       /\ pc[a] \in {"parse", "opendir"} => aux[a] = {}
       /\ pc[a] \in {"start", "open"} => \E x \in Fd : aux[a] \subseteq {x}
       /\ \E x, y \in Fd : aux[a] \subseteq {x, y}

(* How far the response is.                                                *)
PrefixOf(s, t) == Len(s) <= Len(t) /\ \A i \in 1..Len(s) : s[i] = t[i]
Progress(a) ==
  LET k == kind[work[a]]
      said == answer[work[a]]
  IN  /\ pc[a] \in {"parse", "dispatch", "push"} => said = <<>>
      /\ pc[a] = "opendir" => said = <<>> /\ req[a] = k /\ k \in {"index", "listing", "noindex"}
      /\ pc[a] = "start" => said = <<>> /\ req[a] = k /\ k \notin {"special", "noindex"}
      /\ pc[a] = "open" => said = <<200>> /\ k \in {"file", "index"}
      /\ pc[a] = "body" => said = <<200>> /\ k \in {"file", "index", "listing"}
      /\ pc[a] = "close" => PrefixOf(said, Answer[k]) /\ (Enough => said = Answer[k])
Answers ==
  /\ answer = [c \in Conn |-> answer[c]]
  /\ \A a \in Holds : Progress(a)
  /\ \A i \in 1..Len(queue) : answer[table[Server][queue[i]]] = <<>>
  /\ \A c \in Conn : client[c] = "backlog" => answer[c] = <<>>
  /\ OneResponse

HttpInv ==
  HttpTypeOK /\ Roles /\ HoldsOne /\ Sockets /\ Queued /\ OneAtATime /\ Files /\ Answers

-----------------------------------------------------------------------------
(* What the constants are.                                                 *)
LEMMA Constants ==
  ASSUME HttpConstants
  PROVE  /\ Server \notin Conn /\ Server \notin Worker /\ Worker \cap Conn = {}
         /\ NoConn \notin Conn /\ Opened \notin Conn /\ NoConn # Opened
         /\ Server \in Process /\ Server \in Agent /\ Conn \subseteq Process
         /\ Conn \subseteq Agent /\ Worker \subseteq Agent
         /\ MaxFd \in Nat /\ MaxFd > 0 /\ Fd \subseteq Nat /\ 0 \notin Fd
         /\ Modes \subseteq {"BASIC", "FORK", "THREAD", "POOL"}
         /\ Requests \subseteq [Conn -> Kinds]
BY DEF HttpConstants, HttpSets, HttpBounds, HttpModes, HttpRequests, Process, Agent, Fd

LEMMA AnswerIs ==
  /\ Kinds = {"bad", "dotdot", "missing", "file", "index", "listing", "special", "noindex"}
  /\ Answer["bad"] = <<400>> /\ Answer["dotdot"] = <<403>> /\ Answer["missing"] = <<404>>
  /\ Answer["special"] = <<>> /\ Answer["noindex"] = <<>>
  /\ \A k \in {"file", "index", "listing"} : Answer[k] = <<200, "body">>
BY DEF Kinds, Answer

LEMMA AppendToOne ==
  ASSUME NEW x, NEW y
  PROVE  Append(<<x>>, y) = <<x, y>>
<1> DEFINE S == {x, y}
           s == Append(<<x>>, y)
           t == <<x, y>>
<1>1. <<x>> \in Seq(S) /\ Len(<<x>>) = 1 /\ <<x>>[1] = x
  OBVIOUS
<1>2. t \in Seq(S) /\ Len(t) = 2 /\ t[1] = x /\ t[2] = y
  OBVIOUS
<1>3. s \in Seq(S) /\ Len(s) = 2 /\ s[1] = x /\ s[2] = y
  BY <1>1, AppendProperties
<1> HIDE DEF s, t, S
<1>4. \A i \in 1..Len(s) : s[i] = t[i]
  BY <1>2, <1>3
<1>5. s = t
  BY <1>2, <1>3, <1>4, SeqEqual
<1> QED BY <1>5 DEF s, t

LEMMA OneIsPrefix ==
  ASSUME NEW x, NEW y
  PROVE  PrefixOf(<<x>>, <<x, y>>)
<1>1. Len(<<x>>) = 1 /\ Len(<<x, y>>) = 2 /\ <<x>>[1] = x /\ <<x, y>>[1] = x
  OBVIOUS
<1> QED BY <1>1 DEF PrefixOf

(* The smallest of some natural numbers.                                   *)
LEMMA MinNat ==
  ASSUME NEW S \in SUBSET Nat, S # {}
  PROVE  Min(S) \in S
<1> DEFINE Upto(m) == S \cap (0..m)
           F == {Upto(m) : m \in S}
<1>1. F \subseteq FiniteSubsetsOf(Nat) /\ F # {}
  <2>1. \A m \in S : IsFiniteSet(Upto(m))
    <3> SUFFICES ASSUME NEW m \in S PROVE IsFiniteSet(Upto(m))
      OBVIOUS
    <3>1. IsFiniteSet(0..m)
      BY FS_Interval
    <3> QED BY <3>1, FS_Subset
  <2> QED BY <2>1 DEF FiniteSubsetsOf
<1>2. \E T \in F : \A U \in F : ~(<<U, T>> \in StrictSubsetOrdering(Nat))
  <2> HIDE DEF F
  <2> QED BY <1>1, FS_StrictSubsetOrderingWellFounded, WFMin
<1>3. PICK m \in S : \A n \in S : ~(<<Upto(n), Upto(m)>> \in StrictSubsetOrdering(Nat))
  BY <1>2
<1>4. \A n \in S : m <= n
  <2> SUFFICES ASSUME NEW n \in S, n < m PROVE FALSE
    OBVIOUS
  <2>1. Upto(n) \subseteq Upto(m) /\ m \in Upto(m) /\ m \notin Upto(n)
    OBVIOUS
  <2> QED BY <1>3, <2>1 DEF StrictSubsetOrdering
<1> QED BY <1>4 DEF Min

(* accept(), open() and opendir() return a descriptor that is free.        *)
LEMMA LowestFree ==
  ASSUME HttpConstants, NEW p, Free(p) # {}
  PROVE  Min(Free(p)) \in Fd /\ table[p][Min(Free(p))] = NoConn
<1>1. Free(p) \in SUBSET Nat
  BY Constants DEF Free
<1>2. Min(Free(p)) \in Free(p)
  BY <1>1, MinNat
<1> QED BY <1>2 DEF Free

(* No connection is in a queue twice, so that the queue is no longer than  *)
(* the table of descriptors.                                               *)
LEMMA QueueShort ==
  ASSUME HttpConstants, NEW s \in Seq(Fd),
         \A i, j \in 1..Len(s) : s[i] = s[j] => i = j
  PROVE  Len(s) <= MaxFd
<1>1. s \in Injection(1..Len(s), Fd)
  BY DEF Injection, IsInjective
<1>2. IsFiniteSet(Fd) /\ Cardinality(Fd) = MaxFd
  BY Constants, FS_Interval DEF Fd
<1>3. IsFiniteSet(1..Len(s)) /\ Cardinality(1..Len(s)) = Len(s)
  <2> DEFINE n == Len(s)
  <2>1. n \in Nat
    OBVIOUS
  <2> HIDE DEF n
  <2>2. IsFiniteSet(1..n) /\ Cardinality(1..n) = IF 1 > n THEN 0 ELSE n - 1 + 1
    BY <2>1, FS_Interval
  <2>3. Cardinality(1..n) = n
    BY <2>1, <2>2
  <2> QED BY <2>2, <2>3 DEF n
<1> QED BY <1>1, <1>2, <1>3, FS_Injection

(* A response that no step of others touches.                              *)
LEMMA ProgressKept ==
  ASSUME NEW a, Progress(a), mode' = mode, kind' = kind, pc'[a] = pc[a], req'[a] = req[a],
         work'[a] = work[a], answer'[work[a]] = answer[work[a]]
  PROVE  Progress(a)'
<1>1. Enough' = Enough
  BY DEF Enough
<1> QED BY <1>1 DEF Progress

(* The first states.                                                       *)
LEMMA InitHolds ==
  ASSUME HttpConstants, HttpInit
  PROVE  HttpInv
<1> USE Constants
<1>1. HttpTypeOK
  BY DEF HttpInit, HttpTypeOK, Busy, Closed, Agent, Process
<1>2. Holds = {} /\ Handling = {}
  BY DEF HttpInit, Holds, Handling, Busy, Agent
<1>3. Roles
  BY DEF HttpInit, Roles, Busy, Agent
<1>4. HoldsOne
  BY <1>2 DEF HttpInit, HoldsOne, Agent
<1>5. Sockets
  BY DEF HttpInit, Sockets, Closed, Process, Agent
<1>6. Queued /\ OneAtATime
  BY DEF HttpInit, Queued, OneAtATime, Closed
<1>7. Files
  BY <1>2 DEF HttpInit, Files, Closed, Process
<1>8. OneResponse
  <2>1. \A c \in Conn : answer[c] = <<>> /\ client[c] = "backlog" /\ kind[c] \in Kinds
    BY DEF HttpInit
  <2>2. \A k \in Kinds : Len(Answer[k]) >= 0
    BY AnswerIs
  <2> QED BY <2>1, <2>2 DEF OneResponse
<1>9. Answers
  BY <1>2, <1>8 DEF HttpInit, Answers
<1> QED BY <1>1, <1>3, <1>4, <1>5, <1>6, <1>7, <1>9 DEF HttpInv

-----------------------------------------------------------------------------
(* A step of threads that leave their connections where they are: a thread *)
(* of the pool that has none, or the main thread on its way with one.      *)
LEMMA Moves ==
  ASSUME HttpConstants, HttpInv, HttpTypeOK', Roles',
         UNCHANGED <<mode, client, kind, answer, table, fd, aux, req, work, queue>>,
         \A a \in Agent :
           \/ pc'[a] = pc[a]
           \/ a \in Worker /\ a \notin Holds /\ pc'[a] \in {"lock", "test", "wait"}
           \/ a = Server /\ pc[a] = "dispatch" /\ pc'[a] \in {"push", "parse"}
  PROVE  HttpInv'
<1> USE Constants DEF HttpInv
<1>1. Holds' = Holds
  BY DEF Holds, Busy
<1>2. /\ Handling \subseteq Handling'
      /\ \A a \in Handling' :
           \/ a \in Handling /\ pc'[a] = pc[a]
           \/ pc[a] = "dispatch" /\ pc'[a] = "parse"
  <2>1. \A a \in Handling : a \in Holds /\ a \in Agent /\ pc[a] \in Busy
    BY DEF Handling, Holds
  <2>2. \A a \in Handling' : a \in Agent /\ pc'[a] \in Busy
    BY DEF Handling
  <2>3. /\ "push" \notin Busy /\ "lock" \notin Busy /\ "test" \notin Busy
        /\ "wait" \notin Busy /\ "dispatch" \notin Busy
    BY DEF Busy
  <2>4. \A a \in Handling : a \in Handling'
    BY <2>1, <2>3 DEF Handling
  <2>5. \A a \in Handling' : pc'[a] = pc[a] \/ (pc[a] = "dispatch" /\ pc'[a] = "parse")
    BY <2>2, <2>3
  <2> QED BY <2>2, <2>4, <2>5 DEF Handling
<1>3. \A c \in Conn : pc'[c] = pc[c]
  OBVIOUS
<1>4. HoldsOne'
  BY <1>1, <1>3 DEF HoldsOne, Proc, Holds
<1>5. Sockets'
  BY <1>3 DEF Sockets
<1>6. Queued' /\ OneAtATime'
  BY <1>1 DEF Queued, OneAtATime
<1>7. \A a \in Agent : pc[a] = "dispatch" => aux[a] = {}
  BY DEF Files, Handling, Busy
<1>8. Files'
  <2>1. \A a \in Handling' :
          \/ a \in Handling /\ pc'[a] = pc[a]
          \/ aux[a] = {} /\ pc'[a] = "parse"
    BY <1>2, <1>7 DEF Handling
  <2>2. 1 \in Fd
    BY DEF Fd
  <2> QED BY <1>2, <2>1, <2>2 DEF Files, Proc
<1>9. \A a \in Holds : Progress(a)'
  <2> SUFFICES ASSUME NEW a \in Holds PROVE Progress(a)'
    OBVIOUS
  <2>1. CASE pc'[a] = pc[a]
    BY <2>1, ProgressKept DEF Answers
  <2>2. CASE pc[a] = "dispatch" /\ pc'[a] \in {"push", "parse"}
    BY <2>2 DEF Answers, Progress
  <2> QED BY <2>1, <2>2 DEF Holds
<1>10. Answers'
  <2>1. OneResponse'
    BY DEF Answers, OneResponse, Enough
  <2> QED BY <1>1, <1>9, <2>1 DEF Answers
<1> QED BY <1>4, <1>5, <1>6, <1>8, <1>10

LEMMA MovesSteps ==
  ASSUME HttpConstants, HttpInv,
         \/ DispatchBasic \/ PushLock
         \/ \E w \in Worker : PopLock(w) \/ PopWait(w) \/ WakeUp(w)
  PROVE  HttpInv'
<1> USE Constants DEF clients, handlers, Step
<1>1. CASE DispatchBasic
  <2>1. HttpTypeOK'
    BY <1>1 DEF HttpInv, HttpTypeOK, DispatchBasic, Busy
  <2>2. Roles'
    BY <1>1 DEF HttpInv, HttpTypeOK, Roles, DispatchBasic, Busy
  <2> QED BY <1>1, <2>1, <2>2, Moves DEF HttpInv, HttpTypeOK, DispatchBasic
<1>2. CASE PushLock
  <2>1. HttpTypeOK'
    BY <1>2 DEF HttpInv, HttpTypeOK, PushLock, Busy
  <2>2. Roles'
    BY <1>2 DEF HttpInv, HttpTypeOK, Roles, PushLock, Busy
  <2> QED BY <1>2, <2>1, <2>2, Moves DEF HttpInv, HttpTypeOK, PushLock
<1>3. ASSUME NEW w \in Worker, PopLock(w) \/ PopWait(w) \/ WakeUp(w)
      PROVE  HttpInv'
  <2>1. /\ UNCHANGED <<mode, client, kind, answer, table, fd, aux, req, work, queue>>
        /\ \E to \in {"lock", "test", "wait"} : pc' = [pc EXCEPT ![w] = to]
        /\ pc[w] \in {"lock", "test", "wait"} /\ mutex' \in {w, NoConn, mutex}
    BY <1>3 DEF PopLock, PopWait, WakeUp
  <2>2. HttpTypeOK'
    BY <2>1 DEF HttpInv, HttpTypeOK, Busy
  <2>3. Roles'
    <3>1. mode = "POOL"
      BY <2>1 DEF HttpInv, Roles
    <3> QED BY <2>1, <3>1 DEF HttpInv, HttpTypeOK, Roles, Busy
  <2>4. w \notin Holds
    BY <2>1 DEF Holds, Busy
  <2> QED BY <2>1, <2>2, <2>3, <2>4, Moves DEF HttpInv, HttpTypeOK
<1> QED BY <1>1, <1>2, <1>3

(* A client sends its request.                                             *)
LEMMA SendStep ==
  ASSUME HttpConstants, HttpInv, NEW c \in Conn, Send(c)
  PROVE  HttpInv'
<1> USE Constants DEF HttpInv, Send, handlers
<1>1. HttpTypeOK'
  BY DEF HttpTypeOK
<1>2. client \in [Conn -> {"backlog", "accepted", "sent", "closed"}] /\ Holds' = Holds
      /\ Handling' = Handling
  BY DEF HttpTypeOK, Holds, Handling
<1>3. Roles'
  BY DEF Roles
<1>4. HoldsOne'
  BY <1>2 DEF HoldsOne, Proc
<1>5. Sockets'
  BY <1>2 DEF Sockets
<1>6. Queued' /\ OneAtATime'
  BY <1>2 DEF Queued, OneAtATime
<1>7. Files'
  BY <1>2 DEF Files, Proc
<1>8. \A a \in Holds : Progress(a)'
  <2>1. UNCHANGED <<pc, kind, answer, req, work, mode>> /\ Enough' = Enough
    BY DEF Enough
  <2>2. \A a \in Holds : Progress(a)
    BY DEF Answers
  <2> HIDE DEF HttpInv, Send
  <2> QED BY <2>1, <2>2 DEF Progress
<1>9. OneResponse'
  BY <1>2 DEF Answers, OneResponse, Enough
<1>10. Answers'
  BY <1>2, <1>8, <1>9 DEF Answers
<1> QED BY <1>1, <1>3, <1>4, <1>5, <1>6, <1>7, <1>10

(* accept(): a new connection, in a descriptor that was free.              *)
LEMMA AcceptStep ==
  ASSUME HttpConstants, HttpInv, NEW c \in Conn, Accept(c)
  PROVE  HttpInv'
<1> USE Constants DEF HttpInv, Accept, handlers, Step
<1> DEFINE m == Min(Free(Server))
<1>0. m \in Fd /\ table[Server][m] = NoConn
  BY LowestFree
<1> HIDE DEF m
<1>1. /\ fd' = [fd EXCEPT ![Server] = m] /\ table' = [table EXCEPT ![Server][m] = c]
      /\ fd'[Server] = m
  BY DEF m, HttpTypeOK
<1>2. /\ client \in [Conn -> {"backlog", "accepted", "sent", "closed"}]
      /\ table \in [Process -> [Fd -> Conn \cup {NoConn, Opened}]]
      /\ fd \in [Agent -> Fd \cup {0}] /\ work \in [Agent -> Conn \cup {NoConn}]
      /\ DOMAIN pc = Agent
  BY DEF HttpTypeOK
<1>3. HttpTypeOK'
  BY <1>0, <1>1 DEF HttpTypeOK
<1>4. /\ \A p \in Process, f \in Fd :
           table'[p][f] = IF p = Server /\ f = m THEN c ELSE table[p][f]
      /\ table'[Server][m] = c
      /\ \A p \in Conn : table'[p] = table[p]
  BY <1>0, <1>1, <1>2
<1>5. Holds' = Holds \cup {Server} /\ Server \notin Holds /\ Handling' = Handling
  BY <1>2 DEF Holds, Handling, Busy
<1>7. \A p \in Process, f \in Fd : table[p][f] # c
  BY DEF Sockets
<1>8. Roles'
  BY <1>2 DEF Roles, Busy
<1>9. \A a \in Agent : Proc(a)' = Proc(a) /\ Proc(a) \in Process
  BY DEF Proc, Process
<1>6. \A a \in Holds : work[a] # c /\ work[a] \in Conn /\ a \in Agent
  BY <1>7, <1>9 DEF HoldsOne, Holds
<1>10. \A a \in Holds : fd'[a] = fd[a] /\ work'[a] = work[a]
  BY <1>1, <1>2, <1>5 DEF Holds
<1>11. HoldsOne'
  <2>1. \A a \in Holds : /\ work'[a] \in Conn /\ fd'[a] \in Fd
                         /\ table'[Proc(a)][fd'[a]] = work'[a] /\ (a \in Conn => work'[a] = a)
    BY <1>0, <1>4, <1>9, <1>10 DEF HoldsOne
  <2>2. fd'[Server] = m /\ work'[Server] = c /\ Proc(Server) = Server
    BY <1>1, <1>2 DEF Proc
  <2>3. \A a, b \in Holds' : work'[a] = work'[b] => a = b
    BY <1>5, <1>6, <1>10, <2>2 DEF HoldsOne
  <2>4. pc'[c] = "none"
    BY <1>2 DEF Sockets
  <2>5. /\ work'[Server] \in Conn /\ fd'[Server] \in Fd /\ table'[Proc(Server)][fd'[Server]] = work'[Server]
        /\ Server \notin Conn
    BY <1>0, <1>4, <2>2
  <2>6. \A a \in Holds' : Proc(a)' = Proc(a)
    BY <1>9 DEF Holds
  <2> QED BY <1>5, <2>1, <2>2, <2>3, <2>4, <2>5, <2>6 DEF HoldsOne
<1>12. Sockets'
  <2>1. \A p \in Process, f, g \in Fd :
          table'[p][f] \in Conn /\ table'[p][f] = table'[p][g] => f = g
    BY <1>4, <1>7 DEF Sockets
  <2>2. \A p \in Process, f \in Fd :
          table'[p][f] \in Conn => client'[table'[p][f]] \in {"accepted", "sent"}
    BY <1>2, <1>4, <1>7 DEF Sockets
  <2>3. \A d \in Conn : client'[d] \in {"accepted", "sent"} => \E f \in Fd : table'[Server][f] = d
    <3> SUFFICES ASSUME NEW d \in Conn, client'[d] \in {"accepted", "sent"}
                 PROVE  \E f \in Fd : table'[Server][f] = d
      OBVIOUS
    <3>1. CASE d = c
      BY <1>0, <1>4, <3>1
    <3>2. CASE d # c
      <4>1. PICK f \in Fd : table[Server][f] = d
        BY <1>2, <3>2 DEF Sockets
      <4> QED BY <1>0, <1>4, <4>1
    <3> QED BY <3>1, <3>2
  <2> QED BY <1>2, <1>4, <2>1, <2>2, <2>3 DEF Sockets
<1>13. Queued'
  <2>1. \A i \in 1..Len(queue) : table'[Server][queue[i]] = table[Server][queue[i]]
    BY <1>0, <1>4 DEF Queued, HttpTypeOK
  <2>2. work'[Server] = c
    BY <1>2
  <2> QED BY <1>5, <1>7, <1>10, <2>1, <2>2 DEF Queued, HttpTypeOK
<1>14. OneAtATime'
  BY <1>1, <1>4, <1>5 DEF OneAtATime
<1>15. Files'
  BY <1>0, <1>4, <1>5, <1>9, <1>2 DEF Files, Handling, Busy
<1>16. Answers'
  <2>1. OneResponse'
    BY <1>2 DEF Answers, OneResponse, Enough
  <2>2. Progress(Server)'
    BY <1>2 DEF Answers, Progress
  <2>3. \A a \in Holds : Progress(a)'
    <3>1. \A a \in Holds : pc'[a] = pc[a]
      BY <1>2, <1>5 DEF Holds
    <3> QED BY <1>10, <3>1, ProgressKept DEF Answers
  <2>4. \A i \in 1..Len(queue) : table'[Server][queue[i]] = table[Server][queue[i]]
    BY <1>0, <1>4 DEF Queued, HttpTypeOK
  <2> QED BY <1>2, <1>5, <2>1, <2>2, <2>3, <2>4 DEF Answers
<1> QED BY <1>3, <1>8, <1>11, <1>12, <1>13, <1>14, <1>15, <1>16

(* A connection that the main thread has accepted goes to a thread or a    *)
(* child process of its own.                                               *)
LEMMA DispatchSteps ==
  ASSUME HttpConstants, HttpInv, DispatchFork \/ DispatchThread
  PROVE  HttpInv'
<1> USE Constants DEF HttpInv
<1>0. PICK a : a = work[Server]
  OBVIOUS
<1>1. /\ mode \in {"FORK", "THREAD"} /\ pc[Server] = "dispatch"
      /\ pc' = [pc EXCEPT ![Server] = "accept", ![a] = "parse"]
      /\ fd' = [fd EXCEPT ![a] = fd[Server]]
      /\ work' = [work EXCEPT ![a] = a, ![Server] = NoConn]
      /\ UNCHANGED <<mode, client, kind, answer, aux, req, queue, mutex>>
      /\ mode = "FORK" => table' = [table EXCEPT ![a] = table[Server]]
      /\ mode = "THREAD" => table' = table
  BY <1>0 DEF DispatchFork, DispatchThread, clients, handlers
<1>2. Server \in Holds /\ a \in Conn /\ pc[a] = "none" /\ fd[Server] \in Fd /\ table[Server][fd[Server]] = a
  BY <1>0, <1>1 DEF HoldsOne, Holds, Proc
<1>3. /\ client \in [Conn -> {"backlog", "accepted", "sent", "closed"}]
      /\ table \in [Process -> [Fd -> Conn \cup {NoConn, Opened}]]
      /\ fd \in [Agent -> Fd \cup {0}] /\ work \in [Agent -> Conn \cup {NoConn}]
      /\ DOMAIN pc = Agent
  BY DEF HttpTypeOK
<1>4. HttpTypeOK'
  <2>1. table' \in [Process -> [Fd -> Conn \cup {NoConn, Opened}]]
    BY <1>1, <1>2, <1>3
  <2>2. fd' \in [Agent -> Fd \cup {0}] /\ work' \in [Agent -> Conn \cup {NoConn}]
    BY <1>1, <1>2, <1>3
  <2>3. pc' \in [Agent -> Busy \cup {"none", "accept", "dispatch", "push", "lock", "test",
                                     "wait", "done"}]
    BY <1>1, <1>2 DEF HttpTypeOK, Busy
  <2> QED BY <1>1, <2>1, <2>2, <2>3 DEF HttpTypeOK
<1>5. /\ \A p \in Process, f \in Fd :
           table'[p][f] = IF mode = "FORK" /\ p = a THEN table[Server][f] ELSE table[p][f]
      /\ table'[Server] = table[Server]
  BY <1>1, <1>2, <1>3
<1>6. a \notin Holds /\ Holds' = (Holds \ {Server}) \cup {a} /\ Handling' = Handling \cup {a}
  BY <1>1, <1>2, <1>3 DEF Holds, Handling, Busy
<1>7. \A b \in Agent : Proc(b)' = Proc(b) /\ Proc(b) \in Process
                       /\ (mode = "FORK" /\ Proc(b) = a => b = a)
  BY <1>1, <1>2 DEF Proc, Process
<1>8. /\ \A b \in Holds \ {Server} : b # a /\ b \in Agent /\ pc'[b] = pc[b] /\ fd'[b] = fd[b] /\ work'[b] = work[b]
      /\ pc'[a] = "parse" /\ fd'[a] = fd[Server] /\ work'[a] = a
      /\ pc'[Server] = "accept"
  BY <1>1, <1>2, <1>3, <1>6 DEF Holds
<1>9. \A b \in Holds \ {Server} : work[b] # a /\ work[b] \in Conn /\ fd[b] \in Fd
  BY <1>0, <1>2 DEF HoldsOne
<1>10. Roles'
  <2>1. \A w \in Worker : pc'[w] = pc[w]
    BY <1>1, <1>2, <1>3
  <2>2. \A c \in Conn : pc'[c] = pc[c] \/ pc'[c] = "parse"
    BY <1>1, <1>2, <1>3
  <2>3. \A w \in Worker : pc[w] = "none"
    BY <1>1 DEF Roles
  <2>4. \A c \in Conn : pc[c] \in Busy \cup {"none", "done"} /\ "parse" \in Busy
    BY <1>1 DEF Roles, Busy
  <2>5. queue = <<>>
    BY <1>1 DEF Roles
  <2> HIDE DEF HttpInv
  <2> QED BY <1>1, <1>8, <2>1, <2>2, <2>3, <2>4, <2>5, ZenonT(60) DEF Roles
<1>11. HoldsOne'
  <2>1. table'[Proc(a)][fd[Server]] = a
    BY <1>1, <1>2, <1>5 DEF Proc
  <2>2. \A b \in Holds \ {Server} : /\ table'[Proc(b)][fd[b]] = work[b]
                                    /\ b \in Conn => work[b] = b
    BY <1>5, <1>7, <1>8, <1>9 DEF HoldsOne
  <2>3. \A b \in Holds' : Proc(b)' = Proc(b)
    BY <1>7 DEF Holds
  <2>4. \A b \in Holds' : /\ work'[b] \in Conn /\ fd'[b] \in Fd
                          /\ table'[Proc(b)'][fd'[b]] = work'[b] /\ (b \in Conn => work'[b] = b)
    <3> TAKE b \in Holds'
    <3>1. CASE b = a
      BY <1>2, <1>8, <2>1, <2>3, <3>1
    <3>2. CASE b \in Holds \ {Server}
      BY <1>8, <1>9, <2>2, <2>3, <3>2
    <3> QED BY <1>6, <3>1, <3>2
  <2>5. \A b, d \in Holds' : work'[b] = work'[d] => b = d
    BY <1>6, <1>8, <1>9 DEF HoldsOne
  <2> QED BY <1>8, <2>4, <2>5 DEF HoldsOne
<1>12. Sockets'
  <2>1. \A p \in Process, f, g \in Fd :
          table'[p][f] \in Conn /\ table'[p][f] = table'[p][g] => f = g
    BY <1>5 DEF Sockets
  <2>2. \A p \in Process, f \in Fd :
          table'[p][f] \in Conn => client'[table'[p][f]] \in {"accepted", "sent"}
    BY <1>1, <1>5 DEF Sockets
  <2>3. client[a] # "backlog" /\ \A d \in Conn : d # a => pc'[d] = pc[d]
    BY <1>1, <1>2, <1>3 DEF Sockets
  <2>4. \A d \in Conn : client'[d] \in {"accepted", "sent"} => \E f \in Fd : table'[Server][f] = d
    BY <1>1, <1>5 DEF Sockets
  <2>5. \A d \in Conn : client'[d] = "backlog" => pc'[d] = "none"
    BY <1>1, <2>3 DEF Sockets
  <2>6. mode # "FORK" => \A c \in Conn : table'[c] = Closed
    BY <1>1 DEF Sockets
  <2>7. mode = "FORK" => \A c \in Conn : client'[c] # "closed"
    BY <1>1 DEF Sockets
  <2> QED BY <1>1, <2>1, <2>2, <2>4, <2>5, <2>6, <2>7 DEF Sockets, Closed
<1>13. Queued' /\ OneAtATime'
  BY <1>1 DEF Roles, Queued, OneAtATime
<1>14. aux[a] = {}
  BY <1>2 DEF Files, Handling, Busy
<1>15. Files'
  <2>1. \A b \in Agent : \A f \in aux[b] : table'[Proc(b)][f] = Opened
    <3>1. aux \in [Agent -> SUBSET Fd]
      BY DEF HttpTypeOK
    <3> SUFFICES ASSUME NEW b \in Agent, NEW f \in aux[b] PROVE table'[Proc(b)][f] = Opened
      OBVIOUS
    <3>2. f \in Fd /\ b # a /\ table[Proc(b)][f] = Opened
      BY <3>1, <1>14 DEF Files
    <3> QED BY <1>5, <1>7, <3>2
  <2>2. \A p \in Process, f \in Fd : table'[p][f] = Opened =>
          \E b \in Handling' : Proc(b) = p /\ f \in aux[b]
    <3>1. mode = "FORK" => \A f \in Fd : table[Server][f] # Opened
      <4>1. mode = "FORK" => \A b \in Handling : Proc(b) # Server
        BY <1>1 DEF Roles, Handling, Proc, Busy, Agent
      <4> QED BY <4>1 DEF Files
    <3> QED BY <1>5, <1>6, <3>1 DEF Files
  <2>3. \A b \in Handling : b \in Agent /\ pc'[b] = pc[b]
    <3>1. \A b \in Handling : b \in Holds \ {Server} /\ b \in Agent
      BY <1>1 DEF Handling, Holds, Busy
    <3> QED BY <3>1, <1>8
  <2>4. \A b \in Handling' :
          \/ b \in Handling /\ pc'[b] = pc[b]
          \/ aux[b] = {} /\ pc'[b] = "parse"
    <3>1. \A b \in Handling' : b \in Handling \/ b = a
      BY <1>6
    <3> QED BY <1>8, <1>14, <2>3, <3>1
  <2>5. 1 \in Fd
    BY DEF Fd
  <2>6. \A b \in Agent : Proc(b)' = Proc(b)
    BY <1>7
  <2>7. \A b \in Handling' : b \in Agent
    BY DEF Handling
  <2>8. \A b \in Handling' :
          /\ pc'[b] \in {"parse", "opendir"} => aux[b] = {}
          /\ pc'[b] \in {"start", "open"} => \E x \in Fd : aux[b] \subseteq {x}
          /\ \E x, y \in Fd : aux[b] \subseteq {x, y}
    BY <2>4, <2>5 DEF Files
  <2>9. \A b, d \in Agent : Proc(b)' = Proc(d)' /\ b # d => aux[b] \cap aux[d] = {}
    BY <2>6 DEF Files
  <2>10. \A b \in Agent : aux[b] # {} => b \in Handling'
    BY <1>6 DEF Files
  <2>11. \A p \in Process, f \in Fd : table'[p][f] = Opened =>
          \E b \in Handling' : Proc(b)' = p /\ f \in aux[b]
    BY <2>2, <2>6, <2>7
  <2>12. aux' = aux /\ \A b \in Agent : \A f \in aux[b] : table'[Proc(b)'][f] = Opened
    BY <1>1, <2>1, <2>6
  <2> HIDE DEF HttpInv
  <2> QED BY <2>8, <2>9, <2>10, <2>11, <2>12 DEF Files
<1>16. Answers'
  <2>1. OneResponse'
    BY <1>1 DEF Answers, OneResponse, Enough
  <2>2. Progress(a)'
    <3>1. answer[a] = <<>>
      BY <1>0, <1>1, <1>2 DEF Answers, Progress
    <3>2. pc'[a] = "parse" /\ work'[a] = a /\ answer'[a] = <<>>
      BY <1>1, <1>8, <3>1
    <3> QED BY <3>2 DEF Progress
  <2>3. \A b \in Holds \ {Server} : Progress(b)'
    BY <1>1, <1>8, ProgressKept DEF Answers
  <2>4. queue' = <<>> /\ Len(<<>>) = 0
    BY <1>1 DEF Roles
  <2>5. \A b \in Holds' : Progress(b)'
    BY <1>6, <2>2, <2>3
  <2>6. answer' = [c \in Conn |-> answer'[c]] /\ \A c \in Conn : client'[c] = "backlog" => answer'[c] = <<>>
    BY <1>1 DEF Answers
  <2> QED BY <2>1, <2>4, <2>5, <2>6 DEF Answers
<1> QED BY <1>4, <1>10, <1>11, <1>12, <1>13, <1>15, <1>16

(* wq_push(): the connection goes to the end of the queue.                 *)
LEMMA PushStep ==
  ASSUME HttpConstants, HttpInv, Push
  PROVE  HttpInv'
<1> USE Constants DEF HttpInv
<1>1. PICK c, m : c = work[Server] /\ m = fd[Server]
  OBVIOUS
<1>2. /\ pc[Server] = "push" /\ queue' = Append(queue, m)
      /\ pc' = [a \in Agent |-> IF a = Server THEN "accept"
                                ELSE IF pc[a] = "wait" THEN "lock" ELSE pc[a]]
      /\ mutex' = NoConn /\ work' = [work EXCEPT ![Server] = NoConn]
      /\ UNCHANGED <<mode, client, kind, answer, table, fd, aux, req>>
  BY <1>1 DEF Push, clients, handlers
<1>3. Server \in Holds /\ c \in Conn /\ m \in Fd /\ table[Server][m] = c
  BY <1>1, <1>2 DEF HoldsOne, Holds, Proc
<1>4. mode = "POOL"
  BY <1>2 DEF HttpTypeOK, Roles, Busy
<1>5. Holds' = Holds \ {Server} /\ Handling' = Handling /\ Server \notin Handling
  BY <1>2 DEF Holds, Handling, Busy
<1>6. \A b \in Holds \ {Server} : b \in Agent /\ pc'[b] = pc[b] /\ work'[b] = work[b] /\ work[b] # c
  <2>1. work \in [Agent -> Conn \cup {NoConn}]
    BY DEF HttpTypeOK
  <2>2. "wait" \notin Busy
    BY DEF Busy
  <2> QED BY <1>1, <1>2, <1>3, <2>1, <2>2 DEF Holds, HoldsOne
<1>7. /\ queue \in Seq(Fd) /\ queue' \in Seq(Fd) /\ Len(queue) \in Nat /\ Len(queue') = Len(queue) + 1
      /\ queue'[Len(queue) + 1] = m
      /\ \A i \in 1..Len(queue) : queue'[i] = queue[i]
      /\ \A i \in 1..Len(queue') : i \in 1..Len(queue) \/ i = Len(queue) + 1
  BY <1>2, <1>3 DEF HttpTypeOK
<1>8. \A i \in 1..Len(queue) : queue[i] # m
  BY <1>1, <1>3 DEF Queued
<1>9. Queued'
  <2>1. \A i, j \in 1..Len(queue') : queue'[i] = queue'[j] => i = j
    BY <1>7, <1>8 DEF Queued
  <2>2. \A i \in 1..Len(queue') : table[Server][queue'[i]] \in Conn
    BY <1>3, <1>7 DEF Queued
  <2>3. \A i \in 1..Len(queue'), b \in Holds \ {Server} : work[b] # table[Server][queue'[i]]
    BY <1>3, <1>6, <1>7, SMTT(30) DEF Queued
  <2> QED BY <1>2, <1>5, <1>6, <2>1, <2>2, <2>3 DEF Queued
<1>10. HttpTypeOK'
  <2>1. Len(queue') <= MaxFd
    BY <1>7, <1>9, QueueShort DEF Queued
  <2> QED BY <1>2, <1>7, <2>1 DEF HttpTypeOK, Busy
<1>11. Roles'
  BY <1>2, <1>4 DEF Roles, Busy
<1>12. HoldsOne'
  BY <1>2, <1>5, <1>6 DEF HoldsOne, Proc
<1>13. Sockets'
  BY <1>2 DEF Sockets
<1>14. OneAtATime'
  BY <1>2, <1>4 DEF OneAtATime
<1>15. Files'
  <2>1. \A b \in Handling : pc'[b] = pc[b]
    BY <1>5, <1>6 DEF Handling, Holds
  <2> QED BY <1>2, <1>5, <2>1 DEF Files, Proc
<1>16. Answers'
  <2>1. OneResponse'
    BY <1>2 DEF Answers, OneResponse, Enough
  <2>2. \A b \in Holds \ {Server} : Progress(b)'
    BY <1>2, <1>6, ProgressKept DEF Answers
  <2>3. answer[c] = <<>>
    BY <1>1, <1>2, <1>3 DEF Answers, Progress
  <2>4. \A i \in 1..Len(queue') : answer[table[Server][queue'[i]]] = <<>>
    BY <1>3, <1>7, <2>3 DEF Answers
  <2> QED BY <1>2, <1>5, <2>1, <2>2, <2>4 DEF Answers
<1> QED BY <1>9, <1>10, <1>11, <1>12, <1>13, <1>14, <1>15, <1>16

(* wq_pop(): a thread of the pool takes the first connection.              *)
LEMMA PopStep ==
  ASSUME HttpConstants, HttpInv, NEW w \in Worker, Pop(w)
  PROVE  HttpInv'
<1> USE Constants DEF HttpInv
<1>1. PICK c, m : m = Head(queue) /\ c = table[Server][m]
  OBVIOUS
<1>2. /\ queue # <<>> /\ mutex' = NoConn /\ queue' = Tail(queue)
      /\ pc[w] = "test" /\ pc' = [pc EXCEPT ![w] = "parse"]
      /\ fd' = [fd EXCEPT ![w] = m] /\ work' = [work EXCEPT ![w] = c]
      /\ UNCHANGED <<mode, client, kind, answer, table, aux, req>>
  BY <1>1 DEF Pop, Step, clients, handlers
<1>3. /\ queue \in Seq(Fd) /\ queue' \in Seq(Fd) /\ Len(queue) \in Nat
      /\ Len(queue') = Len(queue) - 1 /\ Len(queue) > 0 /\ m = queue[1] /\ m \in Fd
      /\ \A i \in 1..Len(queue') : queue'[i] = queue[i + 1] /\ i + 1 \in 1..Len(queue)
  BY <1>1, <1>2 DEF HttpTypeOK
<1>4. c \in Conn /\ w # Server /\ w \notin Conn /\ w \in Agent
  BY <1>1, <1>3 DEF Queued
<1>5. mode = "POOL"
  BY <1>2 DEF HttpTypeOK, Roles
<1>6. /\ pc \in [Agent -> Busy \cup {"none", "accept", "dispatch", "push", "lock", "test",
                                     "wait", "done"}]
      /\ fd \in [Agent -> Fd \cup {0}] /\ work \in [Agent -> Conn \cup {NoConn}]
  BY DEF HttpTypeOK
<1>7. Holds' = Holds \cup {w} /\ Handling' = Handling \cup {w} /\ w \notin Holds
  BY <1>2, <1>6 DEF Holds, Handling, Busy
<1>8. /\ \A b \in Holds : b \in Agent /\ b # w /\ pc'[b] = pc[b] /\ fd'[b] = fd[b]
                          /\ work'[b] = work[b] /\ work[b] # c
      /\ pc'[w] = "parse" /\ fd'[w] = m /\ work'[w] = c /\ Proc(w) = Server
  BY <1>1, <1>2, <1>3, <1>4, <1>6, <1>7 DEF Holds, Queued, Proc
<1>9. HttpTypeOK'
  BY <1>2, <1>3, <1>4, <1>6 DEF HttpTypeOK, Busy
<1>10. Roles'
  BY <1>2, <1>4, <1>5, <1>6 DEF Roles, Busy
<1>11. HoldsOne'
  <2>1. \A b \in Holds : work'[b] \in Conn /\ fd'[b] \in Fd /\ table[Proc(b)][fd'[b]] = work'[b]
    BY <1>8 DEF HoldsOne
  <2>2. \A b, d \in Holds' : work'[b] = work'[d] => b = d
    BY <1>7, <1>8 DEF HoldsOne
  <2>3. pc'[Server] = pc[Server] /\ work'[Server] = work[Server] /\ \A d \in Conn : pc'[d] = pc[d]
    BY <1>2, <1>4, <1>6
  <2>4. pc[Server] = "dispatch" => pc'[work[Server]] = "none"
    <3>1. pc[Server] = "dispatch" => work[Server] \in Conn
      BY DEF HoldsOne, Holds
    <3> QED BY <2>3, <3>1 DEF HoldsOne
  <2>5. \A b \in Holds' : b \in Conn => work'[b] = b
    BY <1>4, <1>7, <1>8 DEF HoldsOne
  <2>6. \A b \in Holds' : /\ work'[b] \in Conn /\ fd'[b] \in Fd
                          /\ table[Proc(b)][fd'[b]] = work'[b]
    BY <1>1, <1>3, <1>4, <1>7, <1>8, <2>1
  <2>7. \A b \in Holds' : Proc(b)' = Proc(b) /\ table' = table
    BY <1>2 DEF Proc
  <2> HIDE DEF HttpInv
  <2> QED BY <2>2, <2>3, <2>4, <2>5, <2>6, <2>7 DEF HoldsOne
<1>12. Sockets'
  BY <1>2, <1>4, <1>6 DEF Sockets
<1>13. Queued'
  <2>0. /\ \A i, j \in 1..Len(queue) : queue[i] = queue[j] => i = j
        /\ \A i \in 1..Len(queue) : /\ table[Server][queue[i]] \in Conn /\ queue[i] \in Fd
                                     /\ \A a \in Holds : work[a] # table[Server][queue[i]]
        /\ 1 \in 1..Len(queue)
    <3>1. 1 \in 1..Len(queue)
      <4> HIDE DEF HttpInv
      <4> QED BY <1>3
    <3>2. \A i \in 1..Len(queue) : queue[i] \in Fd
      <4> HIDE DEF HttpInv
      <4> QED BY <1>3
    <3> QED BY <3>1, <3>2 DEF Queued
  <2>1. \A i, j \in 1..Len(queue') : queue'[i] = queue'[j] => i = j
    <3> SUFFICES ASSUME NEW i \in 1..Len(queue'), NEW j \in 1..Len(queue'), queue'[i] = queue'[j]
                 PROVE  i = j
      OBVIOUS
    <3>1. i + 1 \in 1..Len(queue) /\ j + 1 \in 1..Len(queue) /\ queue[i + 1] = queue[j + 1]
      BY <1>3
    <3>2. i + 1 = j + 1
      BY <2>0, <3>1
    <3> QED BY <3>2
  <2>2. \A i \in 1..Len(queue') :
          /\ table[Server][queue'[i]] \in Conn /\ queue'[i] # m /\ queue'[i] \in Fd
          /\ \A b \in Holds : work[b] # table[Server][queue'[i]]
    <3> SUFFICES ASSUME NEW i \in 1..Len(queue')
                 PROVE  /\ table[Server][queue'[i]] \in Conn /\ queue'[i] # m /\ queue'[i] \in Fd
                        /\ \A b \in Holds : work[b] # table[Server][queue'[i]]
      OBVIOUS
    <3>1. i + 1 \in 1..Len(queue) /\ queue'[i] = queue[i + 1] /\ i + 1 # 1
      BY <1>3
    <3> QED BY <1>3, <2>0, <3>1
  <2>3. \A i \in 1..Len(queue') : table[Server][queue'[i]] # c
    BY <1>1, <1>3, <1>4, <2>2 DEF Sockets
  <2>5. \A i \in 1..Len(queue'), b \in Holds' : work'[b] # table[Server][queue'[i]]
    BY <1>7, <1>8, <2>2, <2>3
  <2> QED BY <1>2, <2>1, <2>2, <2>5 DEF Queued
<1>14. OneAtATime'
  BY <1>2, <1>5 DEF OneAtATime
<1>15. aux[w] = {}
  BY <1>4, <1>7 DEF Files, Handling, Holds
<1>16. Files'
  <2>1. \A b \in Handling' :
          \/ b \in Handling /\ pc'[b] = pc[b]
          \/ b = w
    BY <1>7, <1>8 DEF Handling, Holds
  <2>2. 1 \in Fd
    BY DEF Fd
  <2>3. \A b \in Handling' :
          /\ pc'[b] \in {"parse", "opendir"} => aux[b] = {}
          /\ pc'[b] \in {"start", "open"} => \E x \in Fd : aux[b] \subseteq {x}
          /\ \E x, y \in Fd : aux[b] \subseteq {x, y}
    BY <1>8, <1>15, <2>1, <2>2 DEF Files
  <2>4. \A b : Proc(b)' = Proc(b)
    BY <1>2 DEF Proc
  <2> QED BY <1>2, <1>7, <2>3, <2>4 DEF Files
<1>17. Answers'
  <2>1. OneResponse'
    BY <1>2 DEF Answers, OneResponse, Enough
  <2>2. \A b \in Holds : Progress(b)'
    BY <1>2, <1>8, ProgressKept DEF Answers
  <2>3. answer[c] = <<>>
    BY <1>1, <1>3 DEF Answers
  <2>4. \A i \in 1..Len(queue') : answer[table[Server][queue'[i]]] = <<>>
    <3> SUFFICES ASSUME NEW i \in 1..Len(queue') PROVE answer[table[Server][queue'[i]]] = <<>>
      OBVIOUS
    <3>1. i + 1 \in 1..Len(queue) /\ queue'[i] = queue[i + 1]
      BY <1>3
    <3> QED BY <3>1 DEF Answers
  <2>5. Progress(w)'
    <3>1. pc'[w] = "parse" /\ work'[w] = c /\ answer'[c] = <<>>
      BY <1>2, <1>8, <2>3
    <3> QED BY <3>1 DEF Progress
  <2> QED BY <1>2, <1>7, <2>1, <2>2, <2>4, <2>5 DEF Answers
<1> QED BY <1>9, <1>10, <1>11, <1>12, <1>13, <1>14, <1>16, <1>17

-----------------------------------------------------------------------------
LEMMA ThreeUses == IsFiniteSet({1, 2, 3}) /\ Cardinality({1, 2, 3}) = 3
<1>1. {1, 2, 3} = 1..3
  OBVIOUS
<1>2. PICK n \in Int : n = 3
  OBVIOUS
<1>3. IsFiniteSet(1..n) /\ Cardinality(1..n) = IF 1 > n THEN 0 ELSE n - 1 + 1
  BY FS_Interval
<1> QED BY <1>1, <1>2, <1>3

(* With three descriptors for each connection there is one for every file. *)
(* Otherwise each descriptor is in use, and each use is a connection's     *)
(* first, second or third: but the third of the thread's own is not used.  *)
LEMMA BusyHaveRoom ==
  ASSUME HttpConstants, HttpInv, NEW a \in Handling, pc[a] \in {"opendir", "open"}, Enough
  PROVE  Free(Proc(a)) # {}
<1> USE Constants DEF HttpInv
<1> DEFINE p == Proc(a)
<1> SUFFICES ASSUME Free(p) = {} PROVE FALSE
  OBVIOUS
<1>1. p \in Process /\ a \in Agent
  BY DEF Proc, Process, Handling
<1>2. \A b \in Handling : b \in Holds /\ b \in Agent /\ work[b] \in Conn
  BY DEF Handling, Holds, HoldsOne
<1>3. \A b, d \in Handling : work[b] = work[d] => b = d
  BY <1>2 DEF HoldsOne
<1>4. PICK x \in Fd : aux[a] \subseteq {x}
  <2>1. 1 \in Fd
    BY DEF Fd
  <2> QED BY <2>1 DEF Files
<1>5. \A f \in Fd : table[p][f] \in Conn \/ (\E b \in Handling : Proc(b) = p /\ f \in aux[b])
  <2>1. \A f \in Fd : table[p][f] \in Conn \cup {Opened}
    BY <1>1 DEF HttpTypeOK, Free
  <2> QED BY <1>1, <2>1 DEF Files
<1>6. CASE mode = "BASIC"
  <2>1. Handling \subseteq {Server}
    BY <1>6 DEF Handling, Roles, Busy, Agent
  <2>2. p = Server /\ a = Server
    BY <1>6, <2>1 DEF Proc
  <2>3. \A f \in Fd : f = fd[Server] \/ f = x
    BY <1>4, <1>5, <1>6, <2>1, <2>2 DEF OneAtATime
  <2>4. 1 \in Fd /\ 2 \in Fd /\ 3 \in Fd
    BY <1>6 DEF Enough, Fd
  <2> QED BY <2>3, <2>4
<1>7. CASE mode # "BASIC"
  <2> DEFINE Owner(f) == CHOOSE b \in Handling : Proc(b) = p /\ f \in aux[b]
             First(b) == CHOOSE y \in aux[b] : TRUE
             use == [f \in Fd |-> IF table[p][f] \in Conn THEN <<table[p][f], 1>>
                                  ELSE <<work[Owner(f)], IF f = First(Owner(f)) THEN 2 ELSE 3>>]
             All == Conn \X {1, 2, 3}
             Uses == All \ {<<work[a], 3>>}
  <2>1. \A f \in Fd : table[p][f] \notin Conn =>
          /\ Owner(f) \in Handling /\ f \in aux[Owner(f)]
    BY <1>5
  <2>2. \A b \in Handling : aux[b] # {} => First(b) \in aux[b]
    OBVIOUS
  <2>3. \A b \in Handling : \A f, g \in aux[b] : f # First(b) /\ g # First(b) => f = g
    <3> SUFFICES ASSUME NEW b \in Handling, NEW f \in aux[b], NEW g \in aux[b],
                        f # First(b), g # First(b)
                 PROVE  f = g
      OBVIOUS
    <3>1. PICK y, z \in Fd : aux[b] \subseteq {y, z}
      BY DEF Files
    <3>2. First(b) \in aux[b]
      BY <2>2
    <3> HIDE DEF First
    <3> QED BY <3>1, <3>2
  <2> HIDE DEF Owner, First
  <2>4. use \in [Fd -> Uses]
    <3> SUFFICES ASSUME NEW f \in Fd
                 PROVE  (IF table[p][f] \in Conn THEN <<table[p][f], 1>>
                         ELSE <<work[Owner(f)], IF f = First(Owner(f)) THEN 2 ELSE 3>>) \in Uses
      OBVIOUS
    <3>1. CASE table[p][f] \in Conn
      BY <3>1
    <3>2. CASE table[p][f] \notin Conn
      <4>1. Owner(f) \in Handling /\ f \in aux[Owner(f)] /\ work[Owner(f)] \in Conn
        BY <1>2, <2>1, <3>2
      <4>2. Owner(f) = a => f = First(a)
        BY <1>4, <2>2, <4>1
      <4>3. work[Owner(f)] = work[a] => f = First(Owner(f))
        BY <1>3, <4>1, <4>2
      <4> QED BY <3>2, <4>1, <4>3
    <3> QED BY <3>1, <3>2
  <2>5. \A f, g \in Fd : use[f] = use[g] => f = g
    <3> SUFFICES ASSUME NEW f \in Fd, NEW g \in Fd, use[f] = use[g] PROVE f = g
      OBVIOUS
    <3>1. CASE table[p][f] \in Conn /\ table[p][g] \in Conn
      BY <1>1, <3>1 DEF Sockets
    <3>2. CASE table[p][f] \notin Conn /\ table[p][g] \notin Conn
      <4>1. Owner(f) = Owner(g) /\ (f = First(Owner(f)) <=> g = First(Owner(g)))
        BY <1>3, <2>1, <3>2
      <4> QED BY <2>1, <2>3, <3>2, <4>1
    <3>3. CASE table[p][f] \in Conn /\ table[p][g] \notin Conn
      BY <3>3
    <3>4. CASE table[p][f] \notin Conn /\ table[p][g] \in Conn
      BY <3>4
    <3> QED BY <3>1, <3>2, <3>3, <3>4
  <2> HIDE DEF use
  <2>6. use \in Injection(Fd, Uses)
    BY <2>4, <2>5 DEF Injection, IsInjective
  <2>7. IsFiniteSet(All) /\ Cardinality(All) = Cardinality(Conn) * 3 /\ Cardinality(Conn) \in Nat
    <3>1. IsFiniteSet(Conn) /\ Cardinality(Conn) \in Nat
      BY FS_CardinalityType DEF HttpConstants, HttpBounds
    <3> QED BY <3>1, ThreeUses, FS_Product
  <2>8. IsFiniteSet(Uses) /\ Cardinality(Uses) = Cardinality(All) - 1
    <3>1. <<work[a], 3>> \in All
      BY <1>2
    <3> HIDE DEF All
    <3> QED BY <2>7, <3>1, FS_RemoveElement
  <2>9. IsFiniteSet(Fd) /\ Cardinality(Fd) = MaxFd
    BY FS_Interval DEF Fd
  <2>10. Cardinality(Fd) <= Cardinality(Uses)
    <3> HIDE DEF Uses
    <3> QED BY <2>6, <2>8, FS_Injection
  <2> HIDE DEF Uses, All
  <2> QED BY <1>7, <2>7, <2>8, <2>9, <2>10 DEF Enough
<1> QED BY <1>6, <1>7

(* A step of a thread at work leaves the connections where they are, also  *)
(* when it opens a file in a descriptor that was free.                     *)
LEMMA HandlerKeeps ==
  ASSUME HttpConstants, HttpInv, NEW a \in Handling, NEW to \in Busy,
         pc' = [pc EXCEPT ![a] = to],
         UNCHANGED <<mode, client, kind, fd, work, queue>>,
         \/ table' = table
         \/ \E m \in Fd : /\ table[Proc(a)][m] = NoConn
                          /\ table' = [table EXCEPT ![Proc(a)][m] = Opened]
  PROVE  /\ Roles' /\ HoldsOne' /\ Sockets' /\ Queued' /\ OneAtATime'
         /\ Holds' = Holds /\ Handling' = Handling
<1> USE Constants DEF HttpInv
<1>1. /\ table \in [Process -> [Fd -> Conn \cup {NoConn, Opened}]]
      /\ DOMAIN pc = Agent /\ a \in Agent /\ pc[a] \in Busy
      /\ fd \in [Agent -> Fd \cup {0}]
  BY DEF HttpTypeOK, Handling
<1>2. \A b \in Agent : Proc(b)' = Proc(b) /\ Proc(b) \in Process
  BY DEF Proc, Process
<1>3. \A q \in Process, f \in Fd :
        \/ table'[q][f] = table[q][f]
        \/ /\ table[q][f] = NoConn /\ table'[q][f] = Opened
           /\ mode # "FORK" => q = Server
  <2>1. CASE table' = table
    BY <2>1
  <2>2. ASSUME NEW m \in Fd, table[Proc(a)][m] = NoConn,
               table' = [table EXCEPT ![Proc(a)][m] = Opened]
        PROVE  \A q \in Process, f \in Fd :
                 table'[q][f] = IF q = Proc(a) /\ f = m THEN Opened ELSE table[q][f]
    BY <1>1, <1>2, <2>2
  <2>3. mode # "FORK" => Proc(a) = Server
    BY DEF Proc
  <2> QED BY <2>1, <2>2, <2>3
<1>4. Holds' = Holds /\ Handling' = Handling
  BY <1>1 DEF Holds, Handling
<1>5. Roles'
  <2>1. pc'[a] = to /\ \A b \in Agent : b # a => pc'[b] = pc[b]
    BY <1>1
  <2>2. \A b \in Agent : \/ pc'[b] = pc[b]
                         \/ pc[b] \in Busy /\ pc'[b] \in Busy
    BY <1>1, <2>1
  <2>3. /\ "accept" \notin Busy /\ "dispatch" \notin Busy /\ "push" \notin Busy
        /\ "none" \notin Busy
    BY DEF Busy
  <2> QED BY <2>2, <2>3 DEF Roles
<1>6. HoldsOne'
  <2>1. \A b \in Holds : /\ work[b] \in Conn /\ fd[b] \in Fd /\ table'[Proc(b)][fd[b]] = work[b]
                         /\ b \in Agent
    BY <1>2, <1>3 DEF HoldsOne, Holds
  <2>2. pc'[Server] = "dispatch" => pc[Server] = "dispatch" /\ pc'[work[Server]] = "none"
    <3>1. pc'[Server] = "dispatch" => pc[Server] = "dispatch"
      BY <1>1 DEF Busy
    <3>2. pc[Server] = "dispatch" => pc[work[Server]] = "none" /\ work[Server] \in Conn
      BY <2>1 DEF HoldsOne, Holds
    <3> QED BY <1>1, <3>1, <3>2 DEF Busy
  <2>3. \A b \in Holds : b \in Conn => work[b] = b
    BY DEF HoldsOne
  <2>4. \A b, d \in Holds : work[b] = work[d] => b = d
    BY DEF HoldsOne
  <2>5. \A b \in Holds : Proc(b)' = Proc(b)
    BY <1>2, <2>1
  <2> HIDE DEF HttpInv
  <2> QED BY <1>4, <2>1, <2>2, <2>3, <2>4, <2>5 DEF HoldsOne
<1>7. Sockets'
  <2>1. \A q \in Process, f \in Fd : table'[q][f] \in Conn <=> table[q][f] \in Conn
    BY <1>3
  <2>2. \A q \in Process, f \in Fd : table'[q][f] \in Conn => table'[q][f] = table[q][f]
    BY <1>3
  <2>3. \A q \in Process, f, g \in Fd :
          table'[q][f] \in Conn /\ table'[q][f] = table'[q][g] => f = g
    BY <2>2 DEF Sockets
  <2>4. \A q \in Process, f \in Fd :
          table'[q][f] \in Conn => client[table'[q][f]] \in {"accepted", "sent"}
    BY <2>2 DEF Sockets
  <2>5. \A c \in Conn : client[c] \in {"accepted", "sent"} => \E f \in Fd : table'[Server][f] = c
    BY <1>3 DEF Sockets
  <2>6. \A c \in Conn : client[c] = "backlog" => pc'[c] = "none"
    BY <1>1 DEF Sockets, Busy
  <2>7. mode # "FORK" => \A c \in Conn : table'[c] = Closed
    <3>1. mode # "FORK" => Proc(a) = Server
      BY DEF Proc
    <3> QED BY <1>1, <3>1 DEF Sockets
  <2>8. mode = "FORK" => \A c \in Conn : client[c] # "closed"
    BY DEF Sockets
  <2> HIDE DEF HttpInv
  <2> QED BY <2>3, <2>4, <2>5, <2>6, <2>7, <2>8 DEF Sockets, Closed
<1>8. Queued'
  <2>1. \A i \in 1..Len(queue) : queue[i] \in Fd /\ table[Server][queue[i]] \in Conn
    BY DEF Queued, HttpTypeOK
  <2>2. \A i \in 1..Len(queue) : table'[Server][queue[i]] = table[Server][queue[i]]
    BY <1>3, <2>1
  <2> QED BY <1>4, <2>2 DEF Queued
<1>9. OneAtATime'
  BY <1>3, <1>4 DEF OneAtATime
<1> QED BY <1>4, <1>5, <1>6, <1>7, <1>8, <1>9

(* What such a step must show of the thread's own files and response.      *)
LEMMA HandlerFiles ==
  ASSUME HttpConstants, HttpInv, NEW a \in Handling, Handling' = Handling,
         DOMAIN pc = Agent, NEW to, pc' = [pc EXCEPT ![a] = to],
         UNCHANGED <<mode, table, aux>>,
         to \in {"parse", "opendir"} => aux[a] = {},
         to \in {"start", "open"} => \E x \in Fd : aux[a] \subseteq {x}
  PROVE  Files'
<1> USE Constants DEF HttpInv
<1>1. \A b : Proc(b)' = Proc(b)
  BY DEF Proc
<1>2. \A b \in Handling : b \in Agent /\ (b # a => pc'[b] = pc[b]) /\ pc'[a] = to
  BY DEF Handling
<1>3. \A b \in Handling :
        /\ pc'[b] \in {"parse", "opendir"} => aux[b] = {}
        /\ pc'[b] \in {"start", "open"} => \E x \in Fd : aux[b] \subseteq {x}
        /\ \E x, y \in Fd : aux[b] \subseteq {x, y}
  BY <1>2 DEF Files
<1> QED BY <1>1, <1>3 DEF Files

LEMMA HandlerAnswers ==
  ASSUME HttpConstants, HttpInv, NEW a \in Handling, Holds' = Holds,
         UNCHANGED <<mode, client, kind, work, queue>>,
         \A b \in Agent : b # a => pc'[b] = pc[b] /\ req'[b] = req[b],
         \A i \in 1..Len(queue) : table'[Server][queue[i]] = table[Server][queue[i]],
         answer' = [c \in Conn |-> answer'[c]],
         \A c \in Conn : c # work[a] => answer'[c] = answer[c],
         Progress(a)', PrefixOf(answer'[work[a]], Answer[kind[work[a]]])
  PROVE  Answers'
<1> USE Constants DEF HttpInv
<1>1. /\ a \in Holds /\ a \in Agent /\ work[a] \in Conn
      /\ client[work[a]] \in {"accepted", "sent"}
  <2>1. a \in Holds /\ a \in Agent
    BY DEF Handling, Holds
  <2>2. Proc(a) \in Process
    BY DEF Proc, Process
  <2> QED BY <2>1, <2>2 DEF HoldsOne, Sockets
<1>2. \A b \in Holds : Progress(b)'
  <2> SUFFICES ASSUME NEW b \in Holds, b # a PROVE Progress(b)'
    OBVIOUS
  <2>1. b \in Agent /\ work[b] \in Conn /\ work[b] # work[a]
    BY <1>1 DEF HoldsOne, Holds
  <2>2. pc'[b] = pc[b] /\ req'[b] = req[b] /\ answer'[work[b]] = answer[work[b]]
    BY <2>1
  <2>3. Progress(b) /\ work'[b] = work[b]
    BY DEF Answers
  <2> QED BY <2>2, <2>3, ProgressKept
<1>3. \A i \in 1..Len(queue) : answer'[table'[Server][queue[i]]] = <<>>
  BY <1>1 DEF Queued, Answers
<1>4. \A c \in Conn : client[c] = "backlog" => answer'[c] = <<>>
  BY <1>1 DEF Answers
<1>5. OneResponse'
  <2>1. Enough' = Enough
    BY DEF Enough
  <2> SUFFICES ASSUME NEW c \in Conn
               PROVE  /\ Len(answer'[c]) <= Len(Answer[kind[c]])
                      /\ \A i \in 1..Len(answer'[c]) : answer'[c][i] = Answer[kind[c]][i]
                      /\ client[c] = "closed" /\ Enough => answer'[c] = Answer[kind[c]]
    BY <2>1 DEF OneResponse
  <2>2. CASE c = work[a]
    BY <1>1, <2>2 DEF PrefixOf
  <2>3. CASE c # work[a]
    BY <2>3 DEF Answers, OneResponse
  <2> QED BY <2>2, <2>3
<1> QED BY <1>2, <1>3, <1>4, <1>5 DEF Answers

(* Facts about a thread at work that its steps start from.                 *)
LEMMA HandlerFacts ==
  ASSUME HttpConstants, HttpInv, NEW a \in Handling
  PROVE  /\ a \in Agent /\ a \in Holds /\ work[a] \in Conn /\ Peer(a) = work[a]
         /\ Proc(a) \in Process /\ kind[work[a]] \in Kinds /\ Progress(a)
         /\ DOMAIN pc = Agent /\ req \in [Agent -> Kinds \cup {"none"}]
         /\ table \in [Process -> [Fd -> Conn \cup {NoConn, Opened}]]
         /\ aux \in [Agent -> SUBSET Fd] /\ pc[a] \in Busy
<1> USE Constants DEF HttpInv
<1>1. a \in Agent /\ a \in Holds /\ pc[a] \in Busy
  BY DEF Handling, Holds
<1>2. Proc(a) \in Process
  BY DEF Proc, Process
<1> QED BY <1>1, <1>2 DEF HoldsOne, Answers, HttpTypeOK, Peer

(* http_request_parse()                                                    *)
LEMMA ParseStep ==
  ASSUME HttpConstants, HttpInv, NEW a \in Agent, Parse(a)
  PROVE  HttpInv'
<1> USE Constants
<1>0. a \in Handling /\ pc[a] = "parse"
  BY DEF Parse, Handling, Busy
<1>1. PICK c \in Conn, k \in Kinds : c = work[a] /\ k = kind[c]
  BY <1>0, HandlerFacts
<1>2. req' = [req EXCEPT ![a] = k] /\ req'[a] = k
  BY <1>0, <1>1, HandlerFacts DEF Parse
<1>3. PICK to : to = CASE k \in {"index", "listing", "noindex"} -> "opendir"
                       [] k = "special" -> "close"
                       [] OTHER -> "start"
  OBVIOUS
<1>4. /\ pc' = [pc EXCEPT ![a] = to]
      /\ UNCHANGED <<mode, client, kind, answer, table, fd, aux, work, queue, mutex>>
  BY <1>2, <1>3 DEF Parse, clients
<1>5. /\ to \in {"opendir", "close", "start"} /\ to \in Busy
      /\ to = "opendir" => k \in {"index", "listing", "noindex"}
      /\ to = "close" => k = "special"
      /\ to = "start" => k \notin {"special", "noindex"}
  BY <1>3, AnswerIs DEF Busy
<1>6. /\ Roles' /\ HoldsOne' /\ Sockets' /\ Queued' /\ OneAtATime'
      /\ Holds' = Holds /\ Handling' = Handling
  BY <1>0, <1>4, <1>5, HandlerKeeps
<1>7. HttpTypeOK'
  BY <1>0, <1>2, <1>4, <1>5, HandlerFacts DEF HttpInv, HttpTypeOK
<1>8. aux[a] = {}
  BY <1>0 DEF HttpInv, Files
<1>9. Files'
  <2>1. 1 \in Fd
    BY DEF Fd
  <2> QED BY <1>0, <1>4, <1>6, <1>8, <2>1, HandlerFacts, HandlerFiles
<1>10. answer[c] = <<>>
  BY <1>0, <1>1, HandlerFacts DEF Progress
<1>11. PrefixOf(answer[c], Answer[k]) /\ (k = "special" => answer[c] = Answer[k])
  BY <1>10, AnswerIs DEF PrefixOf
<1>12. Progress(a)'
  <2>1. pc'[a] = to /\ work'[a] = c /\ kind'[c] = k /\ answer'[c] = <<>> /\ req'[a] = k
    BY <1>0, <1>1, <1>2, <1>4, <1>10, HandlerFacts
  <2>2. PrefixOf(answer'[c], Answer[k]) /\ (k = "special" => answer'[c] = Answer[k])
    BY <1>4, <1>11
  <2> QED BY <1>5, <2>1, <2>2 DEF Progress
<1>13. Answers'
  <2>1. \A b \in Agent : b # a => pc'[b] = pc[b] /\ req'[b] = req[b]
    BY <1>0, <1>2, <1>4, HandlerFacts
  <2>2. answer' = [d \in Conn |-> answer'[d]]
    BY <1>4 DEF HttpInv, Answers
  <2> QED BY <1>0, <1>1, <1>4, <1>6, <1>11, <1>12, <2>1, <2>2, HandlerAnswers
<1> QED BY <1>6, <1>7, <1>9, <1>13 DEF HttpInv

(* opendir() or open() in a descriptor m that is free.                     *)
LEMMA FilesOpened ==
  ASSUME HttpConstants, HttpInv, NEW a \in Handling, pc[a] \in {"opendir", "open"},
         NEW m \in Fd, table[Proc(a)][m] = NoConn,
         table' = [table EXCEPT ![Proc(a)][m] = Opened],
         aux' = [aux EXCEPT ![a] = @ \cup {m}],
         NEW to, pc' = [pc EXCEPT ![a] = to], to \in {"start", "body", "close"},
         to = "start" => pc[a] = "opendir",
         mode' = mode, Handling' = Handling
  PROVE  Files'
<1> USE Constants DEF HttpInv
<1>1. PICK p \in Process : p = Proc(a)
  BY HandlerFacts
<1>2. /\ a \in Agent /\ aux \in [Agent -> SUBSET Fd] /\ DOMAIN pc = Agent
      /\ table \in [Process -> [Fd -> Conn \cup {NoConn, Opened}]]
  BY HandlerFacts
<1>3. /\ \A b \in Agent : aux'[b] = IF b = a THEN aux[a] \cup {m} ELSE aux[b]
      /\ \A q \in Process, f \in Fd : table'[q][f] = IF q = p /\ f = m THEN Opened ELSE table[q][f]
  BY <1>1, <1>2
<1>4. \A b \in Agent : Proc(b)' = Proc(b) /\ Proc(b) \in Process
  BY DEF Proc, Process
<1>5. \A b \in Agent : Proc(b) = p => m \notin aux[b]
  BY <1>1 DEF Files
<1>6. \A b \in Agent : aux'[b] # {} => b \in Handling
  BY <1>3 DEF Files
<1>7. \A b \in Agent : \A f \in aux'[b] : table'[Proc(b)][f] = Opened
  <2> SUFFICES ASSUME NEW b \in Agent, NEW f \in aux'[b] PROVE table'[Proc(b)][f] = Opened
    OBVIOUS
  <2>1. f \in Fd /\ (f \in aux[b] \/ (b = a /\ f = m))
    BY <1>2, <1>3
  <2>2. f \in aux[b] => table[Proc(b)][f] = Opened
    BY DEF Files
  <2> QED BY <1>1, <1>3, <1>4, <2>1, <2>2
<1>8. \A b, d \in Agent : Proc(b) = Proc(d) /\ b # d => aux'[b] \cap aux'[d] = {}
  <2> SUFFICES ASSUME NEW b \in Agent, NEW d \in Agent, Proc(b) = Proc(d), b # d
               PROVE  aux'[b] \cap aux'[d] = {}
    OBVIOUS
  <2>1. aux[b] \cap aux[d] = {}
    BY DEF Files
  <2> QED BY <1>1, <1>3, <1>5, <2>1
<1>9. \A q \in Process, f \in Fd : table'[q][f] = Opened =>
        \E b \in Handling : Proc(b) = q /\ f \in aux'[b]
  <2> SUFFICES ASSUME NEW q \in Process, NEW f \in Fd, table'[q][f] = Opened
               PROVE  \E b \in Handling : Proc(b) = q /\ f \in aux'[b]
    OBVIOUS
  <2>1. CASE q = p /\ f = m
    BY <1>1, <1>2, <1>3, <2>1
  <2>2. CASE ~(q = p /\ f = m)
    <3>1. PICK b \in Handling : Proc(b) = q /\ f \in aux[b]
      BY <1>3, <2>2 DEF Files
    <3>2. b \in Agent
      BY DEF Handling
    <3> QED BY <1>3, <3>1, <3>2
  <2> QED BY <2>1, <2>2
<1>10. \A b \in Handling :
         /\ pc'[b] \in {"parse", "opendir"} => aux'[b] = {}
         /\ pc'[b] \in {"start", "open"} => \E x \in Fd : aux'[b] \subseteq {x}
         /\ \E x, y \in Fd : aux'[b] \subseteq {x, y}
  <2> SUFFICES ASSUME NEW b \in Handling
               PROVE  /\ pc'[b] \in {"parse", "opendir"} => aux'[b] = {}
                      /\ pc'[b] \in {"start", "open"} => \E x \in Fd : aux'[b] \subseteq {x}
                      /\ \E x, y \in Fd : aux'[b] \subseteq {x, y}
    OBVIOUS
  <2>1. b \in Agent
    BY DEF Handling
  <2>2. CASE b # a
    BY <1>2, <1>3, <2>1, <2>2 DEF Files
  <2>3. CASE b = a
    <3>1. \E x \in Fd : aux[a] \subseteq {x}
      BY DEF Files
    <3>2. pc[a] = "opendir" => aux[a] = {}
      BY DEF Files
    <3>3. \E x, y \in Fd : aux'[a] \subseteq {x, y}
      BY <1>2, <1>3, <3>1
    <3>4. pc'[a] = to
      BY <1>2
    <3>5. to = "start" => aux'[a] \subseteq {m}
      BY <1>2, <1>3, <3>2
    <3> QED BY <2>3, <3>3, <3>4, <3>5
  <2> QED BY <2>2, <2>3
<1>11. \A b \in Handling : b \in Agent
  BY DEF Handling
<1> HIDE DEF HttpInv
<1> QED BY <1>4, <1>6, <1>7, <1>8, <1>9, <1>10, <1>11 DEF Files

(* serve_directory() and serve_file(): what they open, or without it the   *)
(* end of the response.                                                    *)
LEMMA OpenStep ==
  ASSUME HttpConstants, HttpInv, NEW a \in Agent, OpenDir(a) \/ OpenFile(a)
  PROVE  HttpInv'
<1> USE Constants
<1>0. a \in Handling /\ pc[a] \in {"opendir", "open"}
  BY DEF OpenDir, OpenFile, Step, Handling, Busy
<1>1. PICK c \in Conn, k \in Kinds, p \in Process : c = work[a] /\ k = kind[c] /\ p = Proc(a)
  BY <1>0, HandlerFacts
<1> DEFINE none == Free(p) = {} \/ (pc[a] = "opendir" /\ req[a] = "noindex")
<1>2. PICK to : to = IF none THEN "close" ELSE IF pc[a] = "opendir" THEN "start" ELSE "body"
  OBVIOUS
<1>3. /\ pc' = [pc EXCEPT ![a] = to] /\ Open(a)
      /\ UNCHANGED <<mode, client, kind, answer, fd, req, work, queue, mutex>>
  BY <1>0, <1>1, <1>2 DEF OpenDir, OpenFile, Step, clients
<1>4. to \in Busy /\ pc'[a] = to
  BY <1>0, <1>2, <1>3, HandlerFacts DEF Busy
<1>5. Progress(a) /\ DOMAIN pc = Agent /\ req \in [Agent -> Kinds \cup {"none"}]
  BY <1>0, HandlerFacts
<1>6. /\ pc[a] = "opendir" => answer[c] = <<>> /\ req[a] = k /\ k \in {"index", "listing", "noindex"}
      /\ pc[a] = "open" => answer[c] = <<200>> /\ k \in {"file", "index"}
  BY <1>1, <1>5 DEF Progress
<1>7. PrefixOf(answer[c], Answer[k])
  <2>1. CASE pc[a] = "opendir"
    <3>1. (Answer[k] = <<200, "body">> \/ Answer[k] = <<>>) /\ answer[c] = <<>>
      BY <1>6, <2>1, AnswerIs
    <3>2. Len(<<200, "body">>) = 2 /\ Len(<<>>) = 0
      OBVIOUS
    <3>3. Len(answer[c]) = 0 /\ Len(answer[c]) <= Len(Answer[k])
      BY <3>1, <3>2
    <3> QED BY <3>3 DEF PrefixOf
  <2>2. CASE pc[a] = "open"
    <3>1. Answer[k] = <<200, "body">> /\ answer[c] = <<200>>
      BY <1>6, <2>2, AnswerIs
    <3> QED BY <3>1, OneIsPrefix
  <2> QED BY <1>0, <2>1, <2>2
<1>8. Progress(a)'
  <2>1. work'[a] = c /\ kind'[c] = k /\ answer'[c] = answer[c] /\ req'[a] = req[a]
        /\ PrefixOf(answer'[c], Answer[k])
    BY <1>1, <1>3, <1>7
  <2>2. Free(p) = {} => ~Enough'
    <3>1. Enough' = Enough
      BY <1>3 DEF Enough
    <3> QED BY <1>0, <1>1, <3>1, BusyHaveRoom
  <2>3. CASE Free(p) = {}
    BY <1>2, <1>4, <2>1, <2>2, <2>3 DEF Progress
  <2>6. CASE Free(p) # {} /\ pc[a] = "opendir" /\ req[a] = "noindex"
    <3>1. to = "close" /\ answer'[c] = Answer[k]
      BY <1>2, <1>3, <1>6, <2>6, AnswerIs
    <3> QED BY <1>4, <2>1, <3>1 DEF Progress
  <2>4. CASE Free(p) # {} /\ pc[a] = "opendir" /\ req[a] # "noindex"
    BY <1>2, <1>4, <1>6, <2>1, <2>4 DEF Progress
  <2>5. CASE Free(p) # {} /\ pc[a] = "open"
    BY <1>2, <1>4, <1>6, <2>1, <2>5 DEF Progress
  <2> QED BY <1>0, <2>3, <2>4, <2>5, <2>6
<1>9. \A b \in Agent : b # a => pc'[b] = pc[b] /\ req'[b] = req[b]
  BY <1>3, <1>5
<1>10. answer' = [d \in Conn |-> answer'[d]]
  BY <1>3 DEF HttpInv, Answers
<1>11. CASE Free(p) = {}
  <2>1. UNCHANGED <<table, aux>>
    BY <1>1, <1>3, <1>11 DEF Open
  <2>2. /\ Roles' /\ HoldsOne' /\ Sockets' /\ Queued' /\ OneAtATime'
        /\ Holds' = Holds /\ Handling' = Handling
    BY <1>0, <1>3, <1>4, <2>1, HandlerKeeps
  <2>3. HttpTypeOK'
    BY <1>3, <1>4, <2>1 DEF HttpInv, HttpTypeOK
  <2>4. Files'
    <3>1. to = "close"
      BY <1>2, <1>11
    <3> QED BY <1>0, <1>3, <1>5, <2>1, <2>2, <3>1, HandlerFiles
  <2>5. Answers'
    BY <1>0, <1>1, <1>3, <1>7, <1>8, <1>9, <1>10, <2>1, <2>2, HandlerAnswers
  <2> QED BY <2>2, <2>3, <2>4, <2>5 DEF HttpInv
<1>12. CASE Free(p) # {}
  <2>1. PICK m : m = Min(Free(p))
    OBVIOUS
  <2>2. m \in Fd /\ table[Proc(a)][m] = NoConn
    BY <1>1, <1>12, <2>1, LowestFree
  <2>3. /\ table' = [table EXCEPT ![Proc(a)][m] = Opened]
        /\ aux' = [aux EXCEPT ![a] = @ \cup {m}]
    BY <1>1, <1>3, <1>12, <2>1 DEF Open
  <2>4. /\ Roles' /\ HoldsOne' /\ Sockets' /\ Queued' /\ OneAtATime'
        /\ Holds' = Holds /\ Handling' = Handling
    BY <1>0, <1>3, <1>4, <2>2, <2>3, HandlerKeeps
  <2>5. HttpTypeOK'
    <3>1. table' \in [Process -> [Fd -> Conn \cup {NoConn, Opened}]] /\ aux' \in [Agent -> SUBSET Fd]
      BY <1>0, <2>2, <2>3, HandlerFacts
    <3> QED BY <1>3, <1>4, <3>1 DEF HttpInv, HttpTypeOK
  <2>6. Files'
    BY <1>0, <1>2, <1>3, <1>12, <2>2, <2>3, <2>4, FilesOpened
  <2>7. \A i \in 1..Len(queue) : table'[Server][queue[i]] = table[Server][queue[i]]
    <3>1. \A i \in 1..Len(queue) : queue[i] \in Fd /\ table[Server][queue[i]] \in Conn
      BY DEF HttpInv, Queued, HttpTypeOK
    <3> QED BY <1>0, <2>2, <2>3, <3>1, HandlerFacts
  <2>8. Answers'
    BY <1>0, <1>1, <1>3, <1>7, <1>8, <1>9, <1>10, <2>4, <2>7, HandlerAnswers
  <2> QED BY <2>4, <2>5, <2>6, <2>8 DEF HttpInv
<1> QED BY <1>11, <1>12

(* http_start_response() and the body.                                     *)
LEMMA RespondStep ==
  ASSUME HttpConstants, HttpInv, NEW a \in Agent, StartResponse(a) \/ SendBody(a)
  PROVE  HttpInv'
<1> USE Constants
<1>0. a \in Handling /\ pc[a] \in {"start", "body"}
  BY DEF StartResponse, SendBody, Step, Handling, Busy
<1>1. PICK c \in Conn, k \in Kinds : c = work[a] /\ k = kind[c]
  BY <1>0, HandlerFacts
<1>2. Progress(a) /\ DOMAIN pc = Agent /\ Peer(a) = c
  BY <1>0, <1>1, HandlerFacts
<1>3. /\ pc[a] = "start" => answer[c] = <<>> /\ req[a] = k /\ k \notin {"special", "noindex"}
      /\ pc[a] = "body" => answer[c] = <<200>> /\ k \in {"file", "index", "listing"}
  BY <1>1, <1>2 DEF Progress
<1>4. PICK to, s :
        /\ to \in Busy /\ pc' = [pc EXCEPT ![a] = to] /\ answer' = [answer EXCEPT ![c] = s]
        /\ \/ to = "open" /\ k \in {"file", "index"} /\ s = <<200>>
           \/ to = "body" /\ k = "listing" /\ s = <<200>>
           \/ to = "close" /\ s = Answer[k]
        /\ to = "open" => pc[a] = "start"
  <2>1. CASE StartResponse(a)
    <3>1. PICK to : to = CASE k \in {"file", "index"} -> "open"
                           [] k = "listing" -> "body"
                           [] OTHER -> "close"
      OBVIOUS
    <3>2. /\ pc[a] = "start" /\ pc' = [pc EXCEPT ![a] = to]
          /\ answer' = [answer EXCEPT ![c] = Append(@, Head(Answer[k]))]
      BY <1>2, <1>3, <2>1, <3>1 DEF StartResponse, Step
    <3>3. answer[c] = <<>> /\ k \notin {"special", "noindex"}
      BY <1>3, <3>2
    <3>4. Append(answer[c], Head(Answer[k])) = <<Head(Answer[k])>>
      BY <3>3
    <3>5. answer' = [answer EXCEPT ![c] = <<Head(Answer[k])>>]
      BY <3>2, <3>4
    <3>6. /\ k \in {"file", "index", "listing"} => <<Head(Answer[k])>> = <<200>>
          /\ k \in {"bad", "dotdot", "missing"} => <<Head(Answer[k])>> = Answer[k]
      BY AnswerIs
    <3>7. k \in {"file", "index", "listing", "bad", "dotdot", "missing"}
      BY <3>3, AnswerIs
    <3>8. /\ to \in Busy /\ (to = "open" => pc[a] = "start")
          /\ \/ to = "open" /\ k \in {"file", "index"} /\ <<Head(Answer[k])>> = <<200>>
             \/ to = "body" /\ k = "listing" /\ <<Head(Answer[k])>> = <<200>>
             \/ to = "close" /\ <<Head(Answer[k])>> = Answer[k]
      BY <3>1, <3>2, <3>6, <3>7 DEF Busy
    <3> QED BY <3>2, <3>5, <3>8
  <2>2. CASE SendBody(a)
    <3>1. /\ pc[a] = "body" /\ pc' = [pc EXCEPT ![a] = "close"]
          /\ answer' = [answer EXCEPT ![c] = Append(@, "body")]
      BY <1>2, <2>2 DEF SendBody, Step
    <3>2. Append(answer[c], "body") = Answer[k]
      <4>1. answer[c] = <<200>> /\ Answer[k] = <<200, "body">>
        BY <1>3, <3>1, AnswerIs
      <4>2. Append(<<200>>, "body") = <<200, "body">>
        BY AppendToOne
      <4> QED BY <4>1, <4>2
    <3> QED BY <3>1, <3>2 DEF Busy
  <2> QED BY <2>1, <2>2
<1>5. UNCHANGED <<mode, client, kind, table, fd, aux, req, work, queue, mutex>>
  BY DEF StartResponse, SendBody, handlers
<1>6. /\ Roles' /\ HoldsOne' /\ Sockets' /\ Queued' /\ OneAtATime'
      /\ Holds' = Holds /\ Handling' = Handling
  BY <1>0, <1>4, <1>5, HandlerKeeps
<1>7. HttpTypeOK'
  BY <1>4, <1>5 DEF HttpInv, HttpTypeOK
<1>8. Files'
  <2>1. to = "open" => \E x \in Fd : aux[a] \subseteq {x}
    BY <1>0, <1>4 DEF HttpInv, Files
  <2>2. to \notin {"parse", "opendir", "start"}
    BY <1>4
  <2> QED BY <1>0, <1>2, <1>4, <1>5, <1>6, <2>1, <2>2, HandlerFiles
<1>9. answer = [d \in Conn |-> answer[d]]
  BY DEF HttpInv, Answers
<1>10. /\ answer' = [d \in Conn |-> answer'[d]]
       /\ answer'[c] = s /\ \A d \in Conn : d # c => answer'[d] = answer[d]
  BY <1>4, <1>9
<1>11. PrefixOf(s, Answer[k])
  BY <1>4, AnswerIs, SMTT(30) DEF PrefixOf
<1>12. Progress(a)'
  <2>1. pc'[a] = to /\ work'[a] = c /\ kind'[c] = k
    BY <1>0, <1>1, <1>4, <1>5, HandlerFacts
  <2> QED BY <1>4, <1>10, <1>11, <2>1 DEF Progress
<1>13. Answers'
  <2>1. \A b \in Agent : b # a => pc'[b] = pc[b] /\ req'[b] = req[b]
    BY <1>2, <1>4, <1>5
  <2> QED BY <1>0, <1>1, <1>5, <1>6, <1>10, <1>11, <1>12, <2>1, HandlerAnswers
<1> QED BY <1>6, <1>7, <1>8, <1>13 DEF HttpInv

(* What a thread closes: everything it has open, and nothing of another's. *)
LEMMA Closes ==
  ASSUME HttpConstants, HttpInv, NEW a \in Agent, Close(a)
  PROVE  /\ mode = "FORK" =>
              /\ a \in Conn
              /\ table' = [table EXCEPT ![a] = Closed] /\ client' = client
         /\ mode # "FORK" =>
              /\ table' = [table EXCEPT ![Server] =
                             [f \in Fd |-> IF f \in aux[a] \cup {fd[a]} THEN NoConn ELSE @[f]]]
              /\ client' = [client EXCEPT ![work[a]] = "closed"]
<1> USE Constants
<1>1. a \in Handling /\ pc[a] = "close"
  BY DEF Close, Step, Handling, Busy
<1>2. PICK c \in Conn : c = work[a]
  BY <1>1, HandlerFacts
<1>3. /\ table \in [Process -> [Fd -> Conn \cup {NoConn, Opened}]]
      /\ client \in [Conn -> {"backlog", "accepted", "sent", "closed"}]
      /\ fd[a] \in Fd /\ table[Proc(a)][fd[a]] = c
  BY <1>1, <1>2, HandlerFacts DEF HttpInv, HttpTypeOK, HoldsOne
<1>4. \A d \in Conn : client[d] \in {"accepted", "sent"} => \E f \in Fd : table[Server][f] = d
  BY DEF HttpInv, Sockets
<1>5. client' = [d \in Conn |->
        IF client[d] \in {"accepted", "sent"} /\ \A p \in Process, f \in Fd : table'[p][f] # d
          THEN "closed" ELSE client[d]]
  BY DEF Close, Hangup
<1>6. CASE mode = "FORK"
  <2>1. a \in Conn
    BY <1>1, <1>6 DEF HttpInv, Roles, Handling, Busy, Agent
  <2>2. table' = [table EXCEPT ![a] = Closed]
    BY <1>6, <2>1 DEF Close, Proc
  <2>3. table'[Server] = table[Server]
    BY <1>3, <2>1, <2>2
  <2>4. \A d \in Conn : client[d] \in {"accepted", "sent"} =>
          ~ \A p \in Process, f \in Fd : table'[p][f] # d
    BY <1>4, <2>3
  <2>5. \A d \in Conn : client'[d] = client[d]
    BY <1>5, <2>4
  <2>6. client' = client
    BY <1>3, <1>5, <2>5
  <2> QED BY <1>6, <2>1, <2>2, <2>6
<1>7. CASE mode # "FORK"
  <2>1. Proc(a) = Server
    BY <1>7 DEF Proc
  <2>2. table' = [table EXCEPT ![Server] =
                    [f \in Fd |-> IF f \in aux[a] \cup {fd[a]} THEN NoConn ELSE @[f]]]
    BY <2>1 DEF Close
  <2>3. /\ \A f \in Fd : table'[Server][f] = IF f \in aux[a] \cup {fd[a]} THEN NoConn ELSE table[Server][f]
        /\ \A d \in Conn : table'[d] = table[d]
    BY <1>3, <2>2
  <2>4. \A f \in Fd : f \in aux[a] => table[Server][f] = Opened
    BY <1>1, <2>1, HandlerFacts DEF HttpInv, Files
  <2>5. \A d \in Conn : d # c /\ client[d] \in {"accepted", "sent"} =>
          ~ \A p \in Process, f \in Fd : table'[p][f] # d
    BY <1>3, <1>4, <2>1, <2>3, <2>4
  <2>6. \A p \in Process, f \in Fd : table'[p][f] # c
    <3> SUFFICES ASSUME NEW p \in Process, NEW f \in Fd, table'[p][f] = c PROVE FALSE
      OBVIOUS
    <3>1. CASE p = Server
      <4>1. table[Server][f] = c /\ f # fd[a]
        BY <2>3, <3>1
      <4> QED BY <1>3, <2>1, <4>1 DEF HttpInv, Sockets
    <3>2. CASE p \in Conn
      <4>1. table[p] = Closed
        BY <1>7, <3>2 DEF HttpInv, Sockets
      <4> QED BY <2>3, <3>2, <4>1 DEF Closed
    <3> QED BY <3>1, <3>2 DEF Process
  <2>7. client[c] \in {"accepted", "sent"}
    BY <1>3, <2>1 DEF HttpInv, Sockets
  <2>8. \A d \in Conn : client'[d] = IF d = c THEN "closed" ELSE client[d]
    <3> SUFFICES ASSUME NEW d \in Conn PROVE client'[d] = IF d = c THEN "closed" ELSE client[d]
      OBVIOUS
    <3>1. CASE d = c
      BY <1>5, <2>6, <2>7, <3>1
    <3>2. CASE d # c
      BY <1>5, <2>5, <3>2
    <3> QED BY <3>1, <3>2
  <2>9. client' = [client EXCEPT ![c] = "closed"]
    <3>1. client' = [d \in Conn |-> client'[d]]
      BY <1>5
    <3> QED BY <1>3, <2>8, <3>1
  <2> QED BY <1>2, <1>7, <2>2, <2>9
<1> QED BY <1>6, <1>7

LEMMA CloseStep ==
  ASSUME HttpConstants, HttpInv, NEW a \in Agent, Close(a)
  PROVE  HttpInv'
<1> USE Constants
<1>1. a \in Handling /\ pc[a] = "close"
  BY DEF Close, Step, Handling, Busy
<1>2. PICK c \in Conn, k \in Kinds, p \in Process, to \in {"accept", "lock", "done"} :
        /\ c = work[a] /\ k = kind[c] /\ p = Proc(a)
        /\ to = CASE a = Server -> "accept" [] a \in Worker -> "lock" [] OTHER -> "done"
  BY <1>1, HandlerFacts
<1>3. /\ pc' = [pc EXCEPT ![a] = to]
      /\ aux' = [aux EXCEPT ![a] = {}] /\ req' = [req EXCEPT ![a] = "none"]
      /\ work' = [work EXCEPT ![a] = NoConn]
      /\ UNCHANGED <<mode, kind, answer, fd, queue, mutex>>
  BY <1>2 DEF Close, Step
<1>4. /\ table \in [Process -> [Fd -> Conn \cup {NoConn, Opened}]]
      /\ client \in [Conn -> {"backlog", "accepted", "sent", "closed"}]
      /\ fd \in [Agent -> Fd \cup {0}] /\ aux \in [Agent -> SUBSET Fd]
      /\ work \in [Agent -> Conn \cup {NoConn}] /\ req \in [Agent -> Kinds \cup {"none"}]
      /\ DOMAIN pc = Agent /\ mode \in {"BASIC", "FORK", "THREAD", "POOL"}
      /\ queue \in Seq(Fd)
  BY DEF HttpInv, HttpTypeOK
<1>5. fd[a] \in Fd /\ table[p][fd[a]] = c /\ a \in Holds
  BY <1>1, <1>2, HandlerFacts DEF HttpInv, HoldsOne
<1>6. /\ \A b \in Agent : Proc(b)' = Proc(b) /\ Proc(b) \in Process
      /\ \A b \in Agent : mode = "FORK" /\ Proc(b) = a /\ a \in Conn => b = a
      /\ mode = "FORK" /\ a \in Conn => p = a
      /\ mode # "FORK" => p = Server /\ \A b \in Agent : Proc(b) = Server
  BY <1>2, <1>3 DEF Proc, Process
<1>7. /\ mode = "FORK" => a \in Conn /\ client' = client
      /\ \A q \in Process, f \in Fd :
           table'[q][f] = IF \/ mode = "FORK" /\ q = a
                             \/ mode # "FORK" /\ q = Server /\ f \in aux[a] \cup {fd[a]}
                          THEN NoConn ELSE table[q][f]
      /\ mode = "FORK" => table'[Server] = table[Server]
      /\ mode # "FORK" => \A d \in Conn : table'[d] = table[d]
      /\ mode # "FORK" => client' = [client EXCEPT ![c] = "closed"]
      /\ table' \in [Process -> [Fd -> Conn \cup {NoConn, Opened}]]
  <2>1. CASE mode = "FORK"
    <3>1. a \in Conn /\ table' = [table EXCEPT ![a] = Closed] /\ client' = client
      BY <2>1, Closes
    <3>2. Closed \in [Fd -> Conn \cup {NoConn, Opened}] /\ \A f \in Fd : Closed[f] = NoConn
      BY DEF Closed
    <3> HIDE DEF Closed
    <3> QED BY <1>4, <2>1, <3>1, <3>2
  <2>2. CASE mode # "FORK"
    <3>1. /\ table' = [table EXCEPT ![Server] =
                         [f \in Fd |-> IF f \in aux[a] \cup {fd[a]} THEN NoConn ELSE @[f]]]
          /\ client' = [client EXCEPT ![c] = "closed"]
      BY <1>2, <2>2, Closes
    <3> QED BY <1>4, <2>2, <3>1
  <2> QED BY <2>1, <2>2
<1>8. Holds' = Holds \ {a} /\ Handling' = Handling \ {a}
      /\ pc'[a] = to /\ to \in {"accept", "lock", "done"}
  <2>1. to \in {"accept", "lock", "done"} /\ to \notin Busy \cup {"dispatch", "push"}
    BY <1>2 DEF Busy
  <2> QED BY <1>3, <1>4, <2>1 DEF Holds, Handling
<1>9. /\ \A b \in Holds \ {a} : /\ b \in Agent /\ work[b] \in Conn /\ work[b] # c /\ fd[b] \in Fd
                                /\ table[Proc(b)][fd[b]] = work[b]
      /\ \A b \in Agent : b # a => pc'[b] = pc[b] /\ work'[b] = work[b] /\ aux'[b] = aux[b]
                                   /\ req'[b] = req[b]
      /\ aux'[a] = {}
  <2>1. \A b \in Holds : /\ b \in Agent /\ work[b] \in Conn /\ fd[b] \in Fd
                         /\ table[Proc(b)][fd[b]] = work[b]
    BY DEF HttpInv, HoldsOne, Holds
  <2>2. \A b \in Holds \ {a} : work[b] # c
    BY <1>2, <1>5 DEF HttpInv, HoldsOne
  <2> QED BY <1>3, <1>4, <2>1, <2>2
<1>10. \A b \in Agent : \A f \in aux[b] : f \in Fd /\ table[Proc(b)][f] = Opened
  BY <1>4 DEF HttpInv, Files
<1>11. HttpTypeOK'
  <2>1. client' \in [Conn -> {"backlog", "accepted", "sent", "closed"}]
    BY <1>4, <1>7
  <2>2. work' \in [Agent -> Conn \cup {NoConn}] /\ aux' \in [Agent -> SUBSET Fd]
        /\ req' \in [Agent -> Kinds \cup {"none"}]
    BY <1>3, <1>4
  <2>3. pc' \in [Agent -> Busy \cup {"none", "accept", "dispatch", "push", "lock", "test",
                                     "wait", "done"}]
    BY <1>3, <1>8 DEF HttpInv, HttpTypeOK
  <2> QED BY <1>3, <1>7, <2>1, <2>2, <2>3 DEF HttpInv, HttpTypeOK
<1>12. Roles'
  <2>1. /\ a = Server => mode = "BASIC" /\ pc'[a] = "accept"
        /\ a \in Worker => mode = "POOL" /\ pc'[a] = "lock"
        /\ a \in Conn => mode \in {"FORK", "THREAD"} /\ pc'[a] = "done"
    <3>1. a = Server => mode = "BASIC"
      BY <1>1, <1>4 DEF HttpInv, Roles
    <3>2. a \in Worker => mode = "POOL"
      BY <1>1, <1>4 DEF HttpInv, Roles
    <3>3. a \in Conn => mode \in {"FORK", "THREAD"}
      BY <1>1, <1>4 DEF HttpInv, Roles
    <3> QED BY <1>2, <1>8, <3>1, <3>2, <3>3
  <2>2. \A b \in Agent : b = a \/ pc'[b] = pc[b]
    BY <1>9
  <2> QED BY <1>3, <2>1, <2>2 DEF HttpInv, Roles
<1>13. HoldsOne'
  <2>1. \A b \in Holds \ {a} : table'[Proc(b)][fd[b]] = work[b]
    <3> SUFFICES ASSUME NEW b \in Holds \ {a} PROVE table'[Proc(b)][fd[b]] = work[b]
      OBVIOUS
    <3>1. b \in Agent /\ b # a /\ fd[b] \in Fd /\ table[Proc(b)][fd[b]] = work[b]
          /\ work[b] # c /\ work[b] \in Conn
      BY <1>9
    <3>2. CASE mode = "FORK"
      BY <1>6, <1>7, <3>1, <3>2
    <3>3. CASE mode # "FORK"
      <4>1. fd[b] # fd[a] /\ fd[b] \notin aux[a]
        BY <1>5, <1>6, <1>10, <3>1, <3>3
      <4> QED BY <1>6, <1>7, <3>1, <3>3, <4>1
    <3> QED BY <3>2, <3>3
  <2>2. pc'[Server] = "dispatch" => pc'[work'[Server]] = "none"
    <3>1. pc'[Server] = "dispatch" => Server # a /\ pc[Server] = "dispatch"
      BY <1>8, <1>9
    <3>2. pc[Server] = "dispatch" => work[Server] \in Conn /\ pc[work[Server]] = "none"
      BY DEF HttpInv, HoldsOne, Holds
    <3>3. Server # a => work'[Server] = work[Server]
      BY <1>9
    <3>4. pc[work[Server]] = "none" => work[Server] # a
      BY <1>1
    <3> QED BY <1>9, <3>1, <3>2, <3>3, <3>4
  <2>3. \A b \in Holds \ {a} : Proc(b)' = Proc(b) /\ work'[b] = work[b] /\ fd'[b] = fd[b]
    BY <1>3, <1>6, <1>9
  <2>4. \A b \in Holds \ {a} : b \in Conn => work[b] = b
    BY DEF HttpInv, HoldsOne
  <2>5. \A b, d \in Holds \ {a} : work[b] = work[d] => b = d
    BY DEF HttpInv, HoldsOne
  <2> QED BY <1>8, <1>9, <2>1, <2>2, <2>3, <2>4, <2>5 DEF HoldsOne
<1>14. \A q \in Process, f \in Fd :
         /\ table'[q][f] \in {table[q][f], NoConn}
         /\ mode # "FORK" => table'[q][f] # c
  <2> SUFFICES ASSUME NEW q \in Process, NEW f \in Fd, mode # "FORK", table'[q][f] = c
               PROVE  FALSE
    BY <1>7
  <2>1. CASE q = Server
    <3>1. table[Server][f] = c /\ f # fd[a]
      BY <1>7, <2>1
    <3> QED BY <1>5, <1>6, <3>1 DEF HttpInv, Sockets
  <2>2. CASE q \in Conn
    <3>1. table[q] = Closed
      BY <2>2 DEF HttpInv, Sockets
    <3> QED BY <1>7, <2>2, <3>1 DEF Closed
  <2> QED BY <2>1, <2>2 DEF Process
<1>15. Sockets'
  <2>1. \A q \in Process, f, g \in Fd :
          table'[q][f] \in Conn /\ table'[q][f] = table'[q][g] => f = g
    BY <1>14 DEF HttpInv, Sockets
  <2>2. \A q \in Process, f \in Fd :
          table'[q][f] \in Conn => client'[table'[q][f]] \in {"accepted", "sent"}
    <3> SUFFICES ASSUME NEW q \in Process, NEW f \in Fd, table'[q][f] \in Conn
                 PROVE  client'[table'[q][f]] \in {"accepted", "sent"}
      OBVIOUS
    <3>1. table'[q][f] = table[q][f] /\ client[table[q][f]] \in {"accepted", "sent"}
      BY <1>14 DEF HttpInv, Sockets
    <3> QED BY <1>4, <1>7, <1>14, <3>1
  <2>3. \A d \in Conn : client'[d] \in {"accepted", "sent"} => \E f \in Fd : table'[Server][f] = d
    <3> SUFFICES ASSUME NEW d \in Conn, client'[d] \in {"accepted", "sent"}
                 PROVE  \E f \in Fd : table'[Server][f] = d
      OBVIOUS
    <3>1. client[d] = client'[d] /\ (mode # "FORK" => d # c)
      BY <1>4, <1>7
    <3>2. PICK f \in Fd : table[Server][f] = d
      BY <3>1 DEF HttpInv, Sockets
    <3>3. mode # "FORK" => f # fd[a] /\ f \notin aux[a]
      BY <1>5, <1>6, <1>10, <3>1, <3>2
    <3> QED BY <1>7, <3>2, <3>3
  <2>4. \A d \in Conn : client'[d] = "backlog" => pc'[d] = "none"
    <3>1. \A d \in Conn : client'[d] = "backlog" => client[d] = "backlog"
      BY <1>4, <1>7
    <3>2. \A d \in Conn : client[d] = "backlog" => pc[d] = "none" /\ d # a
      BY <1>1 DEF HttpInv, Sockets
    <3> QED BY <1>9, <3>1, <3>2
  <2>5. mode = "FORK" => \A d \in Conn : client'[d] # "closed"
    BY <1>7 DEF HttpInv, Sockets
  <2>6. mode # "FORK" => \A d \in Conn : table'[d] = Closed
    BY <1>7 DEF HttpInv, Sockets
  <2> QED BY <1>3, <2>1, <2>2, <2>3, <2>4, <2>5, <2>6 DEF Sockets, Closed
<1>16. \A i \in 1..Len(queue) : table'[Server][queue[i]] = table[Server][queue[i]]
  <2> SUFFICES ASSUME NEW i \in 1..Len(queue) PROVE table'[Server][queue[i]] = table[Server][queue[i]]
    OBVIOUS
  <2>1. queue[i] \in Fd /\ table[Server][queue[i]] \in Conn /\ table[Server][queue[i]] # c
    BY <1>2, <1>4, <1>5 DEF HttpInv, Queued
  <2>2. mode # "FORK" => queue[i] # fd[a] /\ queue[i] \notin aux[a]
    BY <1>5, <1>6, <1>10, <2>1
  <2> QED BY <1>7, <2>1, <2>2
<1>17. Queued'
  <2>1. \A b \in Holds \ {a} : work'[b] = work[b]
    BY <1>9
  <2> QED BY <1>3, <1>8, <1>16, <2>1 DEF HttpInv, Queued
<1>18. OneAtATime'
  <2> SUFFICES ASSUME mode = "BASIC", NEW f \in Fd, table'[Server][f] \in Conn
               PROVE  FALSE
    BY <1>3 DEF OneAtATime
  <2>1. table[Server][f] = table'[Server][f]
    BY <1>14
  <2>2. f = fd[Server] /\ a = Server
    <3>1. a = Server
      BY <1>1, <1>4 DEF HttpInv, Roles, Agent
    <3> QED BY <2>1, <3>1 DEF HttpInv, OneAtATime
  <2> QED BY <1>7, <2>2
<1>19. Files'
  <2>1. \A b \in Agent : aux'[b] # {} => b \in Handling'
    BY <1>8, <1>9 DEF HttpInv, Files
  <2>2. \A b \in Agent : \A f \in aux'[b] : table'[Proc(b)][f] = Opened
    <3> SUFFICES ASSUME NEW b \in Agent, NEW f \in aux'[b] PROVE table'[Proc(b)][f] = Opened
      OBVIOUS
    <3>1. b # a /\ f \in aux[b] /\ f \in Fd /\ table[Proc(b)][f] = Opened
      BY <1>9, <1>10
    <3>2. CASE mode = "FORK"
      BY <1>6, <1>7, <3>1, <3>2
    <3>3. CASE mode # "FORK"
      <4>1. f \notin aux[a]
        BY <1>6, <3>1, <3>3 DEF HttpInv, Files
      <4>2. f # fd[a]
        BY <1>5, <1>6, <3>1, <3>3
      <4> QED BY <1>6, <1>7, <3>1, <3>3, <4>1, <4>2
    <3> QED BY <3>2, <3>3
  <2>3. \A b, d \in Agent : Proc(b) = Proc(d) /\ b # d => aux'[b] \cap aux'[d] = {}
    <3>1. \A b, d \in Agent : Proc(b) = Proc(d) /\ b # d => aux[b] \cap aux[d] = {}
      BY DEF HttpInv, Files
    <3>2. \A b \in Agent : aux'[b] \subseteq aux[b]
      BY <1>9
    <3> QED BY <3>1, <3>2
  <2>4. \A q \in Process, f \in Fd : table'[q][f] = Opened =>
          \E b \in Handling \ {a} : Proc(b) = q /\ f \in aux'[b]
    <3> SUFFICES ASSUME NEW q \in Process, NEW f \in Fd, table'[q][f] = Opened
                 PROVE  \E b \in Handling \ {a} : Proc(b) = q /\ f \in aux'[b]
      OBVIOUS
    <3>1. table[q][f] = Opened /\ ~(mode = "FORK" /\ q = a)
          /\ ~(mode # "FORK" /\ q = Server /\ f \in aux[a])
      BY <1>7
    <3>2. PICK b \in Handling : Proc(b) = q /\ f \in aux[b]
      BY <3>1 DEF HttpInv, Files
    <3>3. b # a /\ b \in Agent
      BY <1>2, <1>6, <1>7, <3>1, <3>2 DEF Handling
    <3> QED BY <1>9, <3>2, <3>3
  <2>5. \A b \in Handling \ {a} : b \in Agent /\ pc'[b] = pc[b] /\ aux'[b] = aux[b]
    BY <1>9 DEF Handling
  <2>6. \A b \in Handling \ {a} :
          /\ pc'[b] \in {"parse", "opendir"} => aux'[b] = {}
          /\ pc'[b] \in {"start", "open"} => \E x \in Fd : aux'[b] \subseteq {x}
          /\ \E x, y \in Fd : aux'[b] \subseteq {x, y}
    BY <2>5 DEF HttpInv, Files
  <2> QED BY <1>6, <1>8, <2>1, <2>2, <2>3, <2>4, <2>5, <2>6 DEF Files
<1>20. Answers'
  <2>1. \A b \in Holds \ {a} : Progress(b)'
    <3> SUFFICES ASSUME NEW b \in Holds \ {a} PROVE Progress(b)'
      OBVIOUS
    <3>1. pc'[b] = pc[b] /\ req'[b] = req[b] /\ work'[b] = work[b]
      BY <1>9
    <3>2. Progress(b)
      BY DEF HttpInv, Answers
    <3> QED BY <1>3, <3>1, <3>2, ProgressKept
  <2>2. Enough => answer[c] = Answer[k]
    BY <1>1, <1>2, HandlerFacts DEF Progress
  <2>3. Enough' = Enough
    BY <1>3 DEF Enough
  <2>4. \A d \in Conn : client'[d] = "closed" => d = c \/ client[d] = "closed"
    BY <1>4, <1>7
  <2>5. \A d \in Conn : client'[d] = "backlog" => client[d] = "backlog"
    BY <1>4, <1>7
  <2>6. OneResponse'
    <3> SUFFICES ASSUME NEW d \in Conn
                 PROVE  /\ Len(answer[d]) <= Len(Answer[kind[d]])
                        /\ \A i \in 1..Len(answer[d]) : answer[d][i] = Answer[kind[d]][i]
                        /\ client'[d] = "closed" /\ Enough => answer[d] = Answer[kind[d]]
      BY <1>3, <2>3 DEF OneResponse
    <3>1. OneResponse
      BY DEF HttpInv, Answers
    <3> QED BY <1>2, <2>2, <2>4, <3>1 DEF OneResponse
  <2>7. /\ \A i \in 1..Len(queue) : answer[table'[Server][queue[i]]] = <<>>
        /\ answer = [d \in Conn |-> answer[d]]
        /\ \A d \in Conn : client'[d] = "backlog" => answer[d] = <<>>
    BY <1>16, <2>5 DEF HttpInv, Answers
  <2> QED BY <1>3, <1>8, <2>1, <2>6, <2>7 DEF Answers
<1> QED BY <1>11, <1>12, <1>13, <1>15, <1>17, <1>18, <1>19, <1>20 DEF HttpInv

-----------------------------------------------------------------------------
LEMMA NextHolds ==
  ASSUME HttpConstants, HttpInv, [HttpNext]_httpVars
  PROVE  HttpInv'
<1>1. CASE UNCHANGED httpVars
  <2>1. HttpTypeOK' /\ Roles'
    BY <1>1 DEF httpVars, HttpInv, HttpTypeOK, Roles
  <2> QED BY <1>1, <2>1, Moves DEF httpVars
<1>2. CASE HttpNext
  <2>1. ASSUME NEW c \in Conn, Send(c) PROVE HttpInv'
    BY <2>1, SendStep
  <2>2. ASSUME NEW c \in Conn, Accept(c) PROVE HttpInv'
    BY <2>2, AcceptStep
  <2>3. CASE DispatchBasic \/ PushLock
    BY <2>3, MovesSteps
  <2>4. CASE DispatchFork \/ DispatchThread
    BY <2>4, DispatchSteps
  <2>5. CASE Push
    BY <2>5, PushStep
  <2>6. ASSUME NEW w \in Worker, WorkerStep(w) \/ WakeUp(w) PROVE HttpInv'
    BY <2>6, MovesSteps, PopStep DEF WorkerStep
  <2>7. ASSUME NEW a \in Agent, Handle(a) PROVE HttpInv'
    BY <2>7, ParseStep, OpenStep, RespondStep, CloseStep DEF Handle
  <2> QED BY <1>2, <2>1, <2>2, <2>3, <2>4, <2>5, <2>6, <2>7 DEF HttpNext, ServerStep
<1> QED BY <1>1, <1>2

(* HttpInv holds in every reachable state of every build.                  *)
THEOREM HttpInductive ==
  ASSUME HttpConstants
  PROVE  HttpSpec => []HttpInv
<1>1. HttpInit => HttpInv
  BY InitHolds
<1>2. HttpInv /\ [HttpNext]_httpVars => HttpInv'
  BY NextHolds
<1> QED BY <1>1, <1>2, PTL DEF HttpSpec

(* The types of the variables.                                             *)
THEOREM HttpTypes ==
  ASSUME HttpConstants
  PROVE  HttpSpec => []HttpTypeOK
<1>1. HttpInv => HttpTypeOK
  BY DEF HttpInv
<1> QED BY <1>1, HttpInductive, PTL

(* However soon a closed descriptor is given to somebody else, a thread    *)
(* that serves a request works on the connection it was given, which it    *)
(* shares with no thread, and on files that it opened.                     *)
THEOREM ServesItsConnection ==
  ASSUME HttpConstants
  PROVE  HttpSpec => []RightConnection
<1>1. HttpInv => RightConnection
  <2> SUFFICES ASSUME HttpInv PROVE RightConnection
    OBVIOUS
  <2>1. \A a \in Handling : a \in Agent /\ a \in Holds /\ work[a] \in Conn /\ Peer(a) = work[a]
    BY HandlerFacts
  <2>2. \A a, b \in Handling : work[a] = work[b] => a = b
    BY <2>1 DEF HttpInv, HoldsOne
  <2>3. \A a, b \in Handling : Proc(a) = Proc(b) /\ a # b => aux[a] \cap aux[b] = {}
    BY <2>1 DEF HttpInv, Files
  <2>4. \A a \in Handling : \A f \in aux[a] : table[Proc(a)][f] = Opened
    BY <2>1 DEF HttpInv, Files
  <2> QED BY <2>1, <2>2, <2>3, <2>4, Constants DEF RightConnection
<1> QED BY <1>1, HttpInductive, PTL

(* What a client has received is the beginning of the response that its    *)
(* own request calls for, and all of it once the connection is closed, if  *)
(* the server has three descriptors for every connection.                  *)
THEOREM ClientsAnsweredOnce ==
  ASSUME HttpConstants
  PROVE  HttpSpec => []OneResponse
<1>1. HttpInv => OneResponse
  BY DEF HttpInv, Answers
<1> QED BY <1>1, HttpInductive, PTL

(* In the servers that do not fork every open descriptor is a connection   *)
(* that is not closed yet or a file of a thread at work.                   *)
THEOREM DescriptorsReturned ==
  ASSUME HttpConstants
  PROVE  HttpSpec => []NoDescriptorLeak
<1>1. HttpInv => NoDescriptorLeak
  BY Constants DEF HttpInv, Sockets, Files, NoDescriptorLeak
<1> QED BY <1>1, HttpInductive, PTL

(* All of it, with the types: the property that the runs check.            *)
THEOREM HttpAlwaysRight ==
  ASSUME HttpConstants
  PROVE  HttpSpec => []HttpRight
<1> QED BY HttpTypes, ServesItsConnection, ClientsAnsweredOnce, DescriptorsReturned, PTL
        DEF HttpRight

-----------------------------------------------------------------------------
(* The shell: fork, the ends of the pipes, and the commands.                *)
ShellConstants == MaxCmds \in Nat \ {0} /\ Capacity \in Nat /\ Output \in Nat

ShellTypes ==
  /\ shellPc \in {"read", "wait", "replaced", "end"}
  /\ builder \in {"none", "build", "parent", "secondShell"}
  /\ ncmds \in Cmd /\ atCmd \in 1..ncmds
  /\ cmdProc \in [Cmd -> {"none", "setup", "runs", "gone"}]
  /\ cmdKind \in [Cmd -> CmdKinds]
  /\ pipeWriters \in [Cmd -> SUBSET Cmd]
  /\ inPipe \in [Cmd -> Nat] /\ cmdWrote \in [Cmd -> Nat] /\ cmdGot \in [Cmd -> Nat]

(* Command i, which is not the last, has been forked.                      *)
Forked(i) == i < atCmd \/ (i = atCmd /\ builder = "parent")

(* The commands before the last are forked in order, and the last one runs *)
(* when all of them are.                                                   *)
ForkedInOrder ==
  /\ builder = "parent" => atCmd < ncmds
  /\ builder # "none" => cmdProc[ncmds] = "setup"
  /\ builder = "none" => cmdProc[ncmds] # "setup"
  /\ cmdProc[ncmds] = "runs" => atCmd = ncmds
  /\ \A i \in Cmd : i < ncmds => (cmdProc[i] # "none" <=> Forked(i))
  /\ \A i \in Cmd : i > ncmds => cmdProc[i] = "none"

(* A command that has not ended has the write end of its pipe.             *)
WriteEndKept ==
  \A i \in Cmd : i < ncmds /\ cmdProc[i] \in {"setup", "runs"} => i \in pipeWriters[i]

(* What was written to a pipe and not read yet is in it.                   *)
PipeCounts ==
  \A i \in Cmd : i < ncmds => cmdWrote[i] = cmdGot[i + 1] + inPipe[i]

(* After the end of its input a command's pipe stays empty.                *)
EofFinal ==
  \A i \in sawEof \ {1} :
    i \in Cmd /\ i <= ncmds /\ cmdProc[i - 1] = "gone" /\ inPipe[i - 1] = 0

ShellInv == ShellTypes /\ ForkedInOrder /\ WriteEndKept /\ PipeCounts /\ EofFinal

-----------------------------------------------------------------------------
LEMMA Cmds ==
  ASSUME ShellConstants
  PROVE  /\ \A i \in Cmd : i \in Nat /\ i >= 1 /\ (i # 1 => i - 1 \in Cmd /\ i - 1 < i)
         /\ \A i, n \in Cmd : i < n => i + 1 \in Cmd /\ i + 1 <= n
         /\ 1 \in Cmd /\ \A n \in Cmd : 1 \in 1..n /\ 1..n \subseteq Cmd
BY DEF ShellConstants, Cmd

(* A line starts with no command forked and nothing written.               *)
LEMMA StartLineKeeps ==
  ASSUME ShellConstants, ShellInv, NEW cmds \in Cmd, NEW kinds \in [Cmd -> CmdKinds],
         ReadLine(cmds, kinds) \/ ForkFailsInMain(cmds, kinds)
  PROVE  ShellInv'
<1>1. /\ ncmds' = cmds /\ cmdKind' = kinds /\ atCmd' = 1 /\ builder' = "build"
      /\ shellPc' \in {"wait", "replaced"}
      /\ cmdProc' = [i \in Cmd |-> IF i = cmds THEN "setup" ELSE "none"]
      /\ pipeWriters' = [i \in Cmd |-> {}] /\ inPipe' = [i \in Cmd |-> 0]
      /\ cmdWrote' = [i \in Cmd |-> 0] /\ cmdGot' = [i \in Cmd |-> 0] /\ sawEof' = {}
  BY DEF ReadLine, ForkFailsInMain, StartLine
<1>2. ShellTypes'
  BY <1>1, Cmds DEF ShellTypes
<1>3. \A i \in Cmd : ~Forked(i)' /\ (i # cmds => cmdProc'[i] = "none")
  BY <1>1, Cmds DEF Forked
<1>4. ForkedInOrder'
  BY <1>1, <1>3, Cmds DEF ForkedInOrder
<1>5. WriteEndKept'
  BY <1>1, Cmds DEF WriteEndKept
<1>6. PipeCounts' /\ EofFinal'
  BY <1>1, Cmds DEF PipeCounts, EofFinal
<1> QED BY <1>2, <1>4, <1>5, <1>6 DEF ShellInv

(* What the shell does without its children, and the execution of the last *)
(* command.                                                                *)
LEMMA ShellOnlyKeeps ==
  ASSUME ShellConstants, ShellInv,
         BuiltIn \/ WaitReturnsShell \/ EndOfFile \/ ExecLast \/ UNCHANGED shellVars
  PROVE  ShellInv'
<1>1. /\ UNCHANGED <<ncmds, atCmd, cmdKind, pipeWriters, inPipe, cmdWrote, cmdGot, sawEof>>
      /\ ncmds \in Cmd /\ atCmd \in 1..ncmds
  BY DEF BuiltIn, WaitReturnsShell, EndOfFile, ExecLast, shellVars, ioVars, runVars, ShellInv,
         ShellTypes
<1>2. CASE ~ExecLast
  <2>1. /\ cmdProc' = cmdProc /\ builder' \in {builder, "none"}
        /\ shellPc' \in {"read", "end", shellPc}
        /\ builder' # builder => cmdProc[ncmds] = "gone"
    BY <1>2 DEF BuiltIn, WaitReturnsShell, EndOfFile, shellVars
  <2>2. builder' = builder
    BY <2>1 DEF ShellInv, ForkedInOrder, ShellTypes
  <2> QED BY <1>1, <2>1, <2>2 DEF ShellInv, ShellTypes, ForkedInOrder, Forked, WriteEndKept,
                                  PipeCounts, EofFinal
<1>3. CASE ExecLast
  <2>1. /\ builder = "build" /\ atCmd = ncmds /\ builder' = "none" /\ shellPc' = shellPc
        /\ cmdProc' = [cmdProc EXCEPT ![ncmds] = "runs"]
    BY <1>3 DEF ExecLast
  <2>2. /\ cmdProc' \in [Cmd -> {"none", "setup", "runs", "gone"}] /\ cmdProc'[ncmds] = "runs"
        /\ \A i \in Cmd : i # ncmds => cmdProc'[i] = cmdProc[i]
    BY <1>1, <2>1 DEF ShellInv, ShellTypes
  <2>3. ShellTypes'
    BY <1>1, <2>1, <2>2 DEF ShellInv, ShellTypes
  <2>4. \A i \in Cmd : Forked(i)' = Forked(i) /\ (i < ncmds => i # ncmds) /\ (i > ncmds => i # ncmds)
    BY <1>1, <2>1, Cmds DEF Forked
  <2>5. ForkedInOrder' /\ WriteEndKept' /\ PipeCounts'
    BY <1>1, <2>1, <2>2, <2>4 DEF ShellInv, ForkedInOrder, WriteEndKept, PipeCounts
  <2>6. \A i \in sawEof \ {1} : i - 1 \in Cmd /\ i - 1 # ncmds
    BY <1>1, Cmds DEF ShellInv, EofFinal
  <2>7. EofFinal'
    BY <1>1, <2>2, <2>6 DEF ShellInv, EofFinal
  <2> QED BY <2>3, <2>5, <2>7 DEF ShellInv
<1> QED BY <1>2, <1>3

(* execute_progs(): the child forks the next command with the write end.   *)
LEMMA PipeForkKeeps ==
  ASSUME ShellConstants, ShellInv, PipeFork
  PROVE  ShellInv'
<1>1. /\ builder = "build" /\ atCmd < ncmds /\ builder' = "parent"
      /\ cmdProc' = [cmdProc EXCEPT ![atCmd] = "setup"]
      /\ pipeWriters' = [pipeWriters EXCEPT ![atCmd] = {atCmd, ncmds}]
      /\ UNCHANGED <<shellPc, ncmds, atCmd, cmdKind, inPipe, cmdWrote, cmdGot, sawEof>>
      /\ ncmds \in Cmd /\ atCmd \in Cmd /\ ncmds # atCmd
  BY Cmds DEF PipeFork, ioVars, runVars, ShellInv, ShellTypes
<1>2. /\ cmdProc' \in [Cmd -> {"none", "setup", "runs", "gone"}] /\ cmdProc'[atCmd] = "setup"
      /\ \A i \in Cmd : i # atCmd => cmdProc'[i] = cmdProc[i]
      /\ pipeWriters' \in [Cmd -> SUBSET Cmd] /\ atCmd \in pipeWriters'[atCmd]
      /\ \A i \in Cmd : i # atCmd => pipeWriters'[i] = pipeWriters[i]
  BY <1>1 DEF ShellInv, ShellTypes
<1>3. ShellTypes'
  BY <1>1, <1>2 DEF ShellInv, ShellTypes
<1>4. /\ \A i \in Cmd : Forked(i)' <=> Forked(i) \/ i = atCmd
      /\ \A i \in Cmd : i > ncmds => i # atCmd
      /\ cmdProc[atCmd] = "none"
  BY <1>1, Cmds DEF Forked, ShellInv, ForkedInOrder
<1>5. ForkedInOrder'
  BY <1>1, <1>2, <1>4 DEF ShellInv, ForkedInOrder
<1>6. WriteEndKept' /\ PipeCounts'
  BY <1>1, <1>2 DEF ShellInv, WriteEndKept, PipeCounts
<1>7. \A i \in sawEof \ {1} : i - 1 \in Cmd /\ i - 1 # atCmd
  BY <1>4, Cmds DEF ShellInv, EofFinal
<1>8. EofFinal'
  BY <1>1, <1>2, <1>7 DEF ShellInv, EofFinal
<1> QED BY <1>3, <1>5, <1>6, <1>8 DEF ShellInv

(* The child closes the write end of the pipe, which is not its own.       *)
LEMMA ParentEndsKeeps ==
  ASSUME ShellConstants, ShellInv, ParentEnds
  PROVE  ShellInv'
<1>1. /\ builder = "parent" /\ builder' = "build" /\ atCmd' = atCmd + 1
      /\ pipeWriters' = [pipeWriters EXCEPT ![atCmd] = @ \ {ncmds}]
      /\ UNCHANGED <<shellPc, cmdProc, ncmds, cmdKind, inPipe, cmdWrote, cmdGot, sawEof>>
      /\ ncmds \in Cmd /\ atCmd \in Cmd /\ atCmd < ncmds
  BY Cmds DEF ParentEnds, ioVars, runVars, ShellInv, ShellTypes, ForkedInOrder
<1>2. /\ pipeWriters' \in [Cmd -> SUBSET Cmd]
      /\ \A i \in Cmd : pipeWriters[i] \ {ncmds} \subseteq pipeWriters'[i]
  BY <1>1 DEF ShellInv, ShellTypes
<1>3. atCmd' \in 1..ncmds /\ \A i \in Cmd : Forked(i)' = Forked(i)
  BY <1>1, Cmds DEF Forked
<1>4. ShellTypes'
  BY <1>1, <1>2, <1>3 DEF ShellInv, ShellTypes
<1>5. ForkedInOrder'
  BY <1>1, <1>3 DEF ShellInv, ForkedInOrder
<1>6. WriteEndKept'
  BY <1>1, <1>2, Cmds DEF ShellInv, WriteEndKept
<1>7. PipeCounts' /\ EofFinal'
  BY <1>1 DEF ShellInv, PipeCounts, EofFinal
<1> QED BY <1>4, <1>5, <1>6, <1>7 DEF ShellInv

(* fork() fails in the child, which goes on as a shell: the command before *)
(* which it stopped never runs.                                            *)
LEMMA SecondShellKeeps ==
  ASSUME ShellConstants, ShellInv, ForkFailsInChild \/ SecondShellEnds
  PROVE  ShellInv'
<1>1. /\ UNCHANGED <<shellPc, ncmds, atCmd, cmdKind, inPipe, cmdWrote, cmdGot, sawEof>>
      /\ ncmds \in Cmd /\ atCmd \in Cmd
  BY Cmds DEF ForkFailsInChild, SecondShellEnds, ioVars, runVars, ShellInv, ShellTypes
<1>2. CASE ForkFailsInChild
  <2>1. /\ builder = "build" /\ atCmd < ncmds /\ builder' = "secondShell" /\ cmdProc' = cmdProc
        /\ pipeWriters' = [pipeWriters EXCEPT ![atCmd] = {ncmds}]
    BY <1>2 DEF ForkFailsInChild
  <2>2. /\ pipeWriters' \in [Cmd -> SUBSET Cmd]
        /\ \A i \in Cmd : i # atCmd => pipeWriters'[i] = pipeWriters[i]
    BY <1>1, <2>1 DEF ShellInv, ShellTypes
  <2>3. \A i \in Cmd : Forked(i)' = Forked(i)
    BY <1>1, <2>1 DEF Forked
  <2>4. cmdProc[atCmd] = "none"
    BY <1>1, <2>1, Cmds DEF ShellInv, ForkedInOrder, Forked
  <2>5. ShellTypes' /\ ForkedInOrder'
    BY <1>1, <2>1, <2>2, <2>3 DEF ShellInv, ShellTypes, ForkedInOrder
  <2>6. WriteEndKept' /\ PipeCounts' /\ EofFinal'
    BY <1>1, <2>1, <2>2, <2>4 DEF ShellInv, WriteEndKept, PipeCounts, EofFinal
  <2> QED BY <2>5, <2>6 DEF ShellInv
<1>3. CASE SecondShellEnds
  <2>1. /\ builder = "secondShell" /\ builder' = "none"
        /\ cmdProc' = [cmdProc EXCEPT ![ncmds] = "gone"]
        /\ pipeWriters' = [i \in Cmd |-> pipeWriters[i] \ {ncmds}]
    BY <1>3 DEF SecondShellEnds
  <2>2. /\ cmdProc' \in [Cmd -> {"none", "setup", "runs", "gone"}] /\ cmdProc'[ncmds] = "gone"
        /\ \A i \in Cmd : i # ncmds => cmdProc'[i] = cmdProc[i]
        /\ pipeWriters' \in [Cmd -> SUBSET Cmd]
        /\ \A i \in Cmd : i # ncmds => (i \in pipeWriters[i] => i \in pipeWriters'[i])
    BY <1>1, <2>1 DEF ShellInv, ShellTypes
  <2>3. \A i \in Cmd : Forked(i)' = Forked(i) /\ (i < ncmds => i # ncmds) /\ (i > ncmds => i # ncmds)
    BY <1>1, <2>1, Cmds DEF Forked
  <2>4. ShellTypes' /\ ForkedInOrder'
    BY <1>1, <2>1, <2>2, <2>3 DEF ShellInv, ShellTypes, ForkedInOrder
  <2>5. WriteEndKept' /\ PipeCounts'
    BY <1>1, <2>2, <2>3 DEF ShellInv, WriteEndKept, PipeCounts
  <2>6. \A i \in sawEof \ {1} : i - 1 \in Cmd
    BY Cmds DEF ShellInv, EofFinal
  <2>7. EofFinal'
    BY <1>1, <2>2, <2>6 DEF ShellInv, EofFinal
  <2> QED BY <2>4, <2>5, <2>7 DEF ShellInv
<1> QED BY <1>2, <1>3

(* Command i of the first ones is executed, or is not found, or a command  *)
(* ends: only its own write end is closed, and it never runs again.        *)
LEMMA CommandMoves ==
  ASSUME ShellConstants, ShellInv, NEW i \in Cmd, NEW a \in {"runs", "gone"},
         cmdProc' = [cmdProc EXCEPT ![i] = a],
         \/ cmdProc[i] = "setup" /\ i # ncmds
         \/ cmdProc[i] = "runs" /\ a = "gone",
         UNCHANGED <<shellPc, builder, ncmds, atCmd, cmdKind, inPipe, cmdWrote, cmdGot, sawEof>>,
         \/ pipeWriters' = pipeWriters
         \/ a = "gone" /\ pipeWriters' = [p \in Cmd |-> pipeWriters[p] \ {i}]
  PROVE  ShellInv'
<1>1. /\ cmdProc' \in [Cmd -> {"none", "setup", "runs", "gone"}] /\ cmdProc'[i] = a
      /\ \A j \in Cmd : j # i => cmdProc'[j] = cmdProc[j]
      /\ pipeWriters' \in [Cmd -> SUBSET Cmd]
      /\ \A j \in Cmd : (j # i \/ a = "runs") /\ j \in pipeWriters[j] => j \in pipeWriters'[j]
      /\ ncmds \in Cmd
  BY DEF ShellInv, ShellTypes
<1>2. ShellTypes'
  BY <1>1 DEF ShellInv, ShellTypes
<1>3. \A j \in Cmd : Forked(j)' = Forked(j)
  BY DEF Forked
<1>4. ForkedInOrder'
  <2>1. \A j \in Cmd : cmdProc'[j] # "none" <=> cmdProc[j] # "none"
    BY <1>1
  <2>2. i = ncmds => builder = "none" /\ cmdProc[ncmds] = "runs" /\ a = "gone"
    BY DEF ShellInv, ForkedInOrder, ShellTypes
  <2>3. /\ builder # "none" => cmdProc'[ncmds] = "setup"
        /\ builder = "none" => cmdProc'[ncmds] # "setup"
        /\ cmdProc'[ncmds] = "runs" => atCmd = ncmds
    BY <1>1, <2>2 DEF ShellInv, ForkedInOrder
  <2> QED BY <1>1, <1>3, <2>1, <2>3 DEF ShellInv, ForkedInOrder
<1>5. WriteEndKept' /\ PipeCounts'
  BY <1>1 DEF ShellInv, WriteEndKept, PipeCounts
<1>6. \A j \in sawEof \ {1} : j - 1 \in Cmd
  BY Cmds DEF ShellInv, EofFinal
<1>7. EofFinal'
  BY <1>1, <1>6 DEF ShellInv, EofFinal
<1> QED BY <1>2, <1>4, <1>5, <1>7 DEF ShellInv

LEMMA CommandKeeps ==
  ASSUME ShellConstants, ShellInv, NEW i \in Cmd,
         Exits(i) \/ \E isFound \in BOOLEAN : ExecFirst(i, isFound)
  PROVE  ShellInv'
<1>1. UNCHANGED <<shellPc, builder, ncmds, atCmd, cmdKind, inPipe, cmdWrote, cmdGot, sawEof>>
  BY DEF Exits, ExecFirst, ioVars, runVars
<1>2. CASE Exits(i)
  <2>1. /\ cmdProc[i] = "runs" /\ cmdProc' = [cmdProc EXCEPT ![i] = "gone"]
        /\ pipeWriters' = [p \in Cmd |-> pipeWriters[p] \ {i}]
    BY <1>2 DEF Exits
  <2> QED BY <1>1, <2>1, CommandMoves
<1>3. CASE \E isFound \in BOOLEAN : ExecFirst(i, isFound)
  <2>1. PICK a \in {"runs", "gone"} :
          /\ cmdProc[i] = "setup" /\ i # ncmds /\ cmdProc' = [cmdProc EXCEPT ![i] = a]
          /\ \/ pipeWriters' = pipeWriters
             \/ a = "gone" /\ pipeWriters' = [p \in Cmd |-> pipeWriters[p] \ {i}]
    BY <1>3 DEF ExecFirst
  <2> QED BY <1>1, <2>1, CommandMoves
<1> QED BY <1>2, <1>3

(* A command runs only when the ones before it have been forked.           *)
LEMMA RunsAfter ==
  ASSUME ShellConstants, ShellInv, NEW i \in Cmd, cmdProc[i] = "runs"
  PROVE  i <= ncmds /\ \A j \in Cmd : j < i => j < ncmds /\ cmdProc[j] # "none"
<1>1. ncmds \in Cmd /\ atCmd \in Cmd /\ i <= ncmds
  BY Cmds DEF ShellInv, ShellTypes, ForkedInOrder
<1>2. \A j \in Cmd : j < i => j < ncmds
  BY <1>1, Cmds
<1>3. CASE i < ncmds
  BY <1>1, <1>2, <1>3, Cmds DEF ShellInv, ForkedInOrder, Forked
<1>4. CASE i = ncmds
  BY <1>1, <1>2, <1>4, Cmds DEF ShellInv, ForkedInOrder, Forked
<1> QED BY <1>1, <1>2, <1>3, <1>4, Cmds

(* A command reads what is in its pipe, and one that has met the end of    *)
(* its input finds it empty.                                               *)
LEMMA ReadsKeeps ==
  ASSUME ShellConstants, ShellInv, NEW i \in Cmd, Reads(i)
  PROVE  ShellInv'
<1>1. /\ cmdProc[i] = "runs" /\ i > 1 /\ inPipe[i - 1] > 0
      /\ inPipe' = [inPipe EXCEPT ![i - 1] = @ - 1] /\ cmdGot' = [cmdGot EXCEPT ![i] = @ + 1]
      /\ UNCHANGED <<shellPc, builder, ncmds, atCmd, cmdProc, cmdKind, pipeWriters, cmdWrote,
                     sawEof>>
  BY DEF Reads, runVars
<1>2. i - 1 \in Cmd /\ i \in Nat /\ i <= ncmds
  BY <1>1, Cmds, RunsAfter
<1>3. /\ inPipe' \in [Cmd -> Nat] /\ cmdGot' \in [Cmd -> Nat]
      /\ inPipe'[i - 1] = inPipe[i - 1] - 1 /\ cmdGot'[i] = cmdGot[i] + 1
      /\ \A j \in Cmd : j # i - 1 => inPipe'[j] = inPipe[j]
      /\ \A j \in Cmd : j # i => cmdGot'[j] = cmdGot[j]
  BY <1>1, <1>2 DEF ShellInv, ShellTypes
<1>4. ShellTypes' /\ ForkedInOrder' /\ WriteEndKept'
  BY <1>1, <1>3 DEF ShellInv, ShellTypes, ForkedInOrder, Forked, WriteEndKept
<1>5. ASSUME NEW j \in Cmd, j < ncmds
      PROVE  cmdWrote'[j] = cmdGot'[j + 1] + inPipe'[j]
  <2>1. j + 1 \in Cmd /\ cmdWrote[j] = cmdGot[j + 1] + inPipe[j] /\ ncmds \in Cmd
    BY <1>5, Cmds DEF ShellInv, PipeCounts, ShellTypes
  <2>2. cmdGot[j + 1] \in Nat /\ inPipe[j] \in Nat /\ j \in Nat
    BY <2>1, Cmds DEF ShellInv, ShellTypes
  <2>3. CASE j = i - 1
    <3>1. j + 1 = i
      BY <1>2, <2>3
    <3> QED BY <1>1, <1>3, <2>1, <2>2, <2>3, <3>1
  <2>4. CASE j # i - 1
    <3>1. j + 1 # i
      BY <1>2, <2>2, <2>4
    <3> QED BY <1>1, <1>3, <2>1, <2>2, <2>4, <3>1
  <2> QED BY <2>3, <2>4
<1>6. PipeCounts'
  BY <1>1, <1>5 DEF PipeCounts
<1>7. \A j \in sawEof \ {1} : j \in Cmd /\ j # i /\ j - 1 \in Cmd /\ j - 1 # i - 1
  <2>1. i \notin sawEof \/ i = 1
    BY <1>1, <1>2 DEF ShellInv, EofFinal
  <2> TAKE j \in sawEof \ {1}
  <2>2. j \in Cmd /\ j # 1
    BY DEF ShellInv, EofFinal, ShellTypes
  <2>3. j # i
    BY <1>1, <1>2, <2>1
  <2>4. j - 1 \in Cmd /\ j \in Nat
    BY <2>2, Cmds
  <2>5. j - 1 # i - 1
    BY <1>2, <2>3, <2>4
  <2> QED BY <2>2, <2>3, <2>4, <2>5
<1>8. EofFinal'
  BY <1>1, <1>3, <1>7 DEF ShellInv, EofFinal
<1> QED BY <1>4, <1>6, <1>8 DEF ShellInv

(* The end of the input: nobody has the write end, so that the command     *)
(* before it has ended.                                                    *)
LEMMA ReadsEofKeeps ==
  ASSUME ShellConstants, ShellInv, NEW i \in Cmd, ReadsEof(i)
  PROVE  ShellInv'
<1>1. /\ cmdProc[i] = "runs" /\ sawEof' = sawEof \cup {i}
      /\ i > 1 => inPipe[i - 1] = 0 /\ pipeWriters[i - 1] = {}
      /\ UNCHANGED <<shellPc, builder, ncmds, atCmd, cmdProc, cmdKind, pipeWriters, inPipe,
                     cmdWrote, cmdGot>>
  BY DEF ReadsEof, runVars
<1>2. i # 1 => cmdProc[i - 1] = "gone" /\ inPipe[i - 1] = 0 /\ i <= ncmds
  <2> SUFFICES ASSUME i # 1 PROVE cmdProc[i - 1] = "gone" /\ inPipe[i - 1] = 0 /\ i <= ncmds
    OBVIOUS
  <2>1. i > 1 /\ i - 1 \in Cmd /\ i - 1 < i
    BY Cmds
  <2>2. i <= ncmds /\ i - 1 < ncmds /\ cmdProc[i - 1] # "none"
    BY <1>1, <2>1, RunsAfter
  <2>3. cmdProc[i - 1] \notin {"setup", "runs"}
    BY <1>1, <2>1, <2>2 DEF ShellInv, WriteEndKept
  <2> QED BY <1>1, <2>1, <2>2, <2>3 DEF ShellInv, ShellTypes
<1>3. ShellTypes' /\ ForkedInOrder' /\ WriteEndKept' /\ PipeCounts'
  BY <1>1 DEF ShellInv, ShellTypes, ForkedInOrder, Forked, WriteEndKept, PipeCounts
<1>4. EofFinal'
  BY <1>1, <1>2 DEF ShellInv, EofFinal
<1> QED BY <1>3, <1>4 DEF ShellInv

(* A command that still runs writes; after it has ended nobody does.       *)
LEMMA WritesKeeps ==
  ASSUME ShellConstants, ShellInv, NEW i \in Cmd, Writes(i)
  PROVE  ShellInv'
<1>1. /\ cmdProc[i] = "runs" /\ i < ncmds
      /\ inPipe' = [inPipe EXCEPT ![i] = @ + 1] /\ cmdWrote' = [cmdWrote EXCEPT ![i] = @ + 1]
      /\ UNCHANGED <<shellPc, builder, ncmds, atCmd, cmdProc, cmdKind, pipeWriters, cmdGot,
                     sawEof>>
  BY DEF Writes, HasOutput, runVars
<1>2. /\ inPipe' \in [Cmd -> Nat] /\ cmdWrote' \in [Cmd -> Nat]
      /\ inPipe'[i] = inPipe[i] + 1 /\ cmdWrote'[i] = cmdWrote[i] + 1
      /\ \A j \in Cmd : j # i => inPipe'[j] = inPipe[j] /\ cmdWrote'[j] = cmdWrote[j]
  BY <1>1 DEF ShellInv, ShellTypes
<1>3. ShellTypes' /\ ForkedInOrder' /\ WriteEndKept'
  BY <1>1, <1>2 DEF ShellInv, ShellTypes, ForkedInOrder, Forked, WriteEndKept
<1>4. ASSUME NEW j \in Cmd, j < ncmds
      PROVE  cmdWrote'[j] = cmdGot[j + 1] + inPipe'[j]
  <2>1. j + 1 \in Cmd /\ cmdWrote[j] = cmdGot[j + 1] + inPipe[j]
    BY <1>4, Cmds DEF ShellInv, PipeCounts, ShellTypes
  <2>2. cmdGot[j + 1] \in Nat /\ inPipe[j] \in Nat
    BY <2>1 DEF ShellInv, ShellTypes
  <2> QED BY <1>2, <2>1, <2>2
<1>5. PipeCounts'
  BY <1>1, <1>4 DEF PipeCounts
<1>6. \A j \in sawEof \ {1} : j - 1 \in Cmd /\ j - 1 # i
  BY <1>1, Cmds DEF ShellInv, EofFinal
<1>7. EofFinal'
  BY <1>1, <1>2, <1>6 DEF ShellInv, EofFinal
<1> QED BY <1>3, <1>5, <1>7 DEF ShellInv

LEMMA ShellStart == ShellConstants /\ ShellInit => ShellInv
<1> SUFFICES ASSUME ShellConstants, ShellInit PROVE ShellInv
  OBVIOUS
<1>1. 1 \in Cmd /\ 1 \in 1..1 /\ \A i \in Cmd : ~(i < 1)
  BY Cmds
<1>2. ShellTypes
  BY <1>1 DEF ShellInit, ShellTypes, CmdKinds
<1>3. ForkedInOrder /\ WriteEndKept /\ PipeCounts /\ EofFinal
  BY <1>1 DEF ShellInit, ForkedInOrder, WriteEndKept, PipeCounts, EofFinal
<1> QED BY <1>2, <1>3 DEF ShellInv

(* execute_progs(): a command of a pipeline meets the end of its input     *)
(* only when the one before it has ended and all it wrote has been read,   *)
(* for pipelines of any length, whichever forks and executions fail.       *)
THEOREM EofAlwaysComplete ==
  ASSUME ShellConstants
  PROVE  ShellSpec => []EofComplete
<1>1. ShellInit => ShellInv
  BY ShellStart
<1>2. ShellInv /\ [ShellNext]_shellVars => ShellInv'
  <2> SUFFICES ASSUME ShellInv, [ShellNext]_shellVars PROVE ShellInv'
    OBVIOUS
  <2>1. CASE ShellMain \/ UNCHANGED shellVars
    BY <2>1, StartLineKeeps, ShellOnlyKeeps DEF ShellMain
  <2>2. CASE BuilderStep \/ ForkFailsInChild
    BY <2>2, PipeForkKeeps, ParentEndsKeeps, ShellOnlyKeeps, SecondShellKeeps DEF BuilderStep
  <2>3. CASE \E i \in Cmd : CmdStep(i)
    BY <2>3, CommandKeeps, ReadsKeeps, ReadsEofKeeps, WritesKeeps DEF CmdStep
  <2> QED BY <2>1, <2>2, <2>3 DEF ShellNext
<1>3. ShellInv => EofComplete
  <2> SUFFICES ASSUME ShellInv, NEW i \in sawEof \ {1}
               PROVE  cmdProc[i - 1] # "runs" /\ cmdGot[i] = cmdWrote[i - 1]
    BY DEF EofComplete
  <2>1. i \in Cmd /\ i <= ncmds /\ cmdProc[i - 1] = "gone" /\ inPipe[i - 1] = 0
    BY DEF ShellInv, EofFinal
  <2>2. i \in Nat /\ i - 1 \in Cmd /\ i - 1 < ncmds /\ (i - 1) + 1 = i
    BY <2>1, Cmds DEF ShellInv, ShellTypes
  <2>3. cmdWrote[i - 1] = cmdGot[i] + 0 /\ cmdGot[i] \in Nat
    BY <2>1, <2>2 DEF ShellInv, PipeCounts, ShellTypes
  <2> QED BY <2>1, <2>3
<1> QED BY <1>1, <1>2, <1>3, PTL DEF ShellSpec

-----------------------------------------------------------------------------
(* The bytes that a proxy or a relay carries.                               *)
(* N bytes behind the A-th, numbered as their source sent them.            *)
Bytes(a, n) == [k \in 1..n |-> a + k]

LEMMA BytesAre ==
  ASSUME NEW a \in Nat, NEW n \in Nat
  PROVE  /\ Bytes(a, n) \in Seq(Nat) /\ Len(Bytes(a, n)) = n
         /\ \A k \in 1..n : Bytes(a, n)[k] = a + k
<1>1. \A k \in 1..n : a + k \in Nat
  OBVIOUS
<1> QED BY <1>1 DEF Bytes

LEMMA BytesJoin ==
  ASSUME NEW a \in Nat, NEW n \in Nat
  PROVE  Bytes(0, a) \o Bytes(a, n) = Bytes(0, a + n)
<1> DEFINE x == Bytes(0, a)
           y == Bytes(a, n)
           z == Bytes(0, a + n)
<1>1. /\ x \in Seq(Nat) /\ Len(x) = a /\ \A k \in 1..a : x[k] = 0 + k
      /\ y \in Seq(Nat) /\ Len(y) = n /\ \A k \in 1..n : y[k] = a + k
      /\ z \in Seq(Nat) /\ Len(z) = a + n /\ \A k \in 1..(a + n) : z[k] = 0 + k
  <2>1. 0 \in Nat /\ a + n \in Nat
    OBVIOUS
  <2>2. x \in Seq(Nat) /\ Len(x) = a /\ \A k \in 1..a : x[k] = 0 + k
    BY <2>1, BytesAre
  <2>3. y \in Seq(Nat) /\ Len(y) = n /\ \A k \in 1..n : y[k] = a + k
    BY BytesAre
  <2>4. z \in Seq(Nat) /\ Len(z) = a + n /\ \A k \in 1..(a + n) : z[k] = 0 + k
    BY <2>1, BytesAre
  <2> QED BY <2>2, <2>3, <2>4
<1> HIDE DEF x, y, z
<1>2. x \o y \in Seq(Nat) /\ Len(x \o y) = a + n
  BY <1>1
<1>3. \A k \in 1..(a + n) : (x \o y)[k] = k
  <2> TAKE k \in 1..(a + n)
  <2>1. CASE k <= a
    BY <1>1, <2>1
  <2>2. CASE k > a
    <3>1. k - a \in 1..n
      BY <2>2
    <3>2. (x \o y)[k] = y[k - a]
      BY <1>1, <2>2
    <3>3. y[k - a] = a + (k - a)
      BY <1>1, <3>1
    <3>4. a + (k - a) = k
      BY <2>2
    <3> QED BY <3>2, <3>3, <3>4
  <2>3. k <= a \/ k > a
    OBVIOUS
  <2> QED BY <2>1, <2>2, <2>3
<1>4. \A k \in 1..(a + n) : (x \o y)[k] = z[k]
  <2>1. \A k \in 1..(a + n) : 0 + k = k
    OBVIOUS
  <2>2. \A k \in 1..(a + n) : z[k] = 0 + k
    BY <1>1
  <2> QED BY <1>3, <2>1, <2>2, Zenon
<1>5. x \o y = z
  <2> DEFINE c == x \o y
  <2>1. c \in Seq(Nat) /\ z \in Seq(Nat) /\ Len(c) = a + n /\ Len(z) = a + n
    BY <1>1, <1>2
  <2>2. \A k \in 1..(a + n) : c[k] = z[k]
    BY <1>4
  <2> HIDE DEF c
  <2>3. c = z
    BY <2>1, <2>2
  <2> QED BY <2>3 DEF c
<1> QED BY <1>5 DEF x, y, z

(* The first N bytes, the way the properties write them.                   *)
LEMMA BytesFrom ==
  ASSUME NEW n \in Nat
  PROVE  [k \in 1..n |-> k] = Bytes(0, n)
<1>1. \A k \in 1..n : k = 0 + k
  OBVIOUS
<1> QED BY <1>1 DEF Bytes

-----------------------------------------------------------------------------
ProxyConstants == MaxBuff \in Nat

ProxyTypes ==
  /\ prpc \in {"lookup", "exit", "answered", "select", "client", "target", "done"}
  /\ ready \subseteq Side /\ fdsOpen \subseteq Side
  /\ sent \in [Side -> Nat] /\ read \in [Side -> Nat] /\ open \in [Side -> BOOLEAN]
  /\ received \in [Side -> Seq(Nat) \cup {<<"502">>}]
  /\ clientEof \in BOOLEAN /\ lost \in BOOLEAN

(* What select() found readable stays so until it is that side's turn.     *)
StaysReadable ==
  /\ prpc = "client" /\ "client" \in ready => ProxyReadable("client")
  /\ prpc \in {"client", "target"} /\ "target" \in ready => ProxyReadable("target")

(* The client's end has been met only after all it had sent was read, and  *)
(* the loop ended only when that holds of both sides.                      *)
EndsRead ==
  /\ clientEof => ~open["client"] /\ read["client"] = sent["client"]
  /\ prpc = "done" => \A s \in Side : ~open[s] /\ read[s] = sent[s]

(* A side that can still be written to has all that was read for it.       *)
InStep ==
  prpc # "answered" =>
    \A s \in Side :
      /\ received[s] = Bytes(0, Len(received[s])) /\ Len(received[s]) \in Nat
      /\ ~Gone(s) \/ ~lost => Len(received[s]) = read[Other(s)]

ProxyInv == ProxyTypes /\ StaysReadable /\ EndsRead /\ InStep

(* read() and http_send_string(): the bytes go behind those that are there.*)
LEMMA ForwardKeeps ==
  ASSUME ProxyConstants, ProxyInv, NEW s \in Side, NEW n \in 1..MaxBuff, Forward(s, n)
  PROVE  ProxyInv'
<1> DEFINE to == Other(s)
<1>1. /\ prpc = s /\ s \in ready /\ read[s] < sent[s] /\ n \in Nat /\ n <= sent[s] - read[s]
      /\ read' = [read EXCEPT ![s] = @ + n] /\ received' = Relayed(s, n)
      /\ lost' = (lost \/ Gone(to)) /\ prpc' = AfterRead(s)
      /\ UNCHANGED <<ready, sent, open, fdsOpen, clientEof>>
  BY DEF Forward, ProxyConstants
<1>2. /\ to \in Side /\ to # s /\ Other(to) = s /\ Side = {s, to}
      /\ prpc' \in {"target", "select"} /\ prpc \notin {"lookup", "answered"}
      /\ (prpc' = "target" => to = "target")
  BY <1>1 DEF Side, Other, AfterRead
<1>3. /\ read \in [Side -> Nat] /\ sent \in [Side -> Nat] /\ read' \in [Side -> Nat]
      /\ read'[s] = read[s] + n /\ read'[to] = read[to]
  BY <1>1, <1>2 DEF ProxyInv, ProxyTypes
<1>4. /\ received \in [Side -> Seq(Nat) \cup {<<"502">>}]
      /\ \A u \in Side : received[u] = Bytes(0, Len(received[u])) /\ Len(received[u]) \in Nat
      /\ \A u \in Side : ~Gone(u) \/ ~lost => Len(received[u]) = read[Other(u)]
  BY <1>2 DEF ProxyInv, ProxyTypes, InStep
<1>5. /\ received' \in [Side -> Seq(Nat) \cup {<<"502">>}] /\ received'[s] = received[s]
      /\ received'[to] = IF Gone(to) THEN received[to] ELSE Bytes(0, read[s] + n)
  <2>1. CASE Gone(to)
    BY <1>1, <1>2, <1>4, <2>1 DEF Relayed
  <2>2. CASE ~Gone(to)
    <3>1. received' = [received EXCEPT ![to] = received[to] \o Bytes(read[s], n)]
      BY <1>1, <2>2 DEF Relayed, Bytes
    <3>2. received[to] = Bytes(0, read[s])
      BY <1>2, <1>4, <2>2
    <3>3. received[to] \o Bytes(read[s], n) = Bytes(0, read[s] + n)
      BY <1>1, <1>3, <3>2, BytesJoin
    <3>4. read[s] + n \in Nat /\ Bytes(0, read[s] + n) \in Seq(Nat)
      BY <1>1, <1>3, BytesAre
    <3> QED BY <1>2, <1>4, <2>2, <3>1, <3>3, <3>4
  <2> QED BY <2>1, <2>2
<1>6. Gone(s)' = Gone(s) /\ Gone(to)' = Gone(to) /\ lost' \in BOOLEAN
  BY <1>1 DEF Gone, ProxyInv, ProxyTypes
<1>7. InStep'
  <2>1. /\ received'[s] = Bytes(0, Len(received'[s])) /\ Len(received'[s]) \in Nat
        /\ ~Gone(s)' \/ ~lost' => Len(received'[s]) = read'[to]
    BY <1>1, <1>2, <1>3, <1>4, <1>5, <1>6 DEF ProxyInv, ProxyTypes
  <2>2. /\ received'[to] = Bytes(0, Len(received'[to])) /\ Len(received'[to]) \in Nat
        /\ ~Gone(to)' \/ ~lost' => Len(received'[to]) = read'[s]
    <3>1. CASE Gone(to)
      BY <1>1, <1>4, <1>5, <1>6, <1>2, <3>1
    <3>2. CASE ~Gone(to)
      <4>1. read[s] + n \in Nat /\ Len(Bytes(0, read[s] + n)) = read[s] + n
        BY <1>1, <1>3, BytesAre
      <4> QED BY <1>3, <1>5, <3>2, <4>1
    <3> QED BY <3>1, <3>2
  <2> QED BY <1>2, <2>1, <2>2 DEF InStep
<1>8. ProxyTypes'
  BY <1>1, <1>2, <1>3, <1>5, <1>6 DEF ProxyInv, ProxyTypes
<1>9. StaysReadable'
  <2>1. prpc' = "target" => prpc = "client" /\ ProxyReadable("target")' = ProxyReadable("target")
    BY <1>1, <1>2, <1>3 DEF ProxyReadable, Side, Other
  <2> QED BY <1>1, <1>2, <2>1 DEF ProxyInv, StaysReadable
<1>10. EndsRead'
  <2>1. clientEof => s # "client"
    BY <1>1, <1>3 DEF ProxyInv, EndsRead
  <2>2. clientEof => read'["client"] = read["client"]
    BY <1>2, <1>3, <2>1 DEF Side
  <2> QED BY <1>1, <1>2, <2>2 DEF ProxyInv, EndsRead
<1> QED BY <1>7, <1>8, <1>9, <1>10 DEF ProxyInv

(* The peers: what they send or that they close takes nothing back.        *)
LEMMA PeerKeeps ==
  ASSUME ProxyInv, NEW s \in Side, PeerSends(s) \/ PeerCloses(s)
  PROVE  ProxyInv'
<1>1. /\ UNCHANGED <<prpc, ready, read, fdsOpen, received, clientEof, lost>>
      /\ open[s]
      /\ \/ sent' = [sent EXCEPT ![s] = @ + 1] /\ open' = open
         \/ sent' = sent /\ open' = [open EXCEPT ![s] = FALSE]
  BY DEF PeerSends, PeerCloses
<1>2. /\ sent \in [Side -> Nat] /\ read \in [Side -> Nat] /\ open \in [Side -> BOOLEAN]
  BY DEF ProxyInv, ProxyTypes
<1>3. /\ sent' \in [Side -> Nat] /\ open' \in [Side -> BOOLEAN]
      /\ \A u \in Side : sent'[u] \in {sent[u], sent[u] + 1} /\ (open'[u] => open[u])
      /\ \A u \in Side : u # s \/ ~open[u] => sent'[u] = sent[u] /\ open'[u] = open[u]
  <2>1. CASE sent' = [sent EXCEPT ![s] = @ + 1] /\ open' = open
    BY <1>1, <1>2, <2>1
  <2>2. CASE sent' = sent /\ open' = [open EXCEPT ![s] = FALSE]
    BY <1>1, <1>2, <2>2
  <2> QED BY <1>1, <2>1, <2>2
<1>4. \A u \in Side : ProxyReadable(u) => ProxyReadable(u)'
  BY <1>1, <1>2, <1>3 DEF ProxyReadable
<1>5. \A u \in Side : Gone(u) => Gone(u)'
  BY <1>1, <1>3 DEF Gone
<1>6. ProxyTypes' /\ StaysReadable'
  BY <1>1, <1>3, <1>4 DEF ProxyInv, ProxyTypes, StaysReadable, Side
<1>7. EndsRead'
  BY <1>1, <1>3 DEF ProxyInv, EndsRead, Side
<1>8. InStep'
  BY <1>1, <1>5 DEF ProxyInv, InStep
<1> QED BY <1>6, <1>7, <1>8 DEF ProxyInv

(* Both ends: a side that was readable and has nothing to read has closed. *)
LEMMA EndsKeep ==
  ASSUME ProxyInv, ClientEnds \/ TargetEnds
  PROVE  ProxyInv'
<1>1. UNCHANGED <<ready, sent, read, open, received, lost>> /\ fdsOpen' \subseteq Side
      /\ read \in [Side -> Nat] /\ sent \in [Side -> Nat]
  BY DEF ClientEnds, TargetEnds, ProxyInv, ProxyTypes
<1>2. CASE ClientEnds
  <2>1. /\ prpc = "client" /\ "client" \in ready /\ read["client"] = sent["client"]
        /\ clientEof' = TRUE /\ prpc' = "select"
    BY <1>2 DEF ClientEnds
  <2>2. ~open["client"]
    BY <1>1, <2>1 DEF ProxyInv, StaysReadable, ProxyReadable, Side
  <2>3. ProxyTypes' /\ StaysReadable' /\ EndsRead'
    BY <1>1, <2>1, <2>2 DEF ProxyInv, ProxyTypes, StaysReadable, EndsRead
  <2>4. \A u \in Side : Gone(u) => Gone(u)'
    BY <1>1, <2>1 DEF Gone
  <2>5. InStep'
    BY <1>1, <2>1, <2>4 DEF ProxyInv, InStep
  <2> QED BY <2>3, <2>5 DEF ProxyInv
<1>3. CASE TargetEnds
  <2>1. /\ prpc = "target" /\ "target" \in ready /\ read["target"] = sent["target"]
        /\ clientEof' = clientEof /\ prpc' \in {"select", "done"} /\ (prpc' = "done" => clientEof)
    BY <1>3 DEF TargetEnds
  <2>2. ~open["target"]
    BY <1>1, <2>1 DEF ProxyInv, StaysReadable, ProxyReadable, Side
  <2>3. ProxyTypes' /\ StaysReadable' /\ EndsRead'
    BY <1>1, <2>1, <2>2 DEF ProxyInv, ProxyTypes, StaysReadable, EndsRead, Side
  <2>4. InStep'
    BY <1>1, <2>1 DEF ProxyInv, InStep, Gone
  <2> QED BY <2>3, <2>4 DEF ProxyInv
<1> QED BY <1>2, <1>3

(* The beginning, select() and a side that is not ready.                   *)
LEMMA LoopKeeps ==
  ASSUME ProxyInv,
         \/ LookupFails \/ ConnectFails \/ Connect \/ ProxySelect \/ (\E s \in Side : Skip(s))
         \/ UNCHANGED proxyVars
  PROVE  ProxyInv'
<1>1. UNCHANGED <<sent, read, open, clientEof, lost>>
  BY DEF LookupFails, ConnectFails, Connect, ProxySelect, Skip, proxyVars
<1>2. CASE LookupFails \/ Connect
  BY <1>1, <1>2 DEF LookupFails, Connect, ProxyInv, ProxyTypes, StaysReadable, EndsRead, InStep,
                    Gone
<1>3. CASE ConnectFails
  <2>1. received' \in [Side -> Seq(Nat) \cup {<<"502">>}]
    BY <1>3 DEF ConnectFails, ProxyInv, ProxyTypes
  <2> QED BY <1>1, <1>3, <2>1 DEF ConnectFails, ProxyInv, ProxyTypes, StaysReadable, EndsRead,
                                  InStep
<1>4. CASE ProxySelect
  <2>1. /\ prpc' = "client" /\ ready' = {s \in Watched : ProxyReadable(s)} /\ prpc = "select"
        /\ UNCHANGED <<received, fdsOpen>>
    BY <1>4 DEF ProxySelect
  <2>2. ready' \subseteq Side /\ \A s \in ready' : ProxyReadable(s)'
    BY <1>1, <2>1 DEF Watched, ProxyReadable, Side
  <2> QED BY <1>1, <2>1, <2>2 DEF ProxyInv, ProxyTypes, StaysReadable, EndsRead, InStep, Gone
<1>5. CASE \E s \in Side : Skip(s)
  <2>1. /\ UNCHANGED <<ready, received, fdsOpen>>
        /\ \/ prpc = "client" /\ prpc' = "target"
           \/ prpc = "target" /\ prpc' = "select"
    BY <1>5 DEF Skip, Side, AfterRead
  <2> QED BY <1>1, <2>1 DEF ProxyInv, ProxyTypes, StaysReadable, EndsRead, InStep, Gone,
                            ProxyReadable
<1>6. CASE UNCHANGED proxyVars
  BY <1>1, <1>6 DEF proxyVars, ProxyInv, ProxyTypes, StaysReadable, EndsRead, InStep, Gone,
                    ProxyReadable
<1> QED BY <1>2, <1>3, <1>4, <1>5, <1>6

LEMMA ProxyStart == ProxyInit => ProxyInv
<1> SUFFICES ASSUME ProxyInit PROVE ProxyInv
  OBVIOUS
<1>1. ProxyTypes
  <2>1. received \in [Side -> Seq(Nat) \cup {<<"502">>}]
    BY DEF ProxyInit
  <2>2. sent \in [Side -> Nat] /\ read \in [Side -> Nat] /\ open \in [Side -> BOOLEAN]
    BY DEF ProxyInit
  <2>3. {"client"} \subseteq Side
    BY DEF Side
  <2> QED BY <2>1, <2>2, <2>3 DEF ProxyInit, ProxyTypes
<1>2. <<>> = Bytes(0, 0) /\ Len(<<>>) = 0
  BY BytesAre
<1>3. \A s \in Side : received[s] = <<>> /\ read[Other(s)] = 0
  BY DEF ProxyInit, Side, Other
<1>4. InStep
  BY <1>2, <1>3 DEF InStep
<1> QED BY <1>1, <1>4 DEF ProxyInit, ProxyInv, StaysReadable, EndsRead

(* handle_proxy_request(): each side receives the other's bytes in order   *)
(* and once, and the loop ends only when both sides had and all was read,  *)
(* for any number of bytes and any size of the buffer.                     *)
THEOREM ProxyAlwaysRelays ==
  ASSUME ProxyConstants
  PROVE  ProxySpec => []ProxyRelays
<1>1. ProxyInv /\ [ProxyNext]_proxyVars => ProxyInv'
  BY ForwardKeeps, PeerKeeps, EndsKeep, LoopKeeps DEF ProxyNext, ProxyStep
<1>2. ProxyInv => ProxyRelays
  <2> SUFFICES ASSUME ProxyInv PROVE ProxyRelays
    OBVIOUS
  <2>1. ASSUME prpc # "answered", NEW s \in Side
        PROVE  /\ received[s] = [k \in 1..Len(received[s]) |-> k]
               /\ ~lost => Len(received[s]) = read[Other(s)]
    <3>1. /\ received[s] = Bytes(0, Len(received[s])) /\ Len(received[s]) \in Nat
          /\ ~lost => Len(received[s]) = read[Other(s)]
      BY <2>1 DEF ProxyInv, InStep
    <3>2. [k \in 1..Len(received[s]) |-> k] = Bytes(0, Len(received[s]))
      BY <3>1, BytesFrom
    <3> QED BY <3>1, <3>2
  <2> QED BY <2>1 DEF ProxyInv, EndsRead, ProxyRelays
<1> QED BY ProxyStart, <1>1, <1>2, PTL DEF ProxySpec

-----------------------------------------------------------------------------
(* The relays of the serial consoles.                                       *)
Pipe == [in : BOOLEAN, out : BOOLEAN, buf : [0..(RelayBuf - 1) -> Nat], size : Nat, ofs : Nat,
         active : BOOLEAN]

RelayTypes ==
  /\ squish \in {"pty", "unix"}
  /\ rpipe \in [Dir -> Pipe] /\ readySet \subseteq Dir
  /\ arrived \in [Dir -> Nat] /\ relayed \in [Dir -> Nat] /\ sourceOpen \in [Dir -> BOOLEAN]
  /\ delivered \in [Dir -> Seq(Nat)]

(* The buffer of a pipe that has read N bytes holds the last of them.      *)
HoldsLast(p, n) ==
  /\ p.ofs + p.size <= RelayBuf /\ p.size <= n
  /\ \A k \in 1..p.size : p.buf[p.ofs + k - 1] = n - p.size + k

PipesHold ==
  \A i \in Dir : /\ HoldsLast(rpipe[i], relayed[i])
                 /\ delivered[i] = Bytes(0, relayed[i] - rpipe[i].size)

(* What select() found readable stays so until it is that pipe's turn, and *)
(* an input is given up only when it is closed and read to its end.        *)
TurnComes(i) == rpc = "read0" \/ (i = 1 /\ rpc \in {"write0", "read1"})

InputsEnd ==
  \A i \in Dir : /\ relayed[i] <= arrived[i]
                 /\ i \in readySet /\ TurnComes(i) => Readable(i)
                 /\ ~rpipe[i].in => ~sourceOpen[i] /\ relayed[i] = arrived[i]

(* A write to the device that is due has something to write.               *)
WriteIsDue == rpc \in {"read0", "write0"} /\ 0 \in writeSet => rpipe[0].size > 0

EndsDrained ==
  rpc = "end" => relayed[1] = arrived[1] /\ (squish = "pty" => rpipe[1].size = 0)

RelayInv ==
  RelayTypes /\ PipesHold /\ InputsEnd /\ WriteIsDue /\ EndsDrained /\ DiesForReason

-----------------------------------------------------------------------------
(* read() puts the next bytes behind those that the buffer holds.          *)
LEMMA StoredHolds ==
  ASSUME RelayBounds, NEW p \in Pipe, NEW n \in Nat, NEW cnt \in Nat, HoldsLast(p, n),
         cnt <= RelayBuf - p.ofs - p.size
  PROVE  /\ Stored(p, n, cnt) \in Pipe /\ HoldsLast(Stored(p, n, cnt), n + cnt)
         /\ Stored(p, n, cnt).size = p.size + cnt /\ Stored(p, n, cnt).in = p.in
<1> DEFINE s == Stored(p, n, cnt)
<1> DEFINE o == p.ofs
           z == p.size
           b == [k \in 0..(RelayBuf - 1) |->
                  IF k >= o + z /\ k < o + z + cnt THEN n + k - (o + z) + 1 ELSE p.buf[k]]
<1>1. /\ o \in Nat /\ z \in Nat /\ RelayBuf \in Nat /\ o + z + cnt <= RelayBuf /\ z <= n
      /\ DOMAIN p.buf = 0..(RelayBuf - 1) /\ p.buf \in [0..(RelayBuf - 1) -> Nat]
  BY DEF Pipe, RelayBounds, HoldsLast
<1>2. s = [p EXCEPT !.active = TRUE, !.size = z + cnt, !.buf = b]
  BY <1>1 DEF Stored
<1>3. \A k \in 1..z : p.buf[o + k - 1] = n - z + k
  BY DEF HoldsLast
<1>4. b \in [0..(RelayBuf - 1) -> Nat]
  <2> HIDE DEF o, z
  <2>1. \A k \in 0..(RelayBuf - 1) :
          (IF k >= o + z /\ k < o + z + cnt THEN n + k - (o + z) + 1 ELSE p.buf[k]) \in Nat
    BY <1>1
  <2> QED BY <2>1
<1>5. \A k \in 1..(z + cnt) : b[o + k - 1] = n - z + k
  <2> HIDE DEF o, z
  <2> TAKE k \in 1..(z + cnt)
  <2>1. o + k - 1 \in 0..(RelayBuf - 1)
    BY <1>1
  <2>2. CASE k <= z
    <3>1. b[o + k - 1] = p.buf[o + k - 1]
      BY <1>1, <2>1, <2>2
    <3> QED BY <1>1, <1>3, <2>2, <3>1
  <2>3. CASE k > z
    <3>1. o + k - 1 >= o + z /\ o + k - 1 < o + z + cnt
      BY <1>1, <2>3
    <3>2. b[o + k - 1] = n + (o + k - 1) - (o + z) + 1
      BY <2>1, <3>1
    <3> QED BY <1>1, <3>2
  <2> QED BY <1>1, <2>2, <2>3
<1> HIDE DEF b
<1>6. /\ s \in Pipe /\ s.size = z + cnt /\ s.ofs = o /\ s.in = p.in /\ s.buf = b
  <2>1. z + cnt \in Nat
    <3> HIDE DEF o, z
    <3> QED BY <1>1
  <2>2. /\ p = [in |-> p.in, out |-> p.out, buf |-> p.buf, size |-> p.size, ofs |-> p.ofs,
               active |-> p.active]
        /\ p.in \in BOOLEAN /\ p.out \in BOOLEAN /\ p.ofs \in Nat
    BY DEF Pipe
  <2>3. s = [in |-> p.in, out |-> p.out, buf |-> b, size |-> z + cnt, ofs |-> p.ofs,
             active |-> TRUE]
    <3> HIDE DEF s, z, o
    <3> QED BY <1>2, <2>2
  <2> HIDE DEF s
  <2> QED BY <1>4, <2>1, <2>2, <2>3 DEF Pipe
<1>7. o + (z + cnt) <= RelayBuf /\ z + cnt <= n + cnt
  <2> HIDE DEF o, z
  <2> QED BY <1>1
<1>8. \A k \in 1..(z + cnt) : n - z + k = (n + cnt) - (z + cnt) + k
  <2> HIDE DEF o, z
  <2> QED BY <1>1
<1> HIDE DEF s
<1>9. HoldsLast(s, n + cnt)
  <2> HIDE DEF o, z
  <2>1. \A k \in 1..s.size : s.buf[s.ofs + k - 1] = (n + cnt) - s.size + k
    BY <1>5, <1>6, <1>8
  <2> QED BY <1>6, <1>7, <2>1 DEF HoldsLast
<1> QED BY <1>6, <1>9 DEF s

(* What write() takes from the buffer is the bytes that are due.           *)
LEMMA FrontIsDue ==
  ASSUME RelayBounds, NEW p \in Pipe, NEW n \in Nat, HoldsLast(p, n), NEW cnt \in 0..p.size
  PROVE  Front(p, cnt) = Bytes(n - p.size, cnt)
<1>1. p.size \in Nat
  BY DEF Pipe
<1>2. \A k \in 1..cnt : p.buf[p.ofs + k - 1] = n - p.size + k
  BY <1>1 DEF HoldsLast
<1> QED BY <1>2 DEF Front, Bytes

LEMMA ShiftedHolds ==
  ASSUME RelayBounds, NEW p \in Pipe, NEW n \in Nat, HoldsLast(p, n), NEW cnt \in 1..p.size
  PROVE  /\ Shifted(p, cnt) \in Pipe /\ HoldsLast(Shifted(p, cnt), n)
         /\ Shifted(p, cnt).size = p.size - cnt /\ Shifted(p, cnt).in = p.in
<1> DEFINE s == Shifted(p, cnt)
           o == IF p.size = cnt THEN 0 ELSE p.ofs + cnt
<1>1. /\ p.ofs \in Nat /\ p.size \in Nat /\ RelayBuf \in Nat /\ cnt \in Nat
      /\ o \in Nat /\ p.size - cnt \in Nat
  BY DEF Pipe, RelayBounds
<1>2. /\ s \in Pipe /\ s.size = p.size - cnt /\ s.ofs = o /\ s.in = p.in /\ s.buf = p.buf
  BY <1>1 DEF Pipe, Shifted
<1> HIDE DEF s
<1>3. \A k \in 1..(p.size - cnt) : p.buf[o + k - 1] = n - (p.size - cnt) + k
  <2> TAKE k \in 1..(p.size - cnt)
  <2>1. o = p.ofs + cnt /\ k + cnt \in 1..p.size /\ k \in Nat
    BY <1>1
  <2>2. p.buf[p.ofs + (k + cnt) - 1] = n - p.size + (k + cnt)
    BY <2>1 DEF HoldsLast
  <2>3. /\ p.ofs + (k + cnt) - 1 = o + k - 1
        /\ n - p.size + (k + cnt) = n - (p.size - cnt) + k
    BY <1>1, <2>1
  <2> QED BY <2>2, <2>3
<1>4. o + (p.size - cnt) <= RelayBuf /\ p.size - cnt <= n
  BY <1>1 DEF HoldsLast
<1>5. HoldsLast(s, n)
  <2> HIDE DEF o
  <2> QED BY <1>2, <1>3, <1>4 DEF HoldsLast
<1> QED BY <1>2, <1>5 DEF s

-----------------------------------------------------------------------------
(* What select() found is unaffected: the program steps that neither read  *)
(* nor write, and the other ends, which take nothing back.                 *)
LEMMA OtherEndsKeep ==
  ASSUME RelayInv, OtherEnds
  PROVE  RelayInv'
<1>1. ~RelayOver /\ UNCHANGED <<squish, rpc, rpipe, readySet, writeSet, relayed, delivered>>
  BY DEF OtherEnds, ChildDies, OutputCloses, SourceSends, SourceCloses, within
<1>2. arrived \in [Dir -> Nat] /\ relayed \in [Dir -> Nat] /\ sourceOpen \in [Dir -> BOOLEAN]
  BY DEF RelayInv, RelayTypes
<1>3. /\ arrived' \in [Dir -> Nat] /\ sourceOpen' \in [Dir -> BOOLEAN]
      /\ \A i \in Dir : /\ arrived'[i] >= arrived[i] /\ (sourceOpen'[i] => sourceOpen[i])
                        /\ ~sourceOpen[i] => arrived'[i] = arrived[i]
  <2>1. CASE ChildDies \/ OutputCloses
    BY <1>2, <2>1 DEF ChildDies, OutputCloses
  <2>2. CASE \E i \in Dir : SourceSends(i)
    <3>1. PICK i \in Dir : SourceSends(i)
      BY <2>2
    <3> QED BY <1>2, <3>1 DEF SourceSends
  <2>3. CASE \E i \in Dir : SourceCloses(i)
    <3>1. PICK i \in Dir : SourceCloses(i)
      BY <2>3
    <3> QED BY <1>2, <3>1 DEF SourceCloses
  <2> QED BY <2>1, <2>2, <2>3 DEF OtherEnds
<1>4. \A i \in Dir : Readable(i) => Readable(i)'
  BY <1>1, <1>2, <1>3 DEF Readable
<1>5. InputsEnd'
  BY <1>1, <1>2, <1>3, <1>4 DEF RelayInv, InputsEnd, TurnComes
<1>6. EndsDrained' /\ DiesForReason'
  BY <1>1 DEF RelayOver, EndsDrained, DiesForReason
<1> QED BY <1>1, <1>3, <1>5, <1>6 DEF RelayInv, RelayTypes, PipesHold, WriteIsDue

LEMMA TurnsKeep ==
  ASSUME RelayInv,
         \/ \E room \in SUBSET Dir : Select(room)
         \/ LeaveLoop \/ (\E i \in Dir : NoRead(i) \/ NoWrite(i)) \/ UNCHANGED relayVars
  PROVE  RelayInv'
<1>1. UNCHANGED <<squish, rpipe, relayed, delivered, arrived, sourceOpen, outputOpen>>
  BY DEF Select, LeaveLoop, NoRead, NoWrite, relayVars, outside
<1>2. CASE \E room \in SUBSET Dir : Select(room)
  <2>1. /\ rpc' = "read0" /\ readySet' \subseteq Dir /\ \A i \in readySet' : Readable(i)
        /\ \A i \in writeSet' : WantsWrite(i)
    BY <1>2 DEF Select
  <2>2. \A i \in readySet' : Readable(i)'
    BY <1>1, <2>1 DEF Readable
  <2>3. WriteIsDue'
    BY <1>1, <2>1 DEF WantsWrite, WriteIsDue
  <2>4. EndsDrained' /\ DiesForReason'
    BY <2>1 DEF EndsDrained, DiesForReason
  <2> QED BY <1>1, <2>1, <2>2, <2>3, <2>4 DEF RelayInv, RelayTypes, PipesHold, InputsEnd
<1>3. CASE LeaveLoop \/ (\E i \in Dir : NoRead(i) \/ NoWrite(i)) \/ UNCHANGED relayVars
  <2>1. /\ readySet' = readySet /\ \A i \in Dir : TurnComes(i)' => TurnComes(i)
        /\ writeSet' = writeSet /\ (rpc' \in {"read0", "write0"} => rpc \in {"read0", "write0"})
        /\ (rpc' = "end" => rpc = "end") /\ (rpc' = "died" => rpc = "died")
    BY <1>3 DEF LeaveLoop, NoRead, NoWrite, relayVars, TurnComes, AtRead, AtWrite, After, Dir
  <2>2. \A i \in Dir : Readable(i)' = Readable(i)
    BY <1>1 DEF Readable
  <2>3. WriteIsDue' /\ EndsDrained' /\ DiesForReason'
    BY <1>1, <2>1 DEF RelayInv, WriteIsDue, EndsDrained, DiesForReason
  <2> QED BY <1>1, <2>1, <2>2, <2>3 DEF RelayInv, RelayTypes, PipesHold, InputsEnd
<1> QED BY <1>2, <1>3

(* read(): the bytes behind those that have been read, for either loop.    *)
LEMMA StoresKeeps ==
  ASSUME RelayBounds, RelayInv, NEW i \in Dir, NEW cnt \in Nat, NEW p \in Pipe,
         HoldsLast(p, relayed[i]), p.size = rpipe[i].size, p.in = rpipe[i].in, p.in,
         cnt <= arrived[i] - relayed[i], cnt <= RelayBuf - p.ofs - p.size,
         rpipe' = [rpipe EXCEPT ![i] = Stored(p, relayed[i], cnt)],
         relayed' = [relayed EXCEPT ![i] = @ + cnt],
         UNCHANGED <<squish, writeSet, delivered, arrived, sourceOpen>>,
         readySet' \subseteq readySet, ~RelayOver',
         rpc' \in {"read0", "write0"} => rpc \in {"read0", "write0"},
         \A j \in Dir : TurnComes(j)' => TurnComes(j) /\ j # i
  PROVE  RelayInv'
<1> DEFINE s == Stored(p, relayed[i], cnt)
<1>1. /\ relayed \in [Dir -> Nat] /\ arrived \in [Dir -> Nat] /\ relayed[i] \in Nat
      /\ rpipe \in [Dir -> Pipe]
  BY DEF RelayInv, RelayTypes
<1>2. s \in Pipe /\ HoldsLast(s, relayed[i] + cnt) /\ s.size = p.size + cnt /\ s.in = p.in
  BY <1>1, StoredHolds
<1> HIDE DEF s
<1>3. rpipe' = [rpipe EXCEPT ![i] = s]
  BY DEF s
<1>4. /\ rpipe' \in [Dir -> Pipe] /\ rpipe'[i] = s
      /\ relayed' \in [Dir -> Nat] /\ relayed'[i] = relayed[i] + cnt
      /\ \A j \in Dir : j # i => rpipe'[j] = rpipe[j] /\ relayed'[j] = relayed[j]
  BY <1>1, <1>2, <1>3
<1>5. PipesHold'
  <2>1. p.size \in Nat
    BY DEF Pipe
  <2>2. (relayed[i] + cnt) - s.size = relayed[i] - rpipe[i].size
    BY <1>1, <1>2, <2>1
  <2>3. HoldsLast(rpipe'[i], relayed'[i]) /\ delivered'[i] = Bytes(0, relayed'[i] - rpipe'[i].size)
    BY <1>2, <1>4, <2>2 DEF RelayInv, PipesHold
  <2>4. \A j \in Dir : j # i => /\ HoldsLast(rpipe'[j], relayed'[j])
                                /\ delivered'[j] = Bytes(0, relayed'[j] - rpipe'[j].size)
    BY <1>4 DEF RelayInv, PipesHold
  <2> QED BY <2>3, <2>4 DEF PipesHold, HoldsLast
<1>6. InputsEnd'
  <2>1. \A j \in Dir : relayed'[j] <= arrived'[j]
    BY <1>1, <1>4 DEF RelayInv, InputsEnd
  <2>2. \A j \in Dir : j # i => Readable(j)' = Readable(j)
    BY <1>4 DEF Readable
  <2>3. rpipe'[i].in
    BY <1>2, <1>4
  <2> QED BY <1>4, <2>1, <2>2, <2>3 DEF RelayInv, InputsEnd
<1>7. WriteIsDue'
  <2>1. 0 \in Dir /\ p.size \in Nat /\ rpipe[0].size \in Nat
    BY <1>1 DEF Dir, Pipe
  <2>2. rpipe'[0].size >= rpipe[0].size /\ rpipe'[0].size \in Nat
    BY <1>2, <1>4, <2>1
  <2> QED BY <2>1, <2>2 DEF RelayInv, WriteIsDue
<1> QED BY <1>4, <1>5, <1>6, <1>7
        DEF RelayInv, RelayTypes, EndsDrained, DiesForReason, RelayOver

(* write(): bytes that are due, for either loop.                           *)
LEMMA TakesKeeps ==
  ASSUME RelayBounds, RelayInv, NEW i \in Dir, NEW cnt \in 1..rpipe[i].size,
         delivered' = [delivered EXCEPT ![i] = @ \o Front(rpipe[i], cnt)],
         rpipe' = [rpipe EXCEPT ![i] = Shifted(@, cnt)],
         UNCHANGED <<squish, readySet, relayed, arrived, sourceOpen>>, ~RelayOver',
         rpc' \notin {"read0", "write0"},
         \A j \in Dir : TurnComes(j)' => TurnComes(j)
  PROVE  RelayInv'
<1> DEFINE p == rpipe[i]
           s == Shifted(p, cnt)
           n == relayed[i]
<1>1. /\ rpipe \in [Dir -> Pipe] /\ p \in Pipe /\ n \in Nat /\ HoldsLast(p, n)
      /\ delivered \in [Dir -> Seq(Nat)] /\ delivered[i] = Bytes(0, n - p.size)
      /\ p.size \in Nat /\ p.size <= n /\ cnt \in Nat /\ cnt \in 0..p.size
  BY DEF RelayInv, RelayTypes, PipesHold, HoldsLast, Pipe
<1>2. s \in Pipe /\ HoldsLast(s, n) /\ s.size = p.size - cnt /\ s.in = p.in
  BY <1>1, ShiftedHolds
<1>3. rpipe' = [rpipe EXCEPT ![i] = s]
  OBVIOUS
<1>4. delivered[i] \o Front(p, cnt) = Bytes(0, n - s.size) /\ Bytes(0, n - s.size) \in Seq(Nat)
  <2>1. n - p.size \in Nat /\ (n - p.size) + cnt = n - s.size /\ (n - p.size) + cnt \in Nat
    <3> HIDE DEF n, s, p
    <3> QED BY <1>1, <1>2
  <2>2. Front(p, cnt) = Bytes(n - p.size, cnt)
    <3> HIDE DEF p, n, s
    <3> QED BY <1>1, FrontIsDue
  <2>3. Bytes(0, n - p.size) \o Bytes(n - p.size, cnt) = Bytes(0, (n - p.size) + cnt)
    BY <1>1, <2>1, BytesJoin
  <2>4. Bytes(0, (n - p.size) + cnt) \in Seq(Nat)
    BY <2>1, BytesAre
  <2>5. delivered[i] = Bytes(0, n - p.size) /\ (n - p.size) + cnt = n - s.size
    BY <1>1, <2>1
  <2> HIDE DEF p, n, s
  <2> QED BY <2>2, <2>3, <2>4, <2>5, Zenon
<1> HIDE DEF s
<1>5. /\ rpipe' \in [Dir -> Pipe] /\ rpipe'[i] = s
      /\ delivered' \in [Dir -> Seq(Nat)] /\ delivered'[i] = Bytes(0, n - s.size)
      /\ \A j \in Dir : j # i => rpipe'[j] = rpipe[j] /\ delivered'[j] = delivered[j]
  <2>1. delivered' = [delivered EXCEPT ![i] = Bytes(0, n - s.size)]
    BY <1>4
  <2> QED BY <1>1, <1>2, <1>3, <1>4, <2>1
<1>6. PipesHold'
  <2>1. HoldsLast(rpipe'[i], relayed'[i]) /\ delivered'[i] = Bytes(0, relayed'[i] - rpipe'[i].size)
    BY <1>2, <1>5
  <2>2. \A j \in Dir : j # i => /\ HoldsLast(rpipe'[j], relayed'[j])
                                /\ delivered'[j] = Bytes(0, relayed'[j] - rpipe'[j].size)
    BY <1>5 DEF RelayInv, PipesHold
  <2> QED BY <2>1, <2>2 DEF PipesHold, HoldsLast
<1>7. InputsEnd'
  <2>1. \A j \in Dir : rpipe'[j].in = rpipe[j].in /\ Readable(j)' = Readable(j)
    BY <1>2, <1>5 DEF Readable
  <2> QED BY <2>1 DEF RelayInv, InputsEnd
<1> QED BY <1>5, <1>6, <1>7
        DEF RelayInv, RelayTypes, WriteIsDue, EndsDrained, DiesForReason, RelayOver

LEMMA RelayReadKeeps ==
  ASSUME RelayBounds, RelayInv, NEW i \in Dir, NEW cnt \in 1..RelayBuf, RelayRead(i, cnt)
  PROVE  RelayInv'
<1>1. /\ AtRead(i) /\ rpc' = After(i, "read") /\ relayed[i] < arrived[i]
      /\ cnt \in 1..(arrived[i] - relayed[i]) /\ cnt <= RelayBuf - rpipe[i].ofs - rpipe[i].size
      /\ rpipe' = [rpipe EXCEPT ![i] = Stored(rpipe[i], relayed[i], cnt)]
      /\ relayed' = [relayed EXCEPT ![i] = @ + cnt] /\ readySet' \subseteq readySet
      /\ UNCHANGED <<squish, writeSet, delivered, arrived, sourceOpen>>
  BY DEF RelayRead, outside
<1>2. cnt \in Nat /\ cnt <= arrived[i] - relayed[i] /\ relayed[i] # arrived[i]
      /\ rpipe[i] \in Pipe /\ HoldsLast(rpipe[i], relayed[i])
  BY <1>1 DEF RelayBounds, RelayInv, RelayTypes, PipesHold
<1>3. rpipe[i].in
  <2>1. rpipe[i].in \in BOOLEAN
    BY <1>2 DEF Pipe
  <2> QED BY <1>2, <2>1 DEF RelayInv, InputsEnd
<1>4. /\ ~RelayOver' /\ (rpc' \in {"read0", "write0"} => rpc \in {"read0", "write0"})
      /\ \A j \in Dir : TurnComes(j)' => TurnComes(j) /\ j # i
  BY <1>1 DEF RelayOver, TurnComes, AtRead, After, Dir
<1> QED BY <1>1, <1>2, <1>3, <1>4, StoresKeeps

LEMMA RelayWriteKeeps ==
  ASSUME RelayBounds, RelayInv, NEW i \in Dir, NEW cnt \in 1..RelayBuf, RelayWrite(i, cnt)
  PROVE  RelayInv'
<1>1. /\ AtWrite(i) /\ rpc' = After(i, "write") /\ cnt \in 1..rpipe[i].size
      /\ delivered' = [delivered EXCEPT ![i] = @ \o Front(rpipe[i], cnt)]
      /\ rpipe' = [rpipe EXCEPT ![i] = Shifted(@, cnt)]
      /\ UNCHANGED <<squish, readySet, relayed, arrived, sourceOpen>>
  BY DEF RelayWrite, outside
<1>2. /\ ~RelayOver' /\ rpc' \notin {"read0", "write0"}
      /\ \A j \in Dir : TurnComes(j)' => TurnComes(j)
  BY <1>1 DEF RelayOver, TurnComes, AtWrite, After, Dir
<1> QED BY <1>1, <1>2, TakesKeeps

(* A write that fails: pipe 0 of squish-pty gives its output up, or the    *)
(* program dies, with its output closed, or with the child's end of the    *)
(* socket closed and input for it at hand.                                 *)
LEMMA WriteFailsKeeps ==
  ASSUME RelayInv, DrainWriteFails \/ \E i \in Dir : RelayWriteFails(i)
  PROVE  RelayInv'
<1>1. /\ UNCHANGED <<squish, readySet, relayed, delivered, arrived, sourceOpen, outputOpen>>
      /\ \A j \in Dir : Readable(j)' = Readable(j)
  BY DEF DrainWriteFails, RelayWriteFails, outside, Readable
<1>2. CASE rpc' = "died" /\ UNCHANGED rpipe
  <2>1. DiesForReason'
    <3>1. CASE DrainWriteFails
      BY <1>1, <3>1 DEF DrainWriteFails, NobodyTakes, DiesForReason
    <3>2. CASE \E i \in Dir : RelayWriteFails(i)
      <4>1. PICK i \in Dir : RelayWriteFails(i)
        BY <3>2
      <4>2. CASE i = 1
        BY <1>1, <4>1, <4>2 DEF RelayWriteFails, NobodyTakes, DiesForReason
      <4>3. CASE i = 0
        <5>1. rpc = "write0" /\ 0 \in writeSet /\ ~sourceOpen[1] /\ rpc' = "died"
          BY <1>2, <4>1, <4>3 DEF RelayWriteFails, NobodyTakes, AtWrite
        <5>2. squish # "pty"
          BY <4>1, <4>3, <5>1 DEF RelayWriteFails, After
        <5>3. squish = "unix" /\ rpipe[0].size > 0
          BY <5>1, <5>2 DEF RelayInv, RelayTypes, WriteIsDue
        <5> QED BY <1>1, <1>2, <5>1, <5>3 DEF DiesForReason
      <4> QED BY <4>2, <4>3 DEF Dir
    <3> QED BY <3>1, <3>2
  <2> QED BY <1>1, <1>2, <2>1 DEF RelayInv, RelayTypes, PipesHold, InputsEnd, WriteIsDue,
                                  EndsDrained, TurnComes
<1>3. CASE \E i \in Dir : /\ AtWrite(i) /\ rpc' = After(i, "write")
                         /\ rpipe' = [rpipe EXCEPT ![i].out = FALSE]
  <2>1. PICK i \in Dir : /\ AtWrite(i) /\ rpc' = After(i, "write")
                         /\ rpipe' = [rpipe EXCEPT ![i].out = FALSE]
    BY <1>3
  <2>2. /\ rpipe' \in [Dir -> Pipe]
        /\ \A j \in Dir : /\ rpipe'[j].buf = rpipe[j].buf /\ rpipe'[j].size = rpipe[j].size
                          /\ rpipe'[j].ofs = rpipe[j].ofs /\ rpipe'[j].in = rpipe[j].in
    <3> DEFINE q == [rpipe[i] EXCEPT !.out = FALSE]
    <3>1. rpipe \in [Dir -> Pipe] /\ rpipe' = [rpipe EXCEPT ![i] = q]
      BY <2>1 DEF RelayInv, RelayTypes
    <3>2. /\ q \in Pipe /\ q.in = rpipe[i].in /\ q.buf = rpipe[i].buf
          /\ q.size = rpipe[i].size /\ q.ofs = rpipe[i].ofs
      BY <3>1 DEF Pipe
    <3> HIDE DEF q
    <3> QED BY <3>1, <3>2
  <2>3. /\ ~RelayOver' /\ rpc' \notin {"read0", "write0"}
        /\ \A j \in Dir : TurnComes(j)' => TurnComes(j)
    BY <2>1 DEF RelayOver, TurnComes, AtWrite, After, Dir
  <2>4. PipesHold'
    BY <1>1, <2>2 DEF RelayInv, PipesHold, HoldsLast
  <2>5. InputsEnd'
    BY <1>1, <2>2, <2>3 DEF RelayInv, InputsEnd
  <2> QED BY <1>1, <2>2, <2>3, <2>4, <2>5
          DEF RelayInv, RelayTypes, WriteIsDue, EndsDrained, DiesForReason, RelayOver
<1> QED BY <1>2, <1>3 DEF DrainWriteFails, RelayWriteFails

(* The final relaying: what is left in the buffer is a write of all of it. *)
LEMMA DrainWriteKeeps ==
  ASSUME RelayBounds, RelayInv, DrainWrite
  PROVE  RelayInv'
<1> DEFINE p == rpipe[1]
<1>1. /\ rpc = "drain" /\ p.size > 0 /\ rpc' = rpc
      /\ delivered' = [delivered EXCEPT ![1] = @ \o Front(p, p.size)]
      /\ rpipe' = [rpipe EXCEPT ![1] = [p EXCEPT !.size = 0, !.ofs = 0]]
      /\ UNCHANGED <<squish, readySet, relayed, arrived, sourceOpen>>
  BY DEF DrainWrite, outside
<1>2. p \in Pipe /\ 1 \in Dir /\ p.size \in Nat
  BY DEF RelayInv, RelayTypes, Dir, Pipe
<1>3. p.size \in 1..p.size
  BY <1>1, <1>2
<1>4. Shifted(p, p.size) = [p EXCEPT !.size = 0, !.ofs = 0]
  <2>1. p.size - p.size = 0
    BY <1>2
  <2> QED BY <1>2, <2>1 DEF Shifted
<1>5. /\ ~RelayOver' /\ rpc' \notin {"read0", "write0"}
      /\ \A j \in Dir : TurnComes(j)' => TurnComes(j)
  BY <1>1 DEF RelayOver, TurnComes
<1>6. rpipe' = [rpipe EXCEPT ![1] = Shifted(p, p.size)]
  BY <1>1, <1>4
<1> QED BY <1>1, <1>2, <1>3, <1>5, <1>6, TakesKeeps

(* ... and each read of what the device still has finds the buffer empty.  *)
LEMMA DrainReadKeeps ==
  ASSUME RelayBounds, RelayInv, NEW cnt \in 1..RelayBuf, DrainRead(cnt)
  PROVE  RelayInv'
<1> DEFINE p == [rpipe[1] EXCEPT !.ofs = 0]
<1>1. /\ rpc = "drain" /\ rpipe[1].size = 0
      /\ UNCHANGED <<squish, readySet, writeSet, delivered, arrived, sourceOpen>>
  BY DEF DrainRead, outside
<1>2. /\ 1 \in Dir /\ rpipe[1] \in Pipe /\ rpipe[1].in \in BOOLEAN /\ RelayBuf \in Nat
      /\ relayed[1] \in Nat /\ arrived[1] \in Nat /\ relayed[1] <= arrived[1]
  BY DEF RelayInv, RelayTypes, InputsEnd, Dir, Pipe, RelayBounds
<1>3. CASE rpipe[1].in /\ relayed[1] < arrived[1]
  <2>1. /\ cnt \in 1..(arrived[1] - relayed[1]) /\ cnt <= RelayBuf
        /\ rpipe' = [rpipe EXCEPT ![1] = Stored(p, relayed[1], cnt)]
        /\ relayed' = [relayed EXCEPT ![1] = @ + cnt] /\ rpc' = rpc
    BY <1>3 DEF DrainRead
  <2>2. p \in Pipe /\ p.size = 0 /\ p.ofs = 0 /\ p.in = rpipe[1].in
    BY <1>1, <1>2 DEF Pipe
  <2> HIDE DEF p
  <2>3. HoldsLast(p, relayed[1])
    BY <1>2, <2>2 DEF HoldsLast
  <2>4. cnt \in Nat /\ cnt <= arrived[1] - relayed[1] /\ cnt <= RelayBuf - p.ofs - p.size
    BY <1>2, <2>1, <2>2
  <2>5. /\ ~RelayOver' /\ rpc' \notin {"read0", "write0"}
        /\ \A j \in Dir : TurnComes(j)' => TurnComes(j) /\ j # 1
    BY <1>1, <2>1 DEF RelayOver, TurnComes
  <2> QED BY <1>1, <1>2, <1>3, <2>1, <2>2, <2>3, <2>4, <2>5, StoresKeeps
<1>4. CASE ~(rpipe[1].in /\ relayed[1] < arrived[1])
  <2>1. rpc' = "end" /\ UNCHANGED <<rpipe, relayed>>
    BY <1>4 DEF DrainRead
  <2>2. relayed[1] = arrived[1]
    BY <1>2, <1>4 DEF RelayInv, InputsEnd
  <2>3. \A j \in Dir : ~TurnComes(j)'
    BY <2>1 DEF TurnComes
  <2> QED BY <1>1, <2>1, <2>2, <2>3 DEF RelayInv, RelayTypes, PipesHold, InputsEnd, WriteIsDue,
                                       EndsDrained, DiesForReason
<1> QED BY <1>3, <1>4

(* The end of an input, which is met only when it is closed: a pipe gives  *)
(* it up, or the program's loop ends with the socket.                      *)
LEMMA RelayEofKeeps ==
  ASSUME RelayInv, NEW i \in Dir, RelayEof(i)
  PROVE  RelayInv'
<1>1. /\ AtRead(i) /\ i \in readySet /\ relayed[i] = arrived[i]
      /\ UNCHANGED <<squish, writeSet, relayed, delivered, arrived, sourceOpen>>
      /\ readySet' \subseteq readySet
  BY DEF RelayEof, outside
<1>2. ~sourceOpen[i]
  <2>1. TurnComes(i)
    BY <1>1 DEF TurnComes, AtRead, Dir
  <2>2. relayed[i] \in Nat
    BY DEF RelayInv, RelayTypes
  <2> QED BY <1>1, <2>1, <2>2 DEF RelayInv, InputsEnd, Readable
<1>3. CASE squish = "unix" /\ i = 1
  <2>1. /\ UNCHANGED rpipe
        /\ rpc' = "end" \/ (rpc' = "died" /\ delivered[0] # <<>>)
    BY <1>3 DEF RelayEof
  <2>2. /\ \A j \in Dir : ~TurnComes(j)'
        /\ rpc' \notin {"read0", "write0"}
    BY <2>1 DEF TurnComes
  <2>3. EndsDrained' /\ DiesForReason'
    BY <1>1, <1>2, <1>3, <2>1 DEF EndsDrained, DiesForReason
  <2> QED BY <1>1, <2>1, <2>2, <2>3 DEF RelayInv, RelayTypes, PipesHold, InputsEnd, WriteIsDue
<1>4. CASE ~(squish = "unix" /\ i = 1)
  <2>1. rpc' = After(i, "read") /\ rpipe' = [rpipe EXCEPT ![i].in = FALSE]
    BY <1>4 DEF RelayEof
  <2>2. /\ rpipe \in [Dir -> Pipe] /\ rpipe' \in [Dir -> Pipe] /\ rpipe'[i].in = FALSE
        /\ \A j \in Dir : j # i => rpipe'[j] = rpipe[j]
        /\ \A j \in Dir : /\ rpipe'[j].buf = rpipe[j].buf /\ rpipe'[j].size = rpipe[j].size
                          /\ rpipe'[j].ofs = rpipe[j].ofs
    <3> DEFINE q == [rpipe[i] EXCEPT !.in = FALSE]
    <3>1. rpipe \in [Dir -> Pipe] /\ rpipe' = [rpipe EXCEPT ![i] = q]
      BY <2>1 DEF RelayInv, RelayTypes
    <3>2. /\ q \in Pipe /\ q.in = FALSE /\ q.buf = rpipe[i].buf /\ q.size = rpipe[i].size
          /\ q.ofs = rpipe[i].ofs
      BY <3>1 DEF Pipe
    <3> HIDE DEF q
    <3> QED BY <3>1, <3>2
  <2>3. /\ ~RelayOver' /\ (rpc' \in {"read0", "write0"} => rpc \in {"read0", "write0"})
        /\ \A j \in Dir : TurnComes(j)' => TurnComes(j)
    BY <1>1, <2>1 DEF RelayOver, TurnComes, AtRead, After, Dir
  <2>4. PipesHold'
    BY <1>1, <2>2 DEF RelayInv, PipesHold, HoldsLast
  <2>5. InputsEnd'
    BY <1>1, <1>2, <2>2, <2>3 DEF RelayInv, InputsEnd, Readable
  <2>6. WriteIsDue'
    BY <1>1, <2>2, <2>3 DEF RelayInv, WriteIsDue, Dir
  <2> QED BY <1>1, <2>2, <2>3, <2>4, <2>5, <2>6
          DEF RelayInv, RelayTypes, EndsDrained, DiesForReason, RelayOver
<1> QED BY <1>3, <1>4

LEMMA RelayStart ==
  ASSUME RelayBounds, RelayInit
  PROVE  RelayInv
<1> DEFINE p == [in |-> TRUE, out |-> TRUE, buf |-> [k \in 0..(RelayBuf - 1) |-> 0],
                 size |-> 0, ofs |-> 0, active |-> FALSE]
<1>1. /\ p \in Pipe /\ p.in /\ p.size = 0 /\ p.ofs = 0
      /\ \A i \in Dir : rpipe[i] = p /\ relayed[i] = 0 /\ delivered[i] = <<>>
      /\ rpc = "select" /\ readySet = {}
  BY DEF RelayInit, Pipe
<1>2. RelayTypes
  BY <1>1 DEF RelayInit, RelayTypes
<1> HIDE DEF p
<1>3. HoldsLast(p, 0)
  BY <1>1 DEF HoldsLast, RelayBounds
<1>4. <<>> = Bytes(0, 0)
  BY DEF Bytes
<1>5. PipesHold
  BY <1>1, <1>3, <1>4 DEF PipesHold
<1> QED BY <1>1, <1>2, <1>5
        DEF RelayInit, RelayInv, InputsEnd, WriteIsDue, EndsDrained, DiesForReason

(* relay() of both programs: each direction is a queue, whatever the split *)
(* of reads and writes and whichever end closes first; when relay()        *)
(* returns, the child's output is delivered but for what squish-unix had   *)
(* in its buffer, and when the program dies, its own output is closed or,  *)
(* of squish-unix, the child left input behind.  For any size of the       *)
(* buffers and any number of bytes.                                        *)
THEOREM RelayAlwaysSafe ==
  ASSUME RelayBounds
  PROVE  RelaySpec => []RelaySafe
<1>1. RelayInv /\ [RelayNext]_relayVars => RelayInv'
  BY OtherEndsKeep, TurnsKeep, RelayReadKeeps, RelayWriteKeeps, WriteFailsKeeps, DrainWriteKeeps,
     DrainReadKeeps, RelayEofKeeps DEF RelayNext, RelayStep
<1>2. RelayInv => RelaySafe
  <2> SUFFICES ASSUME RelayInv PROVE RelaySafe
    OBVIOUS
  <2>1. ASSUME NEW i \in Dir
        PROVE  /\ rpipe[i].ofs + rpipe[i].size <= RelayBuf
               /\ delivered[i] \o Front(rpipe[i], rpipe[i].size) = [k \in 1..relayed[i] |-> k]
               /\ Len(delivered[i]) = relayed[i] - rpipe[i].size
               /\ rpipe[i].size \in Nat /\ rpipe[i].size <= RelayBuf /\ relayed[i] \in Nat
    <3> DEFINE p == rpipe[i]
               n == relayed[i]
    <3>1. /\ p \in Pipe /\ n \in Nat /\ HoldsLast(p, n) /\ delivered[i] = Bytes(0, n - p.size)
          /\ p.size \in Nat /\ p.ofs \in Nat /\ p.size <= n /\ p.ofs + p.size <= RelayBuf
      BY DEF RelayInv, RelayTypes, PipesHold, HoldsLast, Pipe
    <3>2. p.size \in 0..p.size /\ n - p.size \in Nat /\ (n - p.size) + p.size = n
          /\ p.size <= RelayBuf
      <4> HIDE DEF p, n
      <4> QED BY <3>1 DEF RelayBounds
    <3>3. Front(p, p.size) = Bytes(n - p.size, p.size)
      BY <3>1, <3>2, FrontIsDue
    <3>4. delivered[i] \o Front(p, p.size) = Bytes(0, n)
      BY <3>1, <3>2, <3>3, BytesJoin
    <3>5. Len(delivered[i]) = n - p.size
      BY <3>1, <3>2, BytesAre
    <3>6. [k \in 1..n |-> k] = Bytes(0, n)
      BY <3>1, BytesFrom
    <3> QED BY <3>1, <3>2, <3>4, <3>5, <3>6
  <2>2. RelayFifo
    BY <2>1 DEF RelayFifo
  <2>3. ChildOutputKept
    BY <2>1 DEF RelayInv, EndsDrained, ChildOutputKept, Dir, RelayBounds
  <2> QED BY <2>2, <2>3 DEF RelaySafe, RelayInv
<1> QED BY RelayStart, <1>1, <1>2, PTL DEF RelaySpec

-----------------------------------------------------------------------------
(* The MapReduce worker in Rust.                                            *)
RustStages == {"idle", "dead", "map", "mapping", "fetch", "write", "finish", "fail", "retry"}
Owners == [Maps -> RustWorkers \cup {NoWorker}]
RustTasks == [reduce : BOOLEAN, task : Int, assigns : Owners \cup {<<>>}]

RustTypes ==
  /\ rwAt \in [RustWorkers -> RustStages] /\ rwTask \in [RustWorkers -> RustTasks]
  /\ mapDone \in Owners /\ redDone \subseteq Reduces /\ aborted \in BOOLEAN
  /\ outFile \in [Reduces -> {"none", "partial", "whole", "cut"}]
  /\ writing \in [RustWorkers -> SUBSET Reduces]

RustWorking(w) == rwAt[w] \notin {"idle", "dead"}
OnReduce(w, r) == RustWorking(w) /\ rwTask[w].reduce /\ rwTask[w].task = r

(* A stage belongs to its kind of task, a reduce task that is worked on is *)
(* not reported, and reported only with its file written or being written. *)
StagesMatch ==
  \A w \in RustWorkers :
    /\ rwAt[w] \in {"fetch", "write"} => rwTask[w].reduce
    /\ rwAt[w] \in {"map", "mapping"} => ~rwTask[w].reduce
    /\ RustWorking(w) /\ rwTask[w].reduce => rwTask[w].task \in Reduces \ redDone
    /\ rwAt[w] = "write" => outFile[rwTask[w].task] = "partial"
    /\ rwAt[w] = "finish" /\ rwTask[w].reduce => Accounted(rwTask[w].task)
    /\ rwAt[w] = "fail" => badInputs # {} \/ diskBad

(* Two workers never work on the same output file.                         *)
OneWriter ==
  \A v, w \in RustWorkers, r \in Reduces : OnReduce(v, r) /\ OnReduce(w, r) => v = w

(* A write in the background is of one live worker that has reported the   *)
(* task, or is about to.                                                   *)
OneWrite ==
  \A w \in RustWorkers : \A r \in writing[w] :
    /\ outFile[r] = "partial" /\ rwAt[w] # "dead"
    /\ r \in redDone \/ (rwAt[w] = "finish" /\ OnReduce(w, r))
    /\ \A v \in RustWorkers : r \in writing[v] => v = w

(* Nobody works before there is a job, and the client sees output when all *)
(* of it is reported.                                                      *)
JobStates ==
  /\ clientSees = "none" => ~aborted /\ redDone = {} /\ \A w \in RustWorkers : ~RustWorking(w)
  /\ clientSees = "output" => redDone = Reduces

RustInv == RustTypes /\ StagesMatch /\ OneWriter /\ OneWrite /\ JobStates /\ RustOutcome

-----------------------------------------------------------------------------
(* A file is as good as it was when neither it nor its writer has changed. *)
LEMMA StaysAccounted ==
  ASSUME NEW r, Accounted(r), outFile'[r] = outFile[r], diskBad' = diskBad,
         \A v \in RustWorkers : /\ (r \in writing'[v]) = (r \in writing[v])
                                /\ rwAt[v] = "dead" => rwAt'[v] = "dead"
                                /\ rwAt'[v] = "dead" => rwAt[v] = "dead" \/ r \notin writing[v]
  PROVE  Accounted(r)'
<1>1. CASE outFile[r] = "partial" /\ BeingWritten(r)
  <2>1. PICK w \in RustWorkers : rwAt[w] # "dead" /\ {v \in RustWorkers : r \in writing[v]} = {w}
    BY <1>1 DEF BeingWritten
  <2>2. r \in writing[w]
    BY <2>1
  <2>3. rwAt'[w] # "dead" /\ {v \in RustWorkers : r \in writing'[v]} = {w}
    BY <2>1, <2>2
  <2> QED BY <1>1, <2>3 DEF Accounted, BeingWritten
<1>2. CASE outFile[r] # "partial"
  BY <1>2 DEF Accounted
<1> QED BY <1>1, <1>2 DEF Accounted

(* A task that is worked on is written by nobody else.                     *)
LEMMA NobodyElseWrites ==
  ASSUME RustInv, NEW w \in RustWorkers, NEW r \in Reduces, OnReduce(w, r), rwAt[w] # "finish",
         NEW v \in RustWorkers
  PROVE  r \notin writing[v]
<1> SUFFICES ASSUME r \in writing[v] PROVE FALSE
  OBVIOUS
<1>1. r \notin redDone
  BY DEF RustInv, StagesMatch, OnReduce
<1>2. rwAt[v] = "finish" /\ OnReduce(v, r)
  BY <1>1 DEF RustInv, OneWrite
<1> QED BY <1>2 DEF RustInv, OneWriter

(* What a worker does with the task it has, up to its end.                 *)
LEMMA WorkerMoves ==
  ASSUME RustInv, NEW w \in RustWorkers, NEW a \in RustStages \ {"dead"}, Goes(w, a),
         RustWorking(w), rwAt[w] # "finish",
         rwTask' = rwTask \/ (a = "idle" /\ rwTask' = [rwTask EXCEPT ![w] = NoTask]),
         UNCHANGED <<mapDone, redDone, badInputs, diskBad, clientSees>>,
         aborted' = aborted \/ (aborted' = TRUE /\ rwAt[w] = "fail"),
         outFile' \in [Reduces -> {"none", "partial", "whole", "cut"}],
         \A r \in Reduces : ~OnReduce(w, r) => outFile'[r] = outFile[r],
         \/ UNCHANGED writing
         \/ /\ a = "finish" /\ rwTask[w].reduce /\ outFile'[rwTask[w].task] = "partial"
            /\ writing' = [writing EXCEPT ![w] = @ \cup {rwTask[w].task}],
         a \in {"fetch", "write"} => rwTask[w].reduce,
         a \in {"map", "mapping"} => ~rwTask[w].reduce,
         a = "write" => outFile'[rwTask[w].task] = "partial",
         a = "finish" /\ rwTask[w].reduce => writing' # writing,
         a = "fail" => badInputs # {} \/ diskBad
  PROVE  RustInv'
<1>1. /\ rwAt'[w] = a /\ rwAt' \in [RustWorkers -> RustStages]
      /\ \A v \in RustWorkers : v # w => rwAt'[v] = rwAt[v]
      /\ \A v \in RustWorkers : (rwAt'[v] = "dead") = (rwAt[v] = "dead")
  BY DEF Goes, RustInv, RustTypes, RustWorking
<1>2. /\ rwTask' \in [RustWorkers -> RustTasks]
      /\ \A v \in RustWorkers : /\ RustWorking(v)' => rwTask'[v] = rwTask[v]
                                /\ v # w => rwTask'[v] = rwTask[v]
                                /\ RustWorking(v)' => RustWorking(v)
  <2>1. NoTask \in RustTasks
    BY DEF NoTask, RustTasks
  <2> QED BY <1>1, <2>1 DEF RustInv, RustTypes, RustWorking
<1>3. writing' \in [RustWorkers -> SUBSET Reduces]
  <2>1. writing \in [RustWorkers -> SUBSET Reduces]
    BY DEF RustInv, RustTypes
  <2>2. rwTask[w].reduce => rwTask[w].task \in Reduces
    BY DEF RustInv, StagesMatch
  <2> QED BY <2>1, <2>2
<1>4. RustTypes'
  BY <1>1, <1>2, <1>3 DEF RustInv, RustTypes
<1>5. \A v \in RustWorkers, r \in Reduces : ~OnReduce(w, r) => (r \in writing'[v]) = (r \in writing[v])
  BY DEF OnReduce, RustInv, RustTypes
<1>6. ASSUME NEW r \in Reduces, Accounted(r), ~OnReduce(w, r)
      PROVE  Accounted(r)'
  <2>1. outFile'[r] = outFile[r] /\ \A v \in RustWorkers : (r \in writing'[v]) = (r \in writing[v])
    BY <1>5, <1>6
  <2> QED BY <1>1, <1>6, <2>1, StaysAccounted
<1>7. ASSUME NEW v \in RustWorkers, NEW r \in writing'[v]
      PROVE  /\ outFile'[r] = "partial" /\ rwAt'[v] # "dead"
             /\ r \in redDone' \/ (rwAt'[v] = "finish" /\ OnReduce(v, r)')
             /\ \A u \in RustWorkers : r \in writing'[u] => u = v
  <2>1. r \in Reduces
    BY <1>3
  <2>2. CASE OnReduce(w, r)
    <3>1. \A u \in RustWorkers : r \notin writing[u]
      BY <2>1, <2>2, NobodyElseWrites
    <3>2. /\ a = "finish" /\ rwTask[w].reduce /\ outFile'[rwTask[w].task] = "partial"
          /\ writing' = [writing EXCEPT ![w] = @ \cup {rwTask[w].task}]
      BY <3>1
    <3>3. v = w /\ \A u \in RustWorkers : r \in writing'[u] => u = w
      BY <3>1, <3>2 DEF RustInv, RustTypes
    <3>4. rwAt'[w] = "finish" /\ OnReduce(w, r)'
      BY <1>1, <1>2, <2>2, <3>2 DEF OnReduce, RustWorking
    <3> QED BY <2>2, <3>2, <3>3, <3>4 DEF OnReduce
  <2>3. CASE ~OnReduce(w, r)
    <3>1. r \in writing[v] /\ \A u \in RustWorkers : r \in writing'[u] => r \in writing[u]
      BY <1>5, <2>1, <2>3
    <3>2. /\ outFile[r] = "partial" /\ rwAt[v] # "dead"
          /\ r \in redDone \/ (rwAt[v] = "finish" /\ OnReduce(v, r))
          /\ \A u \in RustWorkers : r \in writing[u] => u = v
      BY <3>1 DEF RustInv, OneWrite
    <3>3. CASE rwAt[v] = "finish" /\ OnReduce(v, r)
      <4>1. v # w /\ rwAt'[v] = "finish" /\ rwTask'[v] = rwTask[v]
        BY <1>1, <1>2, <3>3
      <4> QED BY <1>1, <2>1, <2>3, <3>1, <3>2, <3>3, <4>1 DEF OnReduce, RustWorking
    <3> QED BY <1>1, <2>1, <2>3, <3>1, <3>2, <3>3
  <2> QED BY <2>2, <2>3
<1>8. OneWrite'
  BY <1>7 DEF OneWrite
<1>9. StagesMatch'
  <2> SUFFICES ASSUME NEW v \in RustWorkers
               PROVE  /\ rwAt'[v] \in {"fetch", "write"} => rwTask'[v].reduce
                      /\ rwAt'[v] \in {"map", "mapping"} => ~rwTask'[v].reduce
                      /\ RustWorking(v)' /\ rwTask'[v].reduce
                           => rwTask'[v].task \in Reduces \ redDone
                      /\ rwAt'[v] = "write" => outFile'[rwTask'[v].task] = "partial"
                      /\ rwAt'[v] = "finish" /\ rwTask'[v].reduce => Accounted(rwTask[v].task)'
                      /\ rwAt'[v] = "fail" => badInputs # {} \/ diskBad
    BY DEF StagesMatch
  <2>1. RustWorking(v) /\ rwTask[v].reduce => rwTask[v].task \in Reduces \ redDone
    BY DEF RustInv, StagesMatch
  <2>2. rwAt'[v] \in {"fetch", "write", "map", "mapping", "finish", "fail"} => RustWorking(v)'
    BY DEF RustWorking
  <2>3. CASE v = w
    <3>1. a = "finish" /\ rwTask[w].reduce => Accounted(rwTask[w].task)'
      <4> SUFFICES ASSUME a = "finish", rwTask[w].reduce
                   PROVE  Accounted(rwTask[w].task)'
        OBVIOUS
      <4>1. PICK r \in Reduces : r = rwTask[w].task
        BY <2>1, <2>3
      <4>2. r \in writing'[w] /\ outFile'[r] = "partial"
        BY <4>1 DEF RustInv, RustTypes
      <4>3. rwAt'[w] # "dead" /\ {u \in RustWorkers : r \in writing'[u]} = {w}
        BY <1>7, <4>2
      <4>4. Accounted(r)'
        BY <4>2, <4>3 DEF Accounted, BeingWritten
      <4>5. rwTask'[w] = rwTask[w]
        BY <1>1, <1>2 DEF RustWorking
      <4> QED BY <4>1, <4>4, <4>5
    <3> QED BY <1>1, <1>2, <2>1, <2>2, <2>3, <3>1
  <2>4. CASE v # w
    <3>1. rwAt'[v] = rwAt[v] /\ rwTask'[v] = rwTask[v] /\ RustWorking(v)' = RustWorking(v)
      BY <1>1, <1>2, <2>4 DEF RustWorking
    <3>2. ASSUME rwAt[v] = "finish", rwTask[v].reduce
          PROVE  Accounted(rwTask[v].task)'
      <4>1. OnReduce(v, rwTask[v].task) /\ rwTask[v].task \in Reduces /\ Accounted(rwTask[v].task)
        BY <3>2, <2>1 DEF OnReduce, RustWorking, RustInv, StagesMatch
      <4>2. ~OnReduce(w, rwTask[v].task)
        BY <4>1, <2>4 DEF RustInv, OneWriter
      <4>3. PICK r \in Reduces : r = rwTask[v].task
        BY <4>1
      <4>4. Accounted(r)'
        BY <1>6, <4>1, <4>2, <4>3
      <4> QED BY <3>1, <4>3, <4>4
    <3>3. ASSUME rwAt[v] = "write"
          PROVE  outFile'[rwTask'[v].task] = "partial"
      <4>1. /\ OnReduce(v, rwTask[v].task) /\ rwTask[v].task \in Reduces
            /\ outFile[rwTask[v].task] = "partial"
        BY <3>3 DEF OnReduce, RustWorking, RustInv, StagesMatch
      <4>2. ~OnReduce(w, rwTask[v].task)
        BY <4>1, <2>4 DEF RustInv, OneWriter
      <4> QED BY <3>1, <4>1, <4>2
    <3> QED BY <2>1, <3>1, <3>2, <3>3 DEF RustInv, StagesMatch
  <2> QED BY <2>3, <2>4
<1>10. OneWriter'
  BY <1>2 DEF RustInv, OneWriter, OnReduce
<1>11. JobStates'
  BY <1>2 DEF RustInv, JobStates, RustWorking
<1>12. RustOutcome'
  <2>1. aborted' => badInputs # {} \/ diskBad
    BY DEF RustInv, RustOutcome, StagesMatch
  <2>2. \A r \in redDone : r \in Reduces /\ ~OnReduce(w, r)
    BY DEF RustInv, RustTypes, StagesMatch, OnReduce
  <2>3. \A r \in redDone' : Accounted(r)'
    BY <1>6, <2>2 DEF RustInv, RustOutcome
  <2>4. clientSees' = "output" => \A r \in Reduces : outFile'[r] = "whole"
    BY <2>2 DEF RustInv, RustOutcome, JobStates
  <2> QED BY <2>1, <2>3, <2>4 DEF RustOutcome
<1> QED BY <1>4, <1>8, <1>9, <1>10, <1>11, <1>12 DEF RustInv

(* get_task(): the coordinator offers a task that nobody works on.         *)
LEMMA GetTaskKeeps ==
  ASSUME RustInv, NEW w \in RustWorkers, GetTask(w)
  PROVE  RustInv'
<1>1. PICK task \in Offered :
        /\ rwTask' = [rwTask EXCEPT ![w] = task]
        /\ Goes(w, IF task.reduce THEN "fetch" ELSE "map")
  BY DEF GetTask
<1>2. /\ UNCHANGED <<outFile, writing, mapDone, redDone, aborted, badInputs, diskBad, clientSees>>
      /\ rwAt[w] = "idle"
  BY DEF GetTask, coordVars, jobVars, fileVars
<1>3. clientSees # "none" /\ task \in RustTasks
      /\ (task.reduce => /\ task.task \in Reduces \ redDone
                         /\ \A v \in RustWorkers : ~OnReduce(v, task.task))
  <2>1. clientSees # "none" /\ Offered # {}
    BY DEF Offered
  <2>2. CASE \E m \in Maps : task = [NoTask EXCEPT !.task = m]
    <3>1. PICK m \in Maps : task = [reduce |-> FALSE, task |-> m, assigns |-> <<>>]
      BY <2>2 DEF NoTask
    <3>2. m \in Int
      BY DEF Maps
    <3> QED BY <2>1, <3>1, <3>2 DEF RustTasks
  <2>3. CASE \E r \in Reduces \ redDone :
               ~AtWork(TRUE, r) /\ task = [reduce |-> TRUE, task |-> r, assigns |-> mapDone]
    BY <2>1, <2>3 DEF RustTasks, Reduces, AtWork, OnReduce, RustWorking, RustInv, RustTypes
  <2> QED BY <2>1, <2>2, <2>3 DEF Offered
<1> DEFINE a == IF task.reduce THEN "fetch" ELSE "map"
<1>4. /\ rwAt'[w] = a /\ rwAt' \in [RustWorkers -> RustStages]
      /\ rwTask'[w] = task /\ rwTask' \in [RustWorkers -> RustTasks]
      /\ \A v \in RustWorkers : v # w => rwAt'[v] = rwAt[v] /\ rwTask'[v] = rwTask[v]
  BY <1>1, <1>3 DEF Goes, RustInv, RustTypes, RustStages
<1>5. RustTypes'
  BY <1>2, <1>4 DEF RustInv, RustTypes
<1>6. \A r \in Reduces : Accounted(r) => Accounted(r)'
  <2>1. \A v \in RustWorkers : (rwAt'[v] = "dead") = (rwAt[v] = "dead")
    BY <1>2, <1>4
  <2> QED BY <1>2, <2>1, StaysAccounted
<1>7. StagesMatch'
  <2> SUFFICES ASSUME NEW v \in RustWorkers
               PROVE  /\ rwAt'[v] \in {"fetch", "write"} => rwTask'[v].reduce
                      /\ rwAt'[v] \in {"map", "mapping"} => ~rwTask'[v].reduce
                      /\ RustWorking(v)' /\ rwTask'[v].reduce
                           => rwTask'[v].task \in Reduces \ redDone
                      /\ rwAt'[v] = "write" => outFile'[rwTask'[v].task] = "partial"
                      /\ rwAt'[v] = "finish" /\ rwTask'[v].reduce => Accounted(rwTask[v].task)'
                      /\ rwAt'[v] = "fail" => badInputs # {} \/ diskBad
    BY <1>2 DEF StagesMatch
  <2>1. CASE v = w
    BY <1>3, <1>4, <2>1 DEF RustTasks
  <2>2. CASE v # w
    <3>1. ASSUME rwAt'[v] = "finish", rwTask'[v].reduce PROVE Accounted(rwTask[v].task)'
      <4>1. PICK r \in Reduces : r = rwTask[v].task /\ Accounted(r)
        BY <1>4, <2>2, <3>1 DEF RustInv, StagesMatch, RustWorking
      <4>2. Accounted(r)' /\ rwTask'[v].task = r
        BY <1>4, <1>6, <2>2, <4>1
      <4> QED BY <4>2
    <3> QED BY <1>2, <1>4, <2>2, <3>1 DEF RustInv, StagesMatch, RustWorking
  <2> QED BY <2>1, <2>2
<1>8. OneWriter'
  BY <1>3, <1>4 DEF RustInv, OneWriter, OnReduce, RustWorking
<1>9. OneWrite'
  BY <1>2, <1>4 DEF RustInv, OneWrite, OnReduce, RustWorking
<1>10. JobStates'
  BY <1>2, <1>3 DEF RustInv, JobStates
<1>11. RustOutcome'
  BY <1>2, <1>6 DEF RustInv, RustTypes, RustOutcome
<1> QED BY <1>5, <1>7, <1>8, <1>9, <1>10, <1>11 DEF RustInv

(* finish_task(): the file of the reduce task is accounted for, and no     *)
(* other worker will truncate it.                                          *)
LEMMA FinishTaskKeeps ==
  ASSUME RustInv, NEW w \in RustWorkers, FinishTask(w)
  PROVE  RustInv'
<1>1. /\ rwAt[w] = "finish" /\ Goes(w, "idle") /\ rwTask' = [rwTask EXCEPT ![w] = NoTask]
      /\ UNCHANGED <<outFile, writing, aborted, badInputs, diskBad, clientSees>>
      /\ redDone' = IF rwTask[w].reduce THEN redDone \cup {rwTask[w].task} ELSE redDone
      /\ mapDone' = IF rwTask[w].reduce THEN mapDone
                    ELSE [mapDone EXCEPT ![rwTask[w].task] = w]
  BY DEF FinishTask, Leaves, fileVars, jobVars
<1>2. /\ rwAt'[w] = "idle" /\ rwAt' \in [RustWorkers -> RustStages]
      /\ rwTask' \in [RustWorkers -> RustTasks]
      /\ \A v \in RustWorkers : v # w => rwAt'[v] = rwAt[v] /\ rwTask'[v] = rwTask[v]
      /\ \A v \in RustWorkers : (rwAt'[v] = "dead") = (rwAt[v] = "dead")
  <2>1. NoTask \in RustTasks
    BY DEF NoTask, RustTasks
  <2> QED BY <1>1, <2>1 DEF Goes, RustInv, RustTypes, RustStages
<1>3. rwTask[w].reduce => /\ rwTask[w].task \in Reduces \ redDone /\ OnReduce(w, rwTask[w].task)
                          /\ Accounted(rwTask[w].task)
  BY <1>1 DEF RustInv, StagesMatch, RustWorking, OnReduce
<1>4. mapDone' \in Owners /\ redDone' \subseteq Reduces
  BY <1>1, <1>3 DEF RustInv, RustTypes, Owners
<1>5. RustTypes'
  BY <1>1, <1>2, <1>4 DEF RustInv, RustTypes
<1>6. \A v \in RustWorkers : RustWorking(v)' => RustWorking(v) /\ v # w
  BY <1>2 DEF RustWorking
<1>7. \A r \in Reduces : Accounted(r) => Accounted(r)'
  BY <1>1, <1>2, StaysAccounted
<1>8. StagesMatch'
  <2> SUFFICES ASSUME NEW v \in RustWorkers
               PROVE  /\ rwAt'[v] \in {"fetch", "write"} => rwTask'[v].reduce
                      /\ rwAt'[v] \in {"map", "mapping"} => ~rwTask'[v].reduce
                      /\ RustWorking(v)' /\ rwTask'[v].reduce
                           => rwTask'[v].task \in Reduces \ redDone'
                      /\ rwAt'[v] = "write" => outFile'[rwTask'[v].task] = "partial"
                      /\ rwAt'[v] = "finish" /\ rwTask'[v].reduce => Accounted(rwTask[v].task)'
                      /\ rwAt'[v] = "fail" => badInputs # {} \/ diskBad
    BY <1>1 DEF StagesMatch
  <2>1. CASE v = w
    BY <1>2, <2>1 DEF RustWorking
  <2>2. CASE v # w
    <3>1. /\ rwAt'[v] = rwAt[v] /\ rwTask'[v] = rwTask[v]
          /\ RustWorking(v)' = RustWorking(v)
      BY <1>2, <2>2 DEF RustWorking
    <3>2. RustWorking(v) /\ rwTask[v].reduce => rwTask[v].task \in Reduces \ redDone'
      BY <1>1, <1>3, <2>2 DEF RustInv, StagesMatch, OneWriter, OnReduce
    <3>3. ASSUME rwAt[v] = "finish", rwTask[v].reduce PROVE Accounted(rwTask[v].task)'
      <4>1. PICK r \in Reduces : r = rwTask[v].task /\ Accounted(r)
        BY <3>3 DEF RustInv, StagesMatch, RustWorking
      <4>2. Accounted(r)'
        BY <1>7, <4>1
      <4> QED BY <3>1, <4>1, <4>2
    <3> QED BY <1>1, <3>1, <3>2, <3>3 DEF RustInv, StagesMatch
  <2> QED BY <2>1, <2>2
<1>9. OneWriter'
  BY <1>2, <1>6 DEF RustInv, OneWriter, OnReduce
<1>10. OneWrite'
  <2> SUFFICES ASSUME NEW v \in RustWorkers, NEW r \in writing[v]
               PROVE  /\ outFile[r] = "partial" /\ rwAt'[v] # "dead"
                      /\ r \in redDone' \/ (rwAt'[v] = "finish" /\ OnReduce(v, r)')
                      /\ \A u \in RustWorkers : r \in writing[u] => u = v
    BY <1>1 DEF OneWrite
  <2>1. /\ outFile[r] = "partial" /\ rwAt[v] # "dead"
        /\ r \in redDone \/ (rwAt[v] = "finish" /\ OnReduce(v, r))
        /\ \A u \in RustWorkers : r \in writing[u] => u = v
    BY DEF RustInv, OneWrite
  <2>2. r \in redDone' \/ (rwAt'[v] = "finish" /\ OnReduce(v, r)')
    <3>1. CASE v = w
      BY <1>1, <2>1, <3>1 DEF OnReduce
    <3>2. CASE v # w
      BY <1>1, <1>2, <2>1, <3>2 DEF OnReduce, RustWorking
    <3> QED BY <3>1, <3>2
  <2> QED BY <1>2, <2>1, <2>2
<1>11. JobStates'
  <2>1. clientSees # "none"
    BY <1>1 DEF RustInv, JobStates, RustWorking
  <2>2. redDone \subseteq redDone'
    BY <1>1
  <2> QED BY <1>1, <1>4, <2>1, <2>2 DEF RustInv, JobStates
<1>12. RustOutcome'
  <2>1. \A r \in redDone' : r \in Reduces /\ Accounted(r)
    BY <1>1, <1>3 DEF RustInv, RustTypes, RustOutcome
  <2> QED BY <1>1, <1>7, <2>1 DEF RustInv, RustOutcome
<1> QED BY <1>5, <1>8, <1>9, <1>10, <1>11, <1>12 DEF RustInv

(* The steps of a task between get_task() and its end, fail_task() among   *)
(* the ends: only an input or a disk that is bad ends the job.             *)
LEMMA TaskStepKeeps ==
  ASSUME RustInv, NEW w \in RustWorkers,
         \/ MapLock(w) \/ MapStore(w) \/ MapFails(w) \/ ReadMapFails(w) \/ CreateFile(w)
         \/ CreateFails(w) \/ WriteAll(w) \/ WriteFails(w) \/ FailTask(w)
  PROVE  RustInv'
<1>1. /\ UNCHANGED <<mapDone, redDone, badInputs, diskBad, clientSees>>
      /\ outFile \in [Reduces -> {"none", "partial", "whole", "cut"}]
      /\ writing \in [RustWorkers -> SUBSET Reduces]
  BY DEF MapLock, MapStore, MapFails, ReadMapFails, CreateFile, CreateFails, WriteAll,
         WriteFails, FailTask, coordVars, jobVars, RustInv, RustTypes
<1>2. CASE MapLock(w)
  BY <1>1, <1>2, WorkerMoves
     DEF MapLock, RustWorking, RustStages, RustInv, StagesMatch, coordVars, fileVars
<1>3. CASE MapStore(w)
  <2>1. ~rwTask[w].reduce
    BY <1>3 DEF MapStore, RustInv, StagesMatch
  <2> QED BY <1>1, <1>3, <2>1, WorkerMoves DEF MapStore, RustWorking, RustStages, coordVars, fileVars
<1>4. CASE MapFails(w)
  BY <1>1, <1>4, WorkerMoves DEF MapFails, RustWorking, RustStages, coordVars, fileVars
<1>5. CASE ReadMapFails(w)
  BY <1>1, <1>5, WorkerMoves
     DEF ReadMapFails, Fetching, RustWorking, RustStages, coordVars, fileVars
<1>6. CASE CreateFile(w)
  <2>1. /\ rwAt[w] = "fetch" /\ rwTask[w].reduce /\ rwTask[w].task \in Reduces
        /\ OnReduce(w, rwTask[w].task)
    BY <1>6 DEF CreateFile, Creating, RustInv, StagesMatch, RustWorking, OnReduce
  <2>2. outFile' = [outFile EXCEPT ![rwTask[w].task] = "partial"] /\ Goes(w, "write")
        /\ UNCHANGED <<rwTask, writing, aborted>>
    BY <1>6 DEF CreateFile, coordVars
  <2>3. /\ outFile' \in [Reduces -> {"none", "partial", "whole", "cut"}]
        /\ \A r \in Reduces : ~OnReduce(w, r) => outFile'[r] = outFile[r]
    BY <1>1, <2>1, <2>2
  <2> QED BY <1>1, <2>1, <2>2, <2>3, WorkerMoves DEF RustWorking, RustStages
<1>7. CASE CreateFails(w)
  BY <1>1, <1>7, WorkerMoves
     DEF CreateFails, Creating, RustWorking, RustStages, coordVars, fileVars
<1>8. CASE WriteAll(w)
  <2>1. /\ rwAt[w] = "write" /\ rwTask[w].reduce /\ rwTask[w].task \in Reduces
        /\ OnReduce(w, rwTask[w].task)
    BY <1>8 DEF WriteAll, RustInv, StagesMatch, RustWorking, OnReduce
  <2>2. writing' = [writing EXCEPT ![w] = @ \cup {rwTask[w].task}] /\ Goes(w, "finish")
        /\ UNCHANGED <<rwTask, outFile, aborted>>
    BY <1>8 DEF WriteAll, coordVars
  <2>3. outFile[rwTask[w].task] = "partial" /\ writing' # writing
    <3>1. rwTask[w].task \notin writing[w]
      BY <2>1, NobodyElseWrites
    <3> QED BY <1>1, <1>8, <2>1, <2>2, <3>1 DEF RustInv, StagesMatch
  <2> QED BY <1>1, <2>1, <2>2, <2>3, WorkerMoves DEF RustWorking, RustStages
<1>9. CASE WriteFails(w)
  <2>1. /\ rwAt[w] = "write" /\ rwTask[w].reduce /\ rwTask[w].task \in Reduces
        /\ OnReduce(w, rwTask[w].task) /\ diskBad
    BY <1>9 DEF WriteFails, RustInv, StagesMatch, RustWorking, OnReduce
  <2>2. outFile' = [outFile EXCEPT ![rwTask[w].task] = "cut"] /\ Goes(w, "fail")
        /\ UNCHANGED <<rwTask, writing, aborted>>
    BY <1>9 DEF WriteFails, coordVars
  <2>3. /\ outFile' \in [Reduces -> {"none", "partial", "whole", "cut"}]
        /\ \A r \in Reduces : ~OnReduce(w, r) => outFile'[r] = outFile[r]
    BY <1>1, <2>1, <2>2
  <2> QED BY <1>1, <2>1, <2>2, <2>3, WorkerMoves DEF RustWorking, RustStages
<1>10. CASE FailTask(w)
  <2>1. /\ rwAt[w] \in {"fail", "retry"} /\ Goes(w, "idle") /\ UNCHANGED <<outFile, writing>>
        /\ rwTask' = [rwTask EXCEPT ![w] = NoTask]
        /\ aborted' = (aborted \/ rwAt[w] = "fail")
    BY <1>10 DEF FailTask, Leaves, fileVars
  <2>2. aborted' = aborted \/ (aborted' = TRUE /\ rwAt[w] = "fail")
    BY <2>1 DEF RustInv, RustTypes
  <2> QED BY <1>1, <2>1, <2>2, WorkerMoves DEF RustWorking, RustStages
<1> QED BY <1>2, <1>3, <1>4, <1>5, <1>6, <1>7, <1>8, <1>9, <1>10

(* The last write ends: a file that is accounted for stays so.             *)
LEMMA LastWriteKeeps ==
  ASSUME RustInv, NEW w \in RustWorkers, NEW r \in Reduces, LastWrite(w, r)
  PROVE  RustInv'
<1>1. /\ r \in writing[w] /\ writing' = [writing EXCEPT ![w] = @ \ {r}]
      /\ UNCHANGED <<rwAt, rwTask, mapDone, redDone, aborted, badInputs, diskBad, clientSees>>
  BY DEF LastWrite, coordVars, jobVars
<1>2. PICK end \in {"whole", "cut"} : outFile' = [outFile EXCEPT ![r] = end] /\ (end = "cut" => diskBad)
  BY DEF LastWrite
<1>3. RustTypes'
  BY <1>1, <1>2 DEF RustInv, RustTypes
<1>4. ASSUME NEW q \in Reduces, Accounted(q)
      PROVE  Accounted(q)'
  <2>1. CASE q = r
    BY <1>1, <1>2, <2>1 DEF Accounted, RustInv, RustTypes
  <2>2. CASE q # r
    <3>1. outFile'[q] = outFile[q] /\ \A v \in RustWorkers : (q \in writing'[v]) = (q \in writing[v])
      BY <1>1, <1>2, <2>2 DEF RustInv, RustTypes
    <3> QED BY <1>1, <1>4, <3>1, StaysAccounted
  <2> QED BY <2>1, <2>2
<1>5. \A v \in RustWorkers : RustWorking(v)' = RustWorking(v)
  BY <1>1 DEF RustWorking
<1>6. StagesMatch'
  <2>1. ASSUME NEW v \in RustWorkers, rwAt[v] = "finish", rwTask[v].reduce
        PROVE  Accounted(rwTask[v].task)'
    <3>1. PICK q \in Reduces : q = rwTask[v].task /\ Accounted(q)
      BY <2>1 DEF RustInv, StagesMatch, RustWorking
    <3>2. Accounted(q)'
      BY <1>4, <3>1
    <3> QED BY <1>1, <3>1, <3>2
  <2>2. ASSUME NEW v \in RustWorkers, rwAt[v] = "write"
        PROVE  outFile'[rwTask[v].task] = "partial"
    <3>1. rwTask[v].task \in Reduces /\ outFile[rwTask[v].task] = "partial" /\ rwTask[v].task # r
      BY <1>1, <2>2, NobodyElseWrites DEF RustInv, StagesMatch, RustWorking, OnReduce
    <3> QED BY <1>2, <3>1 DEF RustInv, RustTypes
  <2> QED BY <1>1, <1>5, <2>1, <2>2 DEF RustInv, StagesMatch
<1>7. OneWriter' /\ JobStates'
  BY <1>1, <1>5 DEF RustInv, OneWriter, OnReduce, JobStates
<1>8. \A v \in RustWorkers : \A q \in writing'[v] : q # r /\ q \in writing[v]
  BY <1>1 DEF RustInv, RustTypes, OneWrite
<1>9. OneWrite'
  <2> SUFFICES ASSUME NEW v \in RustWorkers, NEW q \in writing'[v]
               PROVE  /\ outFile'[q] = "partial" /\ rwAt[v] # "dead"
                      /\ q \in redDone \/ (rwAt[v] = "finish" /\ OnReduce(v, q)')
                      /\ \A u \in RustWorkers : q \in writing'[u] => u = v
    BY <1>1 DEF OneWrite
  <2>1. /\ q # r /\ q \in writing[v] /\ OnReduce(v, q)' = OnReduce(v, q)
        /\ \A u \in RustWorkers : q \in writing'[u] => q \in writing[u]
    BY <1>1, <1>5, <1>8 DEF OnReduce
  <2>2. q \in Reduces /\ outFile'[q] = outFile[q]
    BY <1>2, <2>1 DEF RustInv, RustTypes
  <2> QED BY <2>1, <2>2 DEF RustInv, OneWrite
<1>10. RustOutcome'
  <2>1. clientSees # "output"
    BY <1>1 DEF RustInv, OneWrite, RustOutcome
  <2> QED BY <1>1, <1>4, <2>1 DEF RustInv, RustTypes, RustOutcome
<1> QED BY <1>3, <1>6, <1>7, <1>9, <1>10 DEF RustInv

(* A crash: what the worker was still writing is cut short, and its death  *)
(* accounts for that.                                                      *)
LEMMA CrashKeeps ==
  ASSUME RustInv, NEW w \in RustWorkers, Crash(w)
  PROVE  RustInv'
<1>1. /\ Goes(w, "dead") /\ rwTask' = [rwTask EXCEPT ![w] = NoTask]
      /\ outFile' = [r \in Reduces |-> IF r \in writing[w] THEN "cut" ELSE outFile[r]]
      /\ writing' = [writing EXCEPT ![w] = {}]
      /\ UNCHANGED <<mapDone, redDone, aborted, badInputs, diskBad, clientSees>>
  BY DEF Crash, Leaves, coordVars, jobVars
<1>2. /\ rwAt'[w] = "dead" /\ rwAt' \in [RustWorkers -> RustStages]
      /\ rwTask' \in [RustWorkers -> RustTasks]
      /\ \A v \in RustWorkers : v # w => rwAt'[v] = rwAt[v] /\ rwTask'[v] = rwTask[v]
  <2>1. NoTask \in RustTasks
    BY DEF NoTask, RustTasks
  <2> QED BY <1>1, <2>1 DEF Goes, RustInv, RustTypes, RustStages
<1>3. RustTypes'
  BY <1>1, <1>2 DEF RustInv, RustTypes
<1>4. ASSUME NEW r \in Reduces, Accounted(r)
      PROVE  Accounted(r)'
  <2>1. CASE r \in writing[w]
    BY <1>1, <1>2, <2>1 DEF Accounted
  <2>2. CASE r \notin writing[w]
    <3>1. /\ outFile'[r] = outFile[r]
          /\ \A v \in RustWorkers : /\ (r \in writing'[v]) = (r \in writing[v])
                                    /\ rwAt[v] = "dead" => rwAt'[v] = "dead"
                                    /\ rwAt'[v] = "dead" => rwAt[v] = "dead" \/ r \notin writing[v]
      BY <1>1, <1>2, <2>2 DEF RustInv, RustTypes
    <3> QED BY <1>1, <1>4, <3>1, StaysAccounted
  <2> QED BY <2>1, <2>2
<1>5. \A v \in RustWorkers : RustWorking(v)' => RustWorking(v) /\ v # w
  BY <1>2 DEF RustWorking
<1>6. StagesMatch'
  <2> SUFFICES ASSUME NEW v \in RustWorkers
               PROVE  /\ rwAt'[v] \in {"fetch", "write"} => rwTask'[v].reduce
                      /\ rwAt'[v] \in {"map", "mapping"} => ~rwTask'[v].reduce
                      /\ RustWorking(v)' /\ rwTask'[v].reduce
                           => rwTask'[v].task \in Reduces \ redDone
                      /\ rwAt'[v] = "write" => outFile'[rwTask'[v].task] = "partial"
                      /\ rwAt'[v] = "finish" /\ rwTask'[v].reduce => Accounted(rwTask[v].task)'
                      /\ rwAt'[v] = "fail" => badInputs # {} \/ diskBad
    BY <1>1 DEF StagesMatch
  <2>1. CASE v = w
    BY <1>2, <2>1 DEF RustWorking
  <2>2. CASE v # w
    <3>1. /\ rwAt'[v] = rwAt[v] /\ rwTask'[v] = rwTask[v] /\ RustWorking(v)' = RustWorking(v)
      BY <1>2, <2>2 DEF RustWorking
    <3>2. ASSUME rwAt[v] = "finish", rwTask[v].reduce PROVE Accounted(rwTask[v].task)'
      <4>1. PICK r \in Reduces : r = rwTask[v].task /\ Accounted(r)
        BY <3>2 DEF RustInv, StagesMatch, RustWorking
      <4>2. Accounted(r)'
        BY <1>4, <4>1
      <4> QED BY <3>1, <4>1, <4>2
    <3>3. ASSUME rwAt[v] = "write" PROVE outFile'[rwTask[v].task] = "partial"
      <4>1. rwTask[v].task \in Reduces /\ outFile[rwTask[v].task] = "partial"
            /\ rwTask[v].task \notin writing[w]
        BY <3>3, NobodyElseWrites DEF RustInv, StagesMatch, RustWorking, OnReduce
      <4> QED BY <1>1, <4>1
    <3> QED BY <1>1, <3>1, <3>2, <3>3 DEF RustInv, StagesMatch
  <2> QED BY <2>1, <2>2
<1>7. OneWriter'
  BY <1>2, <1>5 DEF RustInv, OneWriter, OnReduce
<1>8. JobStates'
  BY <1>1, <1>5 DEF RustInv, JobStates
<1>9. OneWrite'
  <2> SUFFICES ASSUME NEW v \in RustWorkers, NEW r \in writing'[v]
               PROVE  /\ outFile'[r] = "partial" /\ rwAt'[v] # "dead"
                      /\ r \in redDone \/ (rwAt'[v] = "finish" /\ OnReduce(v, r)')
                      /\ \A u \in RustWorkers : r \in writing'[u] => u = v
    BY <1>1 DEF OneWrite
  <2>1. /\ v # w /\ r \in writing[v] /\ r \in Reduces
        /\ \A u \in RustWorkers : r \in writing'[u] => r \in writing[u]
    BY <1>1 DEF RustInv, RustTypes
  <2>2. /\ r \notin writing[w] /\ outFile[r] = "partial" /\ rwAt[v] # "dead"
        /\ r \in redDone \/ (rwAt[v] = "finish" /\ OnReduce(v, r))
        /\ \A u \in RustWorkers : r \in writing[u] => u = v
    BY <2>1 DEF RustInv, OneWrite
  <2>3. outFile'[r] = outFile[r] /\ rwAt'[v] = rwAt[v] /\ OnReduce(v, r)' = OnReduce(v, r)
    BY <1>1, <1>2, <2>1, <2>2 DEF OnReduce, RustWorking
  <2> QED BY <2>1, <2>2, <2>3
<1>10. RustOutcome'
  <2>1. clientSees = "output" => \A r \in Reduces : outFile'[r] = "whole"
    BY <1>1 DEF RustInv, RustTypes, OneWrite, RustOutcome
  <2> QED BY <1>1, <1>4, <2>1 DEF RustInv, RustTypes, RustOutcome
<1> QED BY <1>3, <1>6, <1>7, <1>8, <1>9, <1>10 DEF RustInv

(* Steps that only concern what a worker has, and the client's.            *)
LEMMA OtherStepKeeps ==
  ASSUME RustInv,
         \/ \E w \in RustWorkers : ReadMap(w) \/ RemoveJob(w)
         \/ \E known, disk \in BOOLEAN, bad \in {{}, {NMap}} : SubmitJob(known, bad, disk)
         \/ PollJob
         \/ UNCHANGED rustVars
  PROVE  RustInv'
<1>1. UNCHANGED <<rwAt, rwTask, outFile, writing, mapDone, redDone, aborted>>
  BY DEF ReadMap, RemoveJob, SubmitJob, PollJob, rustVars, coordVars, fileVars
<1>2. /\ \A w \in RustWorkers : RustWorking(w)' = RustWorking(w)
      /\ RustTypes' /\ OneWriter' /\ OneWrite'
  BY <1>1 DEF RustWorking, RustInv, RustTypes, OneWriter, OneWrite, OnReduce
<1>3. ASSUME UNCHANGED <<badInputs, diskBad>>
      PROVE  /\ StagesMatch' /\ (aborted' => badInputs' # {} \/ diskBad')
             /\ \A r \in redDone' : Accounted(r)'
  BY <1>1, <1>2, <1>3 DEF RustInv, StagesMatch, RustOutcome, Accounted, BeingWritten
<1>4. CASE UNCHANGED <<badInputs, diskBad, clientSees>>
  BY <1>1, <1>2, <1>3, <1>4 DEF RustInv, JobStates, RustOutcome
<1>5. CASE \E known, disk \in BOOLEAN, bad \in {{}, {NMap}} : SubmitJob(known, bad, disk)
  <2>1. clientSees = "none" /\ clientSees' = "pending"
    BY <1>5 DEF SubmitJob
  <2>2. ~aborted /\ redDone = {} /\ \A w \in RustWorkers : ~RustWorking(w)
    BY <2>1 DEF RustInv, JobStates
  <2>3. StagesMatch'
    BY <1>1, <1>2, <2>2 DEF StagesMatch, RustWorking
  <2> QED BY <1>1, <1>2, <2>1, <2>2, <2>3 DEF RustInv, JobStates, RustOutcome
<1>6. CASE PollJob
  <2>1. /\ UNCHANGED <<badInputs, diskBad>> /\ clientSees' # "none"
        /\ clientSees' = "output" => redDone = Reduces /\ \A r \in Reduces : outFile[r] = "whole"
    BY <1>6 DEF PollJob
  <2> QED BY <1>1, <1>2, <1>3, <2>1 DEF RustInv, JobStates, RustOutcome
<1> QED BY <1>4, <1>5, <1>6 DEF ReadMap, RemoveJob, rustVars, jobVars

LEMMA RustStart == RustInit => RustInv
<1> SUFFICES ASSUME RustInit PROVE RustInv
  OBVIOUS
<1>1. RustTypes
  <2>1. NoTask \in RustTasks /\ "idle" \in RustStages
    BY DEF NoTask, RustTasks, RustStages
  <2>2. rwAt \in [RustWorkers -> RustStages] /\ rwTask \in [RustWorkers -> RustTasks]
    BY <2>1 DEF RustInit
  <2>3. /\ mapDone \in Owners /\ outFile \in [Reduces -> {"none", "partial", "whole", "cut"}]
        /\ writing \in [RustWorkers -> SUBSET Reduces]
    BY DEF RustInit, Owners
  <2> QED BY <2>2, <2>3 DEF RustInit, RustTypes
<1>2. \A w \in RustWorkers : rwAt[w] = "idle" /\ ~RustWorking(w) /\ writing[w] = {}
  BY DEF RustInit, RustWorking
<1> QED BY <1>1, <1>2 DEF RustInit, RustInv, StagesMatch, OneWriter, OneWrite, OnReduce,
                          JobStates, RustOutcome

(* The Rust worker: the files of reported tasks are whole, or being        *)
(* written by one live worker, or cut short by a crash or the disk; a      *)
(* client that found whole files keeps them; and a job is aborted only     *)
(* because of its input or its disk.  For any number of workers, tasks and *)
(* crashes.                                                                *)
THEOREM RustOutcomeAlways == RustSpec => []RustOutcome
<1>1. RustInv /\ [RustNext]_rustVars => RustInv'
  BY GetTaskKeeps, FinishTaskKeeps, TaskStepKeeps, LastWriteKeeps, CrashKeeps, OtherStepKeeps
     DEF RustNext, RustStep
<1>2. RustInv => RustOutcome
  BY DEF RustInv
<1> QED BY RustStart, <1>1, <1>2, PTL DEF RustSpec
=============================================================================
