----------------------------- MODULE HttpServer -----------------------------
(***************************************************************************)
(* The four builds of the HTTP server of hw-http serving files: the accept *)
(* loop of httpserver.c, its dispatch to the main thread, to a child       *)
(* process, to a thread, or to a pool of threads through the work queue of *)
(* wq.c, and handle_files_request().                                       *)
(*                                                                         *)
(* Each process has a table of descriptors, which the kernel fills lowest  *)
(* first: a descriptor that one thread closes is soon another connection's *)
(* or another thread's open file.                                          *)
(***************************************************************************)
EXTENDS Integers, Sequences, FiniteSets, FiniteSetsExt

CONSTANTS
  Conn,      \* connections that clients make
  Worker,    \* num_threads threads of the pool
  Server, NoConn, Opened,
  MaxFd,     \* RLIMIT_NOFILE less the standard streams and the socket
  Modes,     \* the builds to check
  Requests   \* what the clients may ask for, together

HttpSets ==
  /\ Server \notin Worker \cup Conn /\ Worker \cap Conn = {}
  /\ NoConn \notin Conn \cup {Opened} /\ Opened \notin Conn
HttpBounds == MaxFd \in Nat \ {0} /\ Worker # {} /\ IsFiniteSet(Conn)
HttpModes == Modes \subseteq {"BASIC", "FORK", "THREAD", "POOL"}

VARIABLES
  mode,               \* BASICSERVER, FORKSERVER, THREADSERVER or POOLSERVER
  client, kind,       \* clients: how far they are, and what they ask for
  answer,             \* what each client has received
  table,              \* descriptors of the server and of each child process
  pc, fd,             \* every thread of control: main, pool, and one per Conn
  aux,                \* the file and the directory it has open
  req,                \* the request it has parsed
  work,               \* history: the connection its work is for
  queue, mutex        \* work_queue

httpVars == <<mode, client, kind, answer, table, pc, fd, aux, req, work, queue, mutex>>
clients == <<mode, client, kind, answer>>
handlers == <<aux, req>>

Fd == 1..MaxFd
Agent == {Server} \cup Worker \cup Conn
Process == {Server} \cup Conn
Closed == [f \in Fd |-> NoConn]

(* handle_files_request(): the status and the body that answer each kind   *)
(* of request; nothing for what is neither a file nor a directory, nor for *)
(* a directory whose index.html is not a file ("noindex").                 *)
Answer ==
  [bad |-> <<400>>, dotdot |-> <<403>>, missing |-> <<404>>,
   file |-> <<200, "body">>, index |-> <<200, "body">>, listing |-> <<200, "body">>,
   special |-> <<>>, noindex |-> <<>>]

Kinds == DOMAIN Answer

HttpRequests == Requests \subseteq [Conn -> Kinds]

HttpInit ==
  /\ mode \in Modes
  /\ client = [c \in Conn |-> "backlog"]
  /\ kind \in Requests
  /\ answer = [c \in Conn |-> <<>>]
  /\ table = [p \in Process |-> Closed]
  /\ pc = [a \in Agent |-> IF a = Server THEN "accept"
                           ELSE IF a \in Worker /\ mode = "POOL" THEN "lock" ELSE "none"]
  /\ fd = [a \in Agent |-> 0]
  /\ aux = [a \in Agent |-> {}]
  /\ req = [a \in Agent |-> "none"]
  /\ work = [a \in Agent |-> NoConn]
  /\ queue = <<>> /\ mutex = NoConn

Step(a, from, to) == pc[a] = from /\ pc' = [pc EXCEPT ![a] = to]

(* The process a thread of control runs in, its descriptors, and the       *)
(* connection it works on.                                                 *)
Proc(a) == IF mode = "FORK" /\ a \in Conn THEN a ELSE Server
Free(p) == {f \in Fd : table[p][f] = NoConn}
Peer(a) == table[Proc(a)][fd[a]]

-----------------------------------------------------------------------------
(* A client whose connection was accepted sends its request: what it sends *)
(* before is read no earlier.                                              *)
Send(c) ==
  /\ client[c] = "accepted"
  /\ client' = [client EXCEPT ![c] = "sent"]
  /\ UNCHANGED <<mode, kind, answer, table, pc, fd, handlers, work, queue, mutex>>

(* Mutant: the result of accept() is not tested.                           *)
AcceptUntested(c) ==
  /\ client[c] = "backlog"
  /\ Step(Server, "accept", "dispatch")
  /\ fd' = [fd EXCEPT ![Server] = IF Free(Server) = {} THEN -1 ELSE Min(Free(Server))]
  /\ table' = [table EXCEPT ![Server] = [f \in Fd |-> IF f = fd'[Server] THEN c ELSE @[f]]]
  /\ work' = [work EXCEPT ![Server] = c]
  /\ client' = [client EXCEPT ![c] = "accepted"]
  /\ UNCHANGED <<mode, kind, answer, handlers, queue, mutex>>

(* accept(); with no free descriptor it fails and the loop tries again.    *)
Accept(c) ==
  /\ client[c] = "backlog"
  /\ Free(Server) # {}
  /\ Step(Server, "accept", "dispatch")
  /\ fd' = [fd EXCEPT ![Server] = Min(Free(Server))]
  /\ table' = [table EXCEPT ![Server][fd'[Server]] = c]
  /\ work' = [work EXCEPT ![Server] = c]
  /\ client' = [client EXCEPT ![c] = "accepted"]
  /\ UNCHANGED <<mode, kind, answer, handlers, queue, mutex>>

(* BASICSERVER: the main thread handles the request itself.                *)
DispatchBasic ==
  /\ mode = "BASIC" /\ Step(Server, "dispatch", "parse")
  /\ UNCHANGED <<clients, table, fd, handlers, work, queue, mutex>>

(* FORKSERVER: a child process does, with a copy of all the descriptors;   *)
(* the parent keeps its own.                                               *)
DispatchFork ==
  /\ mode = "FORK" /\ pc[Server] = "dispatch"
  /\ LET a == work[Server]
     IN  /\ pc' = [pc EXCEPT ![Server] = "accept", ![a] = "parse"]
         /\ fd' = [fd EXCEPT ![a] = fd[Server]]
         /\ table' = [table EXCEPT ![a] = table[Server]]
         /\ work' = [work EXCEPT ![a] = a, ![Server] = NoConn]
  /\ UNCHANGED <<clients, handlers, queue, mutex>>

(* Mutant: the main thread closes the descriptor it gave to the thread, as *)
(* the parent of a forking server should.                                  *)
DispatchThreadCloses ==
  /\ mode = "THREAD" /\ pc[Server] = "dispatch"
  /\ LET a == work[Server]
     IN  /\ pc' = [pc EXCEPT ![Server] = "accept", ![a] = "parse"]
         /\ fd' = [fd EXCEPT ![a] = fd[Server]]
         /\ table' = [table EXCEPT ![Server][fd[Server]] = NoConn]
         /\ work' = [work EXCEPT ![a] = a, ![Server] = NoConn]
  /\ UNCHANGED <<clients, handlers, queue, mutex>>

(* THREADSERVER: a new thread does, with the same descriptors.             *)
DispatchThread ==
  /\ mode = "THREAD" /\ pc[Server] = "dispatch"
  /\ LET a == work[Server]
     IN  /\ pc' = [pc EXCEPT ![Server] = "accept", ![a] = "parse"]
         /\ fd' = [fd EXCEPT ![a] = fd[Server]]
         /\ work' = [work EXCEPT ![a] = a, ![Server] = NoConn]
  /\ UNCHANGED <<clients, table, handlers, queue, mutex>>

(* POOLSERVER: wq_push(), its lock and the rest.                           *)
PushLock ==
  /\ mode = "POOL" /\ mutex = NoConn
  /\ mutex' = Server
  /\ Step(Server, "dispatch", "push")
  /\ UNCHANGED <<clients, table, fd, handlers, work, queue>>

(* Mutant: no pthread_cond_broadcast().                                    *)
PushQuiet ==
  /\ Step(Server, "push", "accept")
  /\ queue' = Append(queue, fd[Server])
  /\ mutex' = NoConn
  /\ work' = [work EXCEPT ![Server] = NoConn]
  /\ UNCHANGED <<clients, table, fd, handlers>>

Push ==
  /\ pc[Server] = "push"
  /\ queue' = Append(queue, fd[Server])
  /\ pc' = [a \in Agent |-> IF a = Server THEN "accept"
                            ELSE IF pc[a] = "wait" THEN "lock" ELSE pc[a]]
  /\ mutex' = NoConn
  /\ work' = [work EXCEPT ![Server] = NoConn]
  /\ UNCHANGED <<clients, table, fd, handlers>>

(* wq_pop(): to lock, or to lock again after pthread_cond_wait(), which    *)
(* may also return for no reason.                                          *)
PopLock(w) ==
  /\ mutex = NoConn
  /\ mutex' = w
  /\ Step(w, "lock", "test")
  /\ UNCHANGED <<clients, table, fd, handlers, work, queue>>

PopWait(w) ==
  /\ queue = <<>>
  /\ mutex' = NoConn
  /\ Step(w, "test", "wait")
  /\ UNCHANGED <<clients, table, fd, handlers, work, queue>>

Pop(w) ==
  /\ queue # <<>>
  /\ mutex' = NoConn
  /\ Step(w, "test", "parse")
  /\ fd' = [fd EXCEPT ![w] = Head(queue)]
  /\ work' = [work EXCEPT ![w] = table[Server][Head(queue)]]
  /\ queue' = Tail(queue)
  /\ UNCHANGED <<clients, table, handlers>>

WakeUp(w) ==
  /\ Step(w, "wait", "lock")
  /\ UNCHANGED <<clients, table, fd, handlers, work, queue, mutex>>

-----------------------------------------------------------------------------
(* http_request_parse(): read() blocks until the client has sent.          *)
Parse(a) ==
  /\ pc[a] = "parse"
  /\ Peer(a) \in Conn /\ client[Peer(a)] = "sent"
  /\ req' = [req EXCEPT ![a] = kind[Peer(a)]]
  /\ pc' = [pc EXCEPT ![a] = CASE req'[a] \in {"index", "listing", "noindex"} -> "opendir"
                               [] req'[a] = "special" -> "close"
                               [] OTHER -> "start"]
  /\ UNCHANGED <<clients, table, fd, aux, work, queue, mutex>>

(* opendir() and open() take a descriptor, if there is one.                *)
Open(a) ==
  LET p == Proc(a)
  IN  IF Free(p) = {} THEN UNCHANGED <<table, aux>>
      ELSE /\ table' = [table EXCEPT ![p][Min(Free(p))] = Opened]
           /\ aux' = [aux EXCEPT ![a] = @ \cup {Min(Free(p))}]

(* serve_directory(): without the directory, or when its index.html is no  *)
(* file, there is no response.                                             *)
OpenDir(a) ==
  /\ Step(a, "opendir", IF Free(Proc(a)) = {} \/ req[a] = "noindex" THEN "close" ELSE "start")
  /\ Open(a)
  /\ UNCHANGED <<clients, fd, req, work, queue, mutex>>

(* Mutant: after an error status the function goes on.                     *)
StartResponseGoesOn(a) ==
  /\ Step(a, "start", IF req[a] = "listing" THEN "body" ELSE "open")
  /\ answer' = IF Peer(a) \in Conn
                 THEN [answer EXCEPT ![Peer(a)] = Append(@, Head(Answer[req[a]]))] ELSE answer
  /\ UNCHANGED <<mode, client, kind, table, fd, handlers, work, queue, mutex>>

(* http_start_response() and the headers, to what the descriptor is now.   *)
StartResponse(a) ==
  /\ Step(a, "start", CASE req[a] \in {"file", "index"} -> "open"
                        [] req[a] = "listing" -> "body"
                        [] OTHER -> "close")
  /\ answer' = IF Peer(a) \in Conn
                 THEN [answer EXCEPT ![Peer(a)] = Append(@, Head(Answer[req[a]]))] ELSE answer
  /\ UNCHANGED <<mode, client, kind, table, fd, handlers, work, queue, mutex>>

(* serve_file(): without the file there is no body.                        *)
OpenFile(a) ==
  /\ Step(a, "open", IF Free(Proc(a)) = {} THEN "close" ELSE "body")
  /\ Open(a)
  /\ UNCHANGED <<clients, fd, req, work, queue, mutex>>

SendBody(a) ==
  /\ Step(a, "body", "close")
  /\ answer' = IF Peer(a) \in Conn
                 THEN [answer EXCEPT ![Peer(a)] = Append(@, "body")] ELSE answer
  /\ UNCHANGED <<mode, client, kind, table, fd, handlers, work, queue, mutex>>

(* A client sees the end of its connection when no process has it open.    *)
Hangup ==
  client' = [c \in Conn |->
    IF client[c] \in {"accepted", "sent"} /\ \A p \in Process, f \in Fd : table'[p][f] # c
      THEN "closed" ELSE client[c]]

(* Mutant: an early return leaves a file open.                             *)
CloseForgets(a) ==
  /\ Step(a, "close", CASE a = Server -> "accept" [] a \in Worker -> "lock" [] OTHER -> "done")
  /\ table' = IF Proc(a) = Server
                THEN [table EXCEPT ![Server] = [f \in Fd |-> IF f = fd[a] THEN NoConn ELSE @[f]]]
                ELSE [table EXCEPT ![a] = Closed]
  /\ Hangup
  /\ aux' = [aux EXCEPT ![a] = {}]
  /\ req' = [req EXCEPT ![a] = "none"]
  /\ work' = [work EXCEPT ![a] = NoConn]
  /\ UNCHANGED <<mode, kind, answer, fd, queue, mutex>>

(* The file, the directory and fd are closed; a child then exits.          *)
Close(a) ==
  /\ Step(a, "close", CASE a = Server -> "accept" [] a \in Worker -> "lock" [] OTHER -> "done")
  /\ table' = IF Proc(a) = Server
                THEN [table EXCEPT ![Server] =
                        [f \in Fd |-> IF f \in aux[a] \cup {fd[a]} THEN NoConn ELSE @[f]]]
                ELSE [table EXCEPT ![a] = Closed]
  /\ Hangup
  /\ aux' = [aux EXCEPT ![a] = {}]
  /\ req' = [req EXCEPT ![a] = "none"]
  /\ work' = [work EXCEPT ![a] = NoConn]
  /\ UNCHANGED <<mode, kind, answer, fd, queue, mutex>>

Handle(a) ==
  Parse(a) \/ OpenDir(a) \/ StartResponse(a) \/ OpenFile(a) \/ SendBody(a) \/ Close(a)
ServerStep ==
  \/ \E c \in Conn : Accept(c)
  \/ DispatchBasic \/ DispatchFork \/ DispatchThread \/ PushLock \/ Push
WorkerStep(w) == PopLock(w) \/ PopWait(w) \/ Pop(w)

HttpNext ==
  \/ \E c \in Conn : Send(c)
  \/ ServerStep
  \/ \E w \in Worker : WorkerStep(w) \/ WakeUp(w)
  \/ \E a \in Agent : Handle(a)

HttpSpec == HttpInit /\ [][HttpNext]_httpVars

(* Threads are scheduled, the mutex is passed on, and clients send what    *)
(* they connected for.                                                     *)
HttpFairSpec ==
  /\ HttpSpec
  /\ SF_httpVars(ServerStep)
  /\ \A w \in Worker : SF_httpVars(WorkerStep(w))
  /\ \A a \in Agent : WF_httpVars(Handle(a))
  /\ \A c \in Conn : WF_httpVars(Send(c))

-----------------------------------------------------------------------------
Busy == {"parse", "opendir", "start", "open", "body", "close"}
Handling == {a \in Agent : pc[a] \in Busy}

(* Type correctness.                                                       *)
HttpTypeOK ==
  /\ mode \in Modes
  /\ client \in [Conn -> {"backlog", "accepted", "sent", "closed"}]
  /\ kind \in Requests
  /\ table \in [Process -> [Fd -> Conn \cup {NoConn, Opened}]]
  /\ pc \in [Agent -> Busy \cup {"none", "accept", "dispatch", "push", "lock", "test",
                                 "wait", "done"}]
  /\ fd \in [Agent -> Fd \cup {0}]
  /\ aux \in [Agent -> SUBSET Fd]
  /\ req \in [Agent -> Kinds \cup {"none"}]
  /\ work \in [Agent -> Conn \cup {NoConn}]
  /\ queue \in Seq(Fd) /\ Len(queue) <= MaxFd
  /\ mutex \in Agent \cup {NoConn}

(* Although descriptors are reused at once, whoever handles a request      *)
(* works on the connection it was given and on files of its own, and       *)
(* nobody else does.                                                       *)
RightConnection ==
  /\ \A a \in Handling :
       /\ work[a] # NoConn /\ Peer(a) = work[a]
       /\ \A f \in aux[a] : table[Proc(a)][f] = Opened
  /\ \A a, b \in Handling :
       /\ work[a] = work[b] => a = b
       /\ Proc(a) = Proc(b) /\ a # b => aux[a] \cap aux[b] = {}

(* A client gets the response its request calls for and no other client's, *)
(* whole if the server has descriptors enough, three for each connection   *)
(* it may have open: the socket, a directory and a file.                   *)
Enough == MaxFd >= 3 * (IF mode = "BASIC" THEN 1 ELSE Cardinality(Conn))
OneResponse ==
  \A c \in Conn :
    /\ Len(answer[c]) <= Len(Answer[kind[c]])
    /\ \A i \in 1..Len(answer[c]) : answer[c][i] = Answer[kind[c]][i]
    /\ client[c] = "closed" /\ Enough => answer[c] = Answer[kind[c]]

(* Except in a forking server, whose parent keeps every descriptor, the    *)
(* open descriptors are those of the connections and files in use.         *)
NoDescriptorLeak ==
  mode # "FORK" =>
    \A f \in Fd :
      /\ table[Server][f] \in Conn => client[table[Server][f]] \in {"accepted", "sent"}
      /\ table[Server][f] = Opened => \E a \in Handling : f \in aux[a]

(* Except in a forking server, whoever connects gets its connection        *)
(* closed, however many connect and however few descriptors and threads    *)
(* there are.                                                              *)
AllServed ==
  (mode # "FORK" /\ \E c \in Conn : client[c] = "backlog")
    ~> \A c \in Conn : client[c] = "closed"

(* In each of the four servers a thread answers on the connection it was   *)
(* given, a client gets its own response once, and descriptors are closed. *)
HttpRight == HttpTypeOK /\ RightConnection /\ OneResponse /\ NoDescriptorLeak
=============================================================================
