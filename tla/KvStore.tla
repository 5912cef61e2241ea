------------------------------ MODULE KvStore ------------------------------
(***************************************************************************)
(* The key-value server of lab-rpc and its clients.  The calls go over UDP:   *)
(* a client's library sends a request again until it has the answer or gives  *)
(* up, so a request may be executed more than once, and late.                 *)
(***************************************************************************)
EXTENDS Integers, FiniteSets

CONSTANTS Callers, Keys, Values,
          Nothing,       \* an empty buf
          MaxCalls,      \* bound on the calls of a client
          MaxSends       \* bound on the copies of a request

VARIABLES ht,            \* the server's hash table
          call,          \* client -> the call it makes, or what came of the last
          calls,         \* client -> how many it has made
          requests,      \* copies of requests in the network: call -> number
          replies,       \* replies in the network
          putSent        \* history: key -> values that clients have put

kvVars == <<ht, call, calls, requests, replies, putSent>>

NoCall == [op |-> "none", key |-> Nothing, value |-> Nothing, at |-> "idle", got |-> Nothing]
Id(c) == <<c, calls[c]>>
InFlight == DOMAIN requests

KvInit ==
  /\ ht = [k \in Keys |-> Nothing] /\ call = [c \in Callers |-> NoCall]
  /\ calls = [c \in Callers |-> 0] /\ requests = [i \in {} |-> 0] /\ replies = {}
  /\ putSent = [k \in Keys |-> {}]

Sent(r, n) == [i \in InFlight \cup {r} |-> IF i = r THEN n ELSE requests[i]]

(* put(), get(), example() and echo(): clnt_connect(), then the call. *)
StartCall(c, op, k, v) ==
  LET r == [id |-> <<c, calls[c] + 1>>, op |-> op, key |-> k, value |-> v]
  IN /\ call[c].at # "wait" /\ calls[c] < MaxCalls
     /\ calls' = [calls EXCEPT ![c] = @ + 1]
     /\ call' = [call EXCEPT ![c] = [op |-> op, key |-> k, value |-> v, at |-> "wait", got |-> Nothing]]
     /\ requests' = Sent(r, MaxSends)
     /\ putSent' = IF op = "put" THEN [putSent EXCEPT ![k] = @ \cup {v}] ELSE putSent
     /\ UNCHANGED <<ht, replies>>

(* kvstore_1(): one copy of a request is executed: put_1_svc(), get_1_svc(),
   and example_1_svc() and echo_1_svc(), which answer with their argument.  A
   copy that is never executed was lost. *)
Lookup(k) == ht[k]
(* Mutant: the copy is made but not inserted. *)
AddedNot(k, v) == ht

Added(k, v) == [ht EXCEPT ![k] = v]
Execute(r) ==
  /\ requests[r] > 0
  /\ requests' = [requests EXCEPT ![r] = @ - 1]
  /\ ht' = IF r.op = "put" THEN Added(r.key, r.value) ELSE ht
  /\ replies' = replies \cup {[id |-> r.id, got |-> CASE r.op = "get" -> Lookup(r.key)
                                                      [] r.op = "put" -> Nothing
                                                      [] OTHER -> r.value]}
  /\ UNCHANGED <<call, calls, putSent>>

(* Mutant: any answer to this client will do. *)
MatchesClient(c, reply) == reply.id[1] = c

(* The first answer to the call it waits for; or "call failed". *)
Matches(c, reply) == reply.id = Id(c)
Receive(c, reply) ==
  /\ call[c].at = "wait" /\ Matches(c, reply)
  /\ call' = [call EXCEPT ![c].at = "done", ![c].got = reply.got]
  /\ UNCHANGED <<ht, calls, requests, replies, putSent>>
CallFails(c) ==
  /\ call[c].at = "wait" /\ call' = [call EXCEPT ![c].at = "failed"]
  /\ UNCHANGED <<ht, calls, requests, replies, putSent>>

KvNext ==
  \/ \E c \in Callers :
       \/ \E op \in {"put", "get", "echo"}, k \in Keys, v \in Values :
            (op = "get" => v = CHOOSE x \in Values : TRUE) /\ StartCall(c, op, k, v)
       \/ \E reply \in replies : Receive(c, reply)
       \/ CallFails(c)
  \/ \E r \in InFlight : Execute(r)

---------------------------------------------------------------------------
(* A client gets an answer to the call it made: of echo() its argument, of
   get() nothing or a value that was put under that very key; and the server
   holds nothing else, however requests are repeated, delayed and lost. *)
KvAnswers ==
  /\ \A k \in Keys : ht[k] \in putSent[k] \cup {Nothing}
  /\ \A c \in Callers : call[c].at = "done" =>
       CASE call[c].op = "echo" -> call[c].got = call[c].value
         [] call[c].op = "get" -> call[c].got \in putSent[call[c].key] \cup {Nothing}
         [] OTHER -> call[c].got = Nothing

(* A put that was answered was executed: as long as nobody else has put under
   the key, and no put of another value is still on its way, the server holds
   that value. *)
KvPutKept ==
  \A c \in Callers :
    call[c].at = "done" /\ call[c].op = "put" /\ putSent[call[c].key] = {call[c].value} =>
      ht[call[c].key] = call[c].value
============================================================================
