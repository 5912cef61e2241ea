-------------------------------- MODULE Proxy -------------------------------
(***************************************************************************)
(* handle_proxy_request() of hw-http: one thread relays between a client and *)
(* the proxy target with select(), read() and http_send_string().            *)
(*                                                                           *)
(* Bytes are numbered in the order in which a side sends them.  SIGPIPE is   *)
(* ignored: a write to a side that has closed, or to the client after        *)
(* shutdown(), is lost.                                                      *)
(***************************************************************************)
EXTENDS Integers, Sequences

CONSTANTS MaxBuff,      \* MAX_BUFF
          MaxSent       \* bound on the bytes that a side sends

Side == {"client", "target"}
Other(s) == IF s = "client" THEN "target" ELSE "client"

VARIABLES prpc,         \* where the handler is
          ready,        \* rset: descriptors that select() found readable
          sent, read,   \* side -> bytes it has sent; that were read from it
          open,         \* side -> it has not closed its end
          fdsOpen,      \* the handler's descriptors that are open
          received,     \* side -> the bytes it has received
          clientEof,    \* client_eof
          lost          \* history: bytes were written to a side that was gone

proxyVars == <<prpc, ready, sent, read, open, fdsOpen, received, clientEof, lost>>

ProxyInit ==
  /\ prpc = "lookup" /\ ready = {}
  /\ sent = [s \in Side |-> 0] /\ read = [s \in Side |-> 0] /\ open = [s \in Side |-> TRUE]
  /\ fdsOpen = {"client"} /\ received = [s \in Side |-> <<>>]
  /\ clientEof = FALSE /\ lost = FALSE

(* The peers. *)
PeerSends(s) ==
  /\ open[s] /\ sent[s] < MaxSent /\ s \in fdsOpen
  /\ sent' = [sent EXCEPT ![s] = @ + 1]
  /\ UNCHANGED <<prpc, ready, read, open, fdsOpen, received, clientEof, lost>>
PeerCloses(s) ==
  /\ open[s] /\ s \in fdsOpen /\ open' = [open EXCEPT ![s] = FALSE]
  /\ UNCHANGED <<prpc, ready, sent, read, fdsOpen, received, clientEof, lost>>

(* socket() or the name lookup fails: everything is closed and the process
   exits; connect() fails: 502. *)
LookupFails ==
  /\ prpc = "lookup" /\ prpc' = "exit" /\ fdsOpen' = {}
  /\ UNCHANGED <<ready, sent, read, open, received, clientEof, lost>>
ConnectFails ==
  /\ prpc = "lookup" /\ prpc' = "answered" /\ fdsOpen' = {}
  /\ received' = [received EXCEPT !["client"] = <<"502">>]
  /\ UNCHANGED <<ready, sent, read, open, clientEof, lost>>
Connect ==
  /\ prpc = "lookup" /\ prpc' = "select" /\ fdsOpen' = Side
  /\ UNCHANGED <<ready, sent, read, open, received, clientEof, lost>>

ProxyReadable(s) == read[s] < sent[s] \/ ~open[s]
Watched == IF clientEof THEN {"target"} ELSE Side
ProxySelect ==
  /\ prpc = "select" /\ ready' = {s \in Watched : ProxyReadable(s)} /\ ready' # {}
  /\ prpc' = "client"
  /\ UNCHANGED <<sent, read, open, fdsOpen, received, clientEof, lost>>

AfterRead(s) == IF s = "client" THEN "target" ELSE "select"
Skip(s) ==
  /\ prpc = s /\ s \notin ready /\ prpc' = AfterRead(s)
  /\ UNCHANGED <<ready, sent, read, open, fdsOpen, received, clientEof, lost>>

(* read() of some bytes and http_send_string() of all of them. *)
Gone(to) == ~open[to] \/ (to = "client" /\ clientEof)

(* Mutant: the buffer is sent from its first round. *)
RelayedFrom1(s, n) ==
  [received EXCEPT ![Other(s)] = IF Gone(Other(s)) THEN @ ELSE @ \o [k \in 1..n |-> k]]

Relayed(s, n) ==
  [received EXCEPT ![Other(s)] = IF Gone(Other(s)) THEN @ ELSE @ \o [k \in 1..n |-> read[s] + k]]
Forward(s, n) ==
  /\ prpc = s /\ s \in ready /\ read[s] < sent[s]
  /\ n <= sent[s] - read[s] /\ n <= MaxBuff
  /\ read' = [read EXCEPT ![s] = @ + n] /\ received' = Relayed(s, n)
  /\ lost' = (lost \/ Gone(Other(s)))
  /\ prpc' = AfterRead(s)
  /\ UNCHANGED <<ready, sent, open, fdsOpen, clientEof>>

(* The client has closed: its descriptor is shut down for writing and no
   longer watched; the target's turn is skipped. *)
ClientEnds ==
  /\ prpc = "client" /\ "client" \in ready /\ read["client"] = sent["client"]
  /\ clientEof' = TRUE /\ prpc' = "select"
  /\ UNCHANGED <<ready, sent, read, open, fdsOpen, received, lost>>

TargetEndsOnly ==
  /\ prpc = "target" /\ "target" \in ready /\ read["target"] = sent["target"]
  /\ prpc' = "select"
  /\ UNCHANGED <<ready, sent, read, open, fdsOpen, received, clientEof, lost>>

(* The target has closed: the loop ends if the client has too, else it goes
   round, for the target is readable still.  The client's descriptor stays
   open. *)
TargetEnds ==
  /\ prpc = "target" /\ "target" \in ready /\ read["target"] = sent["target"]
  /\ IF clientEof THEN prpc' = "done" /\ fdsOpen' = fdsOpen \ {"target"}
     ELSE prpc' = "select" /\ UNCHANGED fdsOpen
  /\ UNCHANGED <<ready, sent, read, open, received, clientEof, lost>>

ProxyStep ==
  \/ LookupFails \/ ConnectFails \/ Connect \/ ProxySelect \/ ClientEnds \/ TargetEnds
  \/ \E s \in Side : Skip(s) \/ \E n \in 1..MaxBuff : Forward(s, n)
ProxyNext == ProxyStep \/ \E s \in Side : PeerSends(s) \/ PeerCloses(s)

ProxySpec == ProxyInit /\ [][ProxyNext]_proxyVars

---------------------------------------------------------------------------
(* Each side receives the other's bytes, in order and once, as far as they
   were read, unless it or the proxy's direction to it was closed before; and
   when the loop has ended both sides had ended and all was read. *)
ProxyRelays ==
  /\ prpc # "answered" => \A s \in Side :
       /\ received[s] = [k \in 1..Len(received[s]) |-> k]
       /\ ~lost => Len(received[s]) = read[Other(s)]
  /\ prpc = "done" => \A s \in Side : ~open[s] /\ read[s] = sent[s]

(* Once both sides have closed, the handler comes to its end and gives the
   target's descriptor back. *)
ProxyEnds == (prpc = "select" /\ \A s \in Side : ~open[s]) ~> (prpc = "done" /\ "target" \notin fdsOpen)
=============================================================================
