------------------------------ MODULE PeerTable ------------------------------
(***************************************************************************)
(* One node's table of peers (network/p2p.py) and the tasks that share it: *)
(* connect_to_peers at startup, a task per connection that shakes hands    *)
(* and then reads, tasks that broadcast, stop().  The other ends run the   *)
(* same program; here they are what may happen to a connection.            *)
(*                                                                         *)
(* A connection is counted by its place in conns.  Both nodes of a pair    *)
(* dial each other and a process that starts again dials again, so a peer  *)
(* may have several connections; the table keeps one per peer id.          *)
(*                                                                         *)
(* A dict keeps its entries in the order of insertion; a removed entry     *)
(* leaves a hole until the dict is rebuilt.  An iterator over it raises    *)
(* when the number of entries differs from what it was at its start, or    *)
(* when there are more entries to come than there were.                    *)
(***************************************************************************)
EXTENDS Naturals, Sequences, FiniteSets, SequencesExt, TLC

CONSTANTS
  Peers,
  Configured,     \* peers whose address this node dials at startup
  Tasks,          \* tasks that broadcast: the leader's, the handlers that vote
  Hole,           \* a removed entry of the dict
  Usable,         \* entries and holes a dict has room for before it is rebuilt
  MaxConns,       \* bound: connections
  MaxBroadcasts   \* bound: broadcasts

ASSUME PeerTableAssumption ==
  /\ Configured \subseteq Peers /\ IsFiniteSet(Peers)
  /\ Usable \in Nat /\ MaxConns \in Nat /\ MaxBroadcasts \in Nat
  /\ Hole \notin [peer : Peers, conn : Nat]

VARIABLES
  conns,          \* per connection: its peer and what the task at this end does
  cut,            \* connections that are closed, at either end or in between
  peers,          \* the dict _peers: entries and holes in order
  undialled,      \* configured peers connect_to_peers has still to dial
  task,           \* per broadcasting task: where it is in broadcast; untried is history,
                  \* the ids that were in the table all along and had no turn yet
  service,        \* "up", then "stopping" with stop(), then "down"
  unclosed,       \* connections stop() has still to close
  overlapped,     \* history: connections being read that shared a peer id with another one
  broadcasts

vars == <<conns, cut, peers, undialled, task, service, unclosed, overlapped, broadcasts>>

Entry == [peer : Peers, conn : 1..MaxConns]

Entries(table) == {table[i] : i \in DOMAIN table} \ {Hole}

Ids(table) == {e.peer : e \in Entries(table)}

Size(table) == Cardinality(Entries(table))

Registered(c) == \E e \in Entries(peers) : e.conn = c

TypeOK ==
  /\ conns \in Seq([peer : Peers, state : {"dialling", "accepting", "reading", "ended"}])
  /\ Len(conns) <= MaxConns
  /\ cut \subseteq DOMAIN conns /\ overlapped \subseteq DOMAIN conns
  /\ peers \in Seq(Entry \cup {Hole})
  /\ \A e, f \in Entries(peers) : e.peer = f.peer => e = f
  /\ undialled \subseteq Configured
  /\ \A k \in Tasks :
       /\ task[k].at \in {"idle", "iterate", "send", "clean"}
       /\ task[k].failed \subseteq Peers /\ task[k].untried \subseteq Peers
  /\ service \in {"up", "stopping", "down"}
  /\ unclosed \subseteq DOMAIN conns
  /\ broadcasts \in 0..MaxBroadcasts

Idle == [at |-> "idle", pos |-> 1, size |-> 0, left |-> 0, conn |-> 0,
         failed |-> {}, untried |-> {}]

Init ==
  /\ conns = <<>>
  /\ cut = {}
  /\ peers = <<>>
  /\ undialled = Configured
  /\ task = [k \in Tasks |-> Idle]
  /\ service = "up"
  /\ unclosed = {}
  /\ overlapped = {}
  /\ broadcasts = 0

-----------------------------------------------------------------------------
\* _peers.pop(id, None): whatever connection the entry holds.
Popped(table, id) ==
  [i \in DOMAIN table |-> IF table[i] # Hole /\ table[i].peer = id THEN Hole ELSE table[i]]

\* The entries without the holes, in their order.
Rebuilt(table) ==
  {s \in [1..Size(table) -> Entries(table)] :
     \A i, j \in DOMAIN table : i <= j /\ Hole \notin {table[i], table[j]} =>
       \E k, l \in DOMAIN s : k <= l /\ s[k] = table[i] /\ s[l] = table[j]}

\* Mutant of Entered: a list of connections, where a peer may be twice.
EnteredAgain(table, id, c) == {Append(table, [peer |-> id, conn |-> c])}

\* The dict after _peers[id] = connection: the entry of a known id keeps its place, a new
\* one comes last, in a dict that may have been rebuilt when it had no room left.
Entered(table, id, c) ==
  LET new == [peer |-> id, conn |-> c]
  IN  IF id \in Ids(table)
      THEN {[i \in DOMAIN table |-> IF table[i] # Hole /\ table[i].peer = id THEN new ELSE table[i]]}
      ELSE {Append(table, new)} \cup
           {Append(s, new) : s \in IF Len(table) >= Usable THEN Rebuilt(table) ELSE {}}

\* An id that leaves the table is not owed a message by the broadcasts under way.
Left(ids) == [k \in Tasks |-> [task[k] EXCEPT !.untried = @ \ ids]]

Open(id, state) ==
  /\ Len(conns) < MaxConns
  /\ conns' = Append(conns, [peer |-> id, state |-> state])

\* connect_to_peers at startup, one address after the other: open_connection, and the
\* own id is sent.
Dial(p) ==
  /\ p \in undialled /\ service = "up"
  /\ \A c \in DOMAIN conns : conns[c].state # "dialling"
  /\ Open(p, "dialling")
  /\ undialled' = undialled \ {p}
  /\ UNCHANGED <<cut, peers, task, service, unclosed, overlapped, broadcasts>>

\* Nobody listens there: the address is not dialled again.
DialRefused(p) ==
  /\ p \in undialled /\ service = "up"
  /\ \A c \in DOMAIN conns : conns[c].state # "dialling"
  /\ undialled' = undialled \ {p}
  /\ UNCHANGED <<conns, cut, peers, task, service, unclosed, overlapped, broadcasts>>

\* The server accepts a connection and waits for the id of the peer.
Accept(p) ==
  /\ service # "down"
  /\ Open(p, "accepting")
  /\ UNCHANGED <<cut, peers, undialled, task, service, unclosed, overlapped, broadcasts>>

Greeting(c) == c \in DOMAIN conns /\ conns[c].state \in {"dialling", "accepting"}

Rivals(c) == {d \in DOMAIN conns \ {c} : conns[d].peer = conns[c].peer /\ conns[d].state = "reading"}

\* The id of the peer is here: the connection goes into the table in place of any other
\* of that peer, and its task starts to read.
Register(c) ==
  /\ Greeting(c)
  /\ peers' \in Entered(peers, conns[c].peer, c)
  /\ conns' = [conns EXCEPT ![c].state = "reading"]
  /\ overlapped' = IF Rivals(c) = {} THEN overlapped ELSE overlapped \cup Rivals(c) \cup {c}
  /\ UNCHANGED <<cut, undialled, task, service, unclosed, broadcasts>>

\* Mutant of AfterFailedGreeting: the failure takes the entry of the id away.
AfterFailedGreetingPops(c) == Popped(peers, conns[c].peer)

AfterFailedGreeting(c) == peers

\* The connection ends, or sends what does not decode, before the peer has said who it is.
\* This end does not close it.
GreetingFails(c) ==
  /\ Greeting(c)
  /\ conns' = [conns EXCEPT ![c].state = "ended"]
  /\ peers' = AfterFailedGreeting(c)
  /\ UNCHANGED <<cut, undialled, task, service, unclosed, overlapped, broadcasts>>

\* Mutant of AfterReading: the entry stays.
AfterReadingStays(c) == peers

AfterReading(c) == Popped(peers, conns[c].peer)

\* _listen_peer_messages ends with the connection, with a frame that does not decode on one
\* that is up, or with the next message once stop() has begun.  Each time the entry of the
\* id goes, and this end does not close the connection.
ReaderEnds(c) ==
  /\ c \in DOMAIN conns /\ conns[c].state = "reading"
  /\ conns' = [conns EXCEPT ![c].state = "ended"]
  /\ peers' = AfterReading(c)
  /\ task' = Left({conns[c].peer})
  /\ overlapped' = overlapped \ {c}
  /\ UNCHANGED <<cut, undialled, service, unclosed, broadcasts>>

\* The other process ends or closes, or the network fails.  Where that happened during the
\* handshake, what was sent before may still be read: the loss is noticed afterwards.
Cut(c) ==
  /\ ~Greeting(c) /\ c \notin cut
  /\ cut' = cut \cup {c}
  /\ UNCHANGED <<conns, peers, undialled, task, service, unclosed, overlapped, broadcasts>>

-----------------------------------------------------------------------------
\* broadcast: the iterator over the dict.
BeginBroadcast(k) ==
  /\ task[k].at = "idle" /\ broadcasts < MaxBroadcasts
  /\ task' = [task EXCEPT ![k] =
       [Idle EXCEPT !.at = "iterate", !.size = Size(peers), !.left = Size(peers),
                    !.untried = Ids(peers)]]
  /\ broadcasts' = broadcasts + 1
  /\ UNCHANGED <<conns, cut, peers, undialled, service, unclosed, overlapped>>

Ahead(k) == {i \in DOMAIN peers : i >= task[k].pos /\ peers[i] # Hole}

\* RuntimeError: the dict changed during iteration.  The caller is left with it.
IterationRaises(k) ==
  /\ task[k].at = "iterate"
  /\ Size(peers) # task[k].size \/ (task[k].left = 0 /\ Ahead(k) # {})
  /\ task' = [task EXCEPT ![k] = Idle]
  /\ UNCHANGED <<conns, cut, peers, undialled, service, unclosed, overlapped, broadcasts>>

\* The next entry, up to the await in send.
NextPeer(k) ==
  /\ task[k].at = "iterate"
  /\ Size(peers) = task[k].size /\ task[k].left > 0 /\ Ahead(k) # {}
  /\ LET i == CHOOSE j \in Ahead(k) : \A l \in Ahead(k) : j <= l IN
       task' = [task EXCEPT ![k] =
         [task[k] EXCEPT !.at = "send", !.pos = i + 1, !.left = task[k].left - 1,
                         !.conn = peers[i].conn, !.untried = task[k].untried \ {peers[i].peer}]]
  /\ UNCHANGED <<conns, cut, peers, undialled, service, unclosed, overlapped, broadcasts>>

IterationEnds(k) ==
  /\ task[k].at = "iterate"
  /\ Size(peers) = task[k].size /\ Ahead(k) = {}
  /\ task' = [task EXCEPT ![k] =
       [Idle EXCEPT !.at = "clean", !.failed = task[k].failed, !.untried = task[k].untried]]
  /\ UNCHANGED <<conns, cut, peers, undialled, service, unclosed, overlapped, broadcasts>>

SendSucceeds(k) ==
  /\ task[k].at = "send"
  /\ task' = [task EXCEPT ![k].at = "iterate", ![k].conn = 0]
  /\ UNCHANGED <<conns, cut, peers, undialled, service, unclosed, overlapped, broadcasts>>

\* Mutant of AfterFailedSend: the first failure ends the loop.
AfterFailedSendClean(k) == "clean"

AfterFailedSend(k) == "iterate"

\* drain raises once the loss of the connection is known.
SendFails(k) ==
  /\ task[k].at = "send" /\ task[k].conn \in cut
  /\ task' = [task EXCEPT ![k] =
       [task[k] EXCEPT !.at = AfterFailedSend(k), !.conn = 0,
                       !.failed = task[k].failed \cup {conns[task[k].conn].peer}]]
  /\ UNCHANGED <<conns, cut, peers, undialled, service, unclosed, overlapped, broadcasts>>

\* The cleanup of one id: what the table holds under it by now is removed and closed.
CleanUp(k, p) ==
  /\ task[k].at = "clean" /\ p \in task[k].failed
  /\ peers' = Popped(peers, p)
  /\ cut' = cut \cup {e.conn : e \in {f \in Entries(peers) : f.peer = p}}
  /\ task' = [Left({p}) EXCEPT ![k].failed = @ \ {p}]
  /\ UNCHANGED <<conns, undialled, service, unclosed, overlapped, broadcasts>>

EndBroadcast(k) ==
  /\ task[k].at = "clean" /\ task[k].failed = {}
  /\ task' = [task EXCEPT ![k] = Idle]
  /\ UNCHANGED <<conns, cut, peers, undialled, service, unclosed, overlapped, broadcasts>>

-----------------------------------------------------------------------------
\* stop(), which the shutdown calls: a copy of the table is closed one by one.
Stop ==
  /\ service = "up" /\ undialled = {}
  /\ \A c \in DOMAIN conns : conns[c].state # "dialling"
  /\ service' = "stopping"
  /\ unclosed' = {e.conn : e \in Entries(peers)}
  /\ UNCHANGED <<conns, cut, peers, undialled, task, overlapped, broadcasts>>

StopCloses(c) ==
  /\ service = "stopping" /\ c \in unclosed
  /\ cut' = cut \cup {c}
  /\ unclosed' = unclosed \ {c}
  /\ UNCHANGED <<conns, peers, undialled, task, service, overlapped, broadcasts>>

\* _peers.clear(), and the server is closed.
StopEnds ==
  /\ service = "stopping" /\ unclosed = {}
  /\ peers' = <<>>
  /\ task' = Left(Peers)
  /\ service' = "down"
  /\ UNCHANGED <<conns, cut, undialled, unclosed, overlapped, broadcasts>>

Broadcast(k) ==
  \/ IterationRaises(k)
  \/ NextPeer(k)
  \/ IterationEnds(k)
  \/ SendSucceeds(k)
  \/ SendFails(k)
  \/ \E p \in Peers : CleanUp(k, p)
  \/ EndBroadcast(k)

Next ==
  \/ \E p \in Peers : Dial(p) \/ DialRefused(p) \/ Accept(p)
  \/ \E c \in DOMAIN conns : Register(c) \/ GreetingFails(c) \/ ReaderEnds(c) \/ Cut(c) \/ StopCloses(c)
  \/ \E k \in Tasks : BeginBroadcast(k) \/ Broadcast(k)
  \/ Stop
  \/ StopEnds

Spec == Init /\ [][Next]_vars

-----------------------------------------------------------------------------
\* What the table offers to broadcast and send_to is a connection somebody reads: a
\* reader that ends takes the entry with it, whichever of several connections of the
\* peer it is (p2p.py:169-174, 287-292, 327-329).
EntriesAreRead == \A e \in Entries(peers) : conns[e.conn].state = "reading"

\* A broadcast that goes through its loop without an exception has tried every peer that
\* was in the table all along, in spite of failing sends and of others that come and go
\* (p2p.py:208-213).  It needs a dict that is not rebuilt under the iterator.
BroadcastReachesAll ==
  \A k \in Tasks : task[k].at = "clean" => task[k].untried = {}

\* A connection that never shared its peer id with another one that was being read can be
\* sent to for as long as it is up and read, whatever dials, handshakes and broadcasts fail
\* meanwhile and whichever other readers end (p2p.py:186-188, 215-219, 328).
SoleConnectionIsReachable ==
  service = "up" =>
    \A c \in DOMAIN conns \ (cut \cup overlapped) : conns[c].state = "reading" => Registered(c)

\* "Broadcast a message to all connected peers" (p2p.py:200): a peer with a connection
\* that is up is in the table.
ConnectedIsReachable ==
  service = "up" =>
    \A c \in DOMAIN conns \ cut : conns[c].state = "reading" => conns[c].peer \in Ids(peers)

\* "Clean up disconnected peers" (p2p.py:215): the cleanup closes nothing that was up.
CleanUpSparesTheLiving ==
  [][ \A k \in Tasks : (\E p \in Peers : CleanUp(k, p)) => cut' = cut ]_vars

\* "Stop the TCP server and close all peer connections" (p2p.py:127).
StopClosesAll ==
  service = "down" =>
    /\ Entries(peers) = {}
    /\ \A c \in DOMAIN conns : conns[c].state = "reading" => c \in cut
=============================================================================
