--------------------------- MODULE PeerTableProofs ---------------------------
(***************************************************************************)
(* The table of peers offers connections somebody reads, and keeps those   *)
(* that have their peer id to themselves: for any number of peers,         *)
(* connections and broadcasts, whenever a dict is rebuilt.  While none is, *)
(* a broadcast leaves out nobody who was in the table all along.           *)
(***************************************************************************)
EXTENDS PeerTable, FiniteSetTheorems, TLAPS

AnyEntry == [peer : Peers, conn : Nat]

Connection == [peer : Peers, state : {"dialling", "accepting", "reading", "ended"}]

Reading(c) == conns[c].state = "reading"

\* An entry is of a connection of its peer that is being read.
Sound(e) == e.conn \in DOMAIN conns /\ conns[e.conn].peer = e.peer /\ Reading(e.conn)

ReadInv ==
  /\ conns \in Seq(Connection)
  /\ peers \in Seq(AnyEntry \cup {Hole})
  /\ \A e \in Entries(peers) : Sound(e)

-----------------------------------------------------------------------------
(* The dict.                                                               *)

\* pop takes the entries of the id and no other.
LEMMA PoppedEntries ==
  ASSUME NEW table \in Seq(AnyEntry \cup {Hole}), NEW id
  PROVE  /\ Popped(table, id) \in Seq(AnyEntry \cup {Hole})
         /\ Entries(Popped(table, id)) = {e \in Entries(table) : e.peer # id}
<1>. DEFINE popped == Popped(table, id)
<1>1. /\ DOMAIN popped = DOMAIN table /\ Len(table) \in Nat /\ DOMAIN table = 1..Len(table)
      /\ \A i \in DOMAIN table :
           /\ table[i] \in AnyEntry \cup {Hole}
           /\ popped[i] = IF table[i] # Hole /\ table[i].peer = id THEN Hole ELSE table[i]
  BY DEF Popped
<1>2. popped \in [1..Len(table) -> AnyEntry \cup {Hole}]
  BY <1>1 DEF Popped
<1>3. popped \in Seq(AnyEntry \cup {Hole})
  BY <1>1, <1>2
<1>. HIDE DEF popped
<1>4. Entries(popped) = {e \in Entries(table) : e.peer # id}
  BY <1>1 DEF Entries
<1>. QED
  BY <1>3, <1>4 DEF popped

\* A dict that is rebuilt has the entries it had.
LEMMA RebuiltEntries ==
  ASSUME NEW table \in Seq(AnyEntry \cup {Hole}), NEW s \in Rebuilt(table)
  PROVE  s \in Seq(AnyEntry \cup {Hole}) /\ Entries(s) = Entries(table)
<1>1. Entries(table) \subseteq AnyEntry /\ Hole \notin Entries(table)
  BY DEF Entries
<1>2. Size(table) \in Nat
  <2>. DEFINE image == {table[i] : i \in DOMAIN table}
  <2>1. IsFiniteSet(DOMAIN table)
    BY FS_Interval
  <2>2. IsFiniteSet(image)
    <3>1. table \in Surjection(DOMAIN table, image)
      BY DEF Surjection
    <3>. QED
      BY <2>1, <3>1, FS_Surjection
  <2>3. IsFiniteSet(Entries(table))
    BY <2>2, FS_Subset DEF Entries
  <2>. QED
    BY <2>3, FS_CardinalityType DEF Size
<1>3. /\ s \in [1..Size(table) -> Entries(table)]
      /\ \A i \in DOMAIN table : table[i] # Hole => \E k \in DOMAIN s : s[k] = table[i]
  <2>1. /\ s \in [1..Size(table) -> Entries(table)]
        /\ \A i, j \in DOMAIN table : i <= j /\ Hole \notin {table[i], table[j]} =>
             \E k, l \in DOMAIN s : k <= l /\ s[k] = table[i] /\ s[l] = table[j]
    BY DEF Rebuilt
  <2>2. \A i \in DOMAIN table : i <= i
    OBVIOUS
  <2>. QED
    BY <2>1, <2>2
<1>4. s \in Seq(AnyEntry \cup {Hole})
  BY <1>1, <1>2, <1>3
<1>5. Entries(s) = Entries(table)
  BY <1>1, <1>3 DEF Entries
<1>. QED
  BY <1>4, <1>5

LEMMA AppendedEntries ==
  ASSUME NEW table \in Seq(AnyEntry \cup {Hole}), NEW e \in AnyEntry
  PROVE  /\ Append(table, e) \in Seq(AnyEntry \cup {Hole})
         /\ Entries(Append(table, e)) = Entries(table) \cup {e}
<1>1. e # Hole
  BY PeerTableAssumption DEF AnyEntry
<1>. QED
  BY <1>1 DEF Entries

\* Entries, with the one of an id replaced.
Assigned(entries, id, c) == {e \in entries : e.peer # id} \cup {[peer |-> id, conn |-> c]}

\* An assignment puts the new entry in place of those of its id.
LEMMA EnteredEntries ==
  ASSUME NEW table \in Seq(AnyEntry \cup {Hole}), NEW id \in Peers, NEW c \in Nat,
         NEW s \in Entered(table, id, c)
  PROVE  /\ s \in Seq(AnyEntry \cup {Hole})
         /\ Entries(s) = Assigned(Entries(table), id, c)
<1>. DEFINE new == [peer |-> id, conn |-> c]
            replaced == [i \in DOMAIN table |->
                           IF table[i] # Hole /\ table[i].peer = id THEN new ELSE table[i]]
<1>1. new \in AnyEntry /\ new # Hole /\ new.peer = id
  BY PeerTableAssumption DEF AnyEntry
<1>2. CASE id \in Ids(table)
  <2>1. s = replaced
    BY <1>2 DEF Entered
  <2>2. PICK i \in DOMAIN table : table[i] # Hole /\ table[i].peer = id
    BY <1>2 DEF Ids, Entries
  <2>. HIDE DEF new
  <2>3. s \in [1..Len(table) -> AnyEntry \cup {Hole}] /\ Len(table) \in Nat
    BY <1>1, <2>1
  <2>4. Entries(s) = {e \in Entries(table) : e.peer # id} \cup {new}
    BY <1>1, <2>1, <2>2, <2>3 DEF Entries
  <2>. QED
    BY <2>3, <2>4 DEF new, Assigned
<1>3. CASE id \notin Ids(table)
  <2>1. PICK r \in Seq(AnyEntry \cup {Hole}) : s = Append(r, new) /\ Entries(r) = Entries(table)
    BY <1>3, RebuiltEntries DEF Entered
  <2>2. Entries(table) = {e \in Entries(table) : e.peer # id}
    BY <1>3 DEF Ids
  <2>. HIDE DEF new
  <2>3. s \in Seq(AnyEntry \cup {Hole}) /\ Entries(s) = Entries(table) \cup {new}
    BY <1>1, <2>1, AppendedEntries
  <2>. QED
    BY <2>2, <2>3 DEF new, Assigned
<1>. QED
  BY <1>2, <1>3

-----------------------------------------------------------------------------
(* What is offered is read.                                                *)

LEMMA ReadInit == Init => ReadInv
BY DEF Init, ReadInv, Entries

\* A step that leaves the connections alone and adds no entry.
LEMMA FewerEntries ==
  ASSUME ReadInv, UNCHANGED conns, peers' \in Seq(AnyEntry \cup {Hole}),
         Entries(peers') \subseteq Entries(peers)
  PROVE  ReadInv'
BY DEF ReadInv, Sound, Reading, Entries

LEMMA OpenedIsSound ==
  ASSUME ReadInv, NEW id \in Peers, NEW state \in {"dialling", "accepting"}, Open(id, state),
         UNCHANGED peers
  PROVE  ReadInv'
<1>1. conns' = Append(conns, [peer |-> id, state |-> state])
  BY DEF Open
<1>2. /\ conns' \in Seq(Connection) /\ DOMAIN conns \subseteq DOMAIN conns'
      /\ \A c \in DOMAIN conns : conns'[c] = conns[c]
  BY <1>1 DEF ReadInv, Connection
<1>. QED
  BY <1>2 DEF ReadInv, Sound, Reading, Entries

\* A connection that changes its state keeps its peer, and its place.
LEMMA ChangedConnection ==
  ASSUME conns \in Seq(Connection), NEW c \in DOMAIN conns, NEW state \in {"reading", "ended"},
         conns' = [conns EXCEPT ![c].state = state]
  PROVE  /\ conns' \in Seq(Connection) /\ DOMAIN conns' = DOMAIN conns
         /\ c \in Nat /\ conns[c].peer \in Peers
         /\ conns'[c].peer = conns[c].peer /\ conns'[c].state = state
         /\ \A d \in DOMAIN conns \ {c} : conns'[d] = conns[d]
<1>. DEFINE changed == [conns[c] EXCEPT !.state = state]
<1>1. conns \in [1..Len(conns) -> Connection] /\ Len(conns) \in Nat /\ c \in 1..Len(conns)
  OBVIOUS
<1>2. conns[c] \in Connection
  BY <1>1
<1>3. /\ changed \in Connection /\ changed.peer = conns[c].peer /\ changed.state = state
      /\ conns[c].peer \in Peers
  BY <1>2 DEF Connection
<1>4. conns' = [conns EXCEPT ![c] = changed]
  OBVIOUS
<1>. HIDE DEF changed
<1>5. conns' \in [1..Len(conns) -> Connection]
  BY <1>1, <1>3, <1>4
<1>. QED
  BY <1>1, <1>3, <1>4, <1>5

\* A connection that is not read may change its state.
LEMMA EndedIsSound ==
  ASSUME ReadInv, NEW c \in DOMAIN conns, conns' = [conns EXCEPT ![c].state = "ended"],
         peers' \in Seq(AnyEntry \cup {Hole}), Entries(peers') \subseteq Entries(peers),
         \A e \in Entries(peers') : e.conn # c
  PROVE  ReadInv'
<1>1. /\ conns' \in Seq(Connection) /\ DOMAIN conns' = DOMAIN conns
      /\ \A d \in DOMAIN conns \ {c} : conns'[d] = conns[d]
  BY ChangedConnection DEF ReadInv
<1>2. \A e \in Entries(peers') : Sound(e)'
  BY <1>1 DEF ReadInv, Sound, Reading
<1>. QED
  BY <1>1, <1>2 DEF ReadInv, Entries

LEMMA RegisteredIsSound ==
  ASSUME ReadInv, NEW c \in DOMAIN conns, Register(c)
  PROVE  /\ ReadInv'
         /\ Entries(peers') = {e \in Entries(peers) : e.peer # conns[c].peer}
                                \cup {[peer |-> conns[c].peer, conn |-> c]}
         /\ DOMAIN conns' = DOMAIN conns
         /\ conns'[c].peer = conns[c].peer /\ conns'[c].state = "reading"
         /\ \A d \in DOMAIN conns \ {c} : conns'[d] = conns[d]
<1>. DEFINE new == [peer |-> conns[c].peer, conn |-> c]
<1>1. /\ c \in Nat /\ conns[c].peer \in Peers
      /\ conns' \in Seq(Connection) /\ DOMAIN conns' = DOMAIN conns
      /\ conns'[c].peer = conns[c].peer /\ conns'[c].state = "reading"
      /\ \A d \in DOMAIN conns \ {c} : conns'[d] = conns[d]
  <2>1. conns' = [conns EXCEPT ![c].state = "reading"]
    BY DEF Register
  <2>. QED
    BY <2>1, ChangedConnection DEF ReadInv
<1>2. /\ peers' \in Seq(AnyEntry \cup {Hole})
      /\ Entries(peers') = {e \in Entries(peers) : e.peer # conns[c].peer} \cup {new}
  <2>1. peers \in Seq(AnyEntry \cup {Hole}) /\ peers' \in Entered(peers, conns[c].peer, c)
    BY DEF Register, ReadInv
  <2>2. conns[c].peer \in Peers /\ c \in Nat
    BY <1>1
  <2>. QED
    <3>1. Entries(peers') = Assigned(Entries(peers), conns[c].peer, c) /\ peers' \in Seq(AnyEntry \cup {Hole})
      BY <2>1, <2>2, EnteredEntries
    <3>. QED
      BY <3>1 DEF Assigned
<1>3. \A e \in Entries(peers') : Sound(e)'
  <2>. SUFFICES ASSUME NEW e \in Entries(peers') PROVE Sound(e)'
    OBVIOUS
  <2>1. CASE e = new
    BY <1>1, <2>1 DEF Sound, Reading
  <2>2. CASE e \in Entries(peers) /\ e.peer # conns[c].peer
    <3>1. Sound(e)
      BY <2>2 DEF ReadInv
    <3>2. e.conn # c
      BY <2>2, <3>1 DEF Sound
    <3>. QED
      BY <1>1, <3>1, <3>2 DEF Sound, Reading
  <2>. QED
    BY <1>2, <2>1, <2>2
<1>. QED
  BY <1>1, <1>2, <1>3 DEF ReadInv, Entries

LEMMA FailedGreetingIsSound ==
  ASSUME ReadInv, NEW c \in DOMAIN conns, GreetingFails(c)
  PROVE  ReadInv'
<1>1. conns' = [conns EXCEPT ![c].state = "ended"] /\ peers' = peers /\ ~Reading(c)
  BY DEF GreetingFails, AfterFailedGreeting, Greeting, Reading
<1>2. \A e \in Entries(peers) : e.conn # c
  BY <1>1 DEF ReadInv, Sound
<1>. QED
  BY <1>1, <1>2, EndedIsSound DEF ReadInv

\* A reader that ends takes the entry of its connection along.
LEMMA EndedReaderIsSound ==
  ASSUME ReadInv, NEW c \in DOMAIN conns, ReaderEnds(c)
  PROVE  /\ ReadInv'
         /\ conns' = [conns EXCEPT ![c].state = "ended"]
         /\ Entries(peers') = {e \in Entries(peers) : e.peer # conns[c].peer}
<1>1. conns' = [conns EXCEPT ![c].state = "ended"] /\ peers' = Popped(peers, conns[c].peer)
  BY DEF ReaderEnds, AfterReading
<1>2. /\ peers' \in Seq(AnyEntry \cup {Hole})
      /\ Entries(peers') = {e \in Entries(peers) : e.peer # conns[c].peer}
  BY <1>1, PoppedEntries DEF ReadInv
<1>3. \A e \in Entries(peers') : e.conn # c
  BY <1>2 DEF ReadInv, Sound
<1>. QED
  BY <1>1, <1>2, <1>3, EndedIsSound

LEMMA CleanedUpIsSound ==
  ASSUME ReadInv, NEW k, NEW p, CleanUp(k, p)
  PROVE  /\ ReadInv'
         /\ Entries(peers') = {e \in Entries(peers) : e.peer # p}
<1>1. UNCHANGED conns /\ peers' = Popped(peers, p)
  BY DEF CleanUp
<1>2. /\ peers' \in Seq(AnyEntry \cup {Hole})
      /\ Entries(peers') = {e \in Entries(peers) : e.peer # p}
  BY <1>1, PoppedEntries DEF ReadInv
<1>. QED
  BY <1>1, <1>2, FewerEntries

\* The other steps of a broadcast only read the table.
LEMMA BroadcastReads ==
  ASSUME NEW k, Broadcast(k) \/ BeginBroadcast(k), \A p \in Peers : ~CleanUp(k, p)
  PROVE  UNCHANGED <<conns, cut, peers, service, overlapped>>
BY DEF Broadcast, BeginBroadcast, IterationRaises, NextPeer, IterationEnds, SendSucceeds,
       SendFails, EndBroadcast

LEMMA ReadStep == ASSUME ReadInv, [Next]_vars PROVE ReadInv'
<1>1. ASSUME UNCHANGED <<conns, peers>> PROVE ReadInv'
  BY <1>1, FewerEntries DEF ReadInv
<1>2. ASSUME NEW p \in Peers, Dial(p) \/ DialRefused(p) \/ Accept(p) PROVE ReadInv'
  BY <1>1, <1>2, OpenedIsSound DEF Dial, DialRefused, Accept
<1>3. ASSUME NEW c \in DOMAIN conns, Register(c) PROVE ReadInv'
  BY <1>3, RegisteredIsSound
<1>4. ASSUME NEW c \in DOMAIN conns, GreetingFails(c) PROVE ReadInv'
  BY <1>4, FailedGreetingIsSound
<1>5. ASSUME NEW c \in DOMAIN conns, ReaderEnds(c) PROVE ReadInv'
  BY <1>5, EndedReaderIsSound
<1>6. ASSUME NEW c \in DOMAIN conns, Cut(c) \/ StopCloses(c) PROVE ReadInv'
  BY <1>1, <1>6 DEF Cut, StopCloses
<1>7. ASSUME NEW k \in Tasks, BeginBroadcast(k) \/ Broadcast(k) PROVE ReadInv'
  BY <1>1, <1>7, BroadcastReads, CleanedUpIsSound
<1>8. CASE Stop
  BY <1>1, <1>8 DEF Stop
<1>9. CASE StopEnds
  <2>1. UNCHANGED conns /\ peers' = <<>> /\ Entries(<<>>) = {}
    BY <1>9 DEF StopEnds, Entries
  <2>. QED
    BY <2>1, FewerEntries
<1>10. CASE UNCHANGED vars
  BY <1>1, <1>10 DEF vars
<1>. QED
  BY <1>2, <1>3, <1>4, <1>5, <1>6, <1>7, <1>8, <1>9, <1>10 DEF Next

\* What broadcast and send_to get from the table is a connection some task reads
\* (p2p.py:169-174, 287-292, 327-329).
THEOREM TableIsRead == Spec => []EntriesAreRead
<1>1. ReadInv => EntriesAreRead
  BY DEF ReadInv, Sound, Reading, EntriesAreRead
<1>. QED
  BY <1>1, ReadInit, ReadStep, PTL DEF Spec

-----------------------------------------------------------------------------
(* Who has a peer id to himself stays in the table.                        *)

\* Connections of one peer that are read at the same time are known to overlap.
Paired ==
  \A c, d \in DOMAIN conns :
    c # d /\ Reading(c) /\ Reading(d) /\ conns[c].peer = conns[d].peer => c \in overlapped

SoleInv ==
  /\ ReadInv
  /\ Paired
  /\ SoleConnectionIsReachable

LEMMA SoleInit == Init => SoleInv
BY ReadInit DEF Init, SoleInv, Paired, SoleConnectionIsReachable

\* A connection that is not in the way of any other gets its entry.
LEMMA RegisteredStaysSole ==
  ASSUME SoleInv, NEW c \in DOMAIN conns, Register(c)
  PROVE  SoleInv'
<1>1. /\ ReadInv'
      /\ Entries(peers') = {e \in Entries(peers) : e.peer # conns[c].peer}
                             \cup {[peer |-> conns[c].peer, conn |-> c]}
      /\ DOMAIN conns' = DOMAIN conns
      /\ conns'[c].peer = conns[c].peer /\ conns'[c].state = "reading"
      /\ \A d \in DOMAIN conns \ {c} : conns'[d] = conns[d]
  BY RegisteredIsSound DEF SoleInv
<1>2. /\ ~Reading(c) /\ UNCHANGED <<cut, service>>
      /\ overlapped \subseteq overlapped'
      /\ \A d \in Rivals(c) : d \in overlapped' /\ c \in overlapped'
  BY DEF Register, Greeting, Reading
<1>3. \A d \in DOMAIN conns \ {c} :
        Reading(d) /\ conns[d].peer = conns[c].peer => d \in overlapped' /\ c \in overlapped'
  BY <1>2 DEF Rivals, Reading
<1>4. Paired'
  BY <1>1, <1>2, <1>3 DEF SoleInv, Paired, Reading
<1>5. SoleConnectionIsReachable'
  <2>. SUFFICES ASSUME service = "up", NEW d \in DOMAIN conns, d \notin cut, d \notin overlapped',
                       Reading(d)'
                PROVE  \E e \in Entries(peers') : e.conn = d
    BY <1>1, <1>2 DEF SoleConnectionIsReachable, Registered, Reading, Entries
  <2>1. CASE d = c
    <3>. DEFINE new == [peer |-> conns[c].peer, conn |-> c]
    <3>1. new \in Entries(peers') /\ new.conn = d
      BY <1>1, <2>1
    <3>. QED
      BY <3>1
  <2>2. CASE d # c
    <3>1. Reading(d) /\ conns[d].peer # conns[c].peer /\ d \notin overlapped
      BY <1>1, <1>2, <1>3, <2>2 DEF Reading
    <3>2. PICK e \in Entries(peers) : e.conn = d
      BY <3>1 DEF SoleInv, SoleConnectionIsReachable, Registered, Reading
    <3>3. e.peer = conns[d].peer
      BY <3>2 DEF SoleInv, ReadInv, Sound
    <3>. QED
      BY <1>1, <3>1, <3>2, <3>3
  <2>. QED
    BY <2>1, <2>2
<1>. QED
  BY <1>1, <1>4, <1>5 DEF SoleInv

\* A reader that ends takes entries of connections that overlapped with it, and no other.
LEMMA EndedReaderLeavesSole ==
  ASSUME SoleInv, NEW c \in DOMAIN conns, ReaderEnds(c)
  PROVE  SoleInv'
<1>1. /\ ReadInv'
      /\ conns' = [conns EXCEPT ![c].state = "ended"]
      /\ Entries(peers') = {e \in Entries(peers) : e.peer # conns[c].peer}
  BY EndedReaderIsSound DEF SoleInv
<1>2. UNCHANGED <<cut, service>> /\ overlapped' = overlapped \ {c} /\ Reading(c)
  BY DEF ReaderEnds, Reading
<1>3. /\ DOMAIN conns' = DOMAIN conns /\ conns'[c].state = "ended"
      /\ \A d \in DOMAIN conns \ {c} : conns'[d] = conns[d]
  BY <1>1 DEF SoleInv, ReadInv, Connection
<1>4. Paired'
  BY <1>2, <1>3 DEF SoleInv, Paired, Reading
<1>5. SoleConnectionIsReachable'
  <2>. SUFFICES ASSUME service = "up", NEW d \in DOMAIN conns, d \notin cut, d \notin overlapped',
                       Reading(d)'
                PROVE  \E e \in Entries(peers') : e.conn = d
    BY <1>2, <1>3 DEF SoleConnectionIsReachable, Registered, Reading, Entries
  <2>1. d # c /\ Reading(d) /\ d \notin overlapped
    BY <1>2, <1>3 DEF Reading
  <2>2. conns[d].peer # conns[c].peer
    BY <1>2, <2>1 DEF SoleInv, Paired
  <2>3. PICK e \in Entries(peers) : e.conn = d
    BY <2>1 DEF SoleInv, SoleConnectionIsReachable, Registered, Reading
  <2>4. e.peer = conns[d].peer
    BY <2>3 DEF SoleInv, ReadInv, Sound
  <2>. QED
    BY <1>1, <2>2, <2>3, <2>4
<1>. QED
  BY <1>1, <1>4, <1>5 DEF SoleInv

\* The cleanup of a broadcast closes what it takes from the table.
LEMMA CleanedUpIsClosed ==
  ASSUME SoleInv, NEW k, NEW p, CleanUp(k, p)
  PROVE  SoleInv'
<1>1. ReadInv' /\ Entries(peers') = {e \in Entries(peers) : e.peer # p}
  BY CleanedUpIsSound DEF SoleInv
<1>2. /\ UNCHANGED <<conns, service, overlapped>> /\ cut \subseteq cut'
      /\ \A e \in Entries(peers) : e.peer = p => e.conn \in cut'
  BY DEF CleanUp
<1>3. SoleConnectionIsReachable'
  BY <1>1, <1>2 DEF SoleInv, SoleConnectionIsReachable, Registered, Entries
<1>. QED
  BY <1>1, <1>2, <1>3 DEF SoleInv, Paired, Reading

LEMMA SoleStep == ASSUME SoleInv, [Next]_vars PROVE SoleInv'
<1>1. ReadInv'
  BY ReadStep DEF SoleInv
<1>2. ASSUME UNCHANGED <<conns, peers, service, overlapped>>, cut \subseteq cut'
      PROVE  SoleInv'
  BY <1>1, <1>2 DEF SoleInv, Paired, Reading, SoleConnectionIsReachable, Registered
<1>3. ASSUME UNCHANGED <<conns, overlapped>>, service' # "up"
      PROVE  SoleInv'
  BY <1>1, <1>3 DEF SoleInv, Paired, Reading, SoleConnectionIsReachable
<1>4. ASSUME UNCHANGED <<peers, service, overlapped>>, cut \subseteq cut',
             \A c \in DOMAIN conns' : Reading(c)' => c \in DOMAIN conns /\ conns'[c] = conns[c]
      PROVE  SoleInv'
  BY <1>1, <1>4 DEF SoleInv, Paired, Reading, SoleConnectionIsReachable, Registered
<1>5. ASSUME NEW p \in Peers, Dial(p) \/ Accept(p) PROVE SoleInv'
  <2>1. /\ UNCHANGED <<cut, peers, service, overlapped>>
        /\ \E state \in {"dialling", "accepting"} : conns' = Append(conns, [peer |-> p, state |-> state])
    BY <1>5 DEF Dial, Accept, Open
  <2>2. \A c \in DOMAIN conns' : Reading(c)' => c \in DOMAIN conns /\ conns'[c] = conns[c]
    BY <2>1 DEF Reading, SoleInv, ReadInv
  <2>. QED
    BY <1>4, <2>1, <2>2
<1>6. ASSUME NEW p \in Peers, DialRefused(p) PROVE SoleInv'
  BY <1>2, <1>6 DEF DialRefused
<1>7. ASSUME NEW c \in DOMAIN conns, Register(c) PROVE SoleInv'
  BY <1>7, RegisteredStaysSole
<1>8. ASSUME NEW c \in DOMAIN conns, GreetingFails(c) PROVE SoleInv'
  <2>1. /\ UNCHANGED <<peers, cut, service, overlapped>>
        /\ conns' = [conns EXCEPT ![c].state = "ended"]
    BY <1>8 DEF GreetingFails, AfterFailedGreeting
  <2>2. \A d \in DOMAIN conns' : Reading(d)' => d \in DOMAIN conns /\ conns'[d] = conns[d]
    BY <2>1 DEF Reading, SoleInv, ReadInv, Connection
  <2>. QED
    BY <1>4, <2>1, <2>2
<1>9. ASSUME NEW c \in DOMAIN conns, ReaderEnds(c) PROVE SoleInv'
  BY <1>9, EndedReaderLeavesSole
<1>10. ASSUME NEW c \in DOMAIN conns, Cut(c) \/ StopCloses(c) PROVE SoleInv'
  BY <1>2, <1>10 DEF Cut, StopCloses
<1>11. ASSUME NEW k \in Tasks, BeginBroadcast(k) \/ Broadcast(k) PROVE SoleInv'
  BY <1>2, <1>11, BroadcastReads, CleanedUpIsClosed
<1>12. CASE Stop \/ StopEnds
  BY <1>3, <1>12 DEF Stop, StopEnds
<1>13. CASE UNCHANGED vars
  BY <1>2, <1>13 DEF vars
<1>. QED
  BY <1>5, <1>6, <1>7, <1>8, <1>9, <1>10, <1>11, <1>12, <1>13 DEF Next

\* A connection that never shared its peer id stays in the table while it is up, whatever
\* fails around it (p2p.py:186-188, 215-219, 328).
THEOREM SoleConnectionStays == Spec => []SoleConnectionIsReachable
<1>1. SoleInv => SoleConnectionIsReachable
  BY DEF SoleInv
<1>. QED
  BY <1>1, SoleInit, SoleStep, PTL DEF Spec

-----------------------------------------------------------------------------
(* Types.                                                                  *)

TaskState ==
  [at : {"idle", "iterate", "send", "clean"}, pos : Nat, size : Nat, left : Int, conn : Nat,
   failed : SUBSET Peers, untried : SUBSET Peers]

OneEntryEach(table) == \A e, f \in Entries(table) : e.peer = f.peer => e = f

KnownConns == cut \subseteq DOMAIN conns /\ overlapped \subseteq DOMAIN conns /\ unclosed \subseteq DOMAIN conns

PlainTypes ==
  /\ undialled \subseteq Configured
  /\ service \in {"up", "stopping", "down"}
  /\ broadcasts \in 0..MaxBroadcasts

TableInv ==
  /\ ReadInv
  /\ Len(conns) <= MaxConns
  /\ KnownConns
  /\ OneEntryEach(peers)
  /\ PlainTypes
  /\ task \in [Tasks -> TaskState]

\* Entries are of connections that are there, and these are counted.
LEMMA TableTyped == TableInv => TypeOK
<1>. SUFFICES ASSUME TableInv PROVE TypeOK
  OBVIOUS
<1>1. conns \in Seq([peer : Peers, state : {"dialling", "accepting", "reading", "ended"}])
  BY DEF TableInv, ReadInv, Connection
<1>2. peers \in Seq(Entry \cup {Hole})
  <2>1. /\ peers \in [1..Len(peers) -> AnyEntry \cup {Hole}] /\ Len(peers) \in Nat
        /\ Len(conns) \in Nat /\ DOMAIN conns = 1..Len(conns) /\ Len(conns) <= MaxConns
        /\ MaxConns \in Nat /\ \A e \in Entries(peers) : e.conn \in DOMAIN conns
    BY PeerTableAssumption DEF TableInv, ReadInv, Sound
  <2>2. \A i \in 1..Len(peers) : peers[i] \in Entry \cup {Hole}
    <3>. SUFFICES ASSUME NEW i \in 1..Len(peers), peers[i] # Hole PROVE peers[i] \in Entry
      OBVIOUS
    <3>1. peers[i] \in Entries(peers) /\ peers[i] \in AnyEntry
      BY <2>1 DEF Entries
    <3>2. peers[i].conn \in 1..MaxConns
      BY <2>1, <3>1
    <3>. QED
      BY <3>1, <3>2 DEF AnyEntry, Entry
  <2>. QED
    BY <2>1, <2>2
<1>3. \A k \in Tasks :
        /\ task[k].at \in {"idle", "iterate", "send", "clean"}
        /\ task[k].failed \subseteq Peers /\ task[k].untried \subseteq Peers
  BY DEF TableInv, TaskState
<1>. QED
  BY <1>1, <1>2, <1>3 DEF TypeOK, TableInv, KnownConns, OneEntryEach, PlainTypes

LEMMA IdsArePeers ==
  ASSUME ReadInv
  PROVE  Ids(peers) \subseteq Peers /\ \A e \in Entries(peers) : e \in AnyEntry
BY DEF ReadInv, Ids, Entries, AnyEntry

LEMMA SizeIsNumber ==
  ASSUME ReadInv
  PROVE  Size(peers) \in Nat
<1>. DEFINE image == {peers[i] : i \in DOMAIN peers}
<1>1. IsFiniteSet(DOMAIN peers)
  BY FS_Interval DEF ReadInv
<1>2. peers \in Surjection(DOMAIN peers, image)
  BY DEF Surjection, ReadInv
<1>3. IsFiniteSet(image)
  BY <1>1, <1>2, FS_Surjection
<1>4. IsFiniteSet(Entries(peers))
  BY <1>3, FS_Subset DEF Entries
<1>. QED
  BY <1>4, FS_CardinalityType DEF Size

LEMMA LeftIsTyped ==
  ASSUME task \in [Tasks -> TaskState], NEW ids
  PROVE  /\ Left(ids) \in [Tasks -> TaskState]
         /\ \A k \in Tasks : /\ Left(ids)[k].untried = task[k].untried \ ids
                             /\ Left(ids)[k].at = task[k].at
                             /\ Left(ids)[k].pos = task[k].pos
                             /\ Left(ids)[k].failed = task[k].failed
BY DEF Left, TaskState

\* Segments of the numbers get no smaller for ever, so sets of numbers have a least one.
LEMMA LeastNumber ==
  ASSUME NEW S \in SUBSET Nat, S # {}
  PROVE  \E m \in S : \A n \in S : m <= n
<1>. DEFINE UpTo(n) == 0..n
            Segments == {UpTo(n) : n \in S}
            Below == StrictSubsetOrdering(Nat)
<1>1. \A n \in S : UpTo(n) \in FiniteSubsetsOf(Nat)
  <2>. TAKE n \in S
  <2>1. IsFiniteSet(UpTo(n)) /\ UpTo(n) \in SUBSET Nat
    BY FS_Interval
  <2>. QED
    BY <2>1 DEF FiniteSubsetsOf
<1>2. \A m, n \in S : n < m => <<UpTo(n), UpTo(m)>> \in Below
  <2>. SUFFICES ASSUME NEW m \in S, NEW n \in S, n < m PROVE <<UpTo(n), UpTo(m)>> \in Below
    OBVIOUS
  <2>1. UpTo(n) \in SUBSET Nat /\ UpTo(m) \in SUBSET Nat
    OBVIOUS
  <2>2. UpTo(n) \subseteq UpTo(m) /\ m \in UpTo(m) /\ m \notin UpTo(n)
    OBVIOUS
  <2>. HIDE DEF UpTo
  <2>. QED
    BY <2>1, <2>2 DEF StrictSubsetOrdering
<1>3. IsWellFoundedOn(Below, FiniteSubsetsOf(Nat))
  BY FS_StrictSubsetOrderingWellFounded
<1>4. Segments \subseteq FiniteSubsetsOf(Nat) /\ Segments # {}
  BY <1>1
<1>. HIDE DEF Below, UpTo
<1>5. PICK s \in Segments : \A r \in Segments : <<r, s>> \notin Below
  <2>. HIDE DEF Segments
  <2>. QED
    BY <1>3, <1>4, WFMin
<1>6. PICK m \in S : s = UpTo(m)
  OBVIOUS
<1>7. \A n \in S : ~(n < m)
  BY <1>2, <1>5, <1>6
<1>. QED
  BY <1>7

LEMMA TableInit == Init => TableInv
<1>. SUFFICES ASSUME Init PROVE TableInv
  OBVIOUS
<1>1. Idle \in TaskState
  BY DEF Idle, TaskState
<1>2. task \in [Tasks -> TaskState]
  BY <1>1 DEF Init
<1>3. ReadInv
  BY ReadInit
<1>. QED
  BY <1>2, <1>3, PeerTableAssumption DEF Init, TableInv, KnownConns, OneEntryEach, PlainTypes, Entries

LEMMA StartedIsTyped ==
  ASSUME NEW old \in TaskState, NEW size \in Nat, NEW ids \in SUBSET Peers
  PROVE  [old EXCEPT !.at = "iterate", !.size = size, !.left = size, !.untried = ids] \in TaskState
<1>1. size \in Int
  OBVIOUS
<1>. QED
  BY <1>1 DEF TaskState

\* The steps of a broadcast.
LEMMA BroadcastKeepsTypes ==
  ASSUME TableInv, NEW k \in Tasks, BeginBroadcast(k) \/ Broadcast(k)
  PROVE  task' \in [Tasks -> TaskState] /\ PlainTypes'
<1>. USE DEF TableInv
<1>1. task[k] \in TaskState /\ Idle \in TaskState
  BY DEF Idle, TaskState
<1>2. ASSUME NEW r \in TaskState, task' = [task EXCEPT ![k] = r] PROVE task' \in [Tasks -> TaskState]
  BY <1>2
<1>3. CASE BeginBroadcast(k)
  <2>. DEFINE size == Size(peers)
              ids == Ids(peers)
              r == [Idle EXCEPT !.at = "iterate", !.size = size, !.left = size, !.untried = ids]
  <2>1. r \in TaskState
    <3>1. size \in Nat /\ ids \in SUBSET Peers
      BY IdsArePeers, SizeIsNumber
    <3>. QED
      BY <1>1, <3>1, StartedIsTyped
  <2>2. task' = [task EXCEPT ![k] = r] /\ broadcasts < MaxBroadcasts /\ broadcasts' = broadcasts + 1
        /\ UNCHANGED <<undialled, service>>
    BY <1>3 DEF BeginBroadcast
  <2>. HIDE DEF r
  <2>. QED
    BY <1>2, <2>1, <2>2, PeerTableAssumption DEF PlainTypes
<1>4. CASE IterationRaises(k) \/ EndBroadcast(k)
  BY <1>1, <1>2, <1>4 DEF IterationRaises, EndBroadcast, PlainTypes
<1>5. CASE NextPeer(k)
  <2>. DEFINE i == CHOOSE j \in Ahead(k) : \A l \in Ahead(k) : j <= l
              next == i + 1
              rest == task[k].left - 1
              conn == peers[i].conn
              owed == task[k].untried \ {peers[i].peer}
              r == [task[k] EXCEPT !.at = "send", !.pos = next, !.left = rest, !.conn = conn,
                                   !.untried = owed]
  <2>1. Ahead(k) \in SUBSET Nat /\ Ahead(k) # {}
    BY <1>5 DEF NextPeer, Ahead, ReadInv
  <2>2. i \in Ahead(k)
    BY <2>1, LeastNumber
  <2>3. task' = [task EXCEPT ![k] = r]
    BY <1>5 DEF NextPeer
  <2>4. next \in Nat /\ conn \in Nat
    <3>. HIDE DEF i
    <3>. QED
      BY <2>1, <2>2, IdsArePeers DEF Ahead, Entries, AnyEntry
  <2>5. rest \in Int /\ owed \in SUBSET Peers
    BY <1>1 DEF TaskState
  <2>. HIDE DEF next, rest, conn, owed
  <2>6. r \in TaskState
    BY <1>1, <2>4, <2>5 DEF TaskState
  <2>. HIDE DEF r
  <2>. QED
    BY <1>2, <1>5, <2>3, <2>6 DEF NextPeer, PlainTypes
<1>6. CASE IterationEnds(k)
  <2>. DEFINE r == [Idle EXCEPT !.at = "clean", !.failed = task[k].failed, !.untried = task[k].untried]
  <2>1. r \in TaskState
    BY <1>1 DEF TaskState
  <2>2. task' = [task EXCEPT ![k] = r]
    BY <1>6 DEF IterationEnds
  <2>. HIDE DEF r
  <2>. QED
    BY <1>2, <1>6, <2>1, <2>2 DEF IterationEnds, PlainTypes
<1>7. CASE SendSucceeds(k)
  <2>. DEFINE r == [task[k] EXCEPT !.at = "iterate", !.conn = 0]
  <2>1. r \in TaskState
    BY <1>1 DEF TaskState
  <2>2. task' = [task EXCEPT ![k] = r]
    BY <1>7 DEF SendSucceeds
  <2>. HIDE DEF r
  <2>. QED
    BY <1>2, <1>7, <2>1, <2>2 DEF SendSucceeds, PlainTypes
<1>8. CASE SendFails(k)
  <2>. DEFINE failed == task[k].failed \cup {conns[task[k].conn].peer}
              r == [task[k] EXCEPT !.at = "iterate", !.conn = 0, !.failed = failed]
  <2>1. task' = [task EXCEPT ![k] = r]
    BY <1>8 DEF SendFails, AfterFailedSend
  <2>2. conns[task[k].conn] \in Connection
    BY <1>8 DEF SendFails, KnownConns, ReadInv
  <2>3. failed \in SUBSET Peers
    BY <1>1, <2>2 DEF Connection, TaskState
  <2>. HIDE DEF failed
  <2>4. r \in TaskState
    BY <1>1, <2>3 DEF TaskState
  <2>. HIDE DEF r
  <2>. QED
    BY <1>2, <1>8, <2>1, <2>4 DEF SendFails, PlainTypes
<1>9. ASSUME NEW q \in Peers, CleanUp(k, q) PROVE task' \in [Tasks -> TaskState] /\ PlainTypes'
  <2>1. task' = [Left({q}) EXCEPT ![k].failed = @ \ {q}] /\ UNCHANGED <<undialled, service, broadcasts>>
    BY <1>9 DEF CleanUp
  <2>2. Left({q}) \in [Tasks -> TaskState]
    BY LeftIsTyped
  <2>3. task' \in [Tasks -> TaskState]
    <3>1. PICK t \in [Tasks -> TaskState] : t = Left({q})
      BY <2>2
    <3>2. PICK r : r = [t[k] EXCEPT !.failed = @ \ {q}]
      OBVIOUS
    <3>3. r \in TaskState
      BY <3>1, <3>2 DEF TaskState
    <3>4. task' = [t EXCEPT ![k] = r]
      BY <2>1, <3>1, <3>2
    <3>. QED
      BY <3>1, <3>3, <3>4
  <2>. QED
    BY <2>1, <2>3 DEF PlainTypes
<1>. QED
  BY <1>3, <1>4, <1>5, <1>6, <1>7, <1>8, <1>9 DEF Broadcast

LEMMA TableStep == ASSUME TableInv, [Next]_vars PROVE TableInv'
<1>. USE DEF TableInv
<1>1. ReadInv'
  BY ReadStep
<1>2. ASSUME UNCHANGED task PROVE task' \in [Tasks -> TaskState]
  BY <1>2
<1>3. ASSUME Entries(peers') \subseteq Entries(peers) PROVE OneEntryEach(peers')
  BY <1>3 DEF OneEntryEach
<1>4. ASSUME NEW p \in Peers, Dial(p) \/ DialRefused(p) \/ Accept(p) PROVE TableInv'
  <2>1. /\ UNCHANGED <<cut, peers, task, service, unclosed, overlapped, broadcasts>>
        /\ undialled' \subseteq undialled
        /\ UNCHANGED conns \/ \E state \in {"dialling", "accepting"} : Open(p, state)
    BY <1>4 DEF Dial, DialRefused, Accept
  <2>2. Len(conns') <= MaxConns /\ DOMAIN conns \subseteq DOMAIN conns'
    BY <2>1, PeerTableAssumption DEF Open, ReadInv
  <2>3. KnownConns' /\ PlainTypes' /\ OneEntryEach(peers')
    BY <1>3, <2>1, <2>2 DEF KnownConns, PlainTypes
  <2>. QED
    BY <1>1, <1>2, <2>1, <2>2, <2>3
<1>5. ASSUME NEW c \in DOMAIN conns, NEW state \in {"reading", "ended"},
             conns' = [conns EXCEPT ![c].state = state]
      PROVE  DOMAIN conns' = DOMAIN conns /\ Len(conns') = Len(conns)
  BY <1>5 DEF ReadInv
<1>6. ASSUME NEW c \in DOMAIN conns, Register(c) PROVE TableInv'
  <2>1. /\ conns' = [conns EXCEPT ![c].state = "reading"]
        /\ UNCHANGED <<cut, undialled, task, service, unclosed, broadcasts>>
        /\ overlapped' = IF Rivals(c) = {} THEN overlapped ELSE overlapped \cup Rivals(c) \cup {c}
    BY <1>6 DEF Register
  <2>2. KnownConns' /\ PlainTypes'
    BY <1>5, <2>1 DEF KnownConns, PlainTypes, Rivals
  <2>3. Entries(peers') = {e \in Entries(peers) : e.peer # conns[c].peer}
                                \cup {[peer |-> conns[c].peer, conn |-> c]}
    BY <1>6, RegisteredIsSound
  <2>4. OneEntryEach(peers')
    BY <2>3 DEF OneEntryEach
  <2>. QED
    BY <1>1, <1>2, <1>5, <2>1, <2>2, <2>4
<1>7. ASSUME NEW c \in DOMAIN conns, GreetingFails(c) PROVE TableInv'
  <2>1. /\ conns' = [conns EXCEPT ![c].state = "ended"] /\ peers' = peers
        /\ UNCHANGED <<cut, undialled, task, service, unclosed, overlapped, broadcasts>>
    BY <1>7 DEF GreetingFails, AfterFailedGreeting
  <2>2. KnownConns' /\ PlainTypes' /\ OneEntryEach(peers')
    BY <1>3, <1>5, <2>1 DEF KnownConns, PlainTypes
  <2>. QED
    BY <1>1, <1>2, <1>5, <2>1, <2>2
<1>8. ASSUME NEW c \in DOMAIN conns, ReaderEnds(c) PROVE TableInv'
  <2>1. /\ conns' = [conns EXCEPT ![c].state = "ended"] /\ overlapped' = overlapped \ {c}
        /\ task' = Left({conns[c].peer})
        /\ UNCHANGED <<cut, undialled, service, unclosed, broadcasts>>
    BY <1>8 DEF ReaderEnds
  <2>2. Entries(peers') = {e \in Entries(peers) : e.peer # conns[c].peer}
    BY <1>8, EndedReaderIsSound
  <2>3. KnownConns' /\ PlainTypes' /\ OneEntryEach(peers')
    BY <1>3, <1>5, <2>1, <2>2 DEF KnownConns, PlainTypes
  <2>. QED
    BY <1>1, <1>5, <2>1, <2>3, LeftIsTyped
<1>9. ASSUME NEW c \in DOMAIN conns, Cut(c) \/ StopCloses(c) PROVE TableInv'
  <2>1. /\ UNCHANGED <<conns, peers, undialled, task, service, overlapped, broadcasts>>
        /\ cut' = cut \cup {c} /\ unclosed' \subseteq unclosed
    BY <1>9 DEF Cut, StopCloses
  <2>2. KnownConns' /\ PlainTypes' /\ OneEntryEach(peers')
    BY <1>3, <2>1 DEF KnownConns, PlainTypes
  <2>. QED
    BY <1>1, <1>2, <2>1, <2>2
<1>10. ASSUME NEW k \in Tasks, BeginBroadcast(k) \/ Broadcast(k) PROVE TableInv'
  <2>1. task' \in [Tasks -> TaskState] /\ PlainTypes'
    BY <1>10, BroadcastKeepsTypes
  <2>2. /\ UNCHANGED <<conns, unclosed, overlapped>> /\ Entries(peers') \subseteq Entries(peers)
        /\ cut' \subseteq cut \cup {e.conn : e \in Entries(peers)}
    <3>1. CASE \E p \in Peers : CleanUp(k, p)
      BY <3>1, CleanedUpIsSound DEF CleanUp
    <3>2. CASE \A p \in Peers : ~CleanUp(k, p)
      BY <1>10, <3>2 DEF Broadcast, BeginBroadcast, IterationRaises, NextPeer, IterationEnds,
                         SendSucceeds, SendFails, EndBroadcast
    <3>. QED
      BY <3>1, <3>2
  <2>3. \A e \in Entries(peers) : e.conn \in DOMAIN conns
    BY DEF ReadInv, Sound
  <2>4. KnownConns' /\ OneEntryEach(peers')
    BY <1>3, <2>2, <2>3 DEF KnownConns
  <2>. QED
    BY <1>1, <2>1, <2>2, <2>4
<1>11. CASE Stop
  <2>1. /\ UNCHANGED <<conns, cut, peers, undialled, task, overlapped, broadcasts>>
        /\ service' = "stopping" /\ unclosed' = {e.conn : e \in Entries(peers)}
    BY <1>11 DEF Stop
  <2>2. \A e \in Entries(peers) : e.conn \in DOMAIN conns
    BY DEF ReadInv, Sound
  <2>3. KnownConns' /\ PlainTypes' /\ OneEntryEach(peers')
    BY <1>3, <2>1, <2>2 DEF KnownConns, PlainTypes
  <2>. QED
    BY <1>1, <1>2, <2>1, <2>3
<1>12. CASE StopEnds
  <2>1. /\ UNCHANGED <<conns, cut, undialled, unclosed, overlapped, broadcasts>>
        /\ peers' = <<>> /\ task' = Left(Peers) /\ service' = "down"
    BY <1>12 DEF StopEnds
  <2>2. KnownConns' /\ PlainTypes' /\ OneEntryEach(peers')
    BY <2>1 DEF KnownConns, PlainTypes, OneEntryEach, Entries
  <2>. QED
    BY <1>1, <2>1, <2>2, LeftIsTyped
<1>13. CASE UNCHANGED vars
  BY <1>1, <1>2, <1>3, <1>13 DEF vars, KnownConns, PlainTypes
<1>. QED
  BY <1>4, <1>6, <1>7, <1>8, <1>9, <1>10, <1>11, <1>12, <1>13 DEF Next

\* The types hold; above all, no peer is in the table twice and nobody closes a connection
\* that is not there (p2p.py:169-174, 215-219).
THEOREM PeersTyped == Spec => []TypeOK
BY TableInit, TableStep, TableTyped, PTL DEF Spec

-----------------------------------------------------------------------------
(* A broadcast that goes round has tried everybody.                        *)

\* The dict has room for every connection there ever is, so it is not rebuilt.
NeverRebuilt == MaxConns <= Usable

Greeted == {c \in DOMAIN conns : ~Greeting(c)}

\* Every peer the broadcast owes a turn is still ahead of its iterator.
Owes(k) ==
  \A p \in task[k].untried :
    \E i \in DOMAIN peers : i >= task[k].pos /\ peers[i] # Hole /\ peers[i].peer = p

RoundInv ==
  /\ TableInv
  /\ Len(peers) <= Cardinality(Greeted)
  /\ \A k \in Tasks :
       /\ task[k].at \in {"iterate", "send"} => Owes(k)
       /\ task[k].at = "clean" => task[k].untried = {}

\* Where everybody was, and is.
Keeps(table, ids) ==
  \A i \in DOMAIN peers : peers[i] # Hole /\ peers[i].peer \notin ids =>
    i \in DOMAIN table /\ table[i] # Hole /\ table[i].peer = peers[i].peer

LEMMA GreetedAreFinite ==
  ASSUME TableInv
  PROVE  /\ IsFiniteSet(Greeted) /\ Cardinality(Greeted) \in Nat
         /\ Greeted \subseteq 1..MaxConns
         /\ IsFiniteSet(1..MaxConns) /\ Cardinality(1..MaxConns) = MaxConns
<1>1. DOMAIN conns \subseteq 1..MaxConns /\ MaxConns \in Nat
  BY PeerTableAssumption DEF TableInv, ReadInv
<1>2. IsFiniteSet(1..MaxConns) /\ Cardinality(1..MaxConns) = MaxConns
  BY <1>1, FS_Interval
<1>3. Greeted \subseteq 1..MaxConns
  BY <1>1 DEF Greeted
<1>. QED
  BY <1>2, <1>3, FS_Subset, FS_CardinalityType

\* A connection that says who it is comes to those that have done so.
LEMMA OneMoreGreeted ==
  ASSUME TableInv, NEW c \in DOMAIN conns, Greeting(c),
         DOMAIN conns' = DOMAIN conns, conns'[c].state \in {"reading", "ended"},
         \A d \in DOMAIN conns \ {c} : conns'[d] = conns[d]
  PROVE  /\ Cardinality(Greeted') = Cardinality(Greeted) + 1
         /\ Cardinality(Greeted) < MaxConns
<1>1. Greeted' = Greeted \cup {c} /\ c \notin Greeted
  BY DEF Greeted, Greeting
<1>2. Cardinality(Greeted') = Cardinality(Greeted) + 1
  BY <1>1, GreetedAreFinite, FS_AddElement
<1>3. Greeted' \subseteq 1..MaxConns
  BY <1>1, GreetedAreFinite, PeerTableAssumption DEF TableInv, ReadInv
<1>4. Cardinality(Greeted') <= MaxConns
  <2>1. IsFiniteSet(1..MaxConns) /\ Cardinality(1..MaxConns) = MaxConns
    BY GreetedAreFinite
  <2>. QED
    BY <1>3, <2>1, FS_Subset
<1>. QED
  BY <1>2, <1>4, GreetedAreFinite, PeerTableAssumption

\* Without a rebuild an assignment moves nobody.
LEMMA EnteredKeepsPlaces ==
  ASSUME ReadInv, NEW id \in Peers, NEW c \in Nat, Len(peers) < Usable,
         NEW table \in Entered(peers, id, c)
  PROVE  Keeps(table, {}) /\ Len(table) <= Len(peers) + 1
<1>. DEFINE new == [peer |-> id, conn |-> c]
            replaced == [i \in DOMAIN peers |->
                           IF peers[i] # Hole /\ peers[i].peer = id THEN new ELSE peers[i]]
<1>1. new \in AnyEntry /\ new # Hole /\ new.peer = id
  BY PeerTableAssumption DEF AnyEntry
<1>2. Len(peers) \in Nat /\ DOMAIN peers = 1..Len(peers) /\ peers \in Seq(AnyEntry \cup {Hole})
  BY DEF ReadInv
<1>3. CASE id \in Ids(peers)
  <2>1. table = replaced
    BY <1>3 DEF Entered
  <2>. HIDE DEF new
  <2>2. DOMAIN table = DOMAIN peers /\ table \in [1..Len(peers) -> AnyEntry \cup {Hole}]
    BY <1>1, <1>2, <2>1
  <2>3. Len(table) = Len(peers)
    BY <1>2, <2>2
  <2>. QED
    BY <1>1, <1>2, <2>1, <2>2, <2>3 DEF Keeps
<1>4. CASE id \notin Ids(peers)
  <2>1. table = Append(peers, new)
    BY <1>2, <1>4, PeerTableAssumption DEF Entered
  <2>. HIDE DEF new
  <2>2. DOMAIN peers \subseteq DOMAIN table /\ (\A i \in DOMAIN peers : table[i] = peers[i])
        /\ Len(table) = Len(peers) + 1
    BY <1>1, <1>2, <2>1
  <2>. QED
    BY <1>2, <2>2 DEF Keeps
<1>. QED
  BY <1>3, <1>4

LEMMA PoppedKeepsPlaces ==
  ASSUME ReadInv, NEW id
  PROVE  Keeps(Popped(peers, id), {id}) /\ Len(Popped(peers, id)) = Len(peers)
<1>1. Len(peers) \in Nat /\ DOMAIN peers = 1..Len(peers) /\ DOMAIN Popped(peers, id) = DOMAIN peers
  BY DEF ReadInv, Popped
<1>2. Popped(peers, id) \in Seq(AnyEntry \cup {Hole})
  BY PoppedEntries DEF ReadInv
<1>3. Len(Popped(peers, id)) = Len(peers)
  BY <1>1, <1>2
<1>4. Keeps(Popped(peers, id), {id})
  BY DEF Keeps, Popped
<1>. QED
  BY <1>3, <1>4

\* A change of the table under a broadcast that forgets those who left.
LEMMA OwedStay ==
  ASSUME RoundInv, NEW ids, Keeps(peers', ids), NEW k \in Tasks,
         task'[k].at = task[k].at, task'[k].pos = task[k].pos,
         task'[k].untried = task[k].untried \ ids
  PROVE  /\ task'[k].at \in {"iterate", "send"} => Owes(k)'
         /\ task'[k].at = "clean" => task'[k].untried = {}
BY DEF RoundInv, Owes, Keeps

LEMMA RoundInit == Init => RoundInv
<1>. SUFFICES ASSUME Init PROVE RoundInv
  OBVIOUS
<1>1. TableInv
  BY TableInit
<1>2. Len(peers) = 0 /\ \A k \in Tasks : task[k].at = "idle"
  BY DEF Init, Idle
<1>. QED
  BY <1>1, <1>2, GreetedAreFinite DEF RoundInv

\* The iterator goes on with the nearest entry, so it passes nobody.
LEMMA IteratorPassesNobody ==
  ASSUME RoundInv, NEW k \in Tasks, NextPeer(k)
  PROVE  Owes(k)'
<1>. DEFINE i == CHOOSE j \in Ahead(k) : \A l \in Ahead(k) : j <= l
<1>1. Ahead(k) \in SUBSET Nat /\ Ahead(k) # {}
  BY DEF NextPeer, Ahead, RoundInv, TableInv, ReadInv
<1>2. i \in Ahead(k) /\ \A l \in Ahead(k) : i <= l
  BY <1>1, LeastNumber
<1>3. /\ task'[k].pos = i + 1 /\ task'[k].untried = task[k].untried \ {peers[i].peer}
      /\ UNCHANGED peers
  <2>. DEFINE conn == peers[i].conn
              rest == task[k].left - 1
              owed == task[k].untried \ {peers[i].peer}
              next == i + 1
              r == [task[k] EXCEPT !.at = "send", !.pos = next, !.left = rest, !.conn = conn,
                                   !.untried = owed]
  <2>1. task' = [task EXCEPT ![k] = r] /\ UNCHANGED peers
    BY DEF NextPeer
  <2>2. task[k] \in TaskState /\ DOMAIN task = Tasks
    BY DEF RoundInv, TableInv
  <2>. HIDE DEF next, rest, conn, owed
  <2>3. r.pos = next /\ r.untried = owed
    BY <2>2 DEF TaskState
  <2>. HIDE DEF r
  <2>4. task'[k] = r
    BY <2>1, <2>2
  <2>. QED
    BY <2>1, <2>3, <2>4 DEF next, owed
<1>4. ASSUME NEW p \in task[k].untried \ {peers[i].peer}
      PROVE  \E j \in DOMAIN peers : j >= i + 1 /\ peers[j] # Hole /\ peers[j].peer = p
  <2>1. PICK j \in DOMAIN peers : j >= task[k].pos /\ peers[j] # Hole /\ peers[j].peer = p
    BY DEF RoundInv, Owes, NextPeer
  <2>2. j \in Ahead(k) /\ j # i
    BY <1>4, <2>1 DEF Ahead
  <2>. HIDE DEF i
  <2>3. j >= i + 1
    BY <1>1, <1>2, <2>2
  <2>. QED
    BY <2>1, <2>3
<1>. HIDE DEF i
<1>. QED
  BY <1>3, <1>4 DEF Owes

\* The steps of a broadcast that leave the table alone.
LEMMA BroadcastOwes ==
  ASSUME RoundInv, NEW k \in Tasks, BeginBroadcast(k) \/ Broadcast(k), \A p \in Peers : ~CleanUp(k, p)
  PROVE  /\ UNCHANGED <<conns, peers>>
         /\ \A j \in Tasks \ {k} : task'[j] = task[j]
         /\ task'[k].at \in {"iterate", "send"} => Owes(k)'
         /\ task'[k].at = "clean" => task'[k].untried = {}
<1>1. UNCHANGED <<conns, peers>>
  BY BroadcastReads
<1>2. task \in [Tasks -> TaskState] /\ task[k] \in TaskState
  BY DEF RoundInv, TableInv
<1>3. \A j \in Tasks \ {k} : task'[j] = task[j]
  BY <1>2 DEF Broadcast, BeginBroadcast, IterationRaises, NextPeer, IterationEnds, SendSucceeds,
              SendFails, EndBroadcast
<1>. DEFINE Good == /\ task'[k].at \in {"iterate", "send"} => Owes(k)'
                    /\ task'[k].at = "clean" => task'[k].untried = {}
<1>4. ASSUME BeginBroadcast(k) PROVE Good
  <2>. DEFINE size == Size(peers)
              ids == Ids(peers)
              r == [Idle EXCEPT !.at = "iterate", !.size = size, !.left = size, !.untried = ids]
  <2>1. task' = [task EXCEPT ![k] = r]
    BY <1>4 DEF BeginBroadcast
  <2>2. r.at = "iterate" /\ r.pos = 1 /\ r.untried = ids
    BY DEF Idle
  <2>. HIDE DEF r
  <2>3. task'[k] = r
    BY <1>2, <2>1
  <2>4. \A p \in Ids(peers) : \E i \in DOMAIN peers : i >= 1 /\ peers[i] # Hole /\ peers[i].peer = p
    BY DEF Ids, Entries, RoundInv, TableInv, ReadInv
  <2>. QED
    BY <1>1, <2>2, <2>3, <2>4 DEF Owes
<1>5. ASSUME IterationRaises(k) \/ EndBroadcast(k) PROVE Good
  <2>1. task'[k] = Idle
    BY <1>2, <1>5 DEF IterationRaises, EndBroadcast
  <2>. QED
    BY <2>1 DEF Idle
<1>6. ASSUME NextPeer(k) PROVE Good
  <2>1. task'[k].at = "send"
    BY <1>2, <1>6 DEF NextPeer, TaskState
  <2>. QED
    BY <1>6, <2>1, IteratorPassesNobody
<1>7. ASSUME IterationEnds(k) PROVE Good
  <2>1. task'[k].untried = task[k].untried /\ task'[k].at = "clean"
    BY <1>2, <1>7 DEF IterationEnds, Idle
  <2>2. task[k].untried = {}
    BY <1>7 DEF IterationEnds, RoundInv, Owes, Ahead
  <2>. QED
    BY <2>1, <2>2
<1>8. ASSUME SendSucceeds(k) \/ SendFails(k) PROVE Good
  <2>1. /\ task[k].at = "send" /\ task'[k].at = "iterate"
        /\ task'[k].pos = task[k].pos /\ task'[k].untried = task[k].untried
    <3>1. CASE SendSucceeds(k)
      BY <1>2, <3>1 DEF SendSucceeds, TaskState
    <3>2. CASE SendFails(k)
      <4>. DEFINE failed == task[k].failed \cup {conns[task[k].conn].peer}
                  r == [task[k] EXCEPT !.at = "iterate", !.conn = 0, !.failed = failed]
      <4>1. task' = [task EXCEPT ![k] = r] /\ task[k].at = "send"
        BY <3>2 DEF SendFails, AfterFailedSend
      <4>. HIDE DEF failed
      <4>2. r.at = "iterate" /\ r.pos = task[k].pos /\ r.untried = task[k].untried
        BY <1>2 DEF TaskState
      <4>. HIDE DEF r
      <4>. QED
        BY <1>2, <4>1, <4>2
    <3>. QED
      BY <1>8, <3>1, <3>2
  <2>. QED
    BY <1>1, <2>1 DEF RoundInv, Owes
<1>9. Good
  BY <1>4, <1>5, <1>6, <1>7, <1>8 DEF Broadcast
<1>. QED
  BY <1>1, <1>3, <1>9

LEMMA RoundStep == ASSUME NeverRebuilt, RoundInv, [Next]_vars PROVE RoundInv'
<1>. DEFINE Fair == \A k \in Tasks : /\ task[k].at \in {"iterate", "send"} => Owes(k)
                                     /\ task[k].at = "clean" => task[k].untried = {}
<1>1. TableInv /\ TableInv' /\ task \in [Tasks -> TaskState]
  BY TableStep DEF RoundInv, TableInv
<1>2. Len(peers) \in Nat /\ Cardinality(Greeted) \in Nat /\ Len(peers) <= Cardinality(Greeted)
  BY <1>1, GreetedAreFinite DEF RoundInv, TableInv, ReadInv
<1>3. ASSUME UNCHANGED <<peers, task>> PROVE Fair'
  BY <1>3 DEF RoundInv, Owes
<1>4. ASSUME NEW id, Keeps(peers', {id}), task' = Left({id}) PROVE Fair'
  <2>1. \A k \in Tasks : /\ task'[k].at = task[k].at /\ task'[k].pos = task[k].pos
                         /\ task'[k].untried = task[k].untried \ {id}
    BY <1>1, <1>4, LeftIsTyped
  <2>. QED
    BY <1>4, <2>1, OwedStay
<1>5. ASSUME Fair', Len(peers') <= Cardinality(Greeted)' PROVE RoundInv'
  BY <1>1, <1>5 DEF RoundInv
<1>6. ASSUME UNCHANGED conns PROVE UNCHANGED Greeted
  BY <1>6 DEF Greeted, Greeting
<1>7. ASSUME NEW p \in Peers, Dial(p) \/ DialRefused(p) \/ Accept(p) PROVE RoundInv'
  <2>1. UNCHANGED <<peers, task>>
    BY <1>7 DEF Dial, DialRefused, Accept
  <2>2. ASSUME NEW state \in {"dialling", "accepting"}, Open(p, state) PROVE UNCHANGED Greeted
    <3>1. conns' = Append(conns, [peer |-> p, state |-> state]) /\ conns \in Seq(Connection)
      BY <1>1, <2>2 DEF Open, TableInv, ReadInv
    <3>2. /\ DOMAIN conns' = DOMAIN conns \cup {Len(conns) + 1}
          /\ \A c \in DOMAIN conns : conns'[c] = conns[c]
          /\ conns'[Len(conns) + 1].state = state /\ Len(conns) + 1 \notin DOMAIN conns
      BY <3>1
    <3>. QED
      BY <3>2 DEF Greeted, Greeting
  <2>3. UNCHANGED Greeted
    BY <1>6, <1>7, <2>2 DEF Dial, DialRefused, Accept
  <2>. QED
    BY <1>2, <1>3, <1>5, <2>1, <2>3
<1>8. ASSUME NEW c \in DOMAIN conns, Register(c) PROVE RoundInv'
  <2>1. /\ Greeting(c) /\ UNCHANGED task /\ peers' \in Entered(peers, conns[c].peer, c)
        /\ conns' = [conns EXCEPT ![c].state = "reading"]
    BY <1>8 DEF Register
  <2>2. /\ c \in Nat /\ conns[c].peer \in Peers
        /\ Cardinality(Greeted') = Cardinality(Greeted) + 1 /\ Cardinality(Greeted) < MaxConns
    BY <1>1, <2>1, ChangedConnection, OneMoreGreeted DEF TableInv, ReadInv
  <2>3. Len(peers) < Usable
    BY <1>2, <2>2, PeerTableAssumption DEF NeverRebuilt
  <2>4. Keeps(peers', {}) /\ Len(peers') <= Len(peers) + 1
    BY <1>1, <2>1, <2>2, <2>3, EnteredKeepsPlaces DEF TableInv
  <2>5. \A k \in Tasks : task'[k].untried = task[k].untried \ {}
    BY <2>1
  <2>6. Fair'
    BY <2>1, <2>4, <2>5, OwedStay
  <2>7. Len(peers') \in Nat
    BY <1>1 DEF TableInv, ReadInv
  <2>. QED
    BY <1>2, <1>5, <2>2, <2>4, <2>6, <2>7
<1>9. ASSUME NEW c \in DOMAIN conns, GreetingFails(c) PROVE RoundInv'
  <2>1. Greeting(c) /\ UNCHANGED <<task, peers>> /\ conns' = [conns EXCEPT ![c].state = "ended"]
    BY <1>9 DEF GreetingFails, AfterFailedGreeting
  <2>2. Cardinality(Greeted') = Cardinality(Greeted) + 1
    BY <1>1, <2>1, ChangedConnection, OneMoreGreeted DEF TableInv, ReadInv
  <2>. QED
    BY <1>2, <1>3, <1>5, <2>1, <2>2
<1>10. ASSUME NEW c \in DOMAIN conns, ReaderEnds(c) PROVE RoundInv'
  <2>1. /\ conns[c].state = "reading" /\ conns' = [conns EXCEPT ![c].state = "ended"]
        /\ peers' = Popped(peers, conns[c].peer) /\ task' = Left({conns[c].peer})
    BY <1>10 DEF ReaderEnds, AfterReading
  <2>2. /\ DOMAIN conns' = DOMAIN conns /\ conns'[c].state = "ended"
        /\ \A d \in DOMAIN conns \ {c} : conns'[d] = conns[d]
    BY <1>1, <2>1, ChangedConnection DEF TableInv, ReadInv
  <2>3. UNCHANGED Greeted
    BY <2>1, <2>2 DEF Greeted, Greeting
  <2>4. Keeps(peers', {conns[c].peer}) /\ Len(peers') = Len(peers)
    BY <1>1, <2>1, PoppedKeepsPlaces DEF TableInv
  <2>. QED
    BY <1>2, <1>4, <1>5, <2>1, <2>3, <2>4
<1>11. ASSUME NEW c \in DOMAIN conns, Cut(c) \/ StopCloses(c) PROVE RoundInv'
  BY <1>2, <1>3, <1>5, <1>6, <1>11 DEF Cut, StopCloses
<1>12. ASSUME NEW k \in Tasks, BeginBroadcast(k) \/ Broadcast(k) PROVE RoundInv'
  <2>1. CASE \A p \in Peers : ~CleanUp(k, p)
    <3>1. /\ UNCHANGED <<conns, peers>>
          /\ \A j \in Tasks \ {k} : task'[j] = task[j]
          /\ task'[k].at \in {"iterate", "send"} => Owes(k)'
          /\ task'[k].at = "clean" => task'[k].untried = {}
      BY <1>12, <2>1, BroadcastOwes
    <3>2. Fair'
      BY <3>1 DEF RoundInv, Owes
    <3>. QED
      BY <1>2, <1>5, <1>6, <3>1, <3>2
  <2>2. ASSUME NEW p \in Peers, CleanUp(k, p) PROVE RoundInv'
    <3>1. /\ peers' = Popped(peers, p) /\ UNCHANGED conns
          /\ task' = [Left({p}) EXCEPT ![k].failed = @ \ {p}]
      BY <2>2 DEF CleanUp
    <3>2. Keeps(peers', {p}) /\ Len(peers') = Len(peers)
      BY <1>1, <3>1, PoppedKeepsPlaces DEF TableInv
    <3>3. \A j \in Tasks : /\ task'[j].untried = Left({p})[j].untried
                           /\ task'[j].at = Left({p})[j].at /\ task'[j].pos = Left({p})[j].pos
      BY <1>1, <3>1, LeftIsTyped DEF TaskState
    <3>4. Fair'
      BY <1>1, <3>2, <3>3, LeftIsTyped, OwedStay
    <3>. QED
      BY <1>2, <1>5, <1>6, <3>1, <3>2, <3>4
  <2>. QED
    BY <2>1, <2>2
<1>13. CASE Stop
  BY <1>2, <1>3, <1>5, <1>6, <1>13 DEF Stop
<1>14. CASE StopEnds
  <2>1. UNCHANGED conns /\ peers' = <<>> /\ task' = Left(Peers)
    BY <1>14 DEF StopEnds
  <2>2. \A k \in Tasks : task'[k].untried = {}
    BY <1>1, <2>1, LeftIsTyped DEF TaskState
  <2>3. Fair'
    BY <2>2 DEF Owes
  <2>. QED
    BY <1>2, <1>5, <1>6, <2>1, <2>3
<1>15. CASE UNCHANGED vars
  BY <1>2, <1>3, <1>5, <1>6, <1>15 DEF vars
<1>. QED
  BY <1>7, <1>8, <1>9, <1>10, <1>11, <1>12, <1>13, <1>14, <1>15 DEF Next

\* As long as the dict has room for all connections there have been: a broadcast that ends
\* its loop has tried every peer that was in the table all along, whoever comes, goes and
\* fails meanwhile, for any number of broadcasts (p2p.py:208-213).
THEOREM BroadcastGoesRound ==
  ASSUME NeverRebuilt
  PROVE  Spec => []BroadcastReachesAll
<1>1. RoundInv => BroadcastReachesAll
  BY DEF RoundInv, BroadcastReachesAll
<1>. QED
  BY <1>1, RoundInit, RoundStep, PTL DEF Spec
=============================================================================
