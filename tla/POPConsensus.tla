---------------------------- MODULE POPConsensus ----------------------------
(***************************************************************************)
(* The two-phase POP consensus of consensus/pop.py as main.py wires it: a  *)
(* leader task and message handlers on every node, the ledger and mempool  *)
(* they share, and the broadcasts between nodes.                           *)
(*                                                                         *)
(* A step is what an asyncio task does between two awaits that may really  *)
(* suspend: the sleep and the two waits of the leader task, and the await  *)
(* of the block callback (TableSync).  PROPOSING is entered and left in one*)
(* such step and is never seen.                                            *)
(*                                                                         *)
(* Messages are delivered in any order, or never: peers that dial each     *)
(* other hold two connections and P2PNetwork keeps one of them per peer    *)
(* under the node id, so consecutive broadcasts may take different sockets,*)
(* and a failed send is logged and dropped (p2p.py:208-219).               *)
(***************************************************************************)
EXTENDS Integers, FiniteSets, Sequences

CONSTANTS
  Nodes,        \* node identifiers
  Linked,       \* the nodes each node is connected to: dialled by it or by them
  Leaders,      \* nodes started with is_leader (a static flag of each node)
  TotalNodes,   \* total_nodes of every node: max(len(peers) + 1, 3) in main.py
  Clients,      \* nodes that clients send transactions to
  Txs,          \* transactions; each is submitted to one node at most once
  Seconds,      \* values of int(time.time()) that block hashes can tell apart
  BlockVoters,  \* peers that answer a block with VOTE_BLOCK; no code in src does
  MayStop,      \* nodes whose engine may be stopped
  MayRestart,   \* nodes whose process may be replaced by a new one
  MayRaise,     \* leaders whose broadcast may raise out of the task
  MayDuplicate, \* a broadcast that waits for a slow peer while another reconnects
                \* visits that one twice (p2p.py:208)
  SwallowCancel,\* asyncio.wait_for of Python 3.10 and 3.11 returns a finished
                \* wait although its task was cancelled; 3.12 does not
  Synchronous,  \* delays stay below consensus_timeout and block_interval, and every
                \* pair of nodes keeps to one TCP connection, which is FIFO
  MaxRound,     \* bound: rounds of a leader (the counter saturates there)
  MaxBoots,     \* bound: restarts of a node
  NoVote, NoProposal, NoBlock, NoId

ASSUME POPAssumption ==
  /\ IsFiniteSet(Nodes) /\ Leaders \subseteq Nodes /\ BlockVoters \subseteq Nodes
  /\ Clients \subseteq Nodes
  /\ MayStop \subseteq Nodes /\ MayRestart \subseteq Nodes /\ MayRaise \subseteq Nodes
  /\ TotalNodes \in Nat /\ MaxRound \in Nat /\ MaxBoots \in Nat
  /\ Seconds \subseteq Nat /\ Seconds # {}
  /\ Linked \in [Nodes -> SUBSET Nodes]
  /\ MayDuplicate \in BOOLEAN /\ SwallowCancel \in BOOLEAN /\ Synchronous \in BOOLEAN

-----------------------------------------------------------------------------
(***************************************************************************)
(* Blocks.  SHA-256 is taken to be collision free, so a block hash stands  *)
(* for all that was hashed: the header and, through prev_hash, every header*)
(* before it.  The proposer is not hashed (block.py:89).  tx_root is a     *)
(* function of the transactions; their order within a block is left out.   *)
(***************************************************************************)
StateRoot == Seq(SUBSET Txs)

Header == [block_number : Nat, transactions : SUBSET Txs,
           state_root : StateRoot, timestamp : Seconds]

Block == [block_number : Nat, prev_hash : Seq(Header), transactions : SUBSET Txs,
          state_root : StateRoot, timestamp : Seconds, proposer : Nodes]

BlockHash(b) ==
  Append(b.prev_hash, [block_number |-> b.block_number, transactions |-> b.transactions,
                       state_root |-> b.state_root, timestamp |-> b.timestamp])

\* Mutant of Genesis: numbered as the block before the first.
GenesisMinusOne(n, second) ==
  [block_number |-> -1, prev_hash |-> <<>>, transactions |-> {}, state_root |-> <<>>,
   timestamp |-> second, proposer |-> n]

Genesis(n, second) ==
  [block_number |-> 0, prev_hash |-> <<>>, transactions |-> {}, state_root |-> <<>>,
   timestamp |-> second, proposer |-> n]

Tip(ledger) == ledger[Len(ledger)]

\* Mutant of Accepts: any newer block is appended.
AcceptsNewer(ledger, b) == b.block_number > Tip(ledger).block_number

\* The two checks of Ledger.append_block; a failing one raises ValueError.
Accepts(ledger, b) ==
  /\ b.block_number = Tip(ledger).block_number + 1
  /\ b.prev_hash = BlockHash(Tip(ledger))

\* Transactions recorded in a ledger.
Recorded(ledger) == UNION {ledger[i].transactions : i \in 1..Len(ledger)}

-----------------------------------------------------------------------------
\* f"{node_id}_{round}_{int(time)}": the boot count stands for the time part.
ProposalId == [leader : Nodes, round : 0..MaxRound, boot : 0..MaxBoots]

Proposal == [proposal_id : ProposalId, transactions : SUBSET Txs]

VC == INSTANCE VoteCollector WITH
        Voters <- Nodes, ProposalIds <- ProposalId \cup {NoId}

Approval(id) == [proposal_id |-> id, approve |-> TRUE]

\* dict.get tells a recorded vote from none.
ASSUME NoVoteAssumption == NoVote \notin VC!Vote

\* The leader broadcasts its block under msg_type VOTE_TXSET as well (pop.py:281);
\* its payload is not a Vote, so it is a kind of its own here.
Message ==
       [kind : {"PROPOSAL"}, src : Nodes, dst : Nodes, proposal : Proposal]
  \cup [kind : {"VOTE_TXSET", "VOTE_BLOCK"}, src : Nodes, dst : Nodes, vote : VC!Vote]
  \cup [kind : {"BLOCK_UNDER_VOTE_TXSET"}, src : Nodes, dst : Nodes, id : ProposalId]
  \cup [kind : {"NEW_BLOCK"}, src : Nodes, dst : Nodes, block : Block]

Peers(n) == Linked[n] \ {n}

VARIABLES
  state,             \* ConsensusState of each node
  current_round, current_proposal, current_block,
  txset_collector, block_collector,
  txset_event, block_event,
  running,           \* _running
  pc,                \* where the leader task is suspended
  chain,             \* the ledger: its blocks in order, genesis first
  state_root_cache,
  mempool,
  syncing,           \* blocks whose on_block handler awaits the callback
  msgs,              \* messages sent and not yet handled
  fresh,             \* transactions no client has submitted yet
  boots              \* restarts of each node

roundVars  == <<current_round, current_proposal, txset_collector, txset_event>>
blockVars  == <<current_block, block_collector, block_event>>
ledgerVars == <<chain, state_root_cache, syncing>>
lifeVars   == <<running, boots>>
vars == <<state, roundVars, blockVars, pc, ledgerVars, lifeVars, mempool, msgs, fresh>>

States == {"IDLE", "TXSET_VOTING", "BLOCK_VOTING", "COMMITTING"}

Places == {"none", "sleep", "txset_wait", "block_wait", "callback", "dead", "stopped"}

TypeOK ==
  /\ state \in [Nodes -> States]
  /\ current_round \in [Nodes -> 0..MaxRound]
  /\ current_proposal \in [Nodes -> Proposal \cup {NoProposal}]
  /\ current_block \in [Nodes -> Block \cup {NoBlock}]
  /\ txset_collector \in [Nodes -> VC!Collector]
  /\ block_collector \in [Nodes -> VC!Collector]
  /\ txset_event \in [Nodes -> BOOLEAN] /\ block_event \in [Nodes -> BOOLEAN]
  /\ running \in [Nodes -> BOOLEAN]
  /\ pc \in [Nodes -> Places]
  /\ chain \in [Nodes -> Seq(Block) \ {<<>>}]
  /\ state_root_cache \in [Nodes -> StateRoot]
  /\ mempool \in [Nodes -> SUBSET Txs]
  /\ syncing \in [Nodes -> SUBSET Block]
  /\ msgs \subseteq Message
  /\ fresh \subseteq Txs
  /\ boots \in [Nodes -> 0..MaxBoots]

Home(n) == IF n \in Leaders THEN "sleep" ELSE "none"

\* create_app and start: genesis stamped with the second of the node's own start.
Init ==
  /\ state = [n \in Nodes |-> "IDLE"]
  /\ current_round = [n \in Nodes |-> 0]
  /\ current_proposal = [n \in Nodes |-> NoProposal]
  /\ current_block = [n \in Nodes |-> NoBlock]
  /\ txset_collector = [n \in Nodes |-> VC!Reset(NoId)]
  /\ block_collector = [n \in Nodes |-> VC!Reset(NoId)]
  /\ txset_event = [n \in Nodes |-> FALSE]
  /\ block_event = [n \in Nodes |-> FALSE]
  /\ running = [n \in Nodes |-> TRUE]
  /\ pc = [n \in Nodes |-> Home(n)]
  /\ \E clock \in [Nodes -> Seconds] : chain = [n \in Nodes |-> <<Genesis(n, clock[n])>>]
  /\ state_root_cache = [n \in Nodes |-> <<>>]
  /\ mempool = [n \in Nodes |-> {}]
  /\ syncing = [n \in Nodes |-> {}]
  /\ msgs = {}
  /\ fresh = Txs
  /\ boots = [n \in Nodes |-> 0]

-----------------------------------------------------------------------------
\* A client's transaction enters the mempool of the node it was sent to.
Submit(n, tx) ==
  /\ tx \in fresh
  /\ fresh' = fresh \ {tx}
  /\ mempool' = [mempool EXCEPT ![n] = @ \cup {tx}]
  /\ UNCHANGED <<state, roundVars, blockVars, pc, ledgerVars, lifeVars, msgs>>

\* Under Synchronous the block interval outlasts every message and callback.
Quiet == msgs = {} /\ \A n \in Nodes : syncing[n] = {}

NextRound(n) == IF current_round[n] < MaxRound THEN current_round[n] + 1 ELSE MaxRound

\* Mutant of FreshEvent: the event keeps what an earlier round left in it.
StaleEvent(event, tally) == event \/ VC!HasConsensus(tally)

\* The event of a phase that starts: cleared, and set again if the leader's own vote
\* is a quorum already.
FreshEvent(event, tally) == VC!HasConsensus(tally)

\* _leader_loop wakes up idle with work: _propose_transactions up to its wait.
Propose(n) ==
  /\ pc[n] = "sleep" /\ state[n] = "IDLE" /\ mempool[n] # {}
  /\ IF Synchronous THEN Quiet ELSE current_round[n] < MaxRound
  /\ LET id       == [leader |-> n, round |-> NextRound(n), boot |-> boots[n]]
         proposal == [proposal_id |-> id, transactions |-> mempool[n]]
         tally    == VC!AddVote(VC!Reset(id), n, Approval(id))
     IN  /\ current_round' = [current_round EXCEPT ![n] = NextRound(n)]
         /\ current_proposal' = [current_proposal EXCEPT ![n] = proposal]
         /\ txset_collector' = [txset_collector EXCEPT ![n] = tally]
         /\ txset_event' = [txset_event EXCEPT ![n] = FreshEvent(@, tally)]
         /\ msgs' = msgs \cup
              {[kind |-> "PROPOSAL", src |-> n, dst |-> p, proposal |-> proposal] : p \in Peers(n)}
  /\ state' = [state EXCEPT ![n] = "TXSET_VOTING"]
  /\ pc' = [pc EXCEPT ![n] = "txset_wait"]
  /\ UNCHANGED <<blockVars, ledgerVars, lifeVars, mempool, fresh>>

\* The leader task is done with a round: it sleeps again, or ends after stop().
AfterRound(n) == IF running[n] THEN "sleep" ELSE "stopped"

\* consensus_timeout expires.  A timer that fires together with the last vote wins
\* or loses: only delays that are short compared to it rule the timeout out.
MayTimeOut(event) == Synchronous => msgs = {} /\ ~event

TxSetTimeout(n) ==
  /\ pc[n] = "txset_wait" /\ MayTimeOut(txset_event[n])
  /\ state' = [state EXCEPT ![n] = "IDLE"]
  /\ pc' = [pc EXCEPT ![n] = AfterRound(n)]
  /\ UNCHANGED <<roundVars, blockVars, ledgerVars, lifeVars, mempool, msgs, fresh>>

\* H(cache + H(transactions)): what was recorded so far, and these on top.
NextStateRoot(n) == Append(state_root_cache[n], current_proposal[n].transactions)

\* Mutant of NextBlock: numbered like the tip it follows.
NextBlockSameNumber(n, second) ==
  [block_number |-> Tip(chain[n]).block_number,
   prev_hash    |-> BlockHash(Tip(chain[n])),
   transactions |-> current_proposal[n].transactions,
   state_root   |-> NextStateRoot(n),
   timestamp    |-> second,
   proposer     |-> n]

NextBlock(n, second) ==
  [block_number |-> Tip(chain[n]).block_number + 1,
   prev_hash    |-> BlockHash(Tip(chain[n])),
   transactions |-> current_proposal[n].transactions,
   state_root   |-> NextStateRoot(n),
   timestamp    |-> second,
   proposer     |-> n]

\* _on_txset_approved up to its wait.  current_proposal is never None here.
TxSetApproved(n) ==
  /\ pc[n] = "txset_wait" /\ txset_event[n]
  /\ LET id    == current_proposal[n].proposal_id
         tally == VC!AddVote(VC!Reset(id), n, Approval(id))
     IN  /\ \E second \in Seconds :
              current_block' = [current_block EXCEPT ![n] = NextBlock(n, second)]
         /\ block_collector' = [block_collector EXCEPT ![n] = tally]
         /\ block_event' = [block_event EXCEPT ![n] = FreshEvent(@, tally)]
         /\ msgs' = msgs \cup
              {[kind |-> "BLOCK_UNDER_VOTE_TXSET", src |-> n, dst |-> p, id |-> id] : p \in Peers(n)}
  /\ state' = [state EXCEPT ![n] = "BLOCK_VOTING"]
  /\ pc' = [pc EXCEPT ![n] = "block_wait"]
  /\ UNCHANGED <<roundVars, ledgerVars, lifeVars, mempool, fresh>>

BlockTimeout(n) ==
  /\ pc[n] = "block_wait" /\ MayTimeOut(block_event[n])
  /\ state' = [state EXCEPT ![n] = "IDLE"]
  /\ pc' = [pc EXCEPT ![n] = AfterRound(n)]
  /\ UNCHANGED <<roundVars, blockVars, ledgerVars, lifeVars, mempool, msgs, fresh>>

\* Mutants of Record: the transactions stay in the mempool; the root cache is stale.
RecordKeepsMempool(n, b) ==
  /\ chain' = [chain EXCEPT ![n] = Append(@, b)]
  /\ state_root_cache' = [state_root_cache EXCEPT ![n] = b.state_root]
  /\ UNCHANGED mempool

RecordKeepsRoot(n, b) ==
  /\ chain' = [chain EXCEPT ![n] = Append(@, b)]
  /\ mempool' = [mempool EXCEPT ![n] = @ \ b.transactions]
  /\ UNCHANGED state_root_cache

\* What _commit_block and on_block share: ledger, root cache and mempool change
\* together, before anything is awaited.
Record(n, b) ==
  /\ chain' = [chain EXCEPT ![n] = Append(@, b)]
  /\ state_root_cache' = [state_root_cache EXCEPT ![n] = b.state_root]
  /\ mempool' = [mempool EXCEPT ![n] = @ \ b.transactions]

\* _commit_block up to the await of the callback.
CommitBlock(n) ==
  /\ pc[n] = "block_wait" /\ block_event[n]
  /\ Accepts(chain[n], current_block[n])
  /\ Record(n, current_block[n])
  /\ state' = [state EXCEPT ![n] = "COMMITTING"]
  /\ pc' = [pc EXCEPT ![n] = "callback"]
  /\ UNCHANGED <<roundVars, blockVars, syncing, lifeVars, msgs, fresh>>

\* append_block raises inside _commit_block: nothing catches it, the task is gone.
CommitRaises(n) ==
  /\ pc[n] = "block_wait" /\ block_event[n]
  /\ ~Accepts(chain[n], current_block[n])
  /\ state' = [state EXCEPT ![n] = "COMMITTING"]
  /\ pc' = [pc EXCEPT ![n] = "dead"]
  /\ UNCHANGED <<roundVars, blockVars, ledgerVars, lifeVars, mempool, msgs, fresh>>

AnnounceBlock(n) ==
  msgs' = msgs \cup
    {[kind |-> "NEW_BLOCK", src |-> n, dst |-> p, block |-> current_block[n]] : p \in Peers(n)}

\* The callback returned (its exceptions are logged): the rest of _commit_block.
FinishCommit(n) ==
  /\ pc[n] = "callback"
  /\ AnnounceBlock(n)
  /\ current_proposal' = [current_proposal EXCEPT ![n] = NoProposal]
  /\ current_block' = [current_block EXCEPT ![n] = NoBlock]
  /\ state' = [state EXCEPT ![n] = "IDLE"]
  /\ pc' = [pc EXCEPT ![n] = AfterRound(n)]
  /\ UNCHANGED <<current_round, txset_collector, txset_event, block_collector,
                 block_event, ledgerVars, lifeVars, mempool, fresh>>

\* A peer that disconnects during a broadcast changes the dict being iterated: the
\* RuntimeError ends the leader task.  Some peers have the message, some do not.
BroadcastRaises(n) ==
  /\ n \in MayRaise
  /\ \/ pc[n] \in {"txset_wait", "block_wait"} /\ UNCHANGED msgs
     \/ pc[n] = "callback" /\ AnnounceBlock(n)
  /\ pc' = [pc EXCEPT ![n] = "dead"]
  /\ UNCHANGED <<state, roundVars, blockVars, ledgerVars, lifeVars, mempool, fresh>>

-----------------------------------------------------------------------------
\* The messages that are left when m is being handled.
Remaining(m) == {msgs \ {m}} \cup (IF MayDuplicate THEN {msgs} ELSE {})

Consume(m) == msgs' \in Remaining(m)

\* on_proposal: outside IDLE the proposal is dropped; the vote goes to all peers.
OnProposal(m) ==
  LET n  == m.dst
      id == m.proposal.proposal_id
  IN  IF state[n] # "IDLE"
      THEN /\ Consume(m)
           /\ UNCHANGED <<state, roundVars>>
      ELSE /\ \E left \in Remaining(m) : msgs' = left \cup
                {[kind |-> "VOTE_TXSET", src |-> n, dst |-> p, vote |-> Approval(id)] : p \in Peers(n)}
           /\ state' = [state EXCEPT ![n] = "TXSET_VOTING"]
           /\ current_proposal' = [current_proposal EXCEPT ![n] = m.proposal]
           /\ current_round' = [current_round EXCEPT ![n] = id.round]
           /\ txset_event' = [txset_event EXCEPT ![n] = FALSE]
           /\ txset_collector' = [txset_collector EXCEPT ![n] = VC!Reset(id)]

DeliverProposal(m) ==
  /\ m.kind = "PROPOSAL"
  /\ OnProposal(m)
  /\ UNCHANGED <<blockVars, pc, ledgerVars, lifeVars, mempool, fresh>>

\* on_vote, phase "txset": counted whatever the state and whatever it is a vote on.
DeliverTxSetVote(m) ==
  /\ m.kind = "VOTE_TXSET"
  /\ LET tally == VC!AddVote(txset_collector[m.dst], m.src, m.vote)
     IN  /\ txset_collector' = [txset_collector EXCEPT ![m.dst] = tally]
         /\ txset_event' = [txset_event EXCEPT ![m.dst] = @ \/ VC!HasConsensus(tally)]
  /\ Consume(m)
  /\ UNCHANGED <<state, current_round, current_proposal, blockVars, pc, ledgerVars,
                 lifeVars, mempool, fresh>>

\* on_vote, phase "block".
DeliverBlockVote(m) ==
  /\ m.kind = "VOTE_BLOCK"
  /\ LET tally == VC!AddVote(block_collector[m.dst], m.src, m.vote)
     IN  /\ block_collector' = [block_collector EXCEPT ![m.dst] = tally]
         /\ block_event' = [block_event EXCEPT ![m.dst] = @ \/ VC!HasConsensus(tally)]
  /\ Consume(m)
  /\ UNCHANGED <<state, roundVars, current_block, pc, ledgerVars, lifeVars, mempool, fresh>>

\* handle_vote_txset builds Vote(**payload) from the block payload: validation fails
\* and Router.route logs it.  A peer in BlockVoters answers; nothing in src does.
DeliverBlockUnderVote(m) ==
  /\ m.kind = "BLOCK_UNDER_VOTE_TXSET"
  /\ \E left \in Remaining(m) : msgs' = left \cup
       (IF m.dst \in BlockVoters
        THEN {[kind |-> "VOTE_BLOCK", src |-> m.dst, dst |-> m.src, vote |-> Approval(m.id)]}
        ELSE {})
  /\ UNCHANGED <<state, roundVars, blockVars, pc, ledgerVars, lifeVars, mempool, fresh>>

\* on_block up to the await of the callback; a ValueError is logged and nothing
\* else happens, not even the return to IDLE.
DeliverBlock(m) ==
  /\ m.kind = "NEW_BLOCK"
  /\ IF Accepts(chain[m.dst], m.block)
     THEN /\ Record(m.dst, m.block)
          /\ syncing' = [syncing EXCEPT ![m.dst] = @ \cup {m.block}]
     ELSE UNCHANGED <<ledgerVars, mempool>>
  /\ Consume(m)
  /\ UNCHANGED <<state, roundVars, blockVars, pc, lifeVars, fresh>>

\* Mutant of FinishSync: the follower does not return to IDLE.
FinishSyncKeepsState(n, b) ==
  /\ b \in syncing[n]
  /\ syncing' = [syncing EXCEPT ![n] = @ \ {b}]
  /\ UNCHANGED <<state, roundVars, blockVars, pc, chain, state_root_cache, lifeVars,
                 mempool, msgs, fresh>>

\* The rest of on_block, whatever the state has become in the meantime.
FinishSync(n, b) ==
  /\ b \in syncing[n]
  /\ syncing' = [syncing EXCEPT ![n] = @ \ {b}]
  /\ state' = [state EXCEPT ![n] = "IDLE"]
  /\ UNCHANGED <<roundVars, blockVars, pc, chain, state_root_cache, lifeVars, mempool,
                 msgs, fresh>>

\* The order in which a sender's messages of one round are written.
Stage == [PROPOSAL |-> 1, VOTE_TXSET |-> 2, BLOCK_UNDER_VOTE_TXSET |-> 3,
          VOTE_BLOCK |-> 4, NEW_BLOCK |-> 5]

InOrder(m) ==
  Synchronous => \A k \in msgs : k.src = m.src /\ k.dst = m.dst => Stage[m.kind] <= Stage[k.kind]

Handle(m) ==
  \/ DeliverProposal(m)
  \/ DeliverTxSetVote(m)
  \/ DeliverBlockVote(m)
  \/ DeliverBlockUnderVote(m)
  \/ DeliverBlock(m)

Deliver(m) == InOrder(m) /\ Handle(m)

-----------------------------------------------------------------------------
\* stop(): both events are set "to wake up any waiting coroutines so they can
\* exit", then the task is cancelled.  A wait that has just finished swallows the
\* cancellation where wait_for does, and stop() then waits for the task to end by
\* itself; every other suspension point ends the task.  Awaiting a task that has
\* died re-raises its exception out of stop(), before the state is reset.
Stop(n) ==
  /\ n \in MayStop /\ running[n]
  /\ running' = [running EXCEPT ![n] = FALSE]
  /\ txset_event' = [txset_event EXCEPT ![n] = TRUE]
  /\ block_event' = [block_event EXCEPT ![n] = TRUE]
  /\ IF \/ pc[n] = "dead"
        \/ SwallowCancel /\ pc[n] \in {"txset_wait", "block_wait"}
     THEN UNCHANGED <<state, pc>>
     ELSE /\ state' = [state EXCEPT ![n] = "IDLE"]
          /\ pc' = [pc EXCEPT ![n] = IF n \in Leaders THEN "stopped" ELSE "none"]
  /\ UNCHANGED <<current_round, current_proposal, txset_collector, current_block,
                 block_collector, ledgerVars, boots, mempool, msgs, fresh>>

\* The process ends and a new one starts: create_app builds an empty in-memory
\* ledger and mempool and a new genesis.  Its sockets are gone, and what was on
\* its way to it; what it had sent may still arrive.
Restart(n) ==
  /\ n \in MayRestart /\ boots[n] < MaxBoots
  /\ boots' = [boots EXCEPT ![n] = @ + 1]
  /\ \E second \in Seconds : chain' = [chain EXCEPT ![n] = <<Genesis(n, second)>>]
  /\ state_root_cache' = [state_root_cache EXCEPT ![n] = <<>>]
  /\ state' = [state EXCEPT ![n] = "IDLE"]
  /\ current_round' = [current_round EXCEPT ![n] = 0]
  /\ current_proposal' = [current_proposal EXCEPT ![n] = NoProposal]
  /\ current_block' = [current_block EXCEPT ![n] = NoBlock]
  /\ txset_collector' = [txset_collector EXCEPT ![n] = VC!Reset(NoId)]
  /\ block_collector' = [block_collector EXCEPT ![n] = VC!Reset(NoId)]
  /\ txset_event' = [txset_event EXCEPT ![n] = FALSE]
  /\ block_event' = [block_event EXCEPT ![n] = FALSE]
  /\ running' = [running EXCEPT ![n] = TRUE]
  /\ pc' = [pc EXCEPT ![n] = Home(n)]
  /\ mempool' = [mempool EXCEPT ![n] = {}]
  /\ syncing' = [syncing EXCEPT ![n] = {}]
  /\ msgs' = {m \in msgs : m.dst # n}
  /\ UNCHANGED fresh

-----------------------------------------------------------------------------
LeaderTask(n) ==
  \/ Propose(n)
  \/ TxSetTimeout(n)
  \/ TxSetApproved(n)
  \/ BlockTimeout(n)
  \/ CommitBlock(n)
  \/ CommitRaises(n)
  \/ FinishCommit(n)

Next ==
  \/ \E n \in Clients, tx \in Txs : Submit(n, tx)
  \/ \E n \in Leaders : LeaderTask(n)
  \/ \E m \in msgs : Deliver(m)
  \/ \E n \in Nodes : \E b \in syncing[n] : FinishSync(n, b)
  \/ \E n \in Leaders : BroadcastRaises(n)
  \/ \E n \in Nodes : Stop(n)
  \/ \E n \in Nodes : Restart(n)

Spec == Init /\ [][Next]_vars

\* The event loop runs every ready task; with Synchronous, TCP delivers what was sent.
FairSpec ==
  /\ Spec
  /\ \A n \in Leaders : WF_vars(LeaderTask(n))
  /\ \A n \in Nodes : WF_vars(\E m \in msgs : m.dst = n /\ Deliver(m))
  /\ \A n \in Nodes : WF_vars(\E b \in syncing[n] : FinishSync(n, b))

-----------------------------------------------------------------------------
(***************************************************************************)
(* Properties of one leader (docs/system_design.md:401 and 405: a static   *)
(* leader, and nobody else builds blocks).                                 *)
(***************************************************************************)

\* A node that does not lead never records a block the leader has not recorded, and
\* never in another position, whatever order NEW_BLOCK messages arrive in and
\* whichever are lost.  Genesis blocks are each node's own (main.py:81-84).
Agreement ==
  \A l \in Leaders, n \in Nodes :
    /\ Len(chain[n]) <= Len(chain[l])
    /\ \A i \in 2..Len(chain[n]) : chain[n][i] = chain[l][i]

\* The block a leader built before a vote still fits on its ledger when the vote is over:
\* append_block does not raise in the leader task, which nothing would restart, whether
\* rounds failed in between, the engine stops or a broadcast raised (pop.py:246-331).
BlockFits == \A l \in Leaders : pc[l] = "block_wait" => Accepts(chain[l], current_block[l])

\* The blocks of a ledger that record a transaction, and the mempools that hold it.
PlacesOf(tx, ledger) ==
  Cardinality({i \in 1..Len(ledger) : tx \in ledger[i].transactions})
    + Cardinality({n \in Nodes : tx \in mempool[n]})

\* A transaction a client has handed over is in one place: in one mempool, or in one block
\* of the leader's ledger.  A timeout, a late vote or a retried round does not lose it and
\* does not record it a second time (pop.py:180-214, 337-338).
TxConservation == \A l \in Leaders, tx \in Txs \ fresh : PlacesOf(tx, chain[l]) = 1

\* A leader records its block only while both collectors hold a quorum: no event
\* left over from an earlier round or phase lets a block through (pop.py:200, 262).
CommitNeedsQuorums ==
  [][ \A l \in Leaders : pc[l] = "block_wait" /\ pc'[l] = "callback" =>
        VC!HasConsensus(txset_collector[l]) /\ VC!HasConsensus(block_collector[l]) ]_vars

\* Every transaction the leader holds is eventually recorded by every node.
Finality ==
  \A l \in Leaders, tx \in Txs :
    tx \in mempool[l] ~> \A n \in Nodes : tx \in Recorded(chain[n])

\* A node that left IDLE comes back to it.  The leader does, by a timeout; a follower does
\* only by the NEW_BLOCK of its round, so this is false as soon as a round fails or that
\* message is lost (pop.py:373-377, 450).
ReturnsToIdle == \A n \in Nodes : state[n] # "IDLE" ~> state[n] = "IDLE"

\* "The proposal being voted on" (vote.py:24 and 46): the votes a collector counts
\* name the proposal it collects for.
VotesNameTheProposal ==
  \A n \in Nodes, v \in Nodes :
    LET entry == txset_collector[n].votes[v]
    IN  entry # NoVote => entry.proposal_id = txset_collector[n].proposal_id

(***************************************************************************)
(* Properties of any number of leaders, with restarts.                     *)
(***************************************************************************)

\* The incremental state root of every block on every node commits to exactly the
\* transactions of the blocks before it and of the block itself, in chain order:
\* the cache a leader builds on is never stale (pop.py:303-320, 334, 427).
RootsCommitToHistory ==
  \A n \in Nodes : \A i \in 1..Len(chain[n]) :
    chain[n][i].state_root = [j \in 1..i-1 |-> chain[n][j + 1].transactions]

\* A node that has recorded a block still has it later (system_design.md:48, 317:
\* a node recovers its state from the chain after a restart).
ChainSurvives == [][ \A n \in Nodes : Len(chain'[n]) >= Len(chain[n]) ]_vars
=============================================================================
