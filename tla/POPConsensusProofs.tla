------------------------- MODULE POPConsensusProofs -------------------------
(***************************************************************************)
(* POPConsensus keeps its types, for any number of nodes, transactions and *)
(* rounds, with any messages lost, duplicated or overtaken.                *)
(*                                                                         *)
(* With one leader that is not restarted, every other ledger is a copy of  *)
(* a prefix of the leader's, the leader's own append never raises, nothing *)
(* is recorded without its quorums, every transaction is in one mempool or *)
(* once on the leader's ledger, and the nodes implement ReplicatedChain.   *)
(* Followers may stop and restart, the leader may stop, broadcasts may     *)
(* raise.  State roots commit to the history they stand on with any number *)
(* of leaders and any faults.                                              *)
(***************************************************************************)
EXTENDS POPRefinement, FiniteSetTheorems, TLAPS

-----------------------------------------------------------------------------
(* Types of what the actions build.                                        *)

\* The last block of a ledger is a block.
LEMMA TipType ==
  ASSUME NEW ledger \in Seq(Block) \ {<<>>}
  PROVE  Tip(ledger) \in Block /\ Len(ledger) \in Nat \ {0}
BY DEF Tip

\* A hash is the sequence of the headers it commits to.
LEMMA BlockHashType ==
  ASSUME NEW b \in Block
  PROVE  BlockHash(b) \in Seq(Header)
<1>1. [block_number |-> b.block_number, transactions |-> b.transactions,
       state_root |-> b.state_root, timestamp |-> b.timestamp] \in Header
  BY DEF Block, Header
<1>2. b.prev_hash \in Seq(Header)
  BY DEF Block
<1>. QED
  BY <1>1, <1>2 DEF BlockHash

\* A new ledger holds its genesis block.
LEMMA GenesisType ==
  ASSUME NEW n \in Nodes, NEW second \in Seconds
  PROVE  /\ Genesis(n, second) \in Block
         /\ <<Genesis(n, second)>> \in Seq(Block) \ {<<>>}
<1>1. Genesis(n, second) \in Block
  BY DEF Genesis, Block, StateRoot
<1>. QED
  BY <1>1

\* Appending a block keeps a ledger a ledger.
LEMMA AppendType ==
  ASSUME NEW ledger \in Seq(Block) \ {<<>>}, NEW b \in Block
  PROVE  Append(ledger, b) \in Seq(Block) \ {<<>>}
OBVIOUS

\* The block that a leader builds is a block.
LEMMA NextBlockType ==
  ASSUME NEW n \in Nodes, NEW second \in Seconds,
         chain[n] \in Seq(Block) \ {<<>>},
         state_root_cache[n] \in StateRoot,
         current_proposal[n] \in Proposal
  PROVE  NextBlock(n, second) \in Block
<1>1. Tip(chain[n]) \in Block
  BY TipType
<1>2. BlockHash(Tip(chain[n])) \in Seq(Header)
  BY <1>1, BlockHashType
<1>3. Tip(chain[n]).block_number + 1 \in Nat
  BY <1>1 DEF Block
<1>4. current_proposal[n].transactions \in SUBSET Txs
  BY DEF Proposal
<1>5. NextStateRoot(n) \in StateRoot
  BY <1>4 DEF NextStateRoot, StateRoot
<1>. QED
  BY <1>2, <1>3, <1>4, <1>5 DEF NextBlock, Block

\* A collector of either phase is a collector after reset and after any vote.
LEMMA ResetType ==
  ASSUME NEW id \in ProposalId \cup {NoId}
  PROVE  VC!Reset(id) \in VC!Collector
BY DEF VC!Reset, VC!Collector

LEMMA AddVoteType ==
  ASSUME NEW c \in VC!Collector, NEW voter \in Nodes, NEW vote \in VC!Vote
  PROVE  VC!AddVote(c, voter, vote) \in VC!Collector
<1> DEFINE votes == [c.votes EXCEPT ![voter] = vote]
           a == c.approve_count - VC!Weight(c.votes[voter], TRUE) + VC!Weight(vote, TRUE)
           r == c.reject_count - VC!Weight(c.votes[voter], FALSE) + VC!Weight(vote, FALSE)
<1>1. votes \in [Nodes -> VC!Vote \cup {NoVote}] /\ c.proposal_id \in ProposalId \cup {NoId}
  BY DEF VC!Collector
<1>2. a \in Int
  BY DEF VC!Collector, VC!Weight
<1>3. r \in Int
  BY DEF VC!Collector, VC!Weight
<1>4. VC!AddVote(c, voter, vote) =
        [proposal_id |-> c.proposal_id, votes |-> votes, approve_count |-> a, reject_count |-> r]
  BY DEF VC!AddVote
<1>. HIDE DEF votes, a, r
<1>. QED
  BY <1>1, <1>2, <1>3, <1>4 DEF VC!Collector

\* A node's own vote, alone in a new collector.
LEMMA OwnVoteType ==
  ASSUME NEW n \in Nodes, NEW id \in ProposalId
  PROVE  /\ Approval(id) \in VC!Vote
         /\ VC!AddVote(VC!Reset(id), n, Approval(id)) \in VC!Collector
<1>1. Approval(id) \in VC!Vote
  BY DEF Approval, VC!Vote
<1>. QED
  BY <1>1, ResetType, AddVoteType

LEMMA HasConsensusType ==
  ASSUME NEW c
  PROVE  VC!HasConsensus(c) \in BOOLEAN
BY DEF VC!HasConsensus

\* What a message of each kind carries.
LEMMA MessageFields ==
  ASSUME NEW m \in Message
  PROVE  /\ m.src \in Nodes /\ m.dst \in Nodes
         /\ m.kind = "PROPOSAL" => m.proposal \in Proposal
         /\ m.kind \in {"VOTE_TXSET", "VOTE_BLOCK"} => m.vote \in VC!Vote
         /\ m.kind = "BLOCK_UNDER_VOTE_TXSET" => m.id \in ProposalId
         /\ m.kind = "NEW_BLOCK" => m.block \in Block
BY DEF Message

-----------------------------------------------------------------------------
(* Type correctness.                                                       *)

\* A leader that waits for votes or for its callback has what it waits for.
Loaded ==
  \A n \in Nodes :
    /\ pc[n] = "txset_wait" => current_proposal[n] \in Proposal
    /\ pc[n] \in {"block_wait", "callback"} => current_block[n] \in Block

TypeInv == TypeOK /\ Loaded

LEMMA TypeInit == Init => TypeInv
<1> SUFFICES ASSUME Init PROVE TypeInv
  OBVIOUS
<1>1. chain \in [Nodes -> Seq(Block) \ {<<>>}]
  <2>1. PICK clock \in [Nodes -> Seconds] : chain = [n \in Nodes |-> <<Genesis(n, clock[n])>>]
    BY DEF Init
  <2>. QED  BY <2>1, GenesisType
<1>2. /\ txset_collector \in [Nodes -> VC!Collector]
      /\ block_collector \in [Nodes -> VC!Collector]
  BY ResetType DEF Init
<1>3. state_root_cache \in [Nodes -> StateRoot]
  BY DEF Init, StateRoot
<1>4. TypeOK
  BY <1>1, <1>2, <1>3, POPAssumption DEF Init, TypeOK, States, Places, Home
<1>5. Loaded
  BY DEF Init, Loaded, Home
<1>. QED  BY <1>4, <1>5 DEF TypeInv

LEMMA SubmitType ==
  ASSUME TypeInv, NEW n \in Clients, NEW tx \in Txs, Submit(n, tx)
  PROVE  TypeInv'
BY POPAssumption DEF TypeInv, TypeOK, Loaded, Submit, roundVars, blockVars, ledgerVars, lifeVars

LEMMA ProposeType ==
  ASSUME TypeInv, NEW n \in Leaders, Propose(n)
  PROVE  TypeInv'
<1> DEFINE id       == [leader |-> n, round |-> NextRound(n), boot |-> boots[n]]
           proposal == [proposal_id |-> id, transactions |-> mempool[n]]
           tally    == VC!AddVote(VC!Reset(id), n, Approval(id))
           sent     == {[kind |-> "PROPOSAL", src |-> n, dst |-> p, proposal |-> proposal] : p \in Peers(n)}
<1>1. n \in Nodes /\ NextRound(n) \in 0..MaxRound
  BY POPAssumption DEF TypeInv, TypeOK, NextRound
<1>2. id \in ProposalId
  BY <1>1 DEF TypeInv, TypeOK, ProposalId
<1>3. proposal \in Proposal
  BY <1>1, <1>2 DEF TypeInv, TypeOK, Proposal
<1>4. tally \in VC!Collector /\ VC!HasConsensus(tally) \in BOOLEAN
  BY <1>1, <1>2, OwnVoteType, HasConsensusType
<1>5. sent \subseteq Message
  BY <1>1, <1>3, POPAssumption DEF Message, Peers
<1>6. /\ current_round' = [current_round EXCEPT ![n] = NextRound(n)]
      /\ current_proposal' = [current_proposal EXCEPT ![n] = proposal]
      /\ txset_collector' = [txset_collector EXCEPT ![n] = tally]
      /\ txset_event' = [txset_event EXCEPT ![n] = VC!HasConsensus(tally)]
      /\ msgs' = msgs \cup sent
      /\ state' = [state EXCEPT ![n] = "TXSET_VOTING"]
      /\ pc' = [pc EXCEPT ![n] = "txset_wait"]
      /\ UNCHANGED <<blockVars, ledgerVars, lifeVars, mempool, fresh>>
  BY DEF Propose, FreshEvent
<1>. HIDE DEF id, proposal, tally, sent
<1>7. TypeOK'
  BY <1>1, <1>3, <1>4, <1>5, <1>6
     DEF TypeInv, TypeOK, States, Places, blockVars, ledgerVars, lifeVars
<1>8. Loaded'
  BY <1>1, <1>3, <1>6 DEF TypeInv, TypeOK, Loaded, blockVars
<1>. QED  BY <1>7, <1>8 DEF TypeInv

\* The leader task gives a round up.
LEMMA TimeoutType ==
  ASSUME TypeInv, NEW n \in Leaders, TxSetTimeout(n) \/ BlockTimeout(n)
  PROVE  TypeInv'
<1>1. n \in Nodes /\ AfterRound(n) \in {"sleep", "stopped"}
  BY POPAssumption DEF AfterRound
<1>2. /\ state' = [state EXCEPT ![n] = "IDLE"]
      /\ pc' = [pc EXCEPT ![n] = AfterRound(n)]
      /\ UNCHANGED <<roundVars, blockVars, ledgerVars, lifeVars, mempool, msgs, fresh>>
  BY DEF TxSetTimeout, BlockTimeout
<1>. QED
  BY <1>1, <1>2 DEF TypeInv, TypeOK, Loaded, States, Places, roundVars, blockVars, ledgerVars, lifeVars

LEMMA TxSetApprovedType ==
  ASSUME TypeInv, NEW n \in Leaders, TxSetApproved(n)
  PROVE  TypeInv'
<1> DEFINE id    == current_proposal[n].proposal_id
           tally == VC!AddVote(VC!Reset(id), n, Approval(id))
           sent  == {[kind |-> "BLOCK_UNDER_VOTE_TXSET", src |-> n, dst |-> p, id |-> id] : p \in Peers(n)}
<1>1. n \in Nodes /\ current_proposal[n] \in Proposal
  BY POPAssumption DEF TypeInv, Loaded, TxSetApproved
<1>2. id \in ProposalId
  BY <1>1 DEF Proposal
<1>3. PICK second \in Seconds :
        current_block' = [current_block EXCEPT ![n] = NextBlock(n, second)]
  BY DEF TxSetApproved
<1>4. NextBlock(n, second) \in Block
  BY <1>1, NextBlockType DEF TypeInv, TypeOK
<1>5. tally \in VC!Collector /\ VC!HasConsensus(tally) \in BOOLEAN
  BY <1>1, <1>2, OwnVoteType, HasConsensusType
<1>6. sent \subseteq Message
  BY <1>1, <1>2, POPAssumption DEF Message, Peers
<1>7. /\ block_collector' = [block_collector EXCEPT ![n] = tally]
      /\ block_event' = [block_event EXCEPT ![n] = VC!HasConsensus(tally)]
      /\ msgs' = msgs \cup sent
      /\ state' = [state EXCEPT ![n] = "BLOCK_VOTING"]
      /\ pc' = [pc EXCEPT ![n] = "block_wait"]
      /\ UNCHANGED <<roundVars, ledgerVars, lifeVars, mempool, fresh>>
  BY DEF TxSetApproved, FreshEvent
<1>. HIDE DEF id, tally, sent
<1>8. TypeOK'
  BY <1>1, <1>3, <1>4, <1>5, <1>6, <1>7
     DEF TypeInv, TypeOK, States, Places, roundVars, ledgerVars, lifeVars
<1>9. Loaded'
  BY <1>1, <1>3, <1>4, <1>7 DEF TypeInv, TypeOK, Loaded, roundVars
<1>. QED  BY <1>8, <1>9 DEF TypeInv

\* Record keeps ledgers, root caches and mempools what they are.
LEMMA RecordType ==
  ASSUME TypeInv, NEW n \in Nodes, NEW b \in Block, Record(n, b)
  PROVE  /\ chain' \in [Nodes -> Seq(Block) \ {<<>>}]
         /\ state_root_cache' \in [Nodes -> StateRoot]
         /\ mempool' \in [Nodes -> SUBSET Txs]
<1>1. Append(chain[n], b) \in Seq(Block) \ {<<>>}
  BY AppendType DEF TypeInv, TypeOK
<1>2. b.state_root \in StateRoot
  BY DEF Block
<1>. QED
  BY <1>1, <1>2 DEF TypeInv, TypeOK, Record

LEMMA CommitBlockType ==
  ASSUME TypeInv, NEW n \in Leaders, CommitBlock(n)
  PROVE  TypeInv'
<1>1. n \in Nodes /\ current_block[n] \in Block
  BY POPAssumption DEF TypeInv, Loaded, CommitBlock
<1>2. /\ chain' \in [Nodes -> Seq(Block) \ {<<>>}]
      /\ state_root_cache' \in [Nodes -> StateRoot]
      /\ mempool' \in [Nodes -> SUBSET Txs]
  BY <1>1, RecordType DEF CommitBlock
<1>. QED
  BY <1>1, <1>2 DEF TypeInv, TypeOK, Loaded, CommitBlock, States, Places, roundVars, blockVars, lifeVars

LEMMA CommitRaisesType ==
  ASSUME TypeInv, NEW n \in Leaders, CommitRaises(n)
  PROVE  TypeInv'
BY POPAssumption DEF TypeInv, TypeOK, Loaded, CommitRaises, States, Places, roundVars, blockVars, ledgerVars, lifeVars

\* What the leader announces are messages.
LEMMA AnnounceType ==
  ASSUME TypeInv, NEW n \in Nodes, pc[n] = "callback", AnnounceBlock(n)
  PROVE  msgs' \subseteq Message
<1>1. current_block[n] \in Block
  BY DEF TypeInv, Loaded
<1>. QED
  BY <1>1, POPAssumption DEF TypeInv, TypeOK, AnnounceBlock, Message, Peers

LEMMA FinishCommitType ==
  ASSUME TypeInv, NEW n \in Leaders, FinishCommit(n)
  PROVE  TypeInv'
<1>1. n \in Nodes /\ msgs' \subseteq Message
  BY POPAssumption, AnnounceType DEF FinishCommit
<1>. QED
  BY <1>1 DEF TypeInv, TypeOK, Loaded, FinishCommit, AfterRound, States, Places, ledgerVars, lifeVars

LEMMA BroadcastRaisesType ==
  ASSUME TypeInv, NEW n \in Leaders, BroadcastRaises(n)
  PROVE  TypeInv'
<1>1. n \in Nodes /\ msgs' \subseteq Message
  BY POPAssumption, AnnounceType DEF BroadcastRaises, TypeInv, TypeOK
<1>. QED
  BY <1>1 DEF TypeInv, TypeOK, Loaded, BroadcastRaises, Places, roundVars, blockVars, ledgerVars, lifeVars

LEMMA DeliverProposalType ==
  ASSUME TypeInv, NEW m \in msgs, DeliverProposal(m)
  PROVE  TypeInv'
<1> DEFINE n    == m.dst
           id   == m.proposal.proposal_id
           sent == {[kind |-> "VOTE_TXSET", src |-> n, dst |-> p, vote |-> Approval(id)] : p \in Peers(n)}
<1>1. n \in Nodes /\ m.proposal \in Proposal
  BY MessageFields DEF TypeInv, TypeOK, DeliverProposal
<1>2. id \in ProposalId /\ id.round \in 0..MaxRound
  BY <1>1 DEF Proposal, ProposalId
<1>3. VC!Reset(id) \in VC!Collector
  BY <1>2, ResetType
<1>4. sent \subseteq Message
  BY <1>1, <1>2, OwnVoteType, POPAssumption DEF Message, Peers
<1>5. UNCHANGED <<blockVars, pc, ledgerVars, lifeVars, mempool, fresh>>
  BY DEF DeliverProposal
<1>6. CASE state[n] # "IDLE"
  <2>1. msgs' \subseteq msgs /\ UNCHANGED <<state, roundVars>>
    BY <1>6 DEF DeliverProposal, OnProposal, Consume, Remaining
  <2>. QED
    BY <1>5, <2>1 DEF TypeInv, TypeOK, Loaded, roundVars, blockVars, ledgerVars, lifeVars
<1>7. CASE state[n] = "IDLE"
  <2>1. /\ msgs' \subseteq msgs \cup sent
        /\ state' = [state EXCEPT ![n] = "TXSET_VOTING"]
        /\ current_proposal' = [current_proposal EXCEPT ![n] = m.proposal]
        /\ current_round' = [current_round EXCEPT ![n] = id.round]
        /\ txset_event' = [txset_event EXCEPT ![n] = FALSE]
        /\ txset_collector' = [txset_collector EXCEPT ![n] = VC!Reset(id)]
    BY <1>7 DEF DeliverProposal, OnProposal, Remaining
  <2>. HIDE DEF n, id, sent
  <2>2. TypeOK'
    BY <1>1, <1>2, <1>3, <1>4, <1>5, <2>1 DEF TypeInv, TypeOK, States, blockVars, ledgerVars, lifeVars
  <2>3. Loaded'
    BY <1>1, <1>5, <2>1 DEF TypeInv, TypeOK, Loaded, blockVars
  <2>. QED  BY <2>2, <2>3 DEF TypeInv
<1>. QED  BY <1>6, <1>7

LEMMA DeliverTxSetVoteType ==
  ASSUME TypeInv, NEW m \in msgs, DeliverTxSetVote(m)
  PROVE  TypeInv'
<1> DEFINE tally == VC!AddVote(txset_collector[m.dst], m.src, m.vote)
<1>1. m.src \in Nodes /\ m.dst \in Nodes /\ m.vote \in VC!Vote
  BY MessageFields DEF TypeInv, TypeOK, DeliverTxSetVote
<1>2. tally \in VC!Collector /\ VC!HasConsensus(tally) \in BOOLEAN
  BY <1>1, AddVoteType, HasConsensusType DEF TypeInv, TypeOK
<1>3. /\ txset_collector' = [txset_collector EXCEPT ![m.dst] = tally]
      /\ txset_event' = [txset_event EXCEPT ![m.dst] = txset_event[m.dst] \/ VC!HasConsensus(tally)]
      /\ msgs' \subseteq msgs
      /\ UNCHANGED <<state, current_round, current_proposal, blockVars, pc, ledgerVars,
                     lifeVars, mempool, fresh>>
  BY DEF DeliverTxSetVote, Consume, Remaining
<1>. HIDE DEF tally
<1>4. TypeOK'
  BY <1>1, <1>2, <1>3 DEF TypeInv, TypeOK, blockVars, ledgerVars, lifeVars
<1>5. Loaded'
  BY <1>3 DEF TypeInv, TypeOK, Loaded, blockVars
<1>. QED  BY <1>4, <1>5 DEF TypeInv

LEMMA DeliverBlockVoteType ==
  ASSUME TypeInv, NEW m \in msgs, DeliverBlockVote(m)
  PROVE  TypeInv'
<1> DEFINE tally == VC!AddVote(block_collector[m.dst], m.src, m.vote)
<1>1. m.src \in Nodes /\ m.dst \in Nodes /\ m.vote \in VC!Vote
  BY MessageFields DEF TypeInv, TypeOK, DeliverBlockVote
<1>2. tally \in VC!Collector /\ VC!HasConsensus(tally) \in BOOLEAN
  BY <1>1, AddVoteType, HasConsensusType DEF TypeInv, TypeOK
<1>3. /\ block_collector' = [block_collector EXCEPT ![m.dst] = tally]
      /\ block_event' = [block_event EXCEPT ![m.dst] = block_event[m.dst] \/ VC!HasConsensus(tally)]
      /\ msgs' \subseteq msgs
      /\ UNCHANGED <<state, roundVars, current_block, pc, ledgerVars, lifeVars, mempool, fresh>>
  BY DEF DeliverBlockVote, Consume, Remaining
<1>. HIDE DEF tally
<1>4. TypeOK'
  BY <1>1, <1>2, <1>3 DEF TypeInv, TypeOK, roundVars, ledgerVars, lifeVars
<1>5. Loaded'
  BY <1>3 DEF TypeInv, TypeOK, Loaded, roundVars
<1>. QED  BY <1>4, <1>5 DEF TypeInv

LEMMA DeliverBlockUnderVoteType ==
  ASSUME TypeInv, NEW m \in msgs, DeliverBlockUnderVote(m)
  PROVE  TypeInv'
<1> DEFINE answer == [kind |-> "VOTE_BLOCK", src |-> m.dst, dst |-> m.src, vote |-> Approval(m.id)]
<1>1. m.src \in Nodes /\ m.dst \in Nodes /\ m.id \in ProposalId
  BY MessageFields DEF TypeInv, TypeOK, DeliverBlockUnderVote
<1>2. answer \in Message
  BY <1>1, OwnVoteType DEF Message
<1>3. /\ msgs' \subseteq msgs \cup {answer}
      /\ UNCHANGED <<state, roundVars, blockVars, pc, ledgerVars, lifeVars, mempool, fresh>>
  BY DEF DeliverBlockUnderVote, Remaining
<1>. HIDE DEF answer
<1>. QED
  BY <1>2, <1>3 DEF TypeInv, TypeOK, Loaded, roundVars, blockVars, ledgerVars, lifeVars

LEMMA DeliverBlockType ==
  ASSUME TypeInv, NEW m \in msgs, DeliverBlock(m)
  PROVE  TypeInv'
<1>1. m.dst \in Nodes /\ m.block \in Block
  BY MessageFields DEF TypeInv, TypeOK, DeliverBlock
<1>2. msgs' \subseteq msgs /\ UNCHANGED <<state, roundVars, blockVars, pc, lifeVars, fresh>>
  BY DEF DeliverBlock, Consume, Remaining
<1>3. /\ chain' \in [Nodes -> Seq(Block) \ {<<>>}]
      /\ state_root_cache' \in [Nodes -> StateRoot]
      /\ mempool' \in [Nodes -> SUBSET Txs]
      /\ syncing' \in [Nodes -> SUBSET Block]
  <2>1. CASE Accepts(chain[m.dst], m.block)
    <3>1. Record(m.dst, m.block) /\ syncing' = [syncing EXCEPT ![m.dst] = @ \cup {m.block}]
      BY <2>1 DEF DeliverBlock
    <3>. QED
      BY <1>1, <3>1, RecordType DEF TypeInv, TypeOK
  <2>2. CASE ~Accepts(chain[m.dst], m.block)
    BY <2>2 DEF DeliverBlock, TypeInv, TypeOK, ledgerVars
  <2>. QED  BY <2>1, <2>2
<1>. QED
  BY <1>2, <1>3 DEF TypeInv, TypeOK, Loaded, roundVars, blockVars, lifeVars

LEMMA FinishSyncType ==
  ASSUME TypeInv, NEW n \in Nodes, NEW b \in syncing[n], FinishSync(n, b)
  PROVE  TypeInv'
BY DEF TypeInv, TypeOK, Loaded, FinishSync, States, roundVars, blockVars, lifeVars

LEMMA StopType ==
  ASSUME TypeInv, NEW n \in Nodes, Stop(n)
  PROVE  TypeInv'
<1>1. /\ running' = [running EXCEPT ![n] = FALSE]
      /\ txset_event' = [txset_event EXCEPT ![n] = TRUE]
      /\ block_event' = [block_event EXCEPT ![n] = TRUE]
      /\ UNCHANGED <<current_round, current_proposal, txset_collector, current_block,
                     block_collector, ledgerVars, boots, mempool, msgs, fresh>>
  BY DEF Stop
<1>2. \/ UNCHANGED <<state, pc>>
      \/ /\ state' = [state EXCEPT ![n] = "IDLE"]
         /\ \E place \in {"stopped", "none"} : pc' = [pc EXCEPT ![n] = place]
  BY DEF Stop
<1>. QED
  BY <1>1, <1>2 DEF TypeInv, TypeOK, Loaded, States, Places, ledgerVars

LEMMA RestartType ==
  ASSUME TypeInv, NEW n \in Nodes, Restart(n)
  PROVE  TypeInv'
<1>1. PICK second \in Seconds : chain' = [chain EXCEPT ![n] = <<Genesis(n, second)>>]
  BY DEF Restart
<1>2. chain' \in [Nodes -> Seq(Block) \ {<<>>}]
  BY <1>1, GenesisType DEF TypeInv, TypeOK
<1>3. VC!Reset(NoId) \in VC!Collector
  BY ResetType
<1>4. <<>> \in StateRoot
  BY DEF StateRoot
<1>5. boots' \in [Nodes -> 0..MaxBoots]
  BY POPAssumption DEF TypeInv, TypeOK, Restart
<1>6. Home(n) \in {"sleep", "none"}
  BY DEF Home
<1>7. /\ state_root_cache' \in [Nodes -> StateRoot]
      /\ txset_collector' \in [Nodes -> VC!Collector]
      /\ block_collector' \in [Nodes -> VC!Collector]
  BY <1>3, <1>4 DEF TypeInv, TypeOK, Restart
<1>8. TypeOK'
  BY <1>2, <1>5, <1>6, <1>7, POPAssumption DEF TypeInv, TypeOK, Restart, States, Places
<1>9. Loaded'
  BY <1>6 DEF TypeInv, TypeOK, Loaded, Restart
<1>. QED  BY <1>8, <1>9 DEF TypeInv

LEMMA TypeStep == TypeInv /\ [Next]_vars => TypeInv'
<1> SUFFICES ASSUME TypeInv, [Next]_vars PROVE TypeInv'
  OBVIOUS
<1>1. ASSUME NEW n \in Clients, NEW tx \in Txs, Submit(n, tx) PROVE TypeInv'
  BY <1>1, SubmitType
<1>2. ASSUME NEW n \in Leaders, LeaderTask(n) PROVE TypeInv'
  BY <1>2, ProposeType, TimeoutType, TxSetApprovedType, CommitBlockType,
     CommitRaisesType, FinishCommitType DEF LeaderTask
<1>3. ASSUME NEW m \in msgs, Deliver(m) PROVE TypeInv'
  BY <1>3, DeliverProposalType, DeliverTxSetVoteType, DeliverBlockVoteType,
     DeliverBlockUnderVoteType, DeliverBlockType DEF Deliver, Handle
<1>4. ASSUME NEW n \in Nodes, NEW b \in syncing[n], FinishSync(n, b) PROVE TypeInv'
  BY <1>4, FinishSyncType
<1>5. ASSUME NEW n \in Leaders, BroadcastRaises(n) PROVE TypeInv'
  BY <1>5, BroadcastRaisesType
<1>6. ASSUME NEW n \in Nodes, Stop(n) \/ Restart(n) PROVE TypeInv'
  BY <1>6, StopType, RestartType
<1>7. CASE UNCHANGED vars
  BY <1>7 DEF vars, TypeInv, TypeOK, Loaded, roundVars, blockVars, ledgerVars, lifeVars
<1>. QED
  BY <1>1, <1>2, <1>3, <1>4, <1>5, <1>6, <1>7 DEF Next

\* For any nodes, leaders, faults and bounds: every variable keeps its type, and no
\* step reads a proposal or a block that is not there (pop.py:238-365).
THEOREM POPTypeCorrect == Spec => []TypeOK
<1>1. TypeInv => TypeOK
  BY DEF TypeInv
<1>. QED
  BY <1>1, TypeInit, TypeStep, PTL DEF Spec

-----------------------------------------------------------------------------
(* Agreement, with one leader that keeps its process.                      *)

OneSteadyLeader ==
  /\ \A k, l \in Leaders : k = l
  /\ Leaders \cap MayRestart = {}

\* Block numbers are positions.
Numbered ==
  \A n \in Nodes : \A i \in 1..Len(chain[n]) : chain[n][i].block_number = i - 1

OnLedger(l, b) ==
  /\ b.block_number + 1 \in 2..Len(chain[l])
  /\ chain[l][b.block_number + 1] = b

\* Only blocks of the leader's ledger are announced, and never to the leader.
Announced ==
  \A l \in Leaders, m \in msgs : m.kind = "NEW_BLOCK" => m.dst # l /\ OnLedger(l, m.block)

\* A leader that awaits the callback has its block on top of its ledger.
Committed ==
  \A l \in Leaders :
    pc[l] = "callback" => Len(chain[l]) \in Nat \ {0, 1} /\ current_block[l] = Tip(chain[l])

\* The block under vote still fits on the ledger.
Standing ==
  \A l \in Leaders : pc[l] = "block_wait" => Accepts(chain[l], current_block[l])

AgreementInv ==
  /\ TypeInv
  /\ Agreement
  /\ Numbered
  /\ Announced
  /\ Committed
  /\ Standing

-----------------------------------------------------------------------------
(* Ledgers.                                                                *)

\* A longer ledger keeps its blocks and ends with the new one.
LEMMA AppendFacts ==
  ASSUME NEW ledger \in Seq(Block) \ {<<>>}, NEW b \in Block
  PROVE  /\ Len(Append(ledger, b)) = Len(ledger) + 1
         /\ \A i \in 1..Len(ledger) : Append(ledger, b)[i] = ledger[i]
         /\ Append(ledger, b)[Len(ledger) + 1] = b
OBVIOUS

\* A block that fits on a ledger bears the number of its position there.
LEMMA AcceptedNumber ==
  ASSUME TypeInv, Numbered, NEW n \in Nodes, NEW b \in Block, Accepts(chain[n], b)
  PROVE  b.block_number = Len(chain[n])
<1>1. chain[n] \in Seq(Block) \ {<<>>} /\ Len(chain[n]) \in Nat \ {0}
  BY DEF TypeInv, TypeOK
<1>2. chain[n][Len(chain[n])].block_number = Len(chain[n]) - 1
  BY <1>1 DEF Numbered
<1>. QED
  BY <1>1, <1>2 DEF Accepts, Tip

\* What a leader is about to build fits on its ledger.
LEMMA NextBlockFits ==
  ASSUME NEW n \in Nodes, NEW second
  PROVE  Accepts(chain[n], NextBlock(n, second))
BY DEF Accepts, NextBlock

-----------------------------------------------------------------------------
(* The invariant holds initially, and every action preserves it.           *)

LEMMA AgreementInit == Init => AgreementInv
<1> SUFFICES ASSUME Init PROVE AgreementInv
  OBVIOUS
<1>1. TypeInv
  BY TypeInit
<1>2. PICK clock \in [Nodes -> Seconds] : chain = [n \in Nodes |-> <<Genesis(n, clock[n])>>]
  BY DEF Init
<1>3. \A n \in Nodes : Len(chain[n]) = 1 /\ chain[n][1].block_number = 0
  BY <1>2 DEF Genesis
<1>4. Leaders \subseteq Nodes
  BY POPAssumption
<1>5. Agreement
  BY <1>3, <1>4 DEF Agreement
<1>6. Numbered
  BY <1>3 DEF Numbered
<1>7. Announced /\ Committed /\ Standing
  BY <1>4 DEF Init, Announced, Committed, Standing, Home
<1>. QED
  BY <1>1, <1>5, <1>6, <1>7 DEF AgreementInv

\* A step that changes no ledger, announces nothing and brings no leader to the
\* end of a vote or of a commit.
LEMMA QuietStep ==
  ASSUME AgreementInv, TypeInv', UNCHANGED chain,
         \A m \in msgs' : m.kind = "NEW_BLOCK" => m \in msgs,
         \A l \in Leaders : pc'[l] \in {"block_wait", "callback"} =>
                              pc'[l] = pc[l] /\ current_block'[l] = current_block[l]
  PROVE  AgreementInv'
<1>1. Agreement'
  BY DEF AgreementInv, Agreement
<1>2. Numbered'
  BY DEF AgreementInv, Numbered
<1>3. Announced'
  BY DEF AgreementInv, Announced, OnLedger
<1>4. Committed'
  BY DEF AgreementInv, Committed
<1>5. Standing'
  BY DEF AgreementInv, Standing
<1>. QED
  BY <1>1, <1>2, <1>3, <1>4, <1>5 DEF AgreementInv

\* Everything but a new block on a ledger, its announcement, and a restart.
LEMMA QuietActions ==
  ASSUME AgreementInv, TypeInv',
         \/ \E n \in Clients, tx \in Txs : Submit(n, tx)
         \/ \E n \in Leaders : Propose(n) \/ TxSetTimeout(n) \/ BlockTimeout(n) \/ CommitRaises(n)
         \/ \E m \in msgs : \/ DeliverProposal(m) \/ DeliverTxSetVote(m)
                            \/ DeliverBlockVote(m) \/ DeliverBlockUnderVote(m)
         \/ \E n \in Nodes : \E b \in syncing[n] : FinishSync(n, b)
         \/ \E n \in Nodes : Stop(n)
         \/ UNCHANGED vars
  PROVE  AgreementInv'
<1>. /\ Leaders \subseteq Nodes
     /\ TypeInv
  BY POPAssumption DEF AgreementInv
<1>. USE DEF roundVars, blockVars, ledgerVars, lifeVars
<1>1. CASE \E n \in Clients, tx \in Txs : Submit(n, tx)
  BY <1>1, QuietStep DEF Submit
<1>2. ASSUME NEW n \in Leaders, Propose(n) PROVE AgreementInv'
  BY <1>2, QuietStep DEF Propose, TypeInv, TypeOK
<1>3. ASSUME NEW n \in Leaders, TxSetTimeout(n) \/ BlockTimeout(n) PROVE AgreementInv'
  BY <1>3, QuietStep DEF TxSetTimeout, BlockTimeout, AfterRound, TypeInv, TypeOK
<1>4. ASSUME NEW n \in Leaders, CommitRaises(n) PROVE AgreementInv'
  BY <1>4, QuietStep DEF CommitRaises, TypeInv, TypeOK
<1>5. ASSUME NEW m \in msgs, DeliverProposal(m) PROVE AgreementInv'
  <2>1. \A k \in msgs' : k.kind = "NEW_BLOCK" => k \in msgs
    BY <1>5 DEF DeliverProposal, OnProposal, Consume, Remaining
  <2>. QED
    BY <1>5, <2>1, QuietStep DEF DeliverProposal
<1>6. ASSUME NEW m \in msgs, DeliverTxSetVote(m) \/ DeliverBlockVote(m) PROVE AgreementInv'
  BY <1>6, QuietStep DEF DeliverTxSetVote, DeliverBlockVote, Consume, Remaining
<1>7. ASSUME NEW m \in msgs, DeliverBlockUnderVote(m) PROVE AgreementInv'
  BY <1>7, QuietStep DEF DeliverBlockUnderVote, Remaining
<1>8. ASSUME NEW n \in Nodes, NEW b \in syncing[n], FinishSync(n, b) PROVE AgreementInv'
  BY <1>8, QuietStep DEF FinishSync
<1>9. ASSUME NEW n \in Nodes, Stop(n) PROVE AgreementInv'
  <2>1. \A l \in Leaders : pc'[l] \in {"block_wait", "callback"} => pc'[l] = pc[l]
    BY <1>9 DEF Stop, TypeInv, TypeOK
  <2>. QED
    BY <1>9, <2>1, QuietStep DEF Stop
<1>10. CASE UNCHANGED vars
  BY <1>10, QuietStep DEF vars
<1>. QED
  BY <1>1, <1>2, <1>3, <1>4, <1>5, <1>6, <1>7, <1>8, <1>9, <1>10

LEMMA TxSetApprovedStep ==
  ASSUME AgreementInv, TypeInv', OneSteadyLeader, NEW l \in Leaders, TxSetApproved(l)
  PROVE  AgreementInv'
<1>1. l \in Nodes /\ Leaders = {l}
  BY POPAssumption DEF OneSteadyLeader
<1>2. UNCHANGED chain
  BY DEF TxSetApproved, ledgerVars
<1>3. \A m \in msgs' : m.kind = "NEW_BLOCK" => m \in msgs
  BY DEF TxSetApproved
<1>4. PICK second \in Seconds :
        current_block' = [current_block EXCEPT ![l] = NextBlock(l, second)]
  BY DEF TxSetApproved
<1>5. pc'[l] = "block_wait" /\ current_block'[l] = NextBlock(l, second)
  BY <1>1, <1>4 DEF TxSetApproved, AgreementInv, TypeInv, TypeOK
<1>6. Agreement' /\ Numbered'
  BY <1>2 DEF AgreementInv, Agreement, Numbered
<1>7. Announced'
  BY <1>2, <1>3 DEF AgreementInv, Announced, OnLedger
<1>8. Committed'
  BY <1>1, <1>5 DEF Committed
<1>9. Standing'
  BY <1>1, <1>2, <1>5, NextBlockFits DEF Standing
<1>. QED
  BY <1>6, <1>7, <1>8, <1>9 DEF AgreementInv

\* The leader's ledger grows: every copy is still a copy of its prefix.
LEMMA CommitBlockStep ==
  ASSUME AgreementInv, TypeInv', OneSteadyLeader, NEW l \in Leaders, CommitBlock(l)
  PROVE  AgreementInv'
<1> DEFINE b == current_block[l]
<1>1. l \in Nodes /\ Leaders = {l} /\ b \in Block
  BY POPAssumption DEF OneSteadyLeader, AgreementInv, TypeInv, Loaded, CommitBlock
<1>2. \A n \in Nodes : chain[n] \in Seq(Block) \ {<<>>} /\ Len(chain[n]) \in Nat \ {0}
  BY DEF AgreementInv, TypeInv, TypeOK
<1>3. /\ chain'[l] = Append(chain[l], b)
      /\ \A n \in Nodes \ {l} : chain'[n] = chain[n]
  BY <1>1 DEF CommitBlock, Record, AgreementInv, TypeInv, TypeOK
<1>4. b.block_number = Len(chain[l])
  BY <1>1, AcceptedNumber DEF AgreementInv, CommitBlock
<1>5. /\ Len(chain'[l]) = Len(chain[l]) + 1
      /\ \A i \in 1..Len(chain[l]) : chain'[l][i] = chain[l][i]
      /\ chain'[l][Len(chain[l]) + 1] = b
  BY <1>1, <1>2, <1>3, AppendFacts
<1>6. pc'[l] = "callback" /\ current_block'[l] = b /\ msgs' = msgs
  BY <1>1 DEF CommitBlock, blockVars, AgreementInv, TypeInv, TypeOK
<1>. HIDE DEF b
<1>7. Agreement'
  <2>1. ASSUME NEW n \in Nodes
        PROVE  /\ Len(chain'[n]) <= Len(chain'[l])
               /\ \A i \in 2..Len(chain'[n]) : chain'[n][i] = chain'[l][i]
    <3>1. CASE n = l
      BY <1>2, <1>5, <3>1
    <3>2. CASE n # l
      <4>1. /\ Len(chain[n]) <= Len(chain[l])
            /\ \A i \in 2..Len(chain[n]) : chain[n][i] = chain[l][i]
        BY DEF AgreementInv, Agreement
      <4>. QED
        BY <1>1, <1>2, <1>3, <1>5, <3>2, <4>1
    <3>. QED  BY <3>1, <3>2
  <2>. QED  BY <1>1, <2>1 DEF Agreement
<1>8. Numbered'
  <2>1. ASSUME NEW n \in Nodes, NEW i \in 1..Len(chain'[n])
        PROVE  chain'[n][i].block_number = i - 1
    <3>1. CASE n = l /\ i \in 1..Len(chain[l])
      BY <1>1, <1>5, <3>1 DEF AgreementInv, Numbered
    <3>2. CASE n = l /\ i = Len(chain[l]) + 1
      BY <1>1, <1>2, <1>4, <1>5, <3>2
    <3>3. CASE n # l
      BY <1>3, <3>3 DEF AgreementInv, Numbered
    <3>. QED  BY <1>1, <1>2, <1>5, <3>1, <3>2, <3>3
  <2>. QED  BY <2>1 DEF Numbered
<1>9. Announced'
  <2>1. ASSUME NEW m \in msgs, m.kind = "NEW_BLOCK"
        PROVE  m.dst # l /\ OnLedger(l, m.block)'
    <3>1. m.dst # l /\ OnLedger(l, m.block)
      BY <2>1 DEF AgreementInv, Announced
    <3>2. m.block.block_number + 1 \in 1..Len(chain[l])
      BY <1>1, <1>2, <3>1 DEF OnLedger
    <3>. QED
      BY <1>1, <1>2, <1>5, <3>1, <3>2 DEF OnLedger
  <2>. QED  BY <1>1, <1>6, <2>1 DEF Announced
<1>10. Committed'
  <2>1. Len(chain'[l]) \in Nat \ {0, 1}
    BY <1>1, <1>2, <1>5
  <2>2. b = Tip(chain[l])'
    BY <1>5 DEF Tip
  <2>. QED  BY <1>1, <1>6, <2>1, <2>2 DEF Committed
<1>11. Standing'
  BY <1>1, <1>6 DEF Standing
<1>. QED
  BY <1>7, <1>8, <1>9, <1>10, <1>11 DEF AgreementInv

\* What the leader announces after a commit is the block on top of its ledger.
LEMMA AnnounceStep ==
  ASSUME AgreementInv, TypeInv', OneSteadyLeader, NEW l \in Leaders,
         pc[l] = "callback", AnnounceBlock(l), UNCHANGED chain,
         pc'[l] \notin {"callback", "block_wait"}
  PROVE  AgreementInv'
<1>1. l \in Nodes /\ Leaders = {l}
  BY POPAssumption DEF OneSteadyLeader
<1>2. Len(chain[l]) \in Nat \ {0, 1} /\ current_block[l] = Tip(chain[l])
  BY DEF AgreementInv, Committed
<1>3. current_block[l].block_number = Len(chain[l]) - 1
  <2>1. Len(chain[l]) \in 1..Len(chain[l])
    BY <1>2
  <2>2. chain[l][Len(chain[l])].block_number = Len(chain[l]) - 1
    BY <1>1, <2>1 DEF AgreementInv, Numbered
  <2>. QED  BY <1>2, <2>2 DEF Tip
<1>4. OnLedger(l, current_block[l])
  <2>1. current_block[l].block_number + 1 = Len(chain[l])
    BY <1>2, <1>3
  <2>2. \A k \in Nat \ {0, 1} : k \in 2..k
    OBVIOUS
  <2>. QED  BY <1>2, <2>1, <2>2 DEF OnLedger, Tip
<1>5. \A m \in msgs' : m.kind = "NEW_BLOCK" => m.dst # l /\ OnLedger(l, m.block)
  BY <1>4 DEF AnnounceBlock, Peers, AgreementInv, Announced
<1>6. Announced'
  BY <1>1, <1>5 DEF Announced, OnLedger
<1>7. Agreement' /\ Numbered'
  BY DEF AgreementInv, Agreement, Numbered
<1>8. Committed' /\ Standing'
  BY <1>1 DEF Committed, Standing
<1>. QED
  BY <1>6, <1>7, <1>8 DEF AgreementInv

LEMMA AnnouncingActions ==
  ASSUME AgreementInv, TypeInv', OneSteadyLeader, NEW l \in Leaders,
         FinishCommit(l) \/ BroadcastRaises(l)
  PROVE  AgreementInv'
<1>1. l \in Nodes /\ UNCHANGED chain
  BY POPAssumption DEF FinishCommit, BroadcastRaises, ledgerVars
<1>2. pc'[l] \in {"sleep", "stopped", "dead"}
  BY <1>1 DEF FinishCommit, BroadcastRaises, AfterRound, AgreementInv, TypeInv, TypeOK
<1>3. CASE pc[l] = "callback" /\ AnnounceBlock(l)
  BY <1>1, <1>2, <1>3, AnnounceStep
<1>4. CASE BroadcastRaises(l) /\ UNCHANGED msgs
  <2>1. \A k \in Leaders : k = l
    BY DEF OneSteadyLeader
  <2>. QED
    BY <1>1, <1>2, <1>4, <2>1, QuietStep
<1>. QED
  BY <1>3, <1>4 DEF FinishCommit, BroadcastRaises

\* A follower records the block that comes next on the leader's ledger.
LEMMA DeliverBlockStep ==
  ASSUME AgreementInv, TypeInv', OneSteadyLeader, NEW m \in msgs, DeliverBlock(m)
  PROVE  AgreementInv'
<1> DEFINE n == m.dst
           b == m.block
<1>1. n \in Nodes /\ b \in Block /\ m.kind = "NEW_BLOCK" /\ Leaders \subseteq Nodes
  BY MessageFields, POPAssumption DEF AgreementInv, TypeInv, TypeOK, DeliverBlock
<1>2. \A p \in Nodes : chain[p] \in Seq(Block) \ {<<>>} /\ Len(chain[p]) \in Nat \ {0}
  BY DEF AgreementInv, TypeInv, TypeOK
<1>3. msgs' \subseteq msgs /\ UNCHANGED <<pc, current_block>>
  BY DEF DeliverBlock, Consume, Remaining, blockVars
<1>4. CASE ~Accepts(chain[n], b)
  BY <1>3, <1>4, QuietStep DEF DeliverBlock, ledgerVars
<1>5. CASE Accepts(chain[n], b)
  <2>1. /\ chain'[n] = Append(chain[n], b)
        /\ \A p \in Nodes \ {n} : chain'[p] = chain[p]
    BY <1>1, <1>5 DEF DeliverBlock, Record, AgreementInv, TypeInv, TypeOK
  <2>2. b.block_number = Len(chain[n])
    BY <1>1, <1>5, AcceptedNumber DEF AgreementInv
  <2>3. /\ Len(chain'[n]) = Len(chain[n]) + 1
        /\ \A i \in 1..Len(chain[n]) : chain'[n][i] = chain[n][i]
        /\ chain'[n][Len(chain[n]) + 1] = b
    BY <1>1, <1>2, <2>1, AppendFacts
  <2>4. \A l \in Leaders : n # l /\ OnLedger(l, b) /\ chain'[l] = chain[l]
    BY <1>1, <2>1 DEF AgreementInv, Announced
  <2>. HIDE DEF n, b
  <2>5. Agreement'
    <3>1. ASSUME NEW l \in Leaders, NEW p \in Nodes
          PROVE  /\ Len(chain'[p]) <= Len(chain'[l])
                 /\ \A i \in 2..Len(chain'[p]) : chain'[p][i] = chain'[l][i]
      <4>1. /\ Len(chain[p]) <= Len(chain[l])
            /\ \A i \in 2..Len(chain[p]) : chain[p][i] = chain[l][i]
        BY DEF AgreementInv, Agreement
      <4>2. CASE p = n
        <5>1. /\ Len(chain[n]) + 1 <= Len(chain[l])
              /\ chain[l][Len(chain[n]) + 1] = b
          BY <1>1, <1>2, <2>2, <2>4 DEF OnLedger
        <5>2. Len(chain'[p]) <= Len(chain'[l])
          BY <2>3, <2>4, <4>2, <5>1
        <5>3. ASSUME NEW i \in 2..Len(chain'[p]) PROVE chain'[p][i] = chain'[l][i]
          <6>1. CASE i = Len(chain[n]) + 1
            BY <2>3, <2>4, <4>2, <5>1, <6>1
          <6>2. CASE i # Len(chain[n]) + 1
            <7>1. Len(chain[n]) \in Nat
              BY <1>1, <1>2
            <7>2. i \in 2..Len(chain[n]) /\ i \in 1..Len(chain[n])
              BY <2>3, <4>2, <6>2, <7>1
            <7>. QED
              BY <2>3, <2>4, <4>1, <4>2, <7>2
          <6>. QED
            BY <6>1, <6>2
        <5>. QED
          BY <5>2, <5>3
      <4>3. CASE p # n
        BY <2>1, <2>4, <4>1, <4>3
      <4>. QED  BY <4>2, <4>3
    <3>. QED  BY <3>1 DEF Agreement
  <2>6. Numbered'
    <3>1. ASSUME NEW p \in Nodes, NEW i \in 1..Len(chain'[p])
          PROVE  chain'[p][i].block_number = i - 1
      <4>1. CASE p = n /\ i \in 1..Len(chain[n])
        BY <1>1, <2>3, <4>1 DEF AgreementInv, Numbered
      <4>2. CASE p = n /\ i = Len(chain[n]) + 1
        BY <1>1, <1>2, <2>2, <2>3, <4>2
      <4>3. CASE p # n
        BY <2>1, <4>3 DEF AgreementInv, Numbered
      <4>. QED  BY <1>1, <1>2, <2>3, <4>1, <4>2, <4>3
    <3>. QED  BY <3>1 DEF Numbered
  <2>7. Announced'
    BY <1>3, <2>4 DEF AgreementInv, Announced, OnLedger
  <2>8. Committed' /\ Standing'
    BY <1>3, <2>4 DEF AgreementInv, Committed, Standing
  <2>. QED
    BY <2>5, <2>6, <2>7, <2>8 DEF AgreementInv
<1>. QED  BY <1>4, <1>5

\* A restarted follower starts again with a genesis block of its own.
LEMMA RestartStep ==
  ASSUME AgreementInv, TypeInv', OneSteadyLeader, NEW n \in Nodes, Restart(n)
  PROVE  AgreementInv'
<1>1. PICK second \in Seconds : chain' = [chain EXCEPT ![n] = <<Genesis(n, second)>>]
  BY DEF Restart
<1>2. \A p \in Nodes : chain[p] \in Seq(Block) \ {<<>>} /\ Len(chain[p]) \in Nat \ {0}
  BY DEF AgreementInv, TypeInv, TypeOK
<1>3. /\ chain'[n] = <<Genesis(n, second)>>
      /\ \A p \in Nodes \ {n} : chain'[p] = chain[p]
  BY <1>1 DEF AgreementInv, TypeInv, TypeOK
<1>4. \A l \in Leaders : l \in Nodes /\ l # n /\ chain'[l] = chain[l]
  BY <1>3, POPAssumption DEF OneSteadyLeader, Restart
<1>5. Len(chain'[n]) = 1 /\ chain'[n][1].block_number = 0
  BY <1>3 DEF Genesis
<1>6. /\ msgs' \subseteq msgs
      /\ \A l \in Leaders : pc'[l] = pc[l] /\ current_block'[l] = current_block[l]
  BY <1>4 DEF Restart, AgreementInv, TypeInv, TypeOK
<1>7. Agreement'
  <2>1. ASSUME NEW l \in Leaders, NEW p \in Nodes
        PROVE  /\ Len(chain'[p]) <= Len(chain'[l])
               /\ \A i \in 2..Len(chain'[p]) : chain'[p][i] = chain'[l][i]
    <3>1. CASE p = n
      <4>1. Len(chain'[p]) = 1
        BY <1>5, <3>1
      <4>2. Len(chain'[l]) \in Nat \ {0}
        BY <1>2, <1>4
      <4>. QED
        BY <4>1, <4>2
    <3>2. CASE p # n
      BY <1>3, <1>4, <3>2 DEF AgreementInv, Agreement
    <3>. QED  BY <3>1, <3>2
  <2>. QED  BY <2>1 DEF Agreement
<1>8. Numbered'
  <2>1. ASSUME NEW p \in Nodes, NEW i \in 1..Len(chain'[p])
        PROVE  chain'[p][i].block_number = i - 1
    <3>1. CASE p = n
      BY <1>5, <3>1
    <3>2. CASE p # n
      BY <1>3, <3>2 DEF AgreementInv, Numbered
    <3>. QED  BY <3>1, <3>2
  <2>. QED  BY <2>1 DEF Numbered
<1>9. Announced'
  BY <1>4, <1>6 DEF AgreementInv, Announced, OnLedger
<1>10. Committed' /\ Standing'
  BY <1>4, <1>6 DEF AgreementInv, Committed, Standing
<1>. QED
  BY <1>7, <1>8, <1>9, <1>10 DEF AgreementInv

LEMMA AgreementStep ==
  ASSUME OneSteadyLeader
  PROVE  AgreementInv /\ [Next]_vars => AgreementInv'
<1> SUFFICES ASSUME AgreementInv, [Next]_vars PROVE AgreementInv'
  OBVIOUS
<1>1. TypeInv'
  BY TypeStep DEF AgreementInv
<1>2. ASSUME NEW l \in Leaders, LeaderTask(l) PROVE AgreementInv'
  BY <1>1, <1>2, QuietActions, TxSetApprovedStep, CommitBlockStep, AnnouncingActions
     DEF LeaderTask
<1>3. ASSUME NEW m \in msgs, Deliver(m) PROVE AgreementInv'
  BY <1>1, <1>3, QuietActions, DeliverBlockStep DEF Deliver, Handle
<1>4. ASSUME NEW n \in Nodes, Restart(n) PROVE AgreementInv'
  BY <1>1, <1>4, RestartStep
<1>5. ASSUME NEW l \in Leaders, BroadcastRaises(l) PROVE AgreementInv'
  BY <1>1, <1>5, AnnouncingActions
<1>. QED
  BY <1>1, <1>2, <1>3, <1>4, <1>5, QuietActions DEF Next

\* For any nodes, transactions, rounds and faults of followers: with one leader that
\* keeps its process, no ledger ever disagrees with the leader's (pop.py:322-445).
THEOREM LedgersAgree ==
  ASSUME OneSteadyLeader
  PROVE  Spec => []Agreement
<1>1. AgreementInv => Agreement
  BY DEF AgreementInv
<1>. QED
  BY <1>1, AgreementInit, AgreementStep, PTL DEF Spec

\* For any nodes, messages, stops and raising broadcasts: the block a leader built before
\* a vote still fits on its ledger after it, so its task does not die of a ValueError
\* (pop.py:246-331).
THEOREM TheBlockFits ==
  ASSUME OneSteadyLeader
  PROVE  Spec => []BlockFits
<1>1. AgreementInv => BlockFits
  BY DEF AgreementInv, Standing, BlockFits
<1>. QED
  BY <1>1, AgreementInit, AgreementStep, PTL DEF Spec

-----------------------------------------------------------------------------
(* State roots.                                                            *)

\* The transactions of the headers a hash covers, genesis left out.
History(hash) == [j \in 1..Len(hash) - 1 |-> hash[j + 1].transactions]

\* The root of a block is about what its hash is about.
Rooted(b) == b.state_root = History(BlockHash(b))

\* The headers of the blocks of a ledger up to the i-th one.
HashesItsPrefix(ledger, i) ==
  /\ Len(BlockHash(ledger[i])) = i
  /\ \A j \in 1..i : BlockHash(ledger[i])[j].transactions = ledger[j].transactions

RootedLedger(ledger) ==
  \A i \in 1..Len(ledger) : Rooted(ledger[i]) /\ HashesItsPrefix(ledger, i)

RootInv ==
  /\ TypeInv
  /\ \A n \in Nodes :
       /\ RootedLedger(chain[n])
       /\ state_root_cache[n] = Tip(chain[n]).state_root
       /\ pc[n] \in {"block_wait", "callback"} => Rooted(current_block[n])
  /\ \A m \in msgs : m.kind = "NEW_BLOCK" => Rooted(m.block)

LEMMA BlockHashParts ==
  ASSUME NEW b \in Block
  PROVE  /\ BlockHash(b) \in Seq(Header)
         /\ Len(b.prev_hash) \in Nat
         /\ Len(BlockHash(b)) = Len(b.prev_hash) + 1
         /\ \A j \in 1..Len(b.prev_hash) : BlockHash(b)[j] = b.prev_hash[j]
         /\ BlockHash(b)[Len(b.prev_hash) + 1].transactions = b.transactions
<1>. DEFINE header == [block_number |-> b.block_number, transactions |-> b.transactions,
                       state_root |-> b.state_root, timestamp |-> b.timestamp]
<1>1. b.prev_hash \in Seq(Header) /\ header \in Header /\ header.transactions = b.transactions
  BY DEF Block, Header
<1>2. BlockHash(b) = Append(b.prev_hash, header)
  BY DEF BlockHash
<1>. HIDE DEF header
<1>. QED
  BY <1>1, <1>2

LEMMA GenesisIsRooted ==
  ASSUME NEW n \in Nodes, NEW second \in Seconds
  PROVE  /\ RootedLedger(<<Genesis(n, second)>>)
         /\ Tip(<<Genesis(n, second)>>).state_root = <<>>
<1>. DEFINE g == Genesis(n, second)
<1>1. g \in Block /\ g.prev_hash = <<>> /\ g.state_root = <<>> /\ g.transactions = {}
  BY GenesisType DEF Genesis
<1>. HIDE DEF g
<1>2. Len(BlockHash(g)) = 1 /\ BlockHash(g)[1].transactions = g.transactions
  <2>1. Len(g.prev_hash) = 0
    BY <1>1
  <2>2. /\ Len(BlockHash(g)) = Len(g.prev_hash) + 1
        /\ BlockHash(g)[Len(g.prev_hash) + 1].transactions = g.transactions
    BY <1>1, BlockHashParts
  <2>. QED
    BY <2>1, <2>2
<1>3. History(BlockHash(g)) = <<>>
  BY <1>2 DEF History
<1>4. Rooted(g)
  BY <1>1, <1>3 DEF Rooted
<1>5. Len(<<g>>) = 1 /\ <<g>>[1] = g
  OBVIOUS
<1>6. RootedLedger(<<g>>)
  <2>. DEFINE ledger == <<g>>
  <2>. HIDE DEF ledger
  <2>1. Len(ledger) = 1 /\ ledger[1] = g
    BY <1>5 DEF ledger
  <2>2. RootedLedger(ledger)
    BY <1>2, <1>4, <2>1 DEF RootedLedger, HashesItsPrefix
  <2>. QED
    BY <2>2 DEF ledger
<1>7. Tip(<<g>>).state_root = <<>>
  BY <1>1, <1>5 DEF Tip
<1>. QED
  BY <1>6, <1>7 DEF g

\* A root that is one longer than the one it grew from.
LEMMA NextBlockIsRooted ==
  ASSUME RootInv, NEW n \in Nodes, NEW second \in Seconds, current_proposal[n] \in Proposal
  PROVE  Rooted(NextBlock(n, second))
<1>. DEFINE tip == Tip(chain[n])
            b == NextBlock(n, second)
            root == state_root_cache[n]
            new == current_proposal[n].transactions
<1>1. tip \in Block /\ b \in Block
  BY TipType, NextBlockType DEF RootInv, TypeInv, TypeOK
<1>2. /\ b.prev_hash = BlockHash(tip) /\ b.transactions = new
      /\ b.state_root = Append(root, new)
  BY DEF NextBlock, NextStateRoot
<1>3. Rooted(tip) /\ root = tip.state_root
  <2>1. Len(chain[n]) \in 1..Len(chain[n])
    BY TipType DEF RootInv, TypeInv, TypeOK
  <2>. QED
    BY <2>1 DEF RootInv, RootedLedger, Tip
<1>4. root \in Seq(SUBSET Txs) /\ new \in SUBSET Txs
  BY DEF RootInv, TypeInv, TypeOK, StateRoot, Proposal
<1>. HIDE DEF tip, b, root, new
<1>5. Len(BlockHash(tip)) \in Nat \ {0}
  BY <1>1, BlockHashParts
<1>6. /\ Len(BlockHash(b)) = Len(BlockHash(tip)) + 1
      /\ \A j \in 1..Len(BlockHash(tip)) : BlockHash(b)[j] = BlockHash(tip)[j]
      /\ BlockHash(b)[Len(BlockHash(tip)) + 1].transactions = new
  BY <1>1, <1>2, BlockHashParts
<1>7. root = [j \in 1..Len(BlockHash(tip)) - 1 |-> BlockHash(tip)[j + 1].transactions]
  BY <1>3 DEF Rooted, History
<1>8. Len(root) = Len(BlockHash(tip)) - 1
  BY <1>5, <1>7
<1>9. Append(root, new) = [j \in 1..Len(root) + 1 |-> IF j = Len(root) + 1 THEN new ELSE root[j]]
  <2>. DEFINE longer == Append(root, new)
  <2>1. longer \in Seq(SUBSET Txs) /\ Len(longer) = Len(root) + 1 /\ Len(root) \in Nat
    BY <1>4
  <2>2. \A j \in 1..Len(root) + 1 : longer[j] = IF j = Len(root) + 1 THEN new ELSE root[j]
    BY <1>4
  <2>. HIDE DEF longer
  <2>3. longer = [j \in 1..Len(root) + 1 |-> longer[j]]
    BY <2>1
  <2>4. longer = [j \in 1..Len(root) + 1 |-> IF j = Len(root) + 1 THEN new ELSE root[j]]
    BY <2>2, <2>3
  <2>. QED
    BY <2>4 DEF longer
<1>10. ASSUME NEW j \in 1..Len(BlockHash(b)) - 1
       PROVE  BlockHash(b)[j + 1].transactions = IF j = Len(root) + 1 THEN new ELSE root[j]
  <2>1. CASE j = Len(BlockHash(tip))
    BY <1>5, <1>6, <1>8, <2>1
  <2>2. CASE j # Len(BlockHash(tip))
    <3>1. j \in 1..Len(BlockHash(tip)) - 1 /\ j + 1 \in 1..Len(BlockHash(tip))
      BY <1>5, <1>6, <2>2
    <3>2. root[j] = BlockHash(tip)[j + 1].transactions
      BY <1>7, <3>1
    <3>. QED
      BY <1>6, <1>8, <2>2, <3>1, <3>2
  <2>. QED
    BY <2>1, <2>2
<1>11. Len(BlockHash(b)) - 1 = Len(root) + 1
  BY <1>5, <1>6, <1>8
<1>12. History(BlockHash(b)) = Append(root, new)
  BY <1>9, <1>10, <1>11 DEF History
<1>. QED
  BY <1>2, <1>12 DEF Rooted, b

\* A block that fits on a ledger hashes that ledger.
LEMMA AppendIsRooted ==
  ASSUME NEW ledger \in Seq(Block) \ {<<>>}, NEW b \in Block,
         RootedLedger(ledger), Rooted(b), Accepts(ledger, b)
  PROVE  RootedLedger(Append(ledger, b)) /\ Tip(Append(ledger, b)) = b
<1>. DEFINE longer == Append(ledger, b)
            k == Len(ledger)
<1>1. k \in Nat \ {0} /\ ledger[k] = Tip(ledger) /\ Tip(ledger) \in Block
  BY TipType DEF Tip
<1>2. /\ Len(longer) = k + 1
      /\ \A i \in 1..k : longer[i] = ledger[i]
      /\ longer[k + 1] = b
  BY AppendFacts
<1>3. b.prev_hash = BlockHash(ledger[k])
  BY <1>1 DEF Accepts
<1>. HIDE DEF longer, k
<1>4. HashesItsPrefix(ledger, k)
  BY <1>1 DEF RootedLedger, k
<1>5. Len(BlockHash(b)) = k + 1
  BY <1>3, <1>4, BlockHashParts DEF HashesItsPrefix
<1>6. ASSUME NEW j \in 1..k + 1
      PROVE  BlockHash(b)[j].transactions = longer[j].transactions
  <2>1. CASE j = k + 1
    BY <1>2, <1>3, <1>4, <2>1, BlockHashParts DEF HashesItsPrefix
  <2>2. CASE j # k + 1
    <3>1. j \in 1..k
      BY <1>1, <2>2
    <3>2. BlockHash(b)[j] = BlockHash(ledger[k])[j]
      BY <1>3, <1>4, <3>1, BlockHashParts DEF HashesItsPrefix
    <3>. QED
      BY <1>2, <1>4, <3>1, <3>2 DEF HashesItsPrefix
  <2>. QED
    BY <2>1, <2>2
<1>7. HashesItsPrefix(longer, k + 1)
  BY <1>2, <1>5, <1>6 DEF HashesItsPrefix
<1>8. ASSUME NEW i \in 1..k PROVE Rooted(longer[i]) /\ HashesItsPrefix(longer, i)
  <2>1. Rooted(ledger[i]) /\ HashesItsPrefix(ledger, i)
    BY DEF RootedLedger, k
  <2>2. \A j \in 1..i : j \in 1..k
    BY <1>1
  <2>. QED
    BY <1>2, <2>1, <2>2 DEF HashesItsPrefix
<1>9. RootedLedger(longer)
  BY <1>1, <1>2, <1>7, <1>8 DEF RootedLedger
<1>10. Tip(longer) = b
  BY <1>2 DEF Tip
<1>. QED
  BY <1>9, <1>10 DEF longer

LEMMA RootInit == Init => RootInv
<1>. SUFFICES ASSUME Init PROVE RootInv
  OBVIOUS
<1>1. PICK clock \in [Nodes -> Seconds] : chain = [n \in Nodes |-> <<Genesis(n, clock[n])>>]
  BY DEF Init
<1>2. \A n \in Nodes : RootedLedger(chain[n]) /\ Tip(chain[n]).state_root = <<>>
  BY <1>1, GenesisIsRooted
<1>. QED
  BY <1>2, TypeInit DEF Init, RootInv, Home

\* A step that changes no ledger and builds or announces no block.
LEMMA RootQuietStep ==
  ASSUME RootInv, TypeInv', UNCHANGED <<chain, state_root_cache>>,
         \A m \in msgs' : m.kind = "NEW_BLOCK" => m \in msgs,
         \A n \in Nodes : pc'[n] \in {"block_wait", "callback"} =>
            pc[n] \in {"block_wait", "callback"} /\ current_block'[n] = current_block[n]
  PROVE  RootInv'
BY DEF RootInv

\* One ledger grows by a block whose root is about its own history.
LEMMA RootRecordStep ==
  ASSUME RootInv, TypeInv', NEW n \in Nodes, NEW b \in Block, Rooted(b),
         Accepts(chain[n], b), Record(n, b), msgs' \subseteq msgs,
         \A k \in Nodes : pc'[k] \in {"block_wait", "callback"} =>
            pc[k] \in {"block_wait", "callback"} /\ current_block'[k] = current_block[k]
  PROVE  RootInv'
<1>1. chain[n] \in Seq(Block) \ {<<>>} /\ RootedLedger(chain[n])
  BY DEF RootInv, TypeInv, TypeOK
<1>2. /\ chain' = [chain EXCEPT ![n] = Append(chain[n], b)]
      /\ state_root_cache' = [state_root_cache EXCEPT ![n] = b.state_root]
  BY DEF Record
<1>3. RootedLedger(Append(chain[n], b)) /\ Tip(Append(chain[n], b)) = b
  BY <1>1, AppendIsRooted
<1>4. ASSUME NEW k \in Nodes
      PROVE  RootedLedger(chain'[k]) /\ state_root_cache'[k] = Tip(chain'[k]).state_root
  BY <1>2, <1>3 DEF RootInv, TypeInv, TypeOK
<1>5. \A k \in Nodes : Tip(chain[k])' = Tip(chain'[k]) /\ RootedLedger(chain[k])' = RootedLedger(chain'[k])
  BY DEF Tip, RootedLedger, Rooted, HashesItsPrefix, History, BlockHash
<1>6. \A k \in Nodes : pc'[k] \in {"block_wait", "callback"} => Rooted(current_block[k])'
  BY DEF RootInv, Rooted, History, BlockHash
<1>7. \A m \in msgs' : m.kind = "NEW_BLOCK" => Rooted(m.block)
  BY DEF RootInv
<1>. QED
  BY <1>4, <1>6, <1>7 DEF RootInv

LEMMA RootStep == RootInv /\ [Next]_vars => RootInv'
<1>. SUFFICES ASSUME RootInv, [Next]_vars PROVE RootInv'
  OBVIOUS
<1>. USE DEF roundVars, blockVars, ledgerVars, lifeVars
<1>1. TypeInv' /\ TypeInv /\ Leaders \subseteq Nodes
  BY TypeStep, POPAssumption DEF RootInv
<1>2. CASE \E n \in Clients, tx \in Txs : Submit(n, tx)
  BY <1>1, <1>2, RootQuietStep DEF Submit
<1>3. ASSUME NEW n \in Leaders, Propose(n) PROVE RootInv'
  BY <1>1, <1>3, RootQuietStep DEF Propose, TypeInv, TypeOK
<1>4. ASSUME NEW n \in Leaders, TxSetTimeout(n) \/ BlockTimeout(n) PROVE RootInv'
  BY <1>1, <1>4, RootQuietStep DEF TxSetTimeout, BlockTimeout, AfterRound, TypeInv, TypeOK
<1>5. ASSUME NEW n \in Leaders, TxSetApproved(n) PROVE RootInv'
  <2>1. PICK second \in Seconds :
          current_block' = [current_block EXCEPT ![n] = NextBlock(n, second)]
    BY <1>5 DEF TxSetApproved
  <2>2. Rooted(NextBlock(n, second))
    BY <1>1, <1>5, NextBlockIsRooted DEF TxSetApproved, TypeInv, Loaded
  <2>3. ASSUME NEW k \in Nodes, pc'[k] \in {"block_wait", "callback"}
        PROVE  Rooted(current_block'[k])
    BY <1>1, <1>5, <2>1, <2>2, <2>3 DEF TxSetApproved, RootInv, TypeInv, TypeOK
  <2>4. \A m \in msgs' : m.kind = "NEW_BLOCK" => m \in msgs
    BY <1>5 DEF TxSetApproved
  <2>5. UNCHANGED <<chain, state_root_cache>>
    BY <1>5 DEF TxSetApproved
  <2>. QED
    BY <1>1, <2>3, <2>4, <2>5 DEF RootInv
<1>6. ASSUME NEW n \in Leaders, CommitBlock(n) PROVE RootInv'
  <2>1. /\ n \in Nodes /\ current_block[n] \in Block /\ Rooted(current_block[n])
        /\ Accepts(chain[n], current_block[n]) /\ Record(n, current_block[n])
        /\ msgs' = msgs
    BY <1>1, <1>6 DEF CommitBlock, RootInv, TypeInv, Loaded
  <2>2. \A k \in Nodes : pc'[k] \in {"block_wait", "callback"} =>
          pc[k] \in {"block_wait", "callback"} /\ current_block'[k] = current_block[k]
    BY <1>1, <1>6 DEF CommitBlock, TypeInv, TypeOK
  <2>. QED
    BY <1>1, <2>1, <2>2, RootRecordStep
<1>7. ASSUME NEW n \in Leaders, CommitRaises(n) PROVE RootInv'
  BY <1>1, <1>7, RootQuietStep DEF CommitRaises, TypeInv, TypeOK
<1>8. ASSUME NEW n \in Leaders, FinishCommit(n) \/ BroadcastRaises(n) PROVE RootInv'
  <2>1. \A m \in msgs' : m.kind = "NEW_BLOCK" => m \in msgs \/ (m.block = current_block[n] /\ pc[n] = "callback")
    BY <1>8 DEF FinishCommit, BroadcastRaises, AnnounceBlock
  <2>2. \A m \in msgs' : m.kind = "NEW_BLOCK" => Rooted(m.block)
    BY <1>1, <2>1 DEF RootInv
  <2>3. UNCHANGED <<chain, state_root_cache>>
    BY <1>8 DEF FinishCommit, BroadcastRaises
  <2>4. \A k \in Nodes : pc'[k] \in {"block_wait", "callback"} =>
          pc[k] \in {"block_wait", "callback"} /\ current_block'[k] = current_block[k]
    BY <1>1, <1>8 DEF FinishCommit, BroadcastRaises, AfterRound, TypeInv, TypeOK
  <2>. QED
    BY <1>1, <2>2, <2>3, <2>4 DEF RootInv
<1>9. ASSUME NEW m \in msgs,
             \/ DeliverProposal(m) \/ DeliverTxSetVote(m)
             \/ DeliverBlockVote(m) \/ DeliverBlockUnderVote(m)
      PROVE  RootInv'
  <2>1. \A k \in msgs' : k.kind = "NEW_BLOCK" => k \in msgs
    BY <1>9 DEF DeliverProposal, OnProposal, DeliverTxSetVote, DeliverBlockVote,
                DeliverBlockUnderVote, Consume, Remaining
  <2>2. UNCHANGED <<chain, state_root_cache, pc, current_block>>
    BY <1>9 DEF DeliverProposal, DeliverTxSetVote, DeliverBlockVote, DeliverBlockUnderVote
  <2>. QED
    BY <1>1, <2>1, <2>2, RootQuietStep
<1>10. ASSUME NEW m \in msgs, DeliverBlock(m) PROVE RootInv'
  <2>1. /\ m.dst \in Nodes /\ m.block \in Block /\ Rooted(m.block)
        /\ msgs' \subseteq msgs /\ UNCHANGED <<pc, current_block>>
    BY <1>1, <1>10, MessageFields DEF RootInv, TypeInv, TypeOK, DeliverBlock, Consume, Remaining
  <2>2. CASE Accepts(chain[m.dst], m.block)
    BY <1>1, <1>10, <2>1, <2>2, RootRecordStep DEF DeliverBlock
  <2>3. CASE ~Accepts(chain[m.dst], m.block)
    BY <1>1, <1>10, <2>1, <2>3, RootQuietStep DEF DeliverBlock
  <2>. QED
    BY <2>2, <2>3
<1>11. CASE \E n \in Nodes : \E b \in syncing[n] : FinishSync(n, b)
  BY <1>1, <1>11, RootQuietStep DEF FinishSync
<1>12. ASSUME NEW n \in Nodes, Stop(n) PROVE RootInv'
  <2>1. \A k \in Nodes : pc'[k] \in {"block_wait", "callback"} => pc'[k] = pc[k]
    BY <1>1, <1>12 DEF Stop, TypeInv, TypeOK
  <2>. QED
    BY <1>1, <1>12, <2>1, RootQuietStep DEF Stop
<1>13. ASSUME NEW n \in Nodes, Restart(n) PROVE RootInv'
  <2>1. PICK second \in Seconds : chain' = [chain EXCEPT ![n] = <<Genesis(n, second)>>]
    BY <1>13 DEF Restart
  <2>2. /\ RootedLedger(<<Genesis(n, second)>>)
        /\ Tip(<<Genesis(n, second)>>).state_root = <<>>
    BY GenesisIsRooted
  <2>3. /\ state_root_cache' = [state_root_cache EXCEPT ![n] = <<>>]
        /\ pc' = [pc EXCEPT ![n] = Home(n)] /\ current_block' = [current_block EXCEPT ![n] = NoBlock]
        /\ msgs' \subseteq msgs
    BY <1>13 DEF Restart
  <2>4. Home(n) \notin {"block_wait", "callback"}
    BY DEF Home
  <2>5. ASSUME NEW k \in Nodes
        PROVE  /\ RootedLedger(chain'[k]) /\ state_root_cache'[k] = Tip(chain'[k]).state_root
               /\ pc'[k] \in {"block_wait", "callback"} => Rooted(current_block'[k])
    BY <1>1, <2>1, <2>2, <2>3, <2>4 DEF RootInv, TypeInv, TypeOK
  <2>. QED
    BY <1>1, <2>3, <2>5 DEF RootInv
<1>14. CASE UNCHANGED vars
  BY <1>1, <1>14, RootQuietStep DEF vars
<1>. QED
  BY <1>2, <1>3, <1>4, <1>5, <1>6, <1>7, <1>8, <1>9, <1>10, <1>11, <1>12, <1>13, <1>14
     DEF Next, LeaderTask, Deliver, Handle

\* For any nodes and leaders, with stops, restarts, lost, late and duplicated messages:
\* every state root on every ledger is the one of the transactions recorded before it
\* and with it (pop.py:303-320, 334, 427).
THEOREM RootsAreOfHistory == Spec => []RootsCommitToHistory
<1>1. ASSUME RootInv PROVE RootsCommitToHistory
  <2>1. ASSUME NEW n \in Nodes, NEW i \in 1..Len(chain[n])
        PROVE  chain[n][i].state_root = [j \in 1..i-1 |-> chain[n][j + 1].transactions]
    <3>1. Rooted(chain[n][i]) /\ HashesItsPrefix(chain[n], i)
      BY <1>1 DEF RootInv, RootedLedger
    <3>2. Len(chain[n]) \in Nat
      BY <1>1 DEF RootInv, TypeInv, TypeOK
    <3>3. \A j \in 1..i - 1 : BlockHash(chain[n][i])[j + 1].transactions = chain[n][j + 1].transactions
      BY <3>1, <3>2 DEF HashesItsPrefix
    <3>. QED
      BY <3>1, <3>3 DEF Rooted, History, HashesItsPrefix
  <2>. QED
    BY <2>1 DEF RootsCommitToHistory
<1>. QED
  BY <1>1, RootInit, RootStep, PTL DEF Spec

-----------------------------------------------------------------------------
(* Quorums.                                                                *)

OneLeader == \A k, l \in Leaders : k = l

\* stop() does not wake up a leader that then goes on (Python 3.12).
StopEndsTheTask == SwallowCancel => Leaders \cap MayStop = {}

\* Nobody rejects, and a leader has no proposal to answer.
Harmless(m) ==
  /\ m.kind \in {"VOTE_TXSET", "VOTE_BLOCK"} => m.vote.approve
  /\ m.kind = "PROPOSAL" => m.src \in Leaders /\ m.dst # m.src

QuorumInv ==
  /\ TypeInv
  /\ \A m \in msgs : Harmless(m)
  /\ \A l \in Leaders :
       /\ pc[l] = "txset_wait" /\ txset_event[l] => VC!HasConsensus(txset_collector[l])
       /\ pc[l] = "block_wait" => VC!HasConsensus(txset_collector[l])
       /\ pc[l] = "block_wait" /\ block_event[l] => VC!HasConsensus(block_collector[l])

\* An approval never takes a quorum away.
LEMMA ApprovalKeepsQuorum ==
  ASSUME NEW c \in VC!Collector, NEW voter \in Nodes, NEW vote \in VC!Vote, vote.approve,
         VC!HasConsensus(c)
  PROVE  VC!HasConsensus(VC!AddVote(c, voter, vote))
<1>. DEFINE old == VC!Weight(c.votes[voter], TRUE)
            new == VC!Weight(vote, TRUE)
            d == VC!AddVote(c, voter, vote)
<1>1. d.approve_count = c.approve_count - old + new /\ c.approve_count \in Int
  BY DEF VC!AddVote, VC!Collector
<1>2. vote # NoVote /\ vote.approve = TRUE
  BY NoVoteAssumption DEF VC!Vote
<1>3. new = 1
  BY <1>2 DEF VC!Weight
<1>4. old \in {0, 1}
  BY DEF VC!Weight
<1>5. VC!Threshold \in Int
  BY POPAssumption DEF VC!Threshold
<1>6. TotalNodes # 0 /\ c.approve_count >= VC!Threshold
  BY DEF VC!HasConsensus
<1>. HIDE DEF old, new, d
<1>7. d.approve_count >= VC!Threshold
  BY <1>1, <1>3, <1>4, <1>5, <1>6
<1>. QED
  BY <1>6, <1>7 DEF VC!HasConsensus, d

LEMMA QuorumInit == Init => QuorumInv
BY TypeInit, POPAssumption DEF Init, QuorumInv, Home

\* A step that sets no event, counts no vote and brings no leader to a wait.
LEMMA QuorumQuietStep ==
  ASSUME QuorumInv, TypeInv', \A m \in msgs' : Harmless(m),
         \A l \in Leaders : pc'[l] \in {"txset_wait", "block_wait"} =>
            /\ pc'[l] = pc[l]
            /\ txset_collector'[l] = txset_collector[l] /\ block_collector'[l] = block_collector[l]
            /\ txset_event'[l] = txset_event[l] /\ block_event'[l] = block_event[l]
  PROVE  QuorumInv'
BY DEF QuorumInv

LEMMA QuorumStep ==
  ASSUME OneLeader, StopEndsTheTask
  PROVE  QuorumInv /\ [Next]_vars => QuorumInv'
<1>. SUFFICES ASSUME QuorumInv, [Next]_vars PROVE QuorumInv'
  OBVIOUS
<1>. USE DEF roundVars, blockVars, ledgerVars, lifeVars
<1>1. /\ TypeInv' /\ TypeInv /\ Leaders \subseteq Nodes
      /\ \A m \in msgs : Harmless(m)
  BY TypeStep, POPAssumption DEF QuorumInv
<1>2. CASE \E n \in Clients, tx \in Txs : Submit(n, tx)
  BY <1>1, <1>2, QuorumQuietStep DEF Submit
<1>3. ASSUME NEW n \in Leaders, Propose(n) PROVE QuorumInv'
  <2>1. \A m \in msgs' : Harmless(m)
    BY <1>1, <1>3 DEF Propose, Harmless, Peers
  <2>2. /\ pc'[n] = "txset_wait"
        /\ txset_event'[n] => VC!HasConsensus(txset_collector'[n])
    BY <1>1, <1>3 DEF Propose, FreshEvent, TypeInv, TypeOK
  <2>. QED
    BY <1>1, <2>1, <2>2 DEF QuorumInv, OneLeader
<1>4. ASSUME NEW n \in Leaders,
             TxSetTimeout(n) \/ BlockTimeout(n) \/ CommitBlock(n) \/ CommitRaises(n)
      PROVE  QuorumInv'
  <2>1. /\ UNCHANGED <<txset_collector, block_collector, txset_event, block_event, msgs>>
        /\ pc'[n] \notin {"txset_wait", "block_wait"}
    BY <1>1, <1>4 DEF TxSetTimeout, BlockTimeout, CommitBlock, CommitRaises, AfterRound, TypeInv, TypeOK
  <2>. QED
    BY <1>1, <2>1, QuorumQuietStep DEF OneLeader
<1>5. ASSUME NEW n \in Leaders, TxSetApproved(n) PROVE QuorumInv'
  <2>1. \A m \in msgs' : Harmless(m)
    BY <1>1, <1>5 DEF TxSetApproved, Harmless
  <2>2. /\ pc'[n] = "block_wait"
        /\ block_event'[n] => VC!HasConsensus(block_collector'[n])
    BY <1>1, <1>5 DEF TxSetApproved, FreshEvent, TypeInv, TypeOK
  <2>3. VC!HasConsensus(txset_collector[n]) /\ txset_collector' = txset_collector
    BY <1>5 DEF TxSetApproved, QuorumInv
  <2>. QED
    BY <1>1, <2>1, <2>2, <2>3 DEF QuorumInv, OneLeader
<1>6. ASSUME NEW n \in Leaders, FinishCommit(n) \/ BroadcastRaises(n) PROVE QuorumInv'
  <2>1. \A m \in msgs' : Harmless(m)
    BY <1>1, <1>6 DEF FinishCommit, BroadcastRaises, AnnounceBlock, Harmless
  <2>2. /\ UNCHANGED <<txset_collector, block_collector, txset_event, block_event>>
        /\ pc'[n] \notin {"txset_wait", "block_wait"}
    BY <1>1, <1>6 DEF FinishCommit, BroadcastRaises, AfterRound, TypeInv, TypeOK
  <2>. QED
    BY <1>1, <2>1, <2>2, QuorumQuietStep DEF OneLeader
<1>7. ASSUME NEW m \in msgs, DeliverProposal(m) PROVE QuorumInv'
  <2>1. m.dst \notin Leaders
    BY <1>1, <1>7 DEF DeliverProposal, Harmless, OneLeader
  <2>2. \A k \in msgs' : Harmless(k)
    BY <1>1, <1>7 DEF DeliverProposal, OnProposal, Consume, Remaining, Harmless, Approval
  <2>3. /\ UNCHANGED <<block_collector, block_event, pc>>
        /\ \A l \in Leaders : txset_collector'[l] = txset_collector[l] /\ txset_event'[l] = txset_event[l]
    BY <1>1, <1>7, <2>1 DEF DeliverProposal, OnProposal, TypeInv, TypeOK
  <2>. QED
    BY <1>1, <2>2, <2>3, QuorumQuietStep
<1>8. ASSUME NEW m \in msgs, DeliverTxSetVote(m) PROVE QuorumInv'
  <2>. DEFINE tally == VC!AddVote(txset_collector[m.dst], m.src, m.vote)
  <2>1. /\ m.dst \in Nodes /\ m.src \in Nodes /\ m.vote \in VC!Vote /\ m.vote.approve
        /\ txset_collector[m.dst] \in VC!Collector
    BY <1>1, <1>8, MessageFields DEF DeliverTxSetVote, Harmless, TypeInv, TypeOK
  <2>2. VC!HasConsensus(txset_collector[m.dst]) => VC!HasConsensus(tally)
    BY <2>1, ApprovalKeepsQuorum
  <2>3. /\ txset_collector' = [txset_collector EXCEPT ![m.dst] = tally]
        /\ txset_event' = [txset_event EXCEPT ![m.dst] = txset_event[m.dst] \/ VC!HasConsensus(tally)]
        /\ UNCHANGED <<block_collector, block_event, pc>>
    BY <1>8 DEF DeliverTxSetVote
  <2>4. \A k \in msgs' : Harmless(k)
    BY <1>1, <1>8 DEF DeliverTxSetVote, Consume, Remaining
  <2>. HIDE DEF tally
  <2>. QED
    BY <1>1, <2>1, <2>2, <2>3, <2>4 DEF QuorumInv, TypeInv, TypeOK
<1>9. ASSUME NEW m \in msgs, DeliverBlockVote(m) PROVE QuorumInv'
  <2>. DEFINE tally == VC!AddVote(block_collector[m.dst], m.src, m.vote)
  <2>1. /\ m.dst \in Nodes /\ m.src \in Nodes /\ m.vote \in VC!Vote /\ m.vote.approve
        /\ block_collector[m.dst] \in VC!Collector
    BY <1>1, <1>9, MessageFields DEF DeliverBlockVote, Harmless, TypeInv, TypeOK
  <2>2. VC!HasConsensus(block_collector[m.dst]) => VC!HasConsensus(tally)
    BY <2>1, ApprovalKeepsQuorum
  <2>3. /\ block_collector' = [block_collector EXCEPT ![m.dst] = tally]
        /\ block_event' = [block_event EXCEPT ![m.dst] = block_event[m.dst] \/ VC!HasConsensus(tally)]
        /\ UNCHANGED <<txset_collector, txset_event, pc>>
    BY <1>9 DEF DeliverBlockVote
  <2>4. \A k \in msgs' : Harmless(k)
    BY <1>1, <1>9 DEF DeliverBlockVote, Consume, Remaining
  <2>. HIDE DEF tally
  <2>. QED
    BY <1>1, <2>1, <2>2, <2>3, <2>4 DEF QuorumInv, TypeInv, TypeOK
<1>10. ASSUME NEW m \in msgs, DeliverBlockUnderVote(m) \/ DeliverBlock(m) PROVE QuorumInv'
  <2>1. \A k \in msgs' : Harmless(k)
    BY <1>1, <1>10 DEF DeliverBlockUnderVote, DeliverBlock, Consume, Remaining, Harmless, Approval
  <2>2. UNCHANGED <<txset_collector, block_collector, txset_event, block_event, pc>>
    BY <1>10 DEF DeliverBlockUnderVote, DeliverBlock
  <2>. QED
    BY <1>1, <2>1, <2>2, QuorumQuietStep
<1>11. CASE \E n \in Nodes : \E b \in syncing[n] : FinishSync(n, b)
  BY <1>1, <1>11, QuorumQuietStep DEF FinishSync
<1>12. ASSUME NEW n \in Nodes, Stop(n) PROVE QuorumInv'
  <2>1. UNCHANGED <<txset_collector, block_collector, msgs>>
    BY <1>12 DEF Stop
  <2>2. ASSUME NEW l \in Leaders, pc'[l] \in {"txset_wait", "block_wait"}
        PROVE  pc'[l] = pc[l] /\ txset_event'[l] = txset_event[l] /\ block_event'[l] = block_event[l]
    <3>1. CASE n = l
      <4>1. ~SwallowCancel
        BY <1>12, <3>1 DEF Stop, StopEndsTheTask
      <4>2. pc'[l] \in {"dead", "stopped", "none"}
        BY <1>1, <1>12, <3>1, <4>1 DEF Stop, TypeInv, TypeOK
      <4>. QED
        BY <2>2, <4>2
    <3>2. CASE n # l
      <4>1. pc' = pc \/ \E place : pc' = [pc EXCEPT ![n] = place]
        BY <1>12 DEF Stop
      <4>2. pc'[l] = pc[l]
        BY <1>1, <3>2, <4>1 DEF TypeInv, TypeOK
      <4>3. txset_event'[l] = txset_event[l] /\ block_event'[l] = block_event[l]
        BY <1>1, <1>12, <3>2 DEF Stop, TypeInv, TypeOK
      <4>. QED
        BY <4>2, <4>3
    <3>. QED
      BY <3>1, <3>2
  <2>. QED
    BY <1>1, <2>1, <2>2, QuorumQuietStep
<1>13. ASSUME NEW n \in Nodes, Restart(n) PROVE QuorumInv'
  <2>1. \A m \in msgs' : Harmless(m)
    BY <1>1, <1>13 DEF Restart
  <2>2. Home(n) \notin {"txset_wait", "block_wait"}
    BY DEF Home
  <2>3. ASSUME NEW l \in Leaders, pc'[l] \in {"txset_wait", "block_wait"}
        PROVE  /\ pc'[l] = pc[l]
               /\ txset_collector'[l] = txset_collector[l] /\ block_collector'[l] = block_collector[l]
               /\ txset_event'[l] = txset_event[l] /\ block_event'[l] = block_event[l]
    BY <1>1, <1>13, <2>2, <2>3 DEF Restart, TypeInv, TypeOK
  <2>. QED
    BY <1>1, <2>1, <2>3, QuorumQuietStep
<1>14. CASE UNCHANGED vars
  BY <1>1, <1>14, QuorumQuietStep DEF vars
<1>. QED
  BY <1>2, <1>3, <1>4, <1>5, <1>6, <1>7, <1>8, <1>9, <1>10, <1>11, <1>12, <1>13, <1>14
     DEF Next, LeaderTask, Deliver, Handle

\* With one leader, whose task a stop() ends: nothing is recorded without a quorum of
\* both votes, whatever is late, repeated or counted from an earlier round (pop.py:200, 262).
THEOREM QuorumsBeforeCommit ==
  ASSUME OneLeader, StopEndsTheTask
  PROVE  Spec => CommitNeedsQuorums
<1>1. ASSUME QuorumInv, [Next]_vars
      PROVE  [ \A l \in Leaders : pc[l] = "block_wait" /\ pc'[l] = "callback" =>
                 VC!HasConsensus(txset_collector[l]) /\ VC!HasConsensus(block_collector[l]) ]_vars
  <2>1. ASSUME Next, NEW l \in Leaders, pc[l] = "block_wait", pc'[l] = "callback"
        PROVE  block_event[l]
    <3>. l \in Nodes /\ TypeInv
      BY <1>1, POPAssumption DEF QuorumInv
    <3>1. pc' # pc
      BY <2>1
    <3>2. CASE \E n \in Leaders : LeaderTask(n)
      BY <2>1, <3>2 DEF LeaderTask, Propose, TxSetTimeout, TxSetApproved, BlockTimeout, CommitBlock,
           CommitRaises, FinishCommit, AfterRound, TypeInv, TypeOK, OneLeader
    <3>3. CASE \E n \in Leaders : BroadcastRaises(n)
      BY <2>1, <3>3 DEF BroadcastRaises, TypeInv, TypeOK, OneLeader
    <3>4. CASE \E n \in Nodes : Stop(n) \/ Restart(n)
      BY <2>1, <3>4 DEF Stop, Restart, Home, TypeInv, TypeOK
    <3>5. CASE \/ \E n \in Clients, tx \in Txs : Submit(n, tx)
               \/ \E m \in msgs : Deliver(m)
               \/ \E n \in Nodes : \E b \in syncing[n] : FinishSync(n, b)
      BY <3>1, <3>5 DEF Submit, Deliver, Handle, DeliverProposal, DeliverTxSetVote,
           DeliverBlockVote, DeliverBlockUnderVote, DeliverBlock, FinishSync
    <3>. QED
      BY <2>1, <3>2, <3>3, <3>4, <3>5 DEF Next
  <2>. QED
    BY <1>1, <2>1 DEF QuorumInv, vars
<1>. QED
  BY <1>1, QuorumInit, QuorumStep, PTL DEF Spec, CommitNeedsQuorums

-----------------------------------------------------------------------------
(* Transactions.                                                           *)

\* Nobody whose mempool a client fills loses it.
MempoolsSurvive == OneSteadyLeader /\ Clients \cap MayRestart = {}

Pending(tx) == \E n \in Nodes : tx \in mempool[n]

\* Handed over, and then in one place.
Placed ==
  \A l \in Leaders, tx \in Txs :
    IF tx \in fresh THEN tx \notin Recorded(chain[l])
                    ELSE tx \in Recorded(chain[l]) <=> ~Pending(tx)

PlaceInv ==
  /\ AgreementInv
  /\ Placed
  /\ \A tx \in fresh : ~Pending(tx)
  /\ \A n, k \in Nodes : n # k => mempool[n] \cap mempool[k] = {}
  /\ \A n \in Nodes \ Clients : mempool[n] = {}
  /\ \A l \in Leaders :
       /\ pc[l] = "txset_wait" => current_proposal[l].transactions \in (SUBSET mempool[l]) \ {{}}
       /\ pc[l] = "block_wait" => current_block[l].transactions \in (SUBSET mempool[l]) \ {{}}
  /\ \A m \in msgs : m.kind = "PROPOSAL" => m.src \in Leaders /\ m.dst # m.src

LEMMA RecordedAppend ==
  ASSUME NEW ledger \in Seq(Block) \ {<<>>}, NEW b \in Block
  PROVE  Recorded(Append(ledger, b)) = Recorded(ledger) \cup b.transactions
<1>. DEFINE longer == Append(ledger, b)
<1>1. /\ Len(longer) = Len(ledger) + 1 /\ Len(ledger) \in Nat
      /\ \A i \in 1..Len(ledger) : longer[i] = ledger[i]
      /\ longer[Len(ledger) + 1] = b
  BY AppendFacts
<1>. HIDE DEF longer
<1>2. 1..Len(longer) = 1..Len(ledger) \cup {Len(ledger) + 1}
  BY <1>1
<1>3. Recorded(longer) = Recorded(ledger) \cup b.transactions
  BY <1>1, <1>2 DEF Recorded
<1>. QED
  BY <1>3 DEF longer

LEMMA PlaceInit == Init => PlaceInv
<1>. SUFFICES ASSUME Init PROVE PlaceInv
  OBVIOUS
<1>1. PICK clock \in [Nodes -> Seconds] : chain = [n \in Nodes |-> <<Genesis(n, clock[n])>>]
  BY DEF Init
<1>2. ASSUME NEW n \in Nodes PROVE Recorded(chain[n]) = {}
  <2>1. chain[n] = <<Genesis(n, clock[n])>>
    BY <1>1
  <2>. QED
    BY <2>1 DEF Recorded, Genesis
<1>3. Placed
  BY <1>2, POPAssumption DEF Init, Placed, Pending
<1>. QED
  BY <1>3, AgreementInit, POPAssumption DEF Init, PlaceInv, Pending, Home

\* A step that records and submits nothing and starts no round.
LEMMA PlaceQuietStep ==
  ASSUME PlaceInv, AgreementInv', UNCHANGED <<chain, mempool, fresh>>,
         \A m \in msgs' : m.kind = "PROPOSAL" => m \in msgs,
         \A l \in Leaders : pc'[l] \in {"txset_wait", "block_wait"} =>
            /\ pc'[l] = pc[l]
            /\ current_proposal'[l] = current_proposal[l] /\ current_block'[l] = current_block[l]
  PROVE  PlaceInv'
<1>1. \A tx : Pending(tx)' <=> Pending(tx)
  BY DEF Pending
<1>2. \A l \in Leaders : Recorded(chain[l])' = Recorded(chain[l])
  BY DEF Recorded
<1>3. Placed' /\ (\A tx \in fresh : ~Pending(tx))'
  BY <1>1, <1>2 DEF PlaceInv, Placed
<1>. QED
  BY <1>3 DEF PlaceInv

LEMMA SubmitPlaces ==
  ASSUME PlaceInv, AgreementInv', NEW n \in Clients, NEW tx \in Txs, Submit(n, tx)
  PROVE  PlaceInv'
<1>1. /\ n \in Nodes /\ tx \in fresh /\ fresh' = fresh \ {tx}
      /\ mempool' = [mempool EXCEPT ![n] = mempool[n] \cup {tx}]
      /\ UNCHANGED <<chain, msgs, pc, current_proposal, current_block>>
  BY POPAssumption DEF Submit, roundVars, blockVars, ledgerVars
<1>2. mempool \in [Nodes -> SUBSET Txs]
  BY DEF PlaceInv, AgreementInv, TypeInv, TypeOK
<1>3. \A k \in Nodes : mempool'[k] = IF k = n THEN mempool[n] \cup {tx} ELSE mempool[k]
  BY <1>1, <1>2
<1>4. \A l \in Leaders : l \in Nodes
  BY POPAssumption
<1>5. \A k \in Nodes : tx \notin mempool[k]
  BY <1>1 DEF PlaceInv, Pending
<1>6. \A t : Pending(t)' <=> Pending(t) \/ t = tx
  BY <1>1, <1>3 DEF Pending
<1>7. \A l \in Leaders : Recorded(chain[l])' = Recorded(chain[l])
  BY <1>1 DEF Recorded
<1>8. Placed' /\ (\A t \in fresh : ~Pending(t))'
  BY <1>1, <1>6, <1>7 DEF PlaceInv, Placed
<1>9. \A k, j \in Nodes : k # j => mempool'[k] \cap mempool'[j] = {}
  BY <1>3, <1>5 DEF PlaceInv
<1>10. \A k \in Nodes \ Clients : mempool'[k] = {}
  BY <1>3 DEF PlaceInv
<1>11. \A l \in Leaders :
         /\ pc'[l] = "txset_wait" => current_proposal'[l].transactions \in (SUBSET mempool'[l]) \ {{}}
         /\ pc'[l] = "block_wait" => current_block'[l].transactions \in (SUBSET mempool'[l]) \ {{}}
  BY <1>1, <1>3, <1>4 DEF PlaceInv
<1>12. \A m \in msgs' : m.kind = "PROPOSAL" => m.src \in Leaders /\ m.dst # m.src
  BY <1>1 DEF PlaceInv
<1>. QED
  BY <1>8, <1>9, <1>10, <1>11, <1>12 DEF PlaceInv

\* The leader's block takes its transactions from the leader's mempool to its ledger.
LEMMA CommitPlaces ==
  ASSUME PlaceInv, AgreementInv', OneSteadyLeader, NEW l \in Leaders, CommitBlock(l)
  PROVE  PlaceInv'
<1>. DEFINE b == current_block[l]
<1>1. /\ l \in Nodes /\ Leaders = {l} /\ b \in Block /\ chain[l] \in Seq(Block) \ {<<>>}
      /\ mempool \in [Nodes -> SUBSET Txs]
  BY POPAssumption DEF OneSteadyLeader, PlaceInv, AgreementInv, TypeInv, TypeOK, Loaded, CommitBlock
<1>2. b.transactions \in (SUBSET mempool[l]) \ {{}}
  BY DEF PlaceInv, CommitBlock
<1>3. /\ chain'[l] = Append(chain[l], b)
      /\ mempool' = [mempool EXCEPT ![l] = mempool[l] \ b.transactions]
      /\ pc'[l] = "callback" /\ UNCHANGED <<fresh, msgs, current_proposal, current_block>>
  BY <1>1 DEF CommitBlock, Record, PlaceInv, AgreementInv, TypeInv, TypeOK, roundVars, blockVars
<1>4. Recorded(chain'[l]) = Recorded(chain[l]) \cup b.transactions
  BY <1>1, <1>3, RecordedAppend
<1>. HIDE DEF b
<1>5. \A k \in Nodes : mempool'[k] = IF k = l THEN mempool[l] \ b.transactions ELSE mempool[k]
  BY <1>1, <1>3
<1>6. \A k \in Nodes : mempool'[k] \subseteq mempool[k]
  BY <1>5
<1>7. ASSUME NEW tx PROVE Pending(tx)' <=> Pending(tx) /\ tx \notin b.transactions
  BY <1>1, <1>2, <1>5 DEF Pending, PlaceInv
<1>8. Recorded(chain[l])' = Recorded(chain'[l])
  BY DEF Recorded
<1>9. \A tx \in b.transactions : Pending(tx)
  BY <1>1, <1>2 DEF Pending
<1>10. Placed'
  BY <1>1, <1>3, <1>4, <1>7, <1>8, <1>9 DEF PlaceInv, Placed
<1>11. (\A tx \in fresh : ~Pending(tx))'
  BY <1>3, <1>7 DEF PlaceInv
<1>12. /\ \A n, k \in Nodes : n # k => mempool'[n] \cap mempool'[k] = {}
       /\ \A n \in Nodes \ Clients : mempool'[n] = {}
  BY <1>6 DEF PlaceInv
<1>. QED
  BY <1>1, <1>3, <1>10, <1>11, <1>12 DEF PlaceInv

\* What a follower records left the mempools when the leader recorded it.
LEMMA DeliverPlaces ==
  ASSUME PlaceInv, AgreementInv', NEW m \in msgs, DeliverBlock(m)
  PROVE  PlaceInv'
<1>. DEFINE n == m.dst
            b == m.block
<1>1. /\ n \in Nodes /\ b \in Block /\ Leaders \subseteq Nodes
      /\ mempool \in [Nodes -> SUBSET Txs] /\ chain \in [Nodes -> Seq(Block) \ {<<>>}]
  BY MessageFields, POPAssumption DEF PlaceInv, AgreementInv, TypeInv, TypeOK, DeliverBlock
<1>2. msgs' \subseteq msgs /\ UNCHANGED <<pc, current_proposal, current_block, fresh>>
  BY DEF DeliverBlock, Consume, Remaining, blockVars, roundVars
<1>3. CASE ~Accepts(chain[n], b)
  BY <1>2, <1>3, PlaceQuietStep DEF DeliverBlock, ledgerVars, PlaceInv
<1>4. CASE Accepts(chain[n], b)
  <2>1. /\ chain' = [chain EXCEPT ![n] = Append(chain[n], b)]
        /\ mempool' = [mempool EXCEPT ![n] = mempool[n] \ b.transactions]
    BY <1>4 DEF DeliverBlock, Record
  <2>2. \A l \in Leaders : n # l /\ OnLedger(l, b)
    BY DEF PlaceInv, AgreementInv, Announced, DeliverBlock
  <2>3. \A l \in Leaders : chain'[l] = chain[l]
    BY <1>1, <2>1, <2>2
  <2>4. ASSUME NEW l \in Leaders, NEW tx \in b.transactions PROVE ~Pending(tx)
    <3>1. tx \in Txs
      BY <1>1 DEF Block
    <3>2. tx \in Recorded(chain[l])
      <4>1. chain[l][b.block_number + 1] = b /\ b.block_number + 1 \in 1..Len(chain[l])
        BY <1>1, <2>2 DEF OnLedger
      <4>. QED
        BY <4>1 DEF Recorded
    <3>. QED
      BY <3>1, <3>2 DEF PlaceInv, Placed
  <2>5. \A k \in Nodes : mempool'[k] = IF k = n THEN mempool[n] \ b.transactions ELSE mempool[k]
    BY <1>1, <2>1
  <2>6. \A l \in Leaders : mempool'[l] = mempool[l]
    BY <1>1, <2>2, <2>5
  <2>7. \A k \in Nodes : mempool'[k] \subseteq mempool[k]
    BY <2>5
  <2>8. ASSUME NEW l \in Leaders, NEW tx PROVE Pending(tx)' <=> Pending(tx)
    BY <2>4, <2>5 DEF Pending
  <2>9. \A l \in Leaders : Recorded(chain[l])' = Recorded(chain[l])
    BY <2>3 DEF Recorded
  <2>10. Placed'
    BY <1>2, <2>8, <2>9 DEF PlaceInv, Placed
  <2>11. (\A tx \in fresh : ~Pending(tx))'
    BY <1>2, <2>7 DEF PlaceInv, Pending
  <2>12. /\ \A k, j \in Nodes : k # j => mempool'[k] \cap mempool'[j] = {}
         /\ \A k \in Nodes \ Clients : mempool'[k] = {}
    BY <2>7 DEF PlaceInv
  <2>. QED
    BY <1>2, <2>6, <2>10, <2>11, <2>12 DEF PlaceInv
<1>. QED
  BY <1>3, <1>4

LEMMA RestartPlaces ==
  ASSUME PlaceInv, AgreementInv', MempoolsSurvive, NEW n \in Nodes, Restart(n)
  PROVE  PlaceInv'
<1>1. n \notin Leaders /\ n \notin Clients /\ Leaders \subseteq Nodes
  BY POPAssumption DEF MempoolsSurvive, OneSteadyLeader, Restart
<1>2. /\ mempool \in [Nodes -> SUBSET Txs] /\ mempool[n] = {}
      /\ mempool' = [mempool EXCEPT ![n] = {}]
  BY <1>1 DEF Restart, PlaceInv, AgreementInv, TypeInv, TypeOK
<1>3. mempool' = mempool
  BY <1>2
<1>4. \A l \in Leaders : /\ chain'[l] = chain[l] /\ pc'[l] = pc[l]
                         /\ current_proposal'[l] = current_proposal[l]
                         /\ current_block'[l] = current_block[l]
  BY <1>1 DEF Restart, PlaceInv, AgreementInv, TypeInv, TypeOK
<1>5. msgs' \subseteq msgs /\ UNCHANGED fresh
  BY DEF Restart
<1>6. \A tx : Pending(tx)' <=> Pending(tx)
  BY <1>3 DEF Pending
<1>7. \A l \in Leaders : Recorded(chain[l])' = Recorded(chain[l])
  BY <1>4 DEF Recorded
<1>8. Placed' /\ (\A tx \in fresh : ~Pending(tx))'
  BY <1>5, <1>6, <1>7 DEF PlaceInv, Placed
<1>. QED
  BY <1>3, <1>4, <1>5, <1>8 DEF PlaceInv

LEMMA PlaceStep ==
  ASSUME MempoolsSurvive
  PROVE  PlaceInv /\ [Next]_vars => PlaceInv'
<1>. SUFFICES ASSUME PlaceInv, [Next]_vars PROVE PlaceInv'
  OBVIOUS
<1>. USE DEF roundVars, blockVars, ledgerVars, lifeVars
<1>1. /\ AgreementInv' /\ TypeInv' /\ TypeInv /\ Leaders \subseteq Nodes /\ OneSteadyLeader
      /\ \A k, l \in Leaders : k = l
  BY AgreementStep, POPAssumption DEF PlaceInv, MempoolsSurvive, AgreementInv, OneSteadyLeader
<1>2. CASE \E n \in Clients, tx \in Txs : Submit(n, tx)
  BY <1>1, <1>2, SubmitPlaces
<1>3. ASSUME NEW n \in Leaders, Propose(n) PROVE PlaceInv'
  <2>1. /\ pc'[n] = "txset_wait" /\ current_proposal'[n].transactions = mempool[n]
        /\ mempool[n] # {} /\ UNCHANGED <<chain, mempool, fresh>>
    BY <1>1, <1>3 DEF Propose, TypeInv, TypeOK
  <2>2. \A m \in msgs' : m.kind = "PROPOSAL" => m.src \in Leaders /\ m.dst # m.src
    BY <1>3 DEF Propose, Peers, PlaceInv
  <2>3. \A tx : Pending(tx)' <=> Pending(tx)
    BY <2>1 DEF Pending
  <2>4. \A l \in Leaders : Recorded(chain[l])' = Recorded(chain[l])
    BY <2>1 DEF Recorded
  <2>5. Placed' /\ (\A tx \in fresh : ~Pending(tx))'
    BY <2>1, <2>3, <2>4 DEF PlaceInv, Placed
  <2>6. \A l \in Leaders : l = n
    BY <1>1
  <2>. QED
    BY <1>1, <2>1, <2>2, <2>5, <2>6 DEF PlaceInv
<1>4. ASSUME NEW n \in Leaders, TxSetTimeout(n) \/ BlockTimeout(n) \/ CommitRaises(n)
      PROVE  PlaceInv'
  <2>1. /\ UNCHANGED <<chain, mempool, fresh, msgs>>
        /\ pc'[n] \notin {"txset_wait", "block_wait"}
    BY <1>1, <1>4 DEF TxSetTimeout, BlockTimeout, CommitRaises, AfterRound, TypeInv, TypeOK
  <2>. QED
    BY <1>1, <2>1, PlaceQuietStep
<1>5. ASSUME NEW n \in Leaders, TxSetApproved(n) PROVE PlaceInv'
  <2>1. PICK second \in Seconds :
          current_block' = [current_block EXCEPT ![n] = NextBlock(n, second)]
    BY <1>5 DEF TxSetApproved
  <2>2. /\ pc'[n] = "block_wait" /\ UNCHANGED <<chain, mempool, fresh>>
        /\ current_block'[n].transactions = current_proposal[n].transactions
    BY <1>1, <1>5, <2>1 DEF TxSetApproved, NextBlock, TypeInv, TypeOK
  <2>3. current_proposal[n].transactions \in (SUBSET mempool[n]) \ {{}}
    BY <1>5 DEF TxSetApproved, PlaceInv
  <2>4. \A m \in msgs' : m.kind = "PROPOSAL" => m \in msgs
    BY <1>5 DEF TxSetApproved
  <2>5. \A tx : Pending(tx)' <=> Pending(tx)
    BY <2>2 DEF Pending
  <2>6. \A l \in Leaders : Recorded(chain[l])' = Recorded(chain[l])
    BY <2>2 DEF Recorded
  <2>7. Placed' /\ (\A tx \in fresh : ~Pending(tx))'
    BY <2>2, <2>5, <2>6 DEF PlaceInv, Placed
  <2>8. \A l \in Leaders : l = n
    BY <1>1
  <2>. QED
    BY <1>1, <2>2, <2>3, <2>4, <2>7, <2>8 DEF PlaceInv
<1>6. ASSUME NEW n \in Leaders, CommitBlock(n) PROVE PlaceInv'
  BY <1>1, <1>6, CommitPlaces
<1>7. ASSUME NEW n \in Leaders, FinishCommit(n) \/ BroadcastRaises(n) PROVE PlaceInv'
  <2>1. /\ UNCHANGED <<chain, mempool, fresh>>
        /\ pc'[n] \notin {"txset_wait", "block_wait"}
        /\ \A m \in msgs' : m.kind = "PROPOSAL" => m \in msgs
    BY <1>1, <1>7 DEF FinishCommit, BroadcastRaises, AnnounceBlock, AfterRound, TypeInv, TypeOK
  <2>. QED
    BY <1>1, <2>1, PlaceQuietStep
<1>8. ASSUME NEW m \in msgs, DeliverProposal(m) PROVE PlaceInv'
  <2>1. m.dst \notin Leaders
    BY <1>1, <1>8 DEF DeliverProposal, PlaceInv
  <2>2. \A l \in Leaders : current_proposal'[l] = current_proposal[l]
    BY <1>1, <1>8, <2>1 DEF DeliverProposal, OnProposal, TypeInv, TypeOK
  <2>3. \A k \in msgs' : k.kind = "PROPOSAL" => k \in msgs
    BY <1>8 DEF DeliverProposal, OnProposal, Consume, Remaining
  <2>. QED
    BY <1>1, <1>8, <2>2, <2>3, PlaceQuietStep DEF DeliverProposal
<1>9. ASSUME NEW m \in msgs,
             DeliverTxSetVote(m) \/ DeliverBlockVote(m) \/ DeliverBlockUnderVote(m)
      PROVE  PlaceInv'
  <2>1. /\ UNCHANGED <<chain, mempool, fresh, pc, current_proposal, current_block>>
        /\ \A k \in msgs' : k.kind = "PROPOSAL" => k \in msgs
    BY <1>9 DEF DeliverTxSetVote, DeliverBlockVote, DeliverBlockUnderVote, Consume, Remaining
  <2>. QED
    BY <1>1, <2>1, PlaceQuietStep
<1>10. ASSUME NEW m \in msgs, DeliverBlock(m) PROVE PlaceInv'
  BY <1>1, <1>10, DeliverPlaces
<1>11. CASE \E n \in Nodes : \E b \in syncing[n] : FinishSync(n, b)
  BY <1>1, <1>11, PlaceQuietStep DEF FinishSync
<1>12. ASSUME NEW n \in Nodes, Stop(n) PROVE PlaceInv'
  <2>1. UNCHANGED <<chain, mempool, fresh, msgs, current_proposal, current_block>>
    BY <1>12 DEF Stop
  <2>2. \A l \in Leaders : pc'[l] \in {"txset_wait", "block_wait"} => pc'[l] = pc[l]
    BY <1>1, <1>12 DEF Stop, TypeInv, TypeOK
  <2>. QED
    BY <1>1, <2>1, <2>2, PlaceQuietStep
<1>13. ASSUME NEW n \in Nodes, Restart(n) PROVE PlaceInv'
  BY <1>1, <1>13, RestartPlaces
<1>14. CASE UNCHANGED vars
  BY <1>1, <1>14, PlaceQuietStep DEF vars
<1>. QED
  BY <1>2, <1>3, <1>4, <1>5, <1>6, <1>7, <1>8, <1>9, <1>10, <1>11, <1>12, <1>13, <1>14
     DEF Next, LeaderTask, Deliver, Handle

\* No two blocks of the leader's ledger have a transaction in common.
RecordedOnce ==
  \A l \in Leaders : \A i, j \in 1..Len(chain[l]) :
    i # j => chain[l][i].transactions \cap chain[l][j].transactions = {}

LEMMA RecordedOnceStep ==
  ASSUME MempoolsSurvive, PlaceInv, RecordedOnce, [Next]_vars
  PROVE  RecordedOnce'
<1>1. /\ Leaders \subseteq Nodes /\ OneSteadyLeader
      /\ chain \in [Nodes -> Seq(Block) \ {<<>>}]
  BY POPAssumption DEF MempoolsSurvive, PlaceInv, AgreementInv, TypeInv, TypeOK
<1>2. ASSUME NEW l \in Leaders, chain'[l] # chain[l] PROVE CommitBlock(l)
  <2>1. ASSUME NEW m \in msgs, DeliverBlock(m) PROVE chain'[l] = chain[l]
    <3>1. m.dst # l
      BY <2>1 DEF DeliverBlock, PlaceInv, AgreementInv, Announced
    <3>. QED
      BY <1>1, <2>1, <3>1 DEF DeliverBlock, Record, ledgerVars
  <2>2. ASSUME NEW n \in Nodes, Restart(n) PROVE chain'[l] = chain[l]
    <3>1. n # l
      BY <1>1, <2>2 DEF OneSteadyLeader, Restart
    <3>. QED
      BY <1>1, <2>2, <3>1 DEF Restart
  <2>3. ASSUME NEW n \in Leaders, CommitBlock(n) PROVE CommitBlock(l)
    BY <1>1, <2>3 DEF OneSteadyLeader
  <2>4. ASSUME NEW n \in Leaders,
               \/ Propose(n) \/ TxSetTimeout(n) \/ TxSetApproved(n) \/ BlockTimeout(n)
               \/ CommitRaises(n) \/ FinishCommit(n) \/ BroadcastRaises(n)
        PROVE  UNCHANGED chain
    BY <2>4 DEF Propose, TxSetTimeout, TxSetApproved, BlockTimeout, CommitRaises, FinishCommit,
                BroadcastRaises, ledgerVars
  <2>5. ASSUME NEW m \in msgs,
               \/ DeliverProposal(m) \/ DeliverTxSetVote(m) \/ DeliverBlockVote(m)
               \/ DeliverBlockUnderVote(m)
        PROVE  UNCHANGED chain
    BY <2>5 DEF DeliverProposal, DeliverTxSetVote, DeliverBlockVote, DeliverBlockUnderVote, ledgerVars
  <2>6. CASE \/ \E n \in Clients, tx \in Txs : Submit(n, tx)
             \/ \E n \in Nodes : \E b \in syncing[n] : FinishSync(n, b)
             \/ \E n \in Nodes : Stop(n)
             \/ UNCHANGED vars
    BY <1>2, <2>6 DEF Submit, FinishSync, Stop, vars, ledgerVars
  <2>. QED
    BY <1>2, <2>1, <2>2, <2>3, <2>4, <2>5, <2>6 DEF Next, LeaderTask, Deliver, Handle
<1>3. SUFFICES ASSUME NEW l \in Leaders, CommitBlock(l)
      PROVE  \A i, j \in 1..Len(chain'[l]) :
               i # j => chain'[l][i].transactions \cap chain'[l][j].transactions = {}
  BY <1>2 DEF RecordedOnce
<1> DEFINE b == current_block[l]
           r == chain'[l]
<1>4. /\ b \in Block /\ chain[l] \in Seq(Block) \ {<<>>} /\ Len(chain[l]) \in Nat
      /\ b.transactions \subseteq mempool[l] /\ b.transactions \subseteq Txs
      /\ r = Append(chain[l], b)
  <2>1. /\ b \in Block /\ chain[l] \in Seq(Block) \ {<<>>} /\ b.transactions \subseteq mempool[l]
    BY <1>1, <1>3 DEF CommitBlock, PlaceInv, AgreementInv, TypeInv, Loaded
  <2>2. r = Append(chain[l], b)
    BY <1>1, <1>3 DEF CommitBlock, Record
  <2>3. Len(chain[l]) \in Nat
    BY <2>1
  <2>4. b.transactions \subseteq Txs
    BY <2>1 DEF Block
  <2>. QED
    BY <2>1, <2>2, <2>3, <2>4
<1>. HIDE DEF b, r
<1>5. PICK n \in Nat : n = Len(chain[l])
  BY <1>4
<1>6. /\ Len(r) = n + 1 /\ r[n + 1] = b
      /\ \A i \in 1..n : r[i] = chain[l][i]
  BY <1>4, <1>5, AppendFacts
<1>7. ASSUME NEW i \in 1..n, NEW tx \in b.transactions PROVE tx \notin chain[l][i].transactions
  <2>1. Pending(tx) /\ tx \in Txs /\ tx \notin fresh
    BY <1>1, <1>4 DEF Pending, PlaceInv
  <2>2. tx \notin Recorded(chain[l])
    BY <2>1 DEF PlaceInv, Placed
  <2>. QED
    BY <1>5, <2>2 DEF Recorded
<1>8. ASSUME NEW i \in 1..Len(r), NEW j \in 1..Len(r), i # j
      PROVE  r[i].transactions \cap r[j].transactions = {}
  <2>1. (i \in 1..n \/ i = n + 1) /\ (j \in 1..n \/ j = n + 1)
    BY <1>6
  <2>2. CASE i \in 1..n /\ j \in 1..n
    <3>1. chain[l][i].transactions \cap chain[l][j].transactions = {}
      BY <1>5, <1>8, <2>2 DEF RecordedOnce
    <3>. QED
      BY <1>6, <2>2, <3>1
  <2>3. CASE i \in 1..n /\ j = n + 1
    BY <1>6, <1>7, <2>3
  <2>4. CASE i = n + 1 /\ j \in 1..n
    BY <1>6, <1>7, <2>4
  <2>. QED
    BY <1>8, <2>1, <2>2, <2>3, <2>4
<1>. QED
  BY <1>8 DEF r

\* One place: a block of the ledger or a mempool.
LEMMA OnePlace ==
  ASSUME PlaceInv, RecordedOnce, NEW l \in Leaders, NEW tx \in Txs \ fresh
  PROVE  PlacesOf(tx, chain[l]) = 1
<1> DEFINE blocks == {i \in 1..Len(chain[l]) : tx \in chain[l][i].transactions}
           holders == {n \in Nodes : tx \in mempool[n]}
<1>1. \A x : Cardinality({x}) = 1
  BY FS_Singleton
<1>2. Cardinality({}) = 0
  BY FS_EmptySet
<1>3. CASE tx \in Recorded(chain[l])
  <2>1. PICK i \in 1..Len(chain[l]) : tx \in chain[l][i].transactions
    BY <1>3 DEF Recorded
  <2>2. blocks = {i}
    BY <2>1 DEF RecordedOnce
  <2>3. holders = {}
    BY <1>3 DEF PlaceInv, Placed, Pending
  <2>4. Cardinality(blocks) = 1 /\ Cardinality(holders) = 0
    BY <1>1, <1>2, <2>2, <2>3
  <2>. QED
    BY <2>4 DEF PlacesOf
<1>4. CASE tx \notin Recorded(chain[l])
  <2>1. blocks = {}
    BY <1>4 DEF Recorded
  <2>2. PICK n \in Nodes : tx \in mempool[n]
    BY <1>4 DEF PlaceInv, Placed, Pending
  <2>3. holders = {n}
    BY <2>2 DEF PlaceInv
  <2>4. Cardinality(blocks) = 0 /\ Cardinality(holders) = 1
    BY <1>1, <1>2, <2>1, <2>3
  <2>. QED
    BY <2>4 DEF PlacesOf
<1>. QED
  BY <1>3, <1>4

\* With one leader, as long as no node that clients talk to is restarted: a transaction is
\* in one mempool and no block, or in one block and no mempool, whatever rounds fail and
\* are repeated and whatever messages are late, lost or doubled (pop.py:180-214, 322-338,
\* 416-430).
THEOREM TransactionsAreConserved ==
  ASSUME MempoolsSurvive
  PROVE  Spec => []TxConservation
<1> DEFINE Inv == PlaceInv /\ RecordedOnce
<1>1. Init => RecordedOnce
  <2> SUFFICES ASSUME Init PROVE RecordedOnce
    OBVIOUS
  <2>1. \A l \in Leaders : Len(chain[l]) = 1
    BY POPAssumption DEF Init
  <2>. QED
    BY <2>1 DEF RecordedOnce
<1>2. Init => Inv
  BY <1>1, PlaceInit
<1>3. Inv /\ [Next]_vars => Inv'
  BY PlaceStep, RecordedOnceStep
<1>4. Inv => TxConservation
  BY OnePlace DEF TxConservation
<1>. HIDE DEF Inv
<1>. QED
  BY <1>2, <1>3, <1>4, PTL DEF Spec

-----------------------------------------------------------------------------
(* The ledgers implement ReplicatedChain.                                  *)

\* One leader, and no ledger is lost: a copy that starts again is not a longer copy.
NothingIsLost == (\E l \in Leaders : Leaders = {l}) /\ MayRestart = {}

LEMMA TheLeaderLeads ==
  ASSUME NothingIsLost
  PROVE  /\ Leaders = {TheLeader} /\ TheLeader \in Nodes
         /\ OneSteadyLeader /\ MempoolsSurvive
BY POPAssumption DEF NothingIsLost, TheLeader, OneSteadyLeader, MempoolsSurvive

\* A block more on a ledger is a batch more in what it stands for.
LEMMA BatchesAppend ==
  ASSUME NEW ledger \in Seq(Block) \ {<<>>}, NEW b \in Block
  PROVE  /\ Batches(ledger) \in Seq(SUBSET Txs)
         /\ Len(Batches(ledger)) = Len(ledger) - 1
         /\ Batches(Append(ledger, b)) = Append(Batches(ledger), b.transactions)
<1>. DEFINE longer == Append(ledger, b)
            batches == Batches(ledger)
            k == Len(ledger)
<1>1. k \in Nat \ {0} /\ \A i \in 1..k : ledger[i] \in Block
  BY TipType
<1>2. Len(longer) = k + 1 /\ (\A i \in 1..k : longer[i] = ledger[i]) /\ longer[k + 1] = b
  BY AppendFacts
<1>3. batches = [i \in 1..k - 1 |-> ledger[i + 1].transactions]
  BY DEF Batches
<1>4. Batches(longer) = [i \in 1..k |-> longer[i + 1].transactions]
  BY <1>1, <1>2 DEF Batches
<1>. HIDE DEF longer, batches, k
<1>5. \A i \in 1..k - 1 : i + 1 \in 1..k
  BY <1>1
<1>6. batches \in Seq(SUBSET Txs) /\ Len(batches) = k - 1
  <2>1. \A i \in 1..k - 1 : ledger[i + 1].transactions \in SUBSET Txs
    BY <1>1, <1>5 DEF Block
  <2>2. batches \in [1..k - 1 -> SUBSET Txs] /\ k - 1 \in Nat
    BY <1>1, <1>3, <2>1
  <2>. QED
    BY <2>2
<1>7. Append(batches, b.transactions) =
        [i \in 1..k |-> IF i = k THEN b.transactions ELSE batches[i]]
  <2>. DEFINE grown == Append(batches, b.transactions)
  <2>1. b.transactions \in SUBSET Txs
    BY DEF Block
  <2>2. grown \in Seq(SUBSET Txs) /\ Len(grown) = k
    BY <1>1, <1>6, <2>1
  <2>3. \A i \in 1..k : grown[i] = IF i = k THEN b.transactions ELSE batches[i]
    BY <1>1, <1>6, <2>1
  <2>. HIDE DEF grown
  <2>4. grown = [i \in 1..k |-> grown[i]]
    BY <2>2
  <2>5. grown = [i \in 1..k |-> IF i = k THEN b.transactions ELSE batches[i]]
    BY <2>3, <2>4
  <2>. QED
    BY <2>5 DEF grown
<1>8. ASSUME NEW i \in 1..k
      PROVE  longer[i + 1].transactions = IF i = k THEN b.transactions ELSE batches[i]
  BY <1>1, <1>2, <1>3, <1>5
<1>9. Batches(longer) = Append(batches, b.transactions)
  BY <1>4, <1>7, <1>8
<1>. QED
  BY <1>6, <1>9 DEF longer, batches, k

LEMMA ChainInit == ASSUME NothingIsLost PROVE Init => Promise!Init
<1>. SUFFICES ASSUME Init PROVE Promise!Init
  OBVIOUS
<1>1. PICK clock \in [Nodes -> Seconds] : chain = [n \in Nodes |-> <<Genesis(n, clock[n])>>]
  BY DEF Init
<1>2. ASSUME NEW n \in Nodes PROVE Batches(chain[n]) = <<>>
  <2>1. chain[n] = <<Genesis(n, clock[n])>>
    BY <1>1
  <2>2. Len(chain[n]) = 1
    BY <2>1
  <2>. QED
    BY <2>2 DEF Batches
<1>. QED
  BY <1>2, TheLeaderLeads DEF Promise!Init

\* The leader's commit extends the log by transactions that are not in it.
LEMMA CommitExtends ==
  ASSUME NothingIsLost, PlaceInv, CommitBlock(TheLeader)
  PROVE  Promise!Extend
<1>. DEFINE l == TheLeader
            b == current_block[l]
<1>1. /\ l \in Leaders /\ l \in Nodes /\ b \in Block
      /\ chain \in [Nodes -> Seq(Block) \ {<<>>}]
  BY TheLeaderLeads DEF PlaceInv, AgreementInv, TypeInv, TypeOK, Loaded, CommitBlock
<1>2. b.transactions \in (SUBSET mempool[l]) \ {{}}
  BY <1>1 DEF PlaceInv, CommitBlock
<1>3. chain' = [chain EXCEPT ![l] = Append(chain[l], b)]
  BY DEF CommitBlock, Record
<1>. HIDE DEF l, b
<1>4. Batches(chain'[l]) = Append(Batches(chain[l]), b.transactions)
  BY <1>1, <1>3, BatchesAppend
<1>5. \A n \in Nodes \ Leaders : chain'[n] = chain[n]
  BY <1>1, <1>3
<1>6. UNION {Batches(chain[l])[i] : i \in 1..Len(Batches(chain[l]))} \subseteq Recorded(chain[l])
  <2>1. Len(Batches(chain[l])) = Len(chain[l]) - 1 /\ Len(chain[l]) \in Nat \ {0}
    BY <1>1, BatchesAppend, TipType
  <2>2. ASSUME NEW i \in 1..Len(chain[l]) - 1
        PROVE  Batches(chain[l])[i] = chain[l][i + 1].transactions /\ i + 1 \in 1..Len(chain[l])
    BY <2>1 DEF Batches
  <2>. QED
    BY <2>1, <2>2 DEF Recorded
<1>7. b.transactions \in SUBSET Txs
  BY <1>1 DEF Block
<1>8. \A tx \in b.transactions : tx \notin Recorded(chain[l])
  BY <1>1, <1>2, <1>7 DEF PlaceInv, Placed, Pending
<1>9. b.transactions \in (SUBSET (Txs \ Promise!Logged)) \ {{}}
  BY <1>2, <1>6, <1>7, <1>8 DEF Promise!Logged, l
<1>10. Batches(chain[l])' = Append(Batches(chain[l]), b.transactions)
  BY <1>4 DEF Batches
<1>11. [n \in Nodes \ Leaders |-> Batches(chain[n])]' = [n \in Nodes \ Leaders |-> Batches(chain[n])]
  BY <1>5 DEF Batches
<1>. QED
  BY <1>9, <1>10, <1>11 DEF Promise!Extend, l

\* A follower that records a block copies the batch that is next.
LEMMA DeliverCopies ==
  ASSUME NothingIsLost, PlaceInv, NEW m \in msgs, DeliverBlock(m), Accepts(chain[m.dst], m.block)
  PROVE  m.dst \in Nodes \ Leaders /\ Promise!CopyNext(m.dst)
<1>. DEFINE l == TheLeader
            n == m.dst
            b == m.block
<1>1. /\ l \in Leaders /\ l \in Nodes /\ n \in Nodes /\ b \in Block
      /\ chain \in [Nodes -> Seq(Block) \ {<<>>}]
  BY TheLeaderLeads, MessageFields DEF PlaceInv, AgreementInv, TypeInv, TypeOK, DeliverBlock
<1>2. \A k \in Leaders : n # k /\ OnLedger(k, b)
  BY DEF PlaceInv, AgreementInv, Announced, DeliverBlock
<1>3. b.block_number = Len(chain[n])
  BY <1>1, AcceptedNumber DEF PlaceInv, AgreementInv
<1>4. chain' = [chain EXCEPT ![n] = Append(chain[n], b)]
  BY DEF DeliverBlock, Record
<1>. HIDE DEF l, n, b
<1>5. /\ Len(chain[n]) \in Nat \ {0} /\ Len(chain[l]) \in Nat \ {0}
      /\ Len(chain[n]) + 1 \in 2..Len(chain[l]) /\ chain[l][Len(chain[n]) + 1] = b
  BY <1>1, <1>2, <1>3, TipType DEF OnLedger
<1>6. /\ Len(Batches(chain[n])) = Len(chain[n]) - 1
      /\ Len(Batches(chain[l])) = Len(chain[l]) - 1
      /\ Batches(Append(chain[n], b)) = Append(Batches(chain[n]), b.transactions)
  BY <1>1, BatchesAppend
<1>7. Batches(chain[l])[Len(Batches(chain[n])) + 1] = b.transactions
  <2>1. Len(Batches(chain[n])) + 1 = Len(chain[n]) /\ Len(chain[n]) \in 1..Len(chain[l]) - 1
    BY <1>5, <1>6
  <2>. QED
    BY <1>5, <2>1 DEF Batches
<1>8. Len(Batches(chain[n])) < Len(Batches(chain[l]))
  BY <1>5, <1>6
<1>9. chain'[l] = chain[l] /\ chain'[n] = Append(chain[n], b) /\ n \notin Leaders
  BY <1>1, <1>2, <1>4
<1>10. [k \in Nodes \ Leaders |-> Batches(chain'[k])] =
         [[k \in Nodes \ Leaders |-> Batches(chain[k])] EXCEPT ![n] = Append(Batches(chain[n]), b.transactions)]
  BY <1>1, <1>4, <1>6, <1>9
<1>. QED
  BY <1>1, <1>7, <1>8, <1>9, <1>10 DEF Promise!CopyNext, l, n

LEMMA ChainStep ==
  ASSUME NothingIsLost
  PROVE  PlaceInv /\ [Next]_vars => [Promise!Next]_(Promise!chainVars)
<1>. SUFFICES ASSUME PlaceInv, [Next]_vars PROVE [Promise!Next]_(Promise!chainVars)
  OBVIOUS
<1>. USE DEF ledgerVars
<1>1. ASSUME UNCHANGED chain PROVE UNCHANGED Promise!chainVars
  BY <1>1 DEF Promise!chainVars, Batches
<1>2. ASSUME NEW n \in Leaders, LeaderTask(n) PROVE [Promise!Next]_(Promise!chainVars)
  <2>1. CASE CommitBlock(n)
    BY <2>1, CommitExtends, TheLeaderLeads DEF Promise!Next
  <2>2. CASE ~CommitBlock(n)
    BY <1>1, <1>2, <2>2 DEF LeaderTask, Propose, TxSetTimeout, TxSetApproved, BlockTimeout,
         CommitRaises, FinishCommit
  <2>. QED
    BY <2>1, <2>2
<1>3. ASSUME NEW m \in msgs, Deliver(m) PROVE [Promise!Next]_(Promise!chainVars)
  <2>1. CASE DeliverBlock(m) /\ Accepts(chain[m.dst], m.block)
    BY <2>1, DeliverCopies DEF Promise!Next
  <2>2. CASE ~(DeliverBlock(m) /\ Accepts(chain[m.dst], m.block))
    BY <1>1, <1>3, <2>2 DEF Deliver, Handle, DeliverProposal, DeliverTxSetVote, DeliverBlockVote,
         DeliverBlockUnderVote, DeliverBlock
  <2>. QED
    BY <2>1, <2>2
<1>4. CASE \/ \E n \in Clients, tx \in Txs : Submit(n, tx)
           \/ \E n \in Nodes : \E b \in syncing[n] : FinishSync(n, b)
           \/ \E n \in Leaders : BroadcastRaises(n)
           \/ \E n \in Nodes : Stop(n) \/ Restart(n)
           \/ UNCHANGED vars
  BY <1>1, <1>4 DEF Submit, FinishSync, BroadcastRaises, Stop, Restart, NothingIsLost, vars
<1>. QED
  BY <1>2, <1>3, <1>4 DEF Next

\* With one leader and no restarts, for any nodes, messages, timeouts and retries: the
\* ledgers are one log that grows by new batches, and copies of it (pop.py:322-365, 416-445).
THEOREM ConsensusImplementsChain ==
  ASSUME NothingIsLost
  PROVE  Spec => ImplementsReplicatedChain
<1>1. PlaceInv /\ [Next]_vars => PlaceInv'
  BY PlaceStep, TheLeaderLeads
<1>. QED
  BY <1>1, PlaceInit, ChainInit, ChainStep, PTL DEF Spec, ImplementsReplicatedChain, Promise!Spec
=============================================================================
