# Verification of ChainDB

TLA+ specifications of ChainDB (`src/src/chain_db`), a small blockchain database:
SQL statements become transactions, a two-phase consensus puts them into blocks, and
every node replays the blocks into its own SQLite database. The modules are checked
with TLC on small instances, and the central invariants are proved with TLAPS for all
values of the constants. Paths below are relative to `src/src/chain_db` unless they
start with `docs/`.

## 1. The system

| Component | State it keeps | Operations | Talks to |
|---|---|---|---|
| Vote collector (`consensus/vote.py`, `native/`) | proposal id, voter -> vote, two counters | `reset`, `add_vote`, `has_consensus`, `is_rejected` | owned by the engine, two per node |
| POP engine (`consensus/pop.py`) | state, round, proposal, block, two events, state root cache, leader task | `_leader_loop` and what it awaits, `on_proposal`, `on_vote`, `on_block`, `stop` | ledger, mempool, network, table sync (callback) |
| Blocks, ledger, mempool (`models/`) | blocks by number, tip, index, pending transactions | `append_block`, `add`, `remove` | shared by engine, RPC, table sync |
| Persistent ledger (`models/persistent_ledger.py`) | the same, plus a SQLite file and the set of processed proposals | `append_block`, `_recover_chain`, `mark_proposal_processed` | nobody in `src`; same interface as `Ledger` |
| Table sync (`sync/table_sync.py`, `sync/state_manager.py`) | registry, checkpoint in memory and in a JSON file | `sync_block`, `replay_from`, `start` | ledger, registry, database |
| Local database (`storage/database.py`) | SQLite file | `execute_ddl`, `execute_dml`, batches | table sync, queries |
| SQL validator and converter (`sql/`) | sequence counters | validate, number, convert | registry, mempool |
| P2P network, router (`network/`) | peer table, reader tasks | `broadcast`, `connect_to_peers`, `stop`, `route` | engine |
| Incremental sync (`sync/incremental.py`) | fingerprints of blocks and tables | plans, change feed, verification, export, import | ledger (read only), RPC |
| Relation index (`relation_index.py`) | relations, reverse index, profiles | `process_block`, lookups | ledger (read only); no caller in `src` |
| RPC (`api/`), dashboard, queries, config | none of their own | submit, query, `syncTable`, plans, audits | all of the above |

`main.py` wires them in one asyncio process per node. Interaction is by direct calls,
one callback (a committed block is handed to `TableSync.sync_block`, and awaited), and
broadcasts between nodes.

What is hard about it:

* **Interleaving.** One event loop, many tasks: the leader task, one reader per
  connection, RPC requests, startup. Everything that awaits hands over the state it was
  looking at: the block built before a vote and appended after it, the registry changed
  before a database call and the database after it, `syncTable` beside the callback.
* **The network.** No retransmission, no catching up, two TCP connections per pair of
  nodes, failed sends dropped, a peer table that changes under a broadcast.
* **Timeouts.** Rounds are given up and repeated while answers to them are on the way.
* **Crashes.** Ledger and registry are in memory; database, checkpoint and the
  persistent ledger are not. Sequence numbers and fingerprints are in memory too, and
  describe a chain that may survive them.
* **Derived state.** Caches and indexes are filled on request, in any order, while the
  chain grows under them.

What makes it correct: nodes never disagree on a recorded block; a transaction is
recorded once; nothing is recorded without its quorums; state roots commit to history;
the database is the serial execution of the chain, with nothing skipped, repeated or
reordered, also after a restart; a recovered chain is whole; a live peer is
reachable; a plan for incremental sync skips no block; an index answers
as a scan of the chain does; and on a working network
every transaction is recorded by everybody in the end. The hazards behind these, each
at its line, are listed in `PROJECT.json`.

## 2. Modules

| Module | What it is |
|---|---|
| `VoteCollector` | the collector as operators on a record; used by the engine, two instances per node |
| `VoteTally` | one collector under any votes and resets |
| `VoteTallyProofs` | proofs about it |
| `POPConsensus` | the engine, ledger and mempool of every node and the messages between them |
| `ReplicatedChain` | abstract: one log of batches, copies that follow it |
| `POPRefinement` | `POPConsensus` implements `ReplicatedChain` |
| `POPConsensusProofs` | proofs: types; agreement, and that the block under vote fits; what the ledgers record, and the refinement |
| `LocalDatabase` | what statements and batches make of tables, columns and rows |
| `TableSync` | replay of the chain into the database, with crashes and concurrent tasks |
| `SerialReplay` | abstract: a log, and a database that executes it in order |
| `TableSyncRefinement` | `TableSync` implements `SerialReplay` |
| `FoldLemmas` | what `FoldLeft` computes, for any operator; instantiated by the proofs |
| `TableSyncProofs` | proofs: types, checkpoint, tables across crashes, the refinement; and about `Submission`: the implementation, and what becomes of what was accepted |
| `Submission` | from the request to the chain on one node; extends `TableSync`, whose steps are steps of it, and implements it |
| `PersistentLedger`, `PersistentLedgerProofs` | the ledger that survives a crash; proofs about it |
| `PeerTable`, `PeerTableProofs` | connections, the dict of peers and the tasks that share it; proofs about it |
| `ViewedChain` | a growing chain and the readers that scan it |
| `IncrementalSync`, `IncrementalSyncProofs` | the incremental sync engine over a `ViewedChain`; proofs about it |
| `RelationIndex`, `RelationIndexProofs` | the association graph over a `ViewedChain`; proofs about it |
| `MC...` | values for TLC: symmetry, pools of transactions, string order |

Operators marked "Mutant of ..." in a comment are not part of a model: each is a
plausible mistake in the definition that follows it. Replacing the definition by its
mutant makes TLC report the property named in `PROJECT.json`, which shows that the
property depends on that code.

### VoteCollector, VoteTally

`AddVote` keeps the code's arithmetic (undo the old vote, count the new one), so that
the counters are state of their own and can be wrong. `Threshold` is the ceil(2N/3) of
`native/__init__.py`, which the Rust crate computes alike.

### POPConsensus

A variable is a function from nodes to what the node keeps under the same name in
`pop.py`. An action is what a task does between two awaits that may suspend:

| Action | Code |
|---|---|
| `Submit` | `sql_submit`, `sql_submit_batch`, `create_table`: into the mempool of that node only |
| `Propose` | `_leader_loop` after its sleep, `_propose_transactions` up to its wait |
| `TxSetApproved`, `TxSetTimeout` | the two ends of `_wait_for_txset_consensus` |
| `CommitBlock`, `CommitRaises`, `BlockTimeout` | the ends of `_wait_for_block_consensus`; append, root and mempool up to the callback |
| `FinishCommit` | the rest of `_commit_block`: NEW_BLOCK, back to IDLE |
| `DeliverProposal` ... `DeliverBlock` | handlers of `main.py` and `on_...` of `pop.py` |
| `FinishSync` | `on_block` after its callback |
| `BroadcastRaises` | a peer table that changes under `broadcast` ends the leader task |
| `Stop`, `Restart` | `stop()`; a new process with an empty ledger |

`pc` says where the leader task is suspended. A round that timed out leaves proposal,
collectors and events as they are, as the code does.

Abstractions, and why they are harmless:

* A block hash is the sequence of all headers up to the block (collision freedom). The
  proposer is not hashed, as in the code. The order of transactions within a block is
  left out: a block carries the same set in the same order to everybody.
* A state root is the sequence of transaction sets it hashed.
* PROPOSING is never visible: it is set and left without an await.
* `send` of a broadcast is taken not to suspend. What an await in it could add is that
  votes arrive a little earlier; delivery is unordered in any case.
* `current_proposal` is never None in `_on_txset_approved` (nothing resets it between).
* The time in a proposal identifier is the boot count: identifiers of one process
  differ by round, those of two processes by time. `int(time.time())` in hashes is a
  member of `Seconds`; two values are enough to make two genesis blocks differ.
* Messages are a set. A message may be delivered once or never, and with `MayDuplicate`
  any number of times: `broadcast` iterates over the peer table, and a peer that
  reconnects while it awaits a send leaves the dict and enters it again at its end. What
  was on its way to a restarted node is lost.
* `Linked` are the connections. A vote of one follower to another changes a collector
  nobody reads, so `POP_ThreeNodes` connects followers with the leader only.
* `BlockVoters` are peers that answer a block with VOTE_BLOCK, as the engine's
  interface and class comment intend. Nothing in `src` does, and with `BlockVoters = {}`
  no block is ever committed when `total_nodes >= 2` (run `POP_Wired`). All other runs
  have them: what they show is about the engine, not about the wiring.
* `Synchronous` restricts the model to delays below `consensus_timeout` and one FIFO
  connection per pair, and lets the round counter saturate at its bound (a round number
  is never compared with another). It is used for liveness only.

### LocalDatabase, TableSync

A step is the synchronous part of one transaction (registry), its database call, or the
end of a block (checkpoint and file). Several workers take these steps over the same
state: callbacks, `start()`, and `syncTable` requests. `Crash` may come between any two
steps and may leave a truncated state file when a save was due.

* A row is a value; INSERT appends, UPDATE changes all rows, DELETE removes all. WHERE
  clauses, nullability and defaults are left out, so `Fails` has the structural reasons
  only: missing or duplicate tables and columns.
* A batch is one step with the transaction mode of Python's `sqlite3`, the one
  SQLAlchemy 2.0 uses: BEGIN before the first DML statement, DDL ahead of it commits by
  itself. Locks between concurrent connections are left out: `database is locked` after
  a five second wait is not modelled.
* `Submitted` admits to a block only DML and batches that the validator may have let
  pass at some earlier time; DDL is not validated at submission, as in `sql_submit`.
* `LedgerSurvives` tells the persistent ledger (TRUE) from the in-memory one of
  `main.py` (FALSE); with the latter nothing survives to be compared with (`TS_Wired`).
* `EarlyBlocks` is TRUE on a follower, which may receive blocks before `start()`.
* `tried` is a history variable: which positions of the chain were replayed.
* The save at shutdown (`main.py:199`) writes what the file holds already, or repairs a
  truncated file; it is left out.

### PersistentLedger

`AppendBlock` is the whole of `append_block`; `AppendFails` is the same with a commit
that raises. `Restart` is the end of the process at any point before or after the
commit, followed by `_recover_chain`. `PowerLoss` takes the machine down: commits since
the last sync are gone (`synchronous=NORMAL` in WAL mode), always a suffix of them.
`SortRank` is the place of an identifier in the string order that eviction uses.
`failed` is a history variable: `ChainIsWhole` holds until a commit fails, and
`WriteAhead`, the same without that condition, does not hold afterwards.

### Submission

The way of a statement on the leader: `SqlSubmit`, `CreateTable` and `SqlSubmitBatch` are
the three RPC handlers (validation against the registry as it is, the next sequence number,
`Mempool.add`), `Propose`, `RoundFails` and `Commit` the leader loop seen from the mempool,
`Replay` any step of `TableSync`, `NodeCrash` a crash of both. Which rounds succeed is
left open; `POPConsensus` says that. `TableSync` admits to a block
whatever some earlier registry may have let pass (`Submitted`); that the handlers,
the mempool and the retries produce nothing beyond it is `ImplementsTableSync`.

Mempool, index and `getTransaction` know a transaction by its hash. It covers the content and,
as one text without a delimiter, account and sequence number (`transaction.py:65`): `HashOf` is
the content and `Text[account][sequence]`, where `Text` is a constant of which is assumed
only that two numbers of one account differ. Accounts may have texts in common, as no. 2 of
`user1` and no. 12 of `user` do. `Added`, `Remaining`, `Places` and `Status` go by the
hash, so a later submission can take the place of a pending one of another account, be removed
from the mempool by its commit, or turn a status back. What is claimed is therefore about
transactions that share their hash with no other acceptance of the process (`Unshared`), and, of
shared ones, that the hash is never forgotten (`AcceptedIsKnown`). That none is shared
(`OneHashEach`) is false. The text is taken to end where the payload begins: no account
has a brace in its name.

### PeerTable

One node's `_peers` and the tasks that change it between their awaits: `Dial` and
`Register` for both directions of a connection, `ReaderEnds`, a `broadcast` in its
steps, `Stop` in its steps. The other ends of the connections are what may
happen to them (`Accept`, `Cut`, `GreetingFails`). Both nodes of a pair dial each
other, so a peer may have several connections and the table holds the last one.

* The dict is a sequence with holes, because what an iterator over it does depends on
  that: it raises when the size has changed, and may skip an entry when the dict was
  rebuilt without its holes (`Entered`, `Rebuilt`). `Usable` is the room of a dict before
  that: 5 in CPython.
* `untried` of a task and `overlapped` are history variables: the ids a broadcast owes a
  turn, and the connections that shared their peer id with another one being read.
* A reader ends when its connection does, after `stop()`, or at a frame that does not decode on
  a connection that is up. Neither it nor a handshake that fails closes the connection
  at this end. A reader may also stay where it is for ever: it awaits the handler of a message,
  which may await a broadcast, and neither `receive` nor `drain` has a timeout. So nothing is
  claimed about when an entry leaves the table.
* Messages are left out; `send_to` reads the table only and has no caller in `src`.

### ViewedChain, IncrementalSync, RelationIndex

`ViewedChain` is a ledger as its readers see it and the scans of it by `auditRecord` and
the dashboard. The two indexes are measured against these scans.

`IncrementalSync` keeps `table_fingerprints` and `block_fingerprints`; `Cached` is what
`_get_or_compute_block_fp` leaves in the cache, and every request (`IncrementalPlan`,
`ChangeFeed`, `TablesInBlock`) fills it. `changeFeed` takes any number, so `ChangeFeed`
may begin below block 0 (`AskedBelow`), which caches empty fingerprints under numbers no
block ever has. The client that replays the blocks of a plan and
reports each of them, and whoever calls `export_fingerprints` and
`import_fingerprints`, is not in `src`: `ReplayBlock`, `Export` and `Import` follow the
docstrings and tests of the engine. `AskedAhead` and `LedgerSurvives` are the two conditions
under which its cache is right, see below. Hashes of columns and rows are left out, as
nothing reads them; a content hash is the payloads it covers.

`RelationIndex` is `process_block` with its deduplication, reverse index and profiles, as
folds over the transactions of a block, and the lookups as operators. It may be called with
any block, in any order and repeatedly, as nothing in the code excludes it; `src` has no
caller at all. A transaction is its place on the chain here; the code identifies it by 16
digits of its hash, so a chain with one hash twice (see `Submission`) is outside this model. `compute_ftel` is arithmetic over floats and left out (see `findings`).

## 3. Runs

Passing runs:

| Run | Shows | Bounds |
|---|---|---|
| `VoteTally` | counters exact, verdicts exclusive, a quorum lost only by a changed vote or a reset | 4 voters, N = 4, 2 proposals; no bound on votes |
| `POP_ThreeNodes` | agreement; a transaction is in one mempool or one block; the block under vote still fits; quorums before commit; implements `ReplicatedChain` | 2 followers connected to the leader, which may be stopped or hit by a raising broadcast, 2 transactions, 2 rounds |
| `POP_Faults` | state roots commit to the history they are in, also on chains that diverge: two leaders, one restarts, the other is stopped or its broadcast raises, messages are lost and repeated | 2 nodes, 2 transactions, 1 round per boot, 1 restart |
| `POP_Live` | finality | 3 nodes, 2 transactions, fair |
| `TS_Sequential` | the database is the serial execution of the chain; implements `SerialReplay` | 3 blocks of up to 2 statements |
| `TS_Crash` | across crashes and beside a `syncTable` request nothing is skipped and every block is replayed and checkpointed in the end; without the request the tables converge | 2 blocks of up to 2 statements, 1 request, 2 crashes, fair |
| `Submission` | an accepted statement that shares its hash with no other is pending or recorded once and its status is final; no hash given out is forgotten; progress never goes back; the pipeline implements `TableSync` | 2 accounts with 2 and 1 submissions, one hash in common; 2 blocks, 2 transactions, 1 request, 1 crash |
| `PL_Crash` | recovery gives a whole chain: the same after a crash, an earlier state of it after a power loss; failed commits rewrite nothing | 3 blocks, 2 crashes |
| `PeerTable` | what the table offers is read, a broadcast that ends has tried everybody, a sole connection stays reachable | 2 peers, 3 connections, 1 broadcast |
| `IncrementalSync` | the cache is true, the change feed is the audit, no plan skips a block | 2 tables, 3 blocks, 3 transactions, 2 versions of a fingerprint, requests from -1 on |
| `RelationIndex` | the index answers as the scans do; degrees, weights and profiles are exact | 2 tables, 3 blocks, 4 calls of `process_block` |

Why the bounds are enough: what can go wrong in the consensus takes two rounds (a stale
event, a late vote, a retry, a block built on a tip that has moved). A block can only
overtake another when the second one is committed without the vote of a follower that
misses the first, which takes two followers (`POP_ThreeNodes`) or one that restarts
(the configuration POP_SteadyLeader); for more nodes agreement is proved. State roots go wrong
where a block is appended without the cache, which takes a block of one's own and one of
somebody else: one round of each of two leaders, and a restart for a chain that
begins again.
For the table sync two blocks are needed to skip or reorder one; two crashes allow one
during the recovery from the other. A statement grows stale in the mempool
while one other block changes its table. Two accounts share a hash, in decimal, with
no. 2 of one and no. 12 of the other; the instance writes numbers as strokes, so that
no. 1 of `u1` and no. 2 of `u` read the same (`Texts` of `MCSubmission`). Three connections are a pair that dialled each
other and one more peer, or one that replaced another one twice; two peers are enough for
a table that keeps its size while it changes. A cache entry goes stale with one block of
growth, a plan with a second plan or an import in between, which takes three blocks and
two versions. A relation is repeated by a second transaction or by a second call.

One run of `PROJECT.json` ends in a violation, because the code differs from its comments
and documents: with the wiring of `main.py` the block vote has no answer, and nothing is
ever committed with three nodes (`POP_Wired`, property `Finality`). The quotations
for it and for all other differences are under `findings` in `PROJECT.json`.

Further configurations stand beside the runs with the same conventions. They are not among
the runs of `PROJECT.json`; each is checked by hand with `tlc -config X.cfg M`. All but
POP_SteadyLeader end in a counterexample to their one property.

| Configuration | Module | Property | What happens |
|---|---|---|---|
| `VoteTally_DocThreshold` | `VoteTally` | `TwoThirdsPlusOne` | ceil(2N/3) is not floor(2N/3) + 1 when 3 divides N |
| `POP_SteadyLeader` | `MCPOPConsensus` | `Agreement`, `TxConservation`, `RootsCommitToHistory`, `CommitNeedsQuorums` | hold with one leader that may stop or raise, a follower that restarts, repeated messages |
| `POP_LateVotes` | `MCPOPConsensus` | `VotesNameTheProposal` | a vote on an earlier proposal is counted |
| `POP_StopCommits` | `MCPOPConsensus` | `CommitNeedsQuorums` | `stop()` can commit a block without votes (Python 3.10, 3.11) |
| `POP_RestartForgets` | `MCPOPConsensus` | `ChainSurvives` | the chain is lost with the process |
| `TS_CrashRepeats` | `MCTableSync` | `DatabaseFollowsLedger` | a row is inserted twice after a crash |
| `TS_EmptyRegistry` | `MCTableSync` | `DatabaseFollowsLedger` | ALTER TABLE is skipped after a restart |
| `TS_RpcReorders` | `MCTableSync` | `DatabaseFollowsLedger` | `syncTable` executes an old CREATE after a new DROP |
| `TS_EarlyBlock` | `MCTableSync` | `NothingSkipped` | a block received during startup hides the ones before it |
| `TS_Wired` | `MCTableSync` | `TablesFollowLedger` | database and checkpoint outlive the in-memory chain |
| `TS_BatchDrops` | `MCTableSync` | `BatchIsAtomic` | DDL of a failed batch is not rolled back |
| `PL_FailedCommit` | `MCPersistentLedger` | `WriteAhead` | a failed commit leaves memory ahead, then a gap in the file |
| `PL_DedupForgets` | `MCPersistentLedger` | `RecentProposalsKnown` | a restart forgets the processed proposals |
| `PL_DedupEvicts` | `MCPersistentLedger` | `RecentProposalsKnown` | eviction by string order drops the newest one |
| `PT_Skips` | `PeerTable` | `BroadcastReachesAll` | a dict rebuilt under the iterator makes broadcast skip a peer (`Usable` scaled down to 2) |

The rest differ from a configuration by a value or a property and have no file:

| Variation | What happens |
|---|---|
| `POP_Wired.cfg` with `ReturnsToIdle` | a follower stays in TXSET_VOTING after a failed round |
| `TS_Sequential.cfg` with `RegistryDescribesDatabase` | MODIFY changes the registry only |
| `TS_BatchDrops.cfg` with `Pool <- CreateInBatch` and `DatabaseFollowsLedger` | a table created in a batch is unknown to the registry |
| `TS_BatchDrops.cfg` with `Pool <- CreateAgain` and `DatabaseFollowsLedger` | a refused CREATE blocks the corrected one |
| `POP_Faults.cfg` with `BlockFits` | a block of another leader arrives during the vote: `append_block` raises |
| `Submission.cfg` with `OneHashEach` | two accounts are given the same hash |
| `Submission.cfg` with `StatusIsFinal` | after a restart numbers repeat, and "committed" becomes "pending" again |
| `Submission.cfg` with `Pool <- RowStatements` and `RowsHaveTables` | `createTable` takes an INSERT without validating it |
| `PeerTable.cfg` with `ConnectedIsReachable` | the end of one connection removes the entry of a newer one |
| `PeerTable.cfg` with `CleanUpSparesTheLiving` | the cleanup closes a connection that was up |
| `PeerTable.cfg` with `StopClosesAll` | `stop()` leaves connections open that are not in the table |
| `IncrementalSync.cfg` with `PlanSeesEveryChange` | the tables a batch changes are in no plan |
| `IncrementalSync.cfg` with `AskedAhead = 1` (`CacheIsTrue`) | asked for a block that is not there yet, the engine keeps an empty fingerprint |
| `IncrementalSync.cfg` with `LedgerSurvives = FALSE` and `VerifyDetects` | verification compares the cache with itself |
| `RelationIndex.cfg` with `RelatedTablesFound` | `related_tables` is always empty |

`CHECK_DEADLOCK FALSE` stands where the system may really stop: no client submits any
more, a bound is reached, or a process has been stopped.

**Fairness.** `POPConsensus!FairSpec` has weak fairness of each leader task, of the
delivery of messages to each node, and of each pending callback; `TableSync!FairSpec`
of each worker and of reaching `start()`. An asyncio loop resumes every ready task, so
weak fairness of tasks is what the code's scheduling gives. Fair delivery is an
assumption about the network, made together with `Synchronous`, and only for liveness.
The only liveness properties are `Finality` and `EveryBlockSynced`; `PeerTable` has no fairness,
as a reader may be held up in a handler.
Nothing is assumed about clients, stops, crashes or restarts.

## 4. Proofs

All of these hold for every value of the constants that satisfies the assumptions named in
the modules. The one added for a proof alone is `NoVoteAssumption` of `POPConsensus`: the
value for "has not voted" is not a vote, as `VoteTally` assumes too.

* `VoteTallyProofs`: `TallyCorrect`, `TallyTyped`, `VerdictIsUnique` and `QuorumStays`.
  The counters equal the cardinalities of the supporters; adding a vote changes a set by
  at most one element, and takes one away only from the side its voter has left.
  The verdicts exclude each other because supporters of the two kinds are disjoint sets
  of at most N voters and the two thresholds add up to more than N for each residue
  of N modulo 3. Assumes a finite set of voters, and for the verdicts at most N of them.
* `POPConsensusProofs`: `POPTypeCorrect`. `TypeOK` is not inductive: that a leader has a
  proposal and a block where its task uses them depends on where the task is. `Loaded`
  states it, and `TypeInv == TypeOK /\ Loaded` is inductive.
* Agreement, in the same module: `LedgersAgree` and `TheBlockFits`, for one leader that is
  not restarted (`OneSteadyLeader`; followers may restart and stop, messages may be lost,
  overtaken or delivered twice, over any links).
  `Agreement` needs four facts around it, together `AgreementInv`: block numbers are
  positions (`Numbered`); every block under way in a NEW_BLOCK message is on the
  leader's ledger at its number (`Announced`); so is the block the leader is about to
  announce (`Committed`); the block it has under vote extends its tip (`Standing`).
  A follower only accepts a block with the number after its tip, and the one block
  with that number is the leader's.
* What the ledgers record, in the same module:
  * `RootsAreOfHistory` has no assumption: any leaders, stops, restarts, raising
    broadcasts, lost and repeated messages. A block's root is right about the history its
    own hash covers (`Rooted`, of every block on a ledger, under vote or in a message),
    the hash of a block on a ledger covers the ledger up to it (`HashesItsPrefix`), and
    the cache is the tip's root; together `RootInv`. A block that is built, appended or received
    hands all three on, whoever built it.
  * `QuorumsBeforeCommit`, for one leader whose task a `stop()` ends (`OneLeader`,
    `StopEndsTheTask`; POP_StopCommits is the counterexample without the latter).
    `QuorumInv`: while the leader waits and an event is set, the collector has its quorum,
    because nobody rejects a single leader's proposals and an approval never takes a quorum away.
  * `TransactionsAreConserved`, for one steady leader and clients whose node keeps its mempool
    (`MempoolsSurvive`). `PlaceInv`: what is not handed over yet is nowhere, mempools are
    disjoint, and what is in the proposal or block under vote is still in the leader's mempool,
    so a commit takes exactly those out that it records; no two blocks of a ledger record
    the same transaction (`RecordedOnce`). `OnePlace` turns this into the count of places.
  * `ConsensusImplementsChain`, for one leader and no restarts (`NothingIsLost`): under the
    refinement mapping of `POPRefinement` the commit of the leader extends the log by a
    new batch (`CommitExtends`), a delivered block extends a copy (`DeliverCopies`), and
    everything else changes neither.
* `FoldLemmas`: the model runs through transactions, statements and columns with `FoldLeft`.
  What that computes is its base for an empty sequence (`FoldEmpty`) and one application more for
  one element more (`FoldAppend`). No prover instantiates a lemma over an operator, so the
  operator is a constant of this module, and every fold of the model has an instance of it
  (`ReplayFold`, `SelectFold`, `BatchFold`). Induction over numbers is one lemma about a set
  (`Induction`), proved from the well-foundedness of `<`; the induction theorems of the library
  take an operator and cannot be used. With the two, induction over data is possible
  after all: `SelectionOf` and `FlattenAt` are proved so.
* `TableSyncProofs`, the checkpoint: `ProgressIsMonotonic` and `CheckpointIsHonest`. The first
  needs only that a readable file holds the height in memory (`FileMatches`). The second is
  for a node whose ledger survives, with no block before `start()` and one task that hands
  blocks over (`OneAtATime`, a leader with a `PersistentLedger`; the configuration
  TS_EarlyBlock shows what happens on a follower). `FinishBlock` moves the checkpoint to
  the block a task ended, without asking about the ones before it, so `CheckpointInv`
  has to say where each task can be: `start()` replays in order from the checkpoint with
  the chain to itself (`StartupPlace`, `OthersWait`); after it only the newest block can
  be missing, and then the callback is on it (`CallbackPlace`, `OnlyNewestMissing`), so a
  `syncTable` request that ends any block ends the newest one or an older, done one; what
  is before a task in its block is done (`OwnPlace`).
* The types, in the same module: `TableSyncTyped`, without any assumption. `TypeOK` is not
  inductive: the type of what a task does next, and of the height it saves, depends on where
  it is. `InChain` says that a task that runs is inside the chain, and inside its block
  while it awaits the database; `TypedInv` is both. `ExecutedType` is that a batch of any
  statements makes a database of a database, by `BatchKeeps`: each statement keeps the
  types of what the transaction would be rolled back to as well.
* The refinement, in the same module: `SyncImplementsSerialReplay`, and `DatabaseIsReplayed` for
  the database at rest. They are about rows too, so they need one task and no crash
  (`Undisturbed`; TS_CrashRepeats, TS_RpcReorders and TS_EarlyBlock are the counterexamples
  without it) and `PlainPool`: a CREATE names its columns once and batches leave tables
  in existence (TS_BatchDrops with its two other pools is the counterexample). `Position` is
  the place of a task in the flattened chain. `SerialInv`: the database is
  `Replayed` of what lies before the position of the callback task, and the
  registry has the tables that this database has, or will have when the statement under way
  is done, so that no transaction is skipped that the database would execute.
* Tables across crashes, in the same module: `TablesMatchChain`, under `OneAtATime` and
  `PlainPool`, for any number of crashes at any step. After a crash the database is ahead of
  the checkpoint and the registry is empty, so on the way the database is not what the
  chain says at the place of the replay. What is kept, table by table, is `Behind`: the
  table is there exactly when the chain up to that place says so, or a later transaction
  of the chain creates or drops it. Executing the next transaction keeps this whatever it
  found, because after a CREATE or a DROP of a table its existence does not depend on what
  was before; at the end of the chain nothing later is left. It holds at the place of
  the task that runs and, when none does, at the place where the replay will go on
  (`Resumes`). `Backed` says that what is registered is in the database, or will be once the
  statement under way is executed: a CREATE that the registry refuses would have been
  refused by the database.
* `Submission`, in the same module: `SubmissionImplementsTableSync`, with no assumption. `SourceInv` adds
  to the types of `TableSync` that every table and column of the registry was named by a
  CREATE or an ADD on the chain (`RegistryExplained`), and that what is pending or in the
  running round is `Submitted`, which no growth of the chain takes back.
  The rest is from `OnceInv`, which is about hashes: the numbers this process gave out are at most
  the counters, so a new entry of an account has a hash its older ones do not; mempool
  and round hold a hash once, and the round none that was not accepted; blocks
  recorded since the process began hold only what it accepted. `AcceptedIsOnce` and
  `AnswersAreFinal` follow for entries whose hash is their own, `AcceptedStaysKnown` for all, and
  `OwnAccountIsOnce` for the accounts whose texts are no other account's (`OwnTexts`). `NodeCheckpointIsHonest` and
  `NodeProgressIsMonotonic` follow through the refinement from the theorems about `TableSync`.
* `PersistentLedgerProofs`: `LedgerTypeCorrect`, `HistoryStays`, `RecoveredChainIsWhole` and
  `RestartKeepsChain`, for any blocks and any number of crashes and power losses at any place.
  `LedgerInv` holds whatever commits fail: blocks are under their own numbers and
  each set that recovery takes the last element of has one (`Orderly`), `last_block` is the
  tip, the file has only blocks the memory has and its synced part only blocks the file has
  (`Below`), and a height of 0 means there are no rows (`Counted`), which is why recovery
  may ignore the height. `WholeInv` holds until a commit fails: the rows are what memory
  holds, and file and synced part are each whole chains.
* `PeerTableProofs`: `TableIsRead` and `SoleConnectionStays`, for any number of peers,
  connections and broadcasts, and any place at which a dict is rebuilt. `ReadInv` says
  that every entry is a connection of the peer it is under and is being read.
  `SoleInv` adds `Paired`: two connections of one peer that are both read are both
  in `overlapped`, so the end of either does not concern a sole one. `PeersTyped`
  (by `TableInv`) adds that no peer is in the table twice. `BroadcastGoesRound` proves
  `BroadcastReachesAll` as long as the dict has room for every connection there may be
  (`NeverRebuilt`; PT_Skips is the counterexample without it): an insertion then only
  appends, so a peer that was there all along and was not tried is still ahead of the
  iterator (`Owes`, in `RoundInv`).
* `IncrementalSyncProofs`: `CacheStaysTrue`, `FeedFollowsAudit` and `PlansLeaveNothingOut`,
  for a ledger that survives restarts and is not asked ahead (`SteadyLedger`; the two
  variations above are the counterexamples without it). The cache is true because blocks
  stay under their numbers, no block takes a number below 0, and an export was true when it
  was written. For the plans, `PlanInv`: a
  saved table fingerprint is as honest as the present one (`Honest`), and a block that names
  a table and comes before one of its plan is in the plan too or was replayed (`Gapless`),
  so that replaying the first of a plan leaves none out. `SyncTyped` needs neither
  assumption: the types hold on any ledger.
* `RelationIndexProofs`: `IndexAnswersAsScans`, `DegreesAreExact` and `HistoryIsExact`, for any
  chain and any calls of `process_block`, with no assumption. Relations and profiles do
  not say where a weight or a block number came from, so `IndexInv` relates the index to the
  occurrences, that is which transaction of which call said what. `Graph` is that the profiles and the
  reverse index are those of the relations; `Recorded` that relations, weights,
  block numbers and times are those of the occurrences. One more occurrence keeps both,
  whether its relation is new or not; `Until` says that a transaction says each thing once, so
  that a weight counts it once. The five conditional relations of a transaction
  are an unfolded fold (`TxSteps`), the transactions of a block an instance of `FoldLemmas`.
  `last_seen` is the latest block only because every entity but the empty account is also
  in a relation that tells the block (`Witnessed`): "account owns table" alone
  does not. `RelatedTablesAreNeverFound` shows the finding about `related_tables` for every chain.

Only model-checked: liveness (`Finality` of `POP_Live`, `EveryBlockSynced` of `TS_Crash`), as
fairness and ENABLED are out of the prover's reach. Every invariant and every safety action
property of the passing runs is stated by a theorem.

## 5. Not modelled

* The SQL parser: regular expressions over strings. Its results are the records of
  `LocalDatabase`. WHERE clauses, constraints and values are left out there as well.
* The query executor, `getBlock`, `getStatus`, and the dashboard except its audits and
  lineage: they read one component and format what they find.
* `compute_ftel`, the exports of the relation index, serialisation (lossless), SHA-256
  (collision free; what it is applied to is modelled), the native crate except the threshold.
* Configuration and scripts. Values of the configuration are constants of the modules.
* Locks of SQLite between connections of one process, and the five second wait for them.

## 6. What is left

1. `DurableNode`: `PersistentLedger` and `TableSync` with its state file composed, one
   crash for both. No code in `src` builds such a node yet; it would show what
   `LedgerSurvives` assumes.
2. `POPConsensus` over `PeerTable` instead of `Linked` and `MayRaise`: which messages a
   broadcast loses would follow from the table. The state space of the two together
   calls for an abstract network between them.
