--------------------------- MODULE PersistentLedger ---------------------------
(***************************************************************************)
(* The SQLite-backed ledger of models/persistent_ledger.py: an index in    *)
(* memory that answers every read, and a database file that rebuilds it.   *)
(* append_block changes the memory first and the file after it.            *)
(*                                                                         *)
(* A hash is a model value.  The state root hashes the block hashes one    *)
(* after the other, so the sequence of them stands for it.                 *)
(***************************************************************************)
EXTENDS Integers, Sequences, FiniteSets

CONSTANTS
  Hashes,         \* block hashes
  Txs,            \* transactions
  ProposalIds,    \* identifiers handed to mark_proposal_processed
  SortRank,       \* the place of an identifier among the sorted strings
  MaxProposalAge, \* _max_proposal_age
  MaxNumber,      \* bound: number of the last block
  MaxCrashes,     \* bound: ends of the process
  NoBlock, NoHash

ASSUME LedgerAssumption ==
  /\ SortRank \in [ProposalIds -> Nat] /\ IsFiniteSet(ProposalIds)
  /\ \A p, q \in ProposalIds : SortRank[p] = SortRank[q] => p = q
  /\ MaxProposalAge \in Nat \ {0} /\ MaxNumber \in Nat /\ MaxCrashes \in Nat
  /\ NoHash \notin Hashes

Numbers == 0..MaxNumber

Block == [number : Numbers, hash : Hashes, prev_hash : Hashes \cup {NoHash},
          transactions : SUBSET Txs]

ASSUME NoBlockAssumption == NoBlock \notin Block

Index == [Numbers -> Block \cup {NoBlock}]

\* What a commit writes: the rows of blocks, and height and state_root of chain_meta.
File == [rows : Index, height : 0..MaxNumber + 1, state_root : Seq(Hashes)]

VARIABLES
  blocks, last_block, tx_index, state_root,   \* memory
  processed,                                  \* _processed_proposals
  file,                                       \* the database file
  synced,                                     \* what of it a power loss leaves
  marked,                                     \* history: identifiers in the order of marking
  failed,                                     \* history: a commit has failed
  crashes

chainVars == <<blocks, last_block, tx_index, state_root>>
vars == <<chainVars, processed, file, synced, marked, failed, crashes>>

TypeOK ==
  /\ blocks \in Index
  /\ last_block \in Block \cup {NoBlock}
  /\ tx_index \in [Txs -> Numbers \cup {NoBlock}]
  /\ state_root \in Seq(Hashes)
  /\ processed \subseteq ProposalIds
  /\ file \in File /\ synced \in File
  /\ marked \in Seq(ProposalIds)
  /\ failed \in BOOLEAN
  /\ crashes \in 0..MaxCrashes

Stored(index) == {n \in Numbers : index[n] # NoBlock}

\* Mutant of Height: one too many.
HeightPlusOne(index) == Cardinality(Stored(index)) + 1

Height(index) == Cardinality(Stored(index))

EmptyIndex == [n \in Numbers |-> NoBlock]

EmptyFile == [rows |-> EmptyIndex, height |-> 0, state_root |-> <<>>]

Init ==
  /\ blocks = EmptyIndex
  /\ last_block = NoBlock
  /\ tx_index = [tx \in Txs |-> NoBlock]
  /\ state_root = <<>>
  /\ processed = {}
  /\ file = EmptyFile
  /\ synced = EmptyFile
  /\ marked = <<>>
  /\ failed = FALSE
  /\ crashes = 0

-----------------------------------------------------------------------------
\* Mutant of Follows: a block with the number of the tip is accepted.
FollowsOrReplaces(b) ==
  IF last_block = NoBlock THEN b.number = 0 ELSE b.number - last_block.number \in {0, 1}

\* The checks of append_block.
Follows(b) ==
  IF last_block = NoBlock
  THEN b.number = 0
  ELSE b.number = last_block.number + 1 /\ b.prev_hash = last_block.hash

\* Steps 1 and 2 of append_block: index, state root and last block in memory.
Remember(b) ==
  /\ blocks' = [blocks EXCEPT ![b.number] = b]
  /\ tx_index' = [tx \in Txs |-> IF tx \in b.transactions THEN b.number ELSE tx_index[tx]]
  /\ state_root' = Append(state_root, b.hash)
  /\ last_block' = b

\* Mutants of Persisted: height or state root are those before the block.
PersistedOldHeight(b) ==
  [rows       |-> [file.rows EXCEPT ![b.number] = b],
   height     |-> Height(blocks),
   state_root |-> state_root']

PersistedOldRoot(b) ==
  [rows       |-> [file.rows EXCEPT ![b.number] = b],
   height     |-> Height(blocks'),
   state_root |-> state_root]

\* What _persist_block commits in one SQLite transaction.
Persisted(b) ==
  [rows       |-> [file.rows EXCEPT ![b.number] = b],
   height     |-> Height(blocks'),
   state_root |-> state_root']

\* Step 3 succeeds.  With synchronous=NORMAL the WAL reaches the disk at once or later.
AppendBlock(b) ==
  /\ Follows(b)
  /\ Remember(b)
  /\ file' = Persisted(b)
  /\ synced' \in {synced, file'}
  /\ UNCHANGED <<processed, marked, failed, crashes>>

\* Step 3 fails (disk full, file locked for 10 s) and raises; steps 1 and 2 are not
\* undone.
AppendFails(b) ==
  /\ Follows(b)
  /\ Remember(b)
  /\ failed' = TRUE
  /\ UNCHANGED <<processed, file, synced, marked, crashes>>

\* mark_proposal_processed: when the set is too large, the last identifiers of the
\* sorted list are kept.
Kept(ids) ==
  {p \in ids : Cardinality({q \in ids : SortRank[q] > SortRank[p]}) < MaxProposalAge}

MarkProposal(p) ==
  /\ p \notin processed /\ \A i \in 1..Len(marked) : marked[i] # p
  /\ processed' = Kept(processed \cup {p})
  /\ marked' = Append(marked, p)
  /\ UNCHANGED <<chainVars, file, synced, failed, crashes>>

-----------------------------------------------------------------------------
Greatest(numbers) == CHOOSE n \in numbers : \A m \in numbers : m <= n

\* _recover_chain of a new process.  No code writes processed_proposals to chain_meta,
\* so the set starts empty.
Recover(disk) ==
  LET rows == IF disk.height = 0 THEN EmptyIndex ELSE disk.rows
  IN  /\ blocks' = rows
      /\ last_block' = IF Stored(rows) = {} THEN NoBlock ELSE rows[Greatest(Stored(rows))]
      /\ tx_index' = [tx \in Txs |->
           LET holding == {n \in Stored(rows) : tx \in rows[n].transactions}
           IN  IF holding = {} THEN NoBlock ELSE Greatest(holding)]
      /\ state_root' = IF disk.height = 0 THEN <<>> ELSE disk.state_root
      /\ processed' = {}

\* The process ends, at rest or within append_block before the commit, and a new one
\* opens the file.
Restart ==
  /\ crashes < MaxCrashes
  /\ crashes' = crashes + 1
  /\ Recover(file)
  /\ UNCHANGED <<file, synced, marked, failed>>

\* The machine goes down with it: what was not synced is gone.
PowerLoss ==
  /\ crashes < MaxCrashes
  /\ crashes' = crashes + 1
  /\ file' = synced
  /\ Recover(synced)
  /\ UNCHANGED <<synced, marked, failed>>

Next ==
  \/ \E b \in Block : AppendBlock(b)
  \/ \E b \in Block : AppendFails(b)
  \/ \E p \in ProposalIds : MarkProposal(p)
  \/ Restart
  \/ PowerLoss

Spec == Init /\ [][Next]_vars

-----------------------------------------------------------------------------
\* Linked blocks 0, 1, ... without a gap, and a tip, a transaction index and a state
\* root that describe exactly these blocks.
Whole ==
  /\ Stored(blocks) = 0..Height(blocks) - 1
  /\ \A n \in Stored(blocks) : n > 0 => blocks[n].prev_hash = blocks[n - 1].hash
  /\ last_block = IF Height(blocks) = 0 THEN NoBlock ELSE blocks[Height(blocks) - 1]
  /\ state_root = [i \in 1..Height(blocks) |-> blocks[i - 1].hash]
  /\ \A tx \in Txs, n \in Stored(blocks) : tx \in blocks[n].transactions =>
       /\ n <= tx_index[tx]
       /\ tx \in blocks[tx_index[tx]].transactions

\* While no commit has failed, the chain in memory is whole, also when it was rebuilt
\* from rows and from chain_meta, two different records, after the process ended at any
\* point or the machine lost commits (persistent_ledger.py:104-156, 276-286).
ChainIsWhole == ~failed => Whole

\* "Write-ahead: block appended to both in-memory dict AND SQLite"
\* (persistent_ledger.py:14): a block that a commit refused is in neither.
WriteAhead == Whole

\* Nothing rewrites a block, failed commits and lost ones included: a step adds the next
\* block or, in a crash, takes some away; what a node has shown under a number stays
\* under it or is gone (persistent_ledger.py:276, 307).
HistoryIsKept ==
  [][ \A n \in Stored(blocks) : blocks'[n] \in {blocks[n], NoBlock} ]_vars

\* A node whose process ends and starts again, without a power loss and a failed commit
\* before, has the chain it had (persistent_ledger.py:332).
RestartLosesNothing ==
  [][ crashes' # crashes /\ file' = file /\ ~failed => blocks' = blocks ]_vars

\* The newest identifiers are remembered ("Keep only the most recent entries",
\* persistent_ledger.py:245; "Dedup set for consensus", line 60).
RecentProposalsKnown ==
  \A i \in 1..Len(marked) : i > Len(marked) - MaxProposalAge => marked[i] \in processed
=============================================================================
