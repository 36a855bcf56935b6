--------------------------- MODULE IncrementalSync ---------------------------
(***************************************************************************)
(* The incremental sync engine (sync/incremental.py) and the two RPC       *)
(* handlers that ask it (incrementalPlan, changeFeed), over a growing      *)
(* chain.                                                                  *)
(*                                                                         *)
(* A client executes the plans: it replays the blocks of a table in the    *)
(* order of the plan and reports each with update_table_fingerprint, as    *)
(* the engine's docstrings and tests have it.  src/ has no such client,    *)
(* and nobody there calls export_fingerprints or import_fingerprints: when *)
(* they are called, and that the local tables survive a restart, is the    *)
(* intended use and external to the code.                                  *)
(***************************************************************************)
EXTENDS ViewedChain, Integers

CONSTANTS
  LedgerSurvives, \* the chain is there after a restart (PersistentLedger)
  AskedAhead,     \* how far beyond the chain get_tables_in_block may be asked
  AskedBelow,     \* how far below block 0 changeFeed may be asked: it checks no number
  MaxUpdates,     \* bound: version of a table fingerprint
  NotSaved        \* no export has been written

ASSUME IncrementalSyncAssumption ==
  LedgerSurvives \in BOOLEAN /\ AskedAhead \in Nat /\ AskedBelow \in Nat /\ MaxUpdates \in Nat

VARIABLES
  table_fingerprints,   \* per known table: version and last_block
  block_fingerprints,   \* the cache, per block number
  saved,                \* what the last export holds, or NotSaved
  plan,                 \* per table: block numbers the client still has to replay
  replayed              \* per table: blocks whose changes the local table has

engine == <<table_fingerprints, block_fingerprints>>
vars == <<chain, engine, saved, plan, replayed>>

-----------------------------------------------------------------------------
\* A dict with the entries of another one put over its own.
Merged(dict, new) ==
  [k \in DOMAIN dict \cup DOMAIN new |-> IF k \in DOMAIN new THEN new[k] ELSE dict[k]]

Payloads(block) == [i \in DOMAIN block |-> <<block[i].table, block[i].changes>>]

TablesNamed(block) == {tx.table : tx \in ToSet(block)} \ {NoTable}

\* Mutant of FromBlock: a batch touches the tables of its statements.
FromBlockByStatement(block) ==
  [tx_count |-> Len(block), tables_touched |-> UNION {tx.changes : tx \in ToSet(block)},
   content |-> Payloads(block)]

\* from_block: the content hash stands for the payloads.
FromBlock(block) ==
  [tx_count |-> Len(block), tables_touched |-> TablesNamed(block), content |-> Payloads(block)]

\* The fingerprint of a block the ledger does not have; its content_hash is empty.
NoBlock == [tx_count |-> 0, tables_touched |-> {}, content |-> <<NoTable>>]

Computed(n) == IF n \in Numbers(0) THEN FromBlock(BlockAt(n)) ELSE NoBlock

\* _get_or_compute_block_fp for a set of numbers: what is cached is kept.
Cached(numbers) == Merged([n \in numbers |-> Computed(n)], block_fingerprints)

\* Mutant of Scanned: one block too far.
ScannedTooFar(from) == from..Height

\* range(from, self.ledger.height).
Scanned(from) == from..Len(chain)

\* get_blocks_touching_table.
BlocksTouching(table, from) ==
  {n \in Scanned(from) : table \in Cached(Scanned(from))[n].tables_touched}

\* Mutant of PlannedFrom: the block after the last one is taken for replayed.
PlannedFromTooLate(table) ==
  IF table \in DOMAIN table_fingerprints THEN table_fingerprints[table].last_block + 2 ELSE 0

PlannedFrom(table) ==
  IF table \in DOMAIN table_fingerprints THEN table_fingerprints[table].last_block + 1 ELSE 0

\* No tables, or an empty list of them, stands for all known ones.
Targets(tables) == IF tables = {} THEN DOMAIN table_fingerprints ELSE tables

\* get_change_summary: the tables changed, and in which blocks.
ChangeSummary(since) ==
  [t \in UNION {Cached(Scanned(since))[n].tables_touched : n \in Scanned(since)} |->
     BlocksTouching(t, since)]

\* verify_chain_integrity of the whole chain: the blocks it reports.
Mismatches ==
  {n \in DOMAIN block_fingerprints \cap Scanned(0) :
     block_fingerprints[n].content # Cached({n})[n].content}

-----------------------------------------------------------------------------
TypeOK ==
  /\ chain \in Seq(Block) /\ Len(chain) <= MaxBlocks
  /\ \E T \in SUBSET Tables :
       table_fingerprints \in [T -> [version : 1..MaxUpdates, last_block : 0..MaxBlocks]]
  /\ DOMAIN block_fingerprints \subseteq -AskedBelow..MaxBlocks + AskedAhead
  /\ \A n \in DOMAIN block_fingerprints :
       block_fingerprints[n].tables_touched \subseteq Tables
  /\ plan \in [Tables -> SUBSET (0..MaxBlocks)]
  /\ replayed \in [Tables -> SUBSET (0..MaxBlocks)]

Init ==
  /\ chain = <<>>
  /\ table_fingerprints = <<>>
  /\ block_fingerprints = <<>>
  /\ saved = NotSaved
  /\ plan = [t \in Tables |-> {}]
  /\ replayed = [t \in Tables |-> {}]

\* The incrementalPlan RPC: plans, and then a change summary of the whole chain.  The
\* client takes the plans of the tables it asked for in place of older ones.
IncrementalPlan(tables) ==
  /\ plan' = [t \in Tables |->
       IF t \in Targets(tables) THEN BlocksTouching(t, PlannedFrom(t)) ELSE plan[t]]
  /\ block_fingerprints' = Cached(Scanned(0))
  /\ UNCHANGED <<chain, table_fingerprints, saved, replayed>>

\* The changeFeed RPC, from any number.
ChangeFeed(since_block) ==
  /\ block_fingerprints' = Cached(Scanned(since_block))
  /\ UNCHANGED <<chain, table_fingerprints, saved, plan, replayed>>

\* get_tables_in_block, of a block that is there or not yet.
TablesInBlock(n) ==
  /\ block_fingerprints' = Cached({n})
  /\ UNCHANGED <<chain, table_fingerprints, saved, plan, replayed>>

\* Mutant of Version: the first update leaves version 0.
VersionFromZero(table) ==
  IF table \in DOMAIN table_fingerprints THEN table_fingerprints[table].version + 1 ELSE 0

Version(table) ==
  IF table \in DOMAIN table_fingerprints THEN table_fingerprints[table].version + 1 ELSE 1

\* The client replays the first block of a plan, and update_table_fingerprint: last_block
\* becomes the block just synced, whatever it was.
ReplayBlock(table) ==
  /\ Version(table) <= MaxUpdates
  /\ \E n \in plan[table] :
       /\ \A k \in plan[table] : n <= k
       /\ plan' = [plan EXCEPT ![table] = @ \ {n}]
       /\ replayed' = [replayed EXCEPT ![table] = @ \cup {n}]
       /\ table_fingerprints' =
            Merged(table_fingerprints,
                   [k \in {table} |-> [version |-> Version(table), last_block |-> n]])
  /\ UNCHANGED <<chain, block_fingerprints, saved>>

\* export_fingerprints, written somewhere.
Export ==
  /\ saved' = [tables |-> table_fingerprints, blocks |-> block_fingerprints]
  /\ UNCHANGED <<chain, engine, plan, replayed>>

\* import_fingerprints: what the export holds replaces what is known under the same key.
Imported(old, data) == Merged(old, data)

Import ==
  /\ saved # NotSaved
  /\ table_fingerprints' = Imported(table_fingerprints, saved.tables)
  /\ block_fingerprints' = Imported(block_fingerprints, saved.blocks)
  /\ UNCHANGED <<chain, saved, plan, replayed>>

\* A new process has a new engine and its client no plan.
Restart ==
  /\ table_fingerprints' = <<>>
  /\ block_fingerprints' = <<>>
  /\ plan' = [t \in Tables |-> {}]
  /\ chain' = IF LedgerSurvives THEN chain ELSE <<>>
  /\ replayed' = IF LedgerSurvives THEN replayed ELSE [t \in Tables |-> {}]
  /\ UNCHANGED saved

Grow(block) == AppendBlock(block) /\ UNCHANGED <<engine, saved, plan, replayed>>

Next ==
  \/ \E block \in Block : Grow(block)
  \/ \E tables \in SUBSET Tables : IncrementalPlan(tables)
  \/ \E since_block \in -AskedBelow..MaxBlocks : ChangeFeed(since_block)
  \/ \E n \in 0..Len(chain) + AskedAhead : TablesInBlock(n)
  \/ \E t \in Tables : ReplayBlock(t)
  \/ Export
  \/ Import
  \/ Restart

Spec == Init /\ [][Next]_vars

-----------------------------------------------------------------------------
\* A fingerprint that is cached is the one of the block that has the number now,
\* although the chain grows under the cache and an import puts old entries back
\* (incremental.py:304-319, 356-365).
CacheIsTrue ==
  \A n \in DOMAIN block_fingerprints \cap Numbers(0) :
    block_fingerprints[n] = FromBlock(BlockAt(n))

\* A table fingerprint claims nothing the local table does not have: every block up to
\* last_block that names the table was replayed.  Growth between a plan and its
\* execution, a second plan over a first, an old export imported into a newer state:
\* none makes the next plan skip a block (incremental.py:214-218, 238).
NothingLeftOut ==
  \A t \in DOMAIN table_fingerprints :
    \A n \in AuditedBlocks(t) : n <= table_fingerprints[t].last_block => n \in replayed[t]

\* The change feed, answered from the cache, lists from any number on, also one below 0, the
\* tables and the blocks that a scan of the whole chain finds (incremental.py:289-295, handlers.py:338-345).
FeedIsAudit ==
  \A since \in -AskedBelow..Len(chain) :
    LET named == {t \in Tables : \E n \in AuditedBlocks(t) : n >= since}
    IN  ChangeSummary(since) = [t \in named |-> {n \in AuditedBlocks(t) : n >= since}]

\* A plan leaves no table behind: it names every block that changes the table
\* ("only replay blocks that touch tables needing sync", incremental.py:149).
PlanSeesEveryChange ==
  \A t \in Tables : ChangingBlocks(t) \subseteq BlocksTouching(t, 0)

\* "use content fingerprints to detect data corruption" (incremental.py:245-246): a
\* cached fingerprint that differs from its block is reported.
VerifyDetects ==
  \A n \in DOMAIN block_fingerprints \cap Numbers(0) :
    block_fingerprints[n].content # FromBlock(BlockAt(n)).content => n \in Mismatches
=============================================================================
