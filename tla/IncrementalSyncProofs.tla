------------------------ MODULE IncrementalSyncProofs ------------------------
(***************************************************************************)
(* On a ledger that outlives the process, and asked only for blocks that   *)
(* are there, the incremental sync engine answers from its cache what the  *)
(* chain says, and its plans leave nothing out: for any chain, any tables  *)
(* and any sequence of plans, updates, exports, imports and restarts.      *)
(***************************************************************************)
EXTENDS IncrementalSync, TLAPS

\* What the design assumes of the ledger and of the callers.
SteadyLedger == LedgerSurvives /\ AskedAhead = 0

\* Numbers of blocks that are on the chain, or that no block will ever have.
Askable == {n \in Int : n <= Len(chain)}

\* Fingerprints as they would be computed now, of numbers that no new block will take.
TrueOf(blocks) ==
  \A n \in DOMAIN blocks : n \in Askable /\ blocks[n] = Computed(n)

CacheInv ==
  /\ chain \in Seq(Block)
  /\ TrueOf(block_fingerprints)
  /\ saved # NotSaved => TrueOf(saved.blocks)

-----------------------------------------------------------------------------
(* The cache.                                                              *)

\* A block keeps its number and content when the chain grows.
LEMMA GrowthKeepsBlocks ==
  ASSUME chain \in Seq(Block), NEW b \in Block, chain' = Append(chain, b)
  PROVE  /\ chain' \in Seq(Block) /\ Len(chain') = Len(chain) + 1
         /\ \A n \in Numbers(0) : n \in Numbers(0)' /\ BlockAt(n)' = BlockAt(n)
         /\ \A n \in Askable : n \in Askable' /\ Computed(n)' = Computed(n)
<1>1. /\ chain' \in Seq(Block) /\ Len(chain') = Len(chain) + 1 /\ Len(chain) \in Nat
      /\ \A n \in Numbers(0) : n \in Numbers(0)' /\ BlockAt(n)' = BlockAt(n)
  BY DEF Numbers, BlockAt
<1>2. \A n \in Askable : n \in Askable' /\ (n \in Numbers(0)' <=> n \in Numbers(0))
  BY <1>1 DEF Askable, Numbers
<1>3. ASSUME NEW n \in Askable PROVE Computed(n)' = Computed(n)
  <2>1. CASE n \in Numbers(0)
    BY <1>1, <2>1 DEF Computed, FromBlock
  <2>2. CASE n \notin Numbers(0)
    BY <1>2, <2>2 DEF Computed, NoBlock
  <2>. QED
    BY <2>1, <2>2
<1>. QED
  BY <1>1, <1>2, <1>3

\* What a call adds to a true cache is true.
LEMMA CachedIsTrue ==
  ASSUME CacheInv, NEW numbers \in SUBSET Askable
  PROVE  /\ TrueOf(Cached(numbers))
         /\ DOMAIN Cached(numbers) = DOMAIN block_fingerprints \cup numbers
         /\ \A n \in numbers : Cached(numbers)[n] = Computed(n)
BY DEF Cached, TrueOf, CacheInv, Merged

\* The numbers a call goes through.
LEMMA ScannedIsThere ==
  ASSUME NEW from \in Int, Len(chain) \in Nat
  PROVE  Scanned(from) \in SUBSET Askable
BY DEF Scanned, Askable

LEMMA CacheInit == Init => CacheInv
BY DEF Init, CacheInv, TrueOf

\* Growth leaves every fingerprint true.
LEMMA GrowthKeepsTruth ==
  ASSUME CacheInv, NEW b \in Block, Grow(b)
  PROVE  CacheInv'
<1>1. chain' = Append(chain, b) /\ UNCHANGED <<block_fingerprints, saved>>
  BY DEF Grow, AppendBlock, engine
<1>2. /\ chain' \in Seq(Block)
      /\ \A n \in Askable : n \in Askable' /\ Computed(n)' = Computed(n)
  BY <1>1, GrowthKeepsBlocks DEF CacheInv
<1>3. ASSUME NEW blocks, TrueOf(blocks)
      PROVE  \A n \in DOMAIN blocks : n \in Askable' /\ blocks[n] = Computed(n)'
  BY <1>2, <1>3 DEF TrueOf
<1>4. TrueOf(block_fingerprints)'
  BY <1>1, <1>3 DEF CacheInv, TrueOf
<1>5. (saved # NotSaved => TrueOf(saved.blocks))'
  BY <1>1, <1>3 DEF CacheInv, TrueOf
<1>. QED
  BY <1>2, <1>4, <1>5 DEF CacheInv

\* Everything else leaves the chain alone, and adds true fingerprints if any.
LEMMA CacheStep == ASSUME SteadyLedger, CacheInv, [Next]_vars PROVE CacheInv'
<1>1. ASSUME NEW b \in Block, Grow(b) PROVE CacheInv'
  BY <1>1, GrowthKeepsTruth
<1>2. ASSUME UNCHANGED chain, TrueOf(block_fingerprints'),
              saved' # NotSaved => TrueOf(saved'.blocks)
       PROVE  CacheInv'
  <2>1. UNCHANGED Askable /\ \A n : Computed(n)' = Computed(n)
    BY <1>2 DEF Askable, Computed, FromBlock, NoBlock, Numbers, BlockAt
  <2>. QED
    BY <1>2, <2>1 DEF CacheInv, TrueOf
<1>3. ASSUME UNCHANGED <<chain, saved>>, TrueOf(block_fingerprints')
      PROVE  CacheInv'
  BY <1>3, <1>2 DEF CacheInv
<1>4. ASSUME NEW numbers \in SUBSET Askable,
             block_fingerprints' = Cached(numbers), UNCHANGED <<chain, saved>>
      PROVE  CacheInv'
  BY <1>3, <1>4, CachedIsTrue
<1>5. Len(chain) \in Nat /\ AskedBelow \in Nat
  BY IncrementalSyncAssumption DEF CacheInv
<1>6. ASSUME NEW tables \in SUBSET Tables, IncrementalPlan(tables) PROVE CacheInv'
  BY <1>4, <1>5, <1>6, ScannedIsThere DEF IncrementalPlan
<1>7. ASSUME NEW since \in -AskedBelow..MaxBlocks, ChangeFeed(since) PROVE CacheInv'
  BY <1>4, <1>5, <1>7, ScannedIsThere DEF ChangeFeed
<1>8. ASSUME NEW n \in 0..Len(chain) + AskedAhead, TablesInBlock(n) PROVE CacheInv'
  <2>1. {n} \in SUBSET Askable
    BY <1>5 DEF SteadyLedger, Askable
  <2>. QED
    BY <1>4, <1>8, <2>1 DEF TablesInBlock
<1>9. ASSUME NEW t \in Tables, ReplayBlock(t) PROVE CacheInv'
  BY <1>3, <1>9 DEF ReplayBlock, CacheInv
<1>10. CASE Export
  <2>1. /\ UNCHANGED <<chain, block_fingerprints>>
        /\ saved'.blocks = block_fingerprints
    BY <1>10 DEF Export, engine
  <2>. QED
    BY <1>2, <2>1 DEF CacheInv
<1>11. CASE Import
  <2>1. TrueOf(Imported(block_fingerprints, saved.blocks))
    BY <1>11 DEF Import, Imported, CacheInv, TrueOf, Merged
  <2>. QED
    BY <1>3, <1>11, <2>1 DEF Import
<1>12. CASE Restart
  <2>1. TrueOf(<<>>)
    BY DEF TrueOf
  <2>2. UNCHANGED <<chain, saved>> /\ block_fingerprints' = <<>>
    BY <1>12 DEF Restart, SteadyLedger
  <2>. QED
    BY <1>3, <2>1, <2>2
<1>13. CASE UNCHANGED vars
  BY <1>3, <1>13 DEF vars, engine, CacheInv
<1>. QED
  BY <1>1, <1>6, <1>7, <1>9, <1>10, <1>11, <1>12, <1>13, <1>8 DEF Next

\* A fingerprint that is cached is the one of the block that has the number now, whatever
\* is imported into whatever state and however the chain grows (incremental.py:304-365).
THEOREM CacheStaysTrue ==
  ASSUME SteadyLedger
  PROVE  Spec => []CacheIsTrue
<1>1. CacheInv => CacheIsTrue
  BY DEF CacheInv, TrueOf, CacheIsTrue, Computed
<1>. QED
  BY <1>1, CacheInit, CacheStep, PTL DEF Spec

-----------------------------------------------------------------------------
(* What the cache tells is what the chain says.                            *)

\* A block is audited for a table when a payload in it names the table.
LEMMA Audited ==
  \A t \in Tables :
    AuditedBlocks(t) = {n \in Numbers(0) : t \in TablesNamed(BlockAt(n))}
<1>. TAKE t \in Tables
<1>1. t # NoTable
  BY ViewedChainAssumption
<1>2. \A n : t \in TablesNamed(BlockAt(n)) <=> \E j \in DOMAIN BlockAt(n) : BlockAt(n)[j].table = t
  BY <1>1 DEF TablesNamed, ToSet
<1>3. \A n : n \in AuditedBlocks(t) <=> n \in Numbers(0) /\ \E j \in DOMAIN BlockAt(n) : BlockAt(n)[j].table = t
  <2>1. \A m, e : e \in Entries(m, t) => e[1] = m /\ \E j \in DOMAIN BlockAt(m) : BlockAt(m)[j].table = t
    BY DEF Entries
  <2>2. \A m : \A j \in DOMAIN BlockAt(m) : BlockAt(m)[j].table = t => <<m, j>> \in Entries(m, t)
    BY DEF Entries
  <2>3. ASSUME NEW n, n \in AuditedBlocks(t)
        PROVE  n \in Numbers(0) /\ \E j \in DOMAIN BlockAt(n) : BlockAt(n)[j].table = t
    BY <2>1, <2>3 DEF AuditedBlocks, AuditTrail
  <2>4. ASSUME NEW n \in Numbers(0), NEW j \in DOMAIN BlockAt(n), BlockAt(n)[j].table = t
        PROVE  n \in AuditedBlocks(t)
    <3>1. <<n, j>> \in AuditTrail(t)
      BY <2>2, <2>4 DEF AuditTrail
    <3>. QED
      BY <3>1 DEF AuditedBlocks
  <2>. QED
    BY <2>3, <2>4
<1>. QED
  BY <1>2, <1>3

\* Payloads name tables.
LEMMA NamesAreTables ==
  ASSUME chain \in Seq(Block), NEW n \in Numbers(0)
  PROVE  TablesNamed(BlockAt(n)) \subseteq Tables
<1>1. CASE n = 0
  BY <1>1 DEF BlockAt, TablesNamed, ToSet
<1>2. CASE n # 0
  <2>1. BlockAt(n) \in Block
    BY <1>2 DEF Numbers, BlockAt
  <2>2. PICK k \in 1..MaxTxs : BlockAt(n) \in [1..k -> Pool]
    BY <2>1 DEF Block
  <2>3. \A i \in DOMAIN BlockAt(n) : BlockAt(n)[i] \in Transaction
    BY <2>2, ViewedChainAssumption
  <2>. QED
    BY <2>3 DEF TablesNamed, ToSet, Transaction
<1>. QED
  BY <1>1, <1>2

LEMMA FingerprintTables ==
  ASSUME NEW b
  PROVE  FromBlock(b).tables_touched = TablesNamed(b)
<1>. DEFINE names == TablesNamed(b)
            count == Len(b)
            hash  == Payloads(b)
<1>1. FromBlock(b) = [tx_count |-> count, tables_touched |-> names, content |-> hash]
  BY DEF FromBlock
<1>. HIDE DEF names, count, hash
<1>2. FromBlock(b).tables_touched = names
  BY <1>1
<1>. QED
  BY <1>2 DEF names

\* The tables a number stands for: none where there is no block.
TablesAt(n) == IF n \in Numbers(0) THEN TablesNamed(BlockAt(n)) ELSE {}

\* A scan reads these.
LEMMA ScannedTables ==
  ASSUME CacheInv, NEW from \in Int
  PROVE  \A n \in Scanned(from) : Cached(Scanned(from))[n].tables_touched = TablesAt(n)
<1>1. Scanned(from) \in SUBSET Askable
  BY ScannedIsThere DEF CacheInv
<1>2. \A n \in Scanned(from) : Cached(Scanned(from))[n] = Computed(n)
  BY <1>1, CachedIsTrue
<1>3. \A n : Computed(n).tables_touched = TablesAt(n)
  BY FingerprintTables DEF Computed, TablesAt, NoBlock
<1>. QED
  BY <1>2, <1>3

\* A scan from any number finds the audited blocks from there on.
LEMMA TouchingIsAudited ==
  ASSUME CacheInv, NEW t \in Tables, NEW from \in Int
  PROVE  BlocksTouching(t, from) = {n \in AuditedBlocks(t) : n >= from}
<1>1. \A n \in Scanned(from) : Cached(Scanned(from))[n].tables_touched = TablesAt(n)
  BY ScannedTables
<1>2. BlocksTouching(t, from) = {n \in Scanned(from) : t \in TablesAt(n)}
  BY <1>1 DEF BlocksTouching
<1>3. \A n \in Numbers(0) : n \in Scanned(from) <=> n >= from
  BY DEF Scanned, Numbers, CacheInv
<1>. QED
  BY <1>2, <1>3, Audited DEF TablesAt

\* The change feed is the audit: tables and blocks, from any block on
\* (incremental.py:289-295, handlers.py:338-345).
THEOREM FeedFollowsAudit ==
  ASSUME SteadyLedger
  PROVE  Spec => []FeedIsAudit
<1>1. CacheInv => FeedIsAudit
  <2>1. SUFFICES ASSUME CacheInv, NEW since \in -AskedBelow..Len(chain)
                 PROVE  LET named == {t \in Tables : \E n \in AuditedBlocks(t) : n >= since}
                        IN  ChangeSummary(since) =
                              [t \in named |-> {n \in AuditedBlocks(t) : n >= since}]
    BY DEF FeedIsAudit
  <2>. DEFINE named == {t \in Tables : \E n \in AuditedBlocks(t) : n >= since}
              changed == UNION {Cached(Scanned(since))[n].tables_touched : n \in Scanned(since)}
  <2>2. since \in Int
    BY IncrementalSyncAssumption
  <2>3. \A n \in Scanned(since) : Cached(Scanned(since))[n].tables_touched = TablesAt(n)
    BY <2>1, <2>2, ScannedTables
  <2>4. changed = UNION {TablesAt(n) : n \in Scanned(since)}
    BY <2>3
  <2>5. \A n : TablesAt(n) \subseteq Tables
    BY <2>1, NamesAreTables DEF CacheInv, TablesAt
  <2>6. \A t \in Tables : t \in changed <=> BlocksTouching(t, since) # {}
    BY <2>3, <2>4 DEF BlocksTouching
  <2>7. changed = named
    BY <2>1, <2>2, <2>4, <2>5, <2>6, TouchingIsAudited
  <2>8. \A t \in named : BlocksTouching(t, since) = {n \in AuditedBlocks(t) : n >= since}
    BY <2>1, <2>2, TouchingIsAudited
  <2>9. ChangeSummary(since) = [t \in named |-> BlocksTouching(t, since)]
    BY <2>7 DEF ChangeSummary
  <2>. QED
    BY <2>8, <2>9
<1>. QED
  BY <1>1, CacheInit, CacheStep, PTL DEF Spec

-----------------------------------------------------------------------------
(* The plans.                                                              *)

\* Table fingerprints that claim no block the local table does not have.
Honest(fingerprints) ==
  \A t \in DOMAIN fingerprints :
    /\ t \in Tables /\ fingerprints[t].last_block \in 0..Len(chain)
    /\ \A n \in AuditedBlocks(t) : n <= fingerprints[t].last_block => n \in replayed[t]

\* What comes before a planned block is planned too, or has been replayed.
Gapless ==
  \A t \in Tables : \A p \in plan[t] : \A n \in AuditedBlocks(t) :
    n < p => n \in plan[t] \/ n \in replayed[t]

PlanInv ==
  /\ plan \in [Tables -> SUBSET (0..Len(chain))]
  /\ replayed \in [Tables -> SUBSET Nat]
  /\ Honest(table_fingerprints)
  /\ saved # NotSaved => Honest(saved.tables)
  /\ Gapless

LEMMA PlanInit == Init => PlanInv
BY DEF Init, PlanInv, Honest, Gapless

\* A block audited on the grown chain is an old one or the new one.
LEMMA GrowthKeepsAudit ==
  ASSUME chain \in Seq(Block), NEW b \in Block, chain' = Append(chain, b), NEW t \in Tables,
         NEW n \in AuditedBlocks(t)', n <= Len(chain)
  PROVE  n \in AuditedBlocks(t)
<1>1. PICK m \in Numbers(0)' : \E entry \in Entries(m, t)' : n = entry[1]
  BY DEF AuditedBlocks, AuditTrail
<1>2. n = m
  BY <1>1 DEF Entries
<1>3. m \in Numbers(0)
  BY <1>2 DEF Numbers
<1>4. Entries(m, t)' = Entries(m, t)
  BY <1>3, GrowthKeepsBlocks DEF Entries
<1>. QED
  BY <1>1, <1>3, <1>4 DEF AuditedBlocks, AuditTrail

\* On a chain that stays, blocks stay audited.
LEMMA SameAudit ==
  ASSUME UNCHANGED chain, NEW t
  PROVE  AuditedBlocks(t)' = AuditedBlocks(t)
BY DEF AuditedBlocks, AuditTrail, Entries, BlockAt, Numbers

LEMMA GrowthKeepsPlans ==
  ASSUME CacheInv, PlanInv, NEW b \in Block, Grow(b)
  PROVE  PlanInv'
<1>1. /\ chain' = Append(chain, b)
      /\ UNCHANGED <<table_fingerprints, block_fingerprints, saved, plan, replayed>>
  BY DEF Grow, AppendBlock, engine
<1>2. chain \in Seq(Block) /\ Len(chain) \in Nat /\ Len(chain') = Len(chain) + 1
  BY <1>1, GrowthKeepsBlocks DEF CacheInv
<1>3. \A t \in Tables : \A n \in AuditedBlocks(t)' : n <= Len(chain) => n \in AuditedBlocks(t)
  BY <1>1, <1>2, GrowthKeepsAudit
<1>4. ASSUME NEW fingerprints, Honest(fingerprints)
      PROVE  \A t \in DOMAIN fingerprints :
               /\ t \in Tables /\ fingerprints[t].last_block \in 0..Len(chain')
               /\ \A n \in AuditedBlocks(t)' :
                    n <= fingerprints[t].last_block => n \in replayed'[t]
  <2>. SUFFICES ASSUME NEW t \in DOMAIN fingerprints
                PROVE  /\ t \in Tables /\ fingerprints[t].last_block \in 0..Len(chain')
                       /\ \A n \in AuditedBlocks(t)' :
                            n <= fingerprints[t].last_block => n \in replayed'[t]
    OBVIOUS
  <2>1. t \in Tables /\ fingerprints[t].last_block \in 0..Len(chain)
    BY <1>4 DEF Honest
  <2>2. ASSUME NEW n \in AuditedBlocks(t)', n <= fingerprints[t].last_block
        PROVE  n \in replayed'[t]
    <3>1. n \in Nat
      BY <2>1, <2>2 DEF AuditedBlocks, AuditTrail, Entries, Numbers
    <3>2. n \in AuditedBlocks(t)
      BY <1>2, <1>3, <2>1, <2>2, <3>1
    <3>. QED
      BY <1>1, <1>4, <2>2, <3>2 DEF Honest
  <2>. QED
    BY <1>2, <2>1, <2>2
<1>5. Honest(table_fingerprints)' /\ (saved # NotSaved => Honest(saved.tables))'
  BY <1>1, <1>4 DEF PlanInv, Honest
<1>6. Gapless'
  <2>. SUFFICES ASSUME NEW t \in Tables, NEW p \in plan'[t], NEW n \in AuditedBlocks(t)', n < p
                PROVE  n \in plan'[t] \/ n \in replayed'[t]
    BY DEF Gapless
  <2>1. p \in 0..Len(chain) /\ n \in Nat
    BY <1>1, <1>2 DEF PlanInv, AuditedBlocks, AuditTrail, Entries, Numbers
  <2>2. n \in AuditedBlocks(t)
    BY <1>2, <1>3, <2>1
  <2>. QED
    BY <1>1, <2>2 DEF PlanInv, Gapless
<1>. QED
  BY <1>1, <1>2, <1>5, <1>6 DEF PlanInv

\* A new plan starts where the table's fingerprint ends.
LEMMA PlanningLeavesNothingOut ==
  ASSUME CacheInv, PlanInv, NEW tables \in SUBSET Tables, IncrementalPlan(tables)
  PROVE  PlanInv'
<1>1. UNCHANGED <<chain, table_fingerprints, saved, replayed>>
  BY DEF IncrementalPlan
<1>2. ASSUME NEW t \in Tables
      PROVE  /\ PlannedFrom(t) \in Nat
             /\ \A n \in AuditedBlocks(t) : n < PlannedFrom(t) => n \in replayed[t]
             /\ BlocksTouching(t, PlannedFrom(t)) = {n \in AuditedBlocks(t) : n >= PlannedFrom(t)}
  <2>1. PlannedFrom(t) \in Nat
    BY DEF PlannedFrom, PlanInv, Honest, CacheInv
  <2>2. \A n \in AuditedBlocks(t) : n \in 0..Len(chain)
    BY Audited DEF Numbers
  <2>3. \A n \in AuditedBlocks(t) : n < PlannedFrom(t) => n \in replayed[t]
    BY <2>2 DEF PlannedFrom, PlanInv, Honest, CacheInv
  <2>. QED
    BY <2>1, <2>3, TouchingIsAudited
<1>3. \A t \in Tables : plan'[t] = {n \in AuditedBlocks(t) : n >= PlannedFrom(t)} \/ plan'[t] = plan[t]
  BY <1>2 DEF IncrementalPlan
<1>4. \A t \in Tables : AuditedBlocks(t)' = AuditedBlocks(t) /\ AuditedBlocks(t) \subseteq 0..Len(chain)
  BY <1>1, SameAudit, Audited DEF Numbers
<1>5. plan' \in [Tables -> SUBSET (0..Len(chain))]
  <2>1. plan' = [t \in Tables |-> plan'[t]]
    BY DEF IncrementalPlan
  <2>2. \A t \in Tables : plan'[t] \in SUBSET (0..Len(chain))
    BY <1>3, <1>4 DEF PlanInv
  <2>. QED
    BY <2>1, <2>2
<1>6. Gapless'
  <2>. SUFFICES ASSUME NEW t \in Tables, NEW p \in plan'[t], NEW n \in AuditedBlocks(t), n < p
                PROVE  n \in plan'[t] \/ n \in replayed[t]
    BY <1>1, <1>4 DEF Gapless
  <2>1. CASE plan'[t] = plan[t]
    BY <2>1 DEF PlanInv, Gapless
  <2>2. CASE plan'[t] = {m \in AuditedBlocks(t) : m >= PlannedFrom(t)}
    <3>1. n \in Nat
      BY <1>4
    <3>2. CASE n < PlannedFrom(t)
      BY <1>2, <3>2
    <3>3. CASE n >= PlannedFrom(t)
      BY <2>2, <3>3
    <3>. QED
      BY <1>2, <3>1, <3>2, <3>3
  <2>. QED
    BY <1>3, <2>1, <2>2
<1>. QED
  BY <1>1, <1>4, <1>5, <1>6 DEF PlanInv, Honest

\* The client replays the first block of a plan.
LEMMA ReplayKeepsOrder ==
  ASSUME CacheInv, PlanInv, NEW table \in Tables, ReplayBlock(table)
  PROVE  PlanInv'
<1>1. UNCHANGED <<chain, saved>>
  BY DEF ReplayBlock
<1>2. PICK n \in plan[table] :
        /\ \A k \in plan[table] : n <= k
        /\ plan' = [plan EXCEPT ![table] = @ \ {n}]
        /\ replayed' = [replayed EXCEPT ![table] = @ \cup {n}]
        /\ table_fingerprints' =
             Merged(table_fingerprints, [k \in {table} |-> [version |-> Version(table), last_block |-> n]])
  BY DEF ReplayBlock
<1>3. n \in 0..Len(chain) /\ n \in Nat /\ Len(chain) \in Nat
  BY DEF PlanInv, CacheInv
<1>4. \A t \in Tables : /\ AuditedBlocks(t)' = AuditedBlocks(t)
                        /\ AuditedBlocks(t) \subseteq 0..Len(chain)
                        /\ plan[t] \subseteq 0..Len(chain)
  BY <1>1, SameAudit, Audited DEF Numbers, PlanInv
<1>5. /\ \A t \in Tables : replayed[t] \subseteq replayed'[t]
      /\ n \in replayed'[table]
      /\ \A t \in Tables : \A k \in plan[t] : k \in plan'[t] \/ k \in replayed'[t]
      /\ \A t \in Tables : plan'[t] \subseteq plan[t]
      /\ plan' \in [Tables -> SUBSET (0..Len(chain))] /\ replayed' \in [Tables -> SUBSET Nat]
  BY <1>2, <1>3 DEF PlanInv
<1>6. \A m \in AuditedBlocks(table) : m <= n => m \in replayed'[table]
  <2>. SUFFICES ASSUME NEW m \in AuditedBlocks(table), m <= n
                PROVE  m \in replayed'[table]
    OBVIOUS
  <2>1. CASE m = n
    BY <1>5, <2>1
  <2>2. CASE m # n
    <3>1. m < n /\ ~(n <= m)
      BY <1>3, <1>4, <2>2
    <3>2. m \in plan[table] \/ m \in replayed[table]
      BY <3>1 DEF PlanInv, Gapless
    <3>. QED
      BY <1>2, <1>5, <3>1, <3>2
  <2>. QED
    BY <2>1, <2>2
<1>7. Honest(table_fingerprints)'
  <2>. SUFFICES ASSUME NEW t \in DOMAIN table_fingerprints'
                PROVE  /\ t \in Tables /\ table_fingerprints'[t].last_block \in 0..Len(chain)
                       /\ \A m \in AuditedBlocks(t) :
                            m <= table_fingerprints'[t].last_block => m \in replayed'[t]
    BY <1>1, <1>4 DEF Honest, PlanInv, Merged
  <2>1. CASE t = table
    <3>1. table_fingerprints'[t].last_block = n
      BY <1>2, <2>1 DEF Merged
    <3>. QED
      BY <1>3, <1>6, <2>1, <3>1
  <2>2. CASE t # table
    <3>1. t \in DOMAIN table_fingerprints /\ table_fingerprints'[t] = table_fingerprints[t]
      BY <1>2, <2>2 DEF Merged
    <3>. QED
      BY <1>5, <3>1 DEF PlanInv, Honest
  <2>. QED
    BY <2>1, <2>2
<1>8. (saved # NotSaved => Honest(saved.tables))'
  BY <1>1, <1>4, <1>5 DEF PlanInv, Honest
<1>9. Gapless'
  BY <1>1, <1>4, <1>5 DEF PlanInv, Gapless
<1>. QED
  BY <1>1, <1>5, <1>7, <1>8, <1>9 DEF PlanInv

LEMMA PlanStep == ASSUME SteadyLedger, CacheInv, PlanInv, [Next]_vars PROVE PlanInv'
<1>1. ASSUME UNCHANGED <<chain, plan, replayed>>,
             Honest(table_fingerprints'), saved' # NotSaved => Honest(saved'.tables)
      PROVE  PlanInv'
  <2>1. \A t : AuditedBlocks(t)' = AuditedBlocks(t)
    BY <1>1, SameAudit
  <2>2. Gapless'
    BY <1>1, <2>1 DEF PlanInv, Gapless
  <2>3. Honest(table_fingerprints)' /\ (saved # NotSaved => Honest(saved.tables))'
    BY <1>1, <2>1 DEF Honest
  <2>. QED
    BY <1>1, <2>2, <2>3 DEF PlanInv
<1>2. ASSUME UNCHANGED <<chain, plan, replayed, table_fingerprints, saved>> PROVE PlanInv'
  BY <1>1, <1>2 DEF PlanInv
<1>3. ASSUME NEW b \in Block, Grow(b) PROVE PlanInv'
  BY <1>3, GrowthKeepsPlans
<1>4. ASSUME NEW tables \in SUBSET Tables, IncrementalPlan(tables) PROVE PlanInv'
  BY <1>4, PlanningLeavesNothingOut
<1>5. ASSUME NEW since \in -AskedBelow..MaxBlocks, ChangeFeed(since) PROVE PlanInv'
  BY <1>2, <1>5 DEF ChangeFeed
<1>6. ASSUME NEW n \in 0..Len(chain) + AskedAhead, TablesInBlock(n) PROVE PlanInv'
  BY <1>2, <1>6 DEF TablesInBlock
<1>7. ASSUME NEW t \in Tables, ReplayBlock(t) PROVE PlanInv'
  BY <1>7, ReplayKeepsOrder
<1>8. CASE Export
  <2>1. /\ UNCHANGED <<chain, table_fingerprints, plan, replayed>>
        /\ saved'.tables = table_fingerprints
    BY <1>8 DEF Export, engine
  <2>. QED
    BY <1>1, <2>1 DEF PlanInv
<1>9. CASE Import
  <2>1. Honest(Imported(table_fingerprints, saved.tables))
    BY <1>9 DEF Import, Imported, PlanInv, Honest, Merged
  <2>. QED
    BY <1>1, <1>9, <2>1 DEF Import, PlanInv
<1>10. CASE Restart
  <2>1. /\ UNCHANGED <<chain, saved, replayed>>
        /\ table_fingerprints' = <<>> /\ plan' = [t \in Tables |-> {}]
    BY <1>10 DEF Restart, SteadyLedger
  <2>2. \A t : AuditedBlocks(t)' = AuditedBlocks(t)
    BY <2>1, SameAudit
  <2>3. Honest(table_fingerprints)' /\ (saved # NotSaved => Honest(saved.tables))'
    BY <2>1, <2>2 DEF PlanInv, Honest
  <2>. QED
    BY <2>1, <2>3 DEF PlanInv, Gapless
<1>11. CASE UNCHANGED vars
  BY <1>2, <1>11 DEF vars, engine
<1>. QED
  BY <1>3, <1>4, <1>5, <1>6, <1>7, <1>8, <1>9, <1>10, <1>11 DEF Next

\* No plan leaves a block out: growth between planning and replaying, a second plan over a
\* first, and an old export imported into a newer state included (incremental.py:214-218).
THEOREM PlansLeaveNothingOut ==
  ASSUME SteadyLedger
  PROVE  Spec => []NothingLeftOut
<1>1. PlanInv => NothingLeftOut
  BY DEF PlanInv, Honest, NothingLeftOut
<1>. QED
  BY <1>1, CacheInit, CacheStep, PlanInit, PlanStep, PTL DEF Spec

-----------------------------------------------------------------------------
(* Types, on any ledger and whatever is asked.                             *)

TableFingerprints(T) == [T -> [version : 1..MaxUpdates, last_block : 0..MaxBlocks]]

TypedTables(tables) == \E T \in SUBSET Tables : tables \in TableFingerprints(T)

TypedBlocks(blocks) ==
  /\ DOMAIN blocks \subseteq -AskedBelow..MaxBlocks + AskedAhead
  /\ \A n \in DOMAIN blocks : blocks[n].tables_touched \subseteq Tables

\* What an export took along has the types it was taken from.
SyncInv ==
  /\ TypeOK
  /\ saved # NotSaved => TypedTables(saved.tables) /\ TypedBlocks(saved.blocks)

LEMMA TypeParts ==
  TypeOK <=> /\ chain \in Seq(Block) /\ Len(chain) <= MaxBlocks
             /\ TypedTables(table_fingerprints) /\ TypedBlocks(block_fingerprints)
             /\ plan \in [Tables -> SUBSET (0..MaxBlocks)]
             /\ replayed \in [Tables -> SUBSET (0..MaxBlocks)]
BY DEF TypeOK, TypedTables, TypedBlocks, TableFingerprints

LEMMA NothingIsTyped == TypedTables(<<>>) /\ TypedBlocks(<<>>)
<1>1. DOMAIN <<>> = {} /\ <<>> \in TableFingerprints({})
  BY DEF TableFingerprints
<1>. QED
  BY <1>1 DEF TypedTables, TypedBlocks

LEMMA MergedBlocks ==
  ASSUME NEW old, NEW new, TypedBlocks(old), TypedBlocks(new)
  PROVE  TypedBlocks(Merged(old, new))
BY DEF TypedBlocks, Merged

LEMMA MergedTables ==
  ASSUME NEW old, NEW new, TypedTables(old), TypedTables(new)
  PROVE  TypedTables(Merged(old, new))
<1>1. PICK T \in SUBSET Tables : old \in TableFingerprints(T)
  BY DEF TypedTables
<1>2. PICK U \in SUBSET Tables : new \in TableFingerprints(U)
  BY DEF TypedTables
<1>3. Merged(old, new) \in TableFingerprints(T \cup U)
  BY <1>1, <1>2 DEF Merged, TableFingerprints
<1>. QED
  BY <1>3 DEF TypedTables

LEMMA CachedIsTyped ==
  ASSUME TypeOK, NEW numbers \in SUBSET (-AskedBelow..Len(chain) + AskedAhead)
  PROVE  TypedBlocks(Cached(numbers))
<1>. DEFINE new == [n \in numbers |-> Computed(n)]
<1>1. chain \in Seq(Block) /\ Len(chain) \in Nat /\ Len(chain) <= MaxBlocks
  BY DEF TypeOK
<1>2. \A n \in numbers : Computed(n).tables_touched \subseteq Tables
  <2>. SUFFICES ASSUME NEW n \in numbers PROVE Computed(n).tables_touched \subseteq Tables
    OBVIOUS
  <2>1. CASE n \in Numbers(0)
    BY <1>1, <2>1, NamesAreTables, FingerprintTables DEF Computed
  <2>2. CASE n \notin Numbers(0)
    BY <2>2 DEF Computed, NoBlock
  <2>. QED
    BY <2>1, <2>2
<1>3. numbers \subseteq -AskedBelow..MaxBlocks + AskedAhead
  BY <1>1, IncrementalSyncAssumption, ViewedChainAssumption
<1>4. TypedBlocks(new)
  BY <1>2, <1>3 DEF TypedBlocks
<1>. HIDE DEF new
<1>5. Cached(numbers) = Merged(new, block_fingerprints)
  BY DEF Cached, new
<1>. QED
  BY <1>4, <1>5, MergedBlocks, TypeParts

LEMMA SyncInit == Init => SyncInv
<1>. SUFFICES ASSUME Init PROVE SyncInv
  OBVIOUS
<1>. QED
  BY NothingIsTyped, TypeParts, ViewedChainAssumption DEF Init, SyncInv

LEMMA SyncStep == ASSUME SyncInv, [Next]_vars PROVE SyncInv'
<1>. DEFINE ChainTyped == chain \in Seq(Block) /\ Len(chain) <= MaxBlocks
            PlanTyped == plan \in [Tables -> SUBSET (0..MaxBlocks)]
            ReplayTyped == replayed \in [Tables -> SUBSET (0..MaxBlocks)]
            SavedTyped == saved # NotSaved => TypedTables(saved.tables) /\ TypedBlocks(saved.blocks)
<1>1. /\ ChainTyped /\ PlanTyped /\ ReplayTyped /\ SavedTyped
      /\ TypedTables(table_fingerprints) /\ TypedBlocks(block_fingerprints)
      /\ MaxBlocks \in Nat /\ AskedAhead \in Nat /\ AskedBelow \in Nat
  BY TypeParts, ViewedChainAssumption, IncrementalSyncAssumption DEF SyncInv
<1>2. ASSUME ChainTyped', PlanTyped', ReplayTyped', SavedTyped',
             TypedTables(table_fingerprints'), TypedBlocks(block_fingerprints')
      PROVE  SyncInv'
  BY <1>2 DEF SyncInv, TypeOK, TypedTables, TypedBlocks, TableFingerprints
<1>3. /\ UNCHANGED chain => ChainTyped'
      /\ UNCHANGED plan => PlanTyped'
      /\ UNCHANGED replayed => ReplayTyped'
      /\ UNCHANGED saved => SavedTyped'
  BY <1>1 DEF TypedTables, TypedBlocks, TableFingerprints
<1>. HIDE DEF ChainTyped, PlanTyped, ReplayTyped, SavedTyped
<1>4. /\ \A from \in Nat : Scanned(from) \in SUBSET (0..Len(chain))
      /\ \A from \in -AskedBelow..MaxBlocks :
           Scanned(from) \in SUBSET (-AskedBelow..Len(chain) + AskedAhead)
  BY <1>1 DEF Scanned, ChainTyped
<1>5. \A t : PlannedFrom(t) \in Nat
  BY <1>1 DEF PlannedFrom, TypedTables, TableFingerprints
<1>6. ASSUME NEW b \in Block, Grow(b) PROVE SyncInv'
  <2>1. chain' = Append(chain, b) /\ Len(chain) < MaxBlocks
        /\ UNCHANGED <<table_fingerprints, block_fingerprints, saved, plan, replayed>>
    BY <1>6 DEF Grow, AppendBlock, engine
  <2>2. ChainTyped'
    BY <1>1, <2>1 DEF ChainTyped
  <2>. QED
    BY <1>1, <1>2, <1>3, <2>1, <2>2
<1>7. ASSUME NEW tables \in SUBSET Tables, IncrementalPlan(tables) PROVE SyncInv'
  <2>1. /\ plan' = [t \in Tables |->
             IF t \in Targets(tables) THEN BlocksTouching(t, PlannedFrom(t)) ELSE plan[t]]
        /\ block_fingerprints' = Cached(Scanned(0))
        /\ UNCHANGED <<chain, table_fingerprints, saved, replayed>>
    BY <1>7 DEF IncrementalPlan
  <2>2. \A t \in Tables : BlocksTouching(t, PlannedFrom(t)) \in SUBSET (0..MaxBlocks)
    BY <1>1, <1>4, <1>5 DEF BlocksTouching, ChainTyped
  <2>3. PlanTyped'
    BY <1>1, <2>1, <2>2 DEF PlanTyped
  <2>4. TypedBlocks(block_fingerprints')
    BY <1>1, <1>4, <2>1, CachedIsTyped DEF SyncInv
  <2>. QED
    BY <1>1, <1>2, <1>3, <2>1, <2>3, <2>4
<1>8. ASSUME NEW since \in -AskedBelow..MaxBlocks, ChangeFeed(since) PROVE SyncInv'
  <2>1. TypedBlocks(block_fingerprints')
    BY <1>4, <1>8, CachedIsTyped DEF ChangeFeed, SyncInv
  <2>. QED
    BY <1>1, <1>2, <1>3, <1>8, <2>1 DEF ChangeFeed
<1>9. ASSUME NEW n \in 0..Len(chain) + AskedAhead, TablesInBlock(n) PROVE SyncInv'
  <2>1. TypedBlocks(block_fingerprints')
    <3>1. {n} \in SUBSET (-AskedBelow..Len(chain) + AskedAhead)
      BY <1>1 DEF ChainTyped
    <3>. QED
      BY <1>9, <3>1, CachedIsTyped DEF TablesInBlock, SyncInv
  <2>. QED
    BY <1>1, <1>2, <1>3, <1>9, <2>1 DEF TablesInBlock
<1>10. ASSUME NEW t \in Tables, ReplayBlock(t) PROVE SyncInv'
  <2>1. PICK n \in plan[t] :
          /\ plan' = [plan EXCEPT ![t] = @ \ {n}]
          /\ replayed' = [replayed EXCEPT ![t] = @ \cup {n}]
          /\ table_fingerprints' =
               Merged(table_fingerprints,
                      [k \in {t} |-> [version |-> Version(t), last_block |-> n]])
    BY <1>10 DEF ReplayBlock
  <2>2. n \in 0..MaxBlocks
    BY <1>1 DEF PlanTyped
  <2>3. PlanTyped' /\ ReplayTyped'
    BY <1>1, <2>1, <2>2 DEF PlanTyped, ReplayTyped
  <2>4. Version(t) \in 1..MaxUpdates
    <3>1. PICK T \in SUBSET Tables : table_fingerprints \in TableFingerprints(T)
      BY <1>1 DEF TypedTables
    <3>2. Version(t) \in Nat /\ Version(t) >= 1
      BY <3>1, IncrementalSyncAssumption DEF Version, TableFingerprints
    <3>. QED
      BY <1>10, <3>2, IncrementalSyncAssumption DEF ReplayBlock
  <2>5. TypedTables([k \in {t} |-> [version |-> Version(t), last_block |-> n]])
    <3>1. [k \in {t} |-> [version |-> Version(t), last_block |-> n]] \in TableFingerprints({t})
      BY <2>2, <2>4 DEF TableFingerprints
    <3>. QED
      BY <3>1 DEF TypedTables
  <2>6. TypedTables(table_fingerprints')
    BY <1>1, <2>1, <2>5, MergedTables
  <2>. QED
    BY <1>1, <1>2, <1>3, <1>10, <2>3, <2>6 DEF ReplayBlock
<1>11. CASE Export
  <2>1. /\ UNCHANGED <<chain, table_fingerprints, block_fingerprints, plan, replayed>>
        /\ saved' = [tables |-> table_fingerprints, blocks |-> block_fingerprints]
    BY <1>11 DEF Export, engine
  <2>2. SavedTyped'
    BY <1>1, <2>1 DEF SavedTyped
  <2>. QED
    BY <1>1, <1>2, <1>3, <2>1, <2>2
<1>12. CASE Import
  <2>1. /\ TypedTables(table_fingerprints') /\ TypedBlocks(block_fingerprints')
    BY <1>1, <1>12, MergedTables, MergedBlocks DEF Import, Imported, SavedTyped
  <2>. QED
    BY <1>2, <1>3, <1>12, <2>1 DEF Import
<1>13. CASE Restart
  <2>1. TypedTables(<<>>) /\ TypedBlocks(<<>>)
    BY NothingIsTyped
  <2>2. ChainTyped' /\ PlanTyped' /\ ReplayTyped'
    BY <1>1, <1>13 DEF Restart, ChainTyped, PlanTyped, ReplayTyped
  <2>. QED
    BY <1>2, <1>3, <1>13, <2>1, <2>2 DEF Restart
<1>14. CASE UNCHANGED vars
  BY <1>1, <1>2, <1>3, <1>14 DEF vars, engine
<1>. QED
  BY <1>6, <1>7, <1>8, <1>9, <1>10, <1>11, <1>12, <1>13, <1>14 DEF Next

\* On any ledger, lost or not, and whatever is asked ahead: the engine knows no tables and
\* no blocks that nobody could have named (incremental.py:304-319, 356-365).
THEOREM SyncTyped == Spec => []TypeOK
<1>1. SyncInv => TypeOK
  BY DEF SyncInv
<1>. QED
  BY <1>1, SyncInit, SyncStep, PTL DEF Spec
=============================================================================
