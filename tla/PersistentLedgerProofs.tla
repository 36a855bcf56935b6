------------------------ MODULE PersistentLedgerProofs ------------------------
(***************************************************************************)
(* What a crash, a power loss and a failed commit leave of the ledger: for *)
(* any blocks, any number of crashes and any place of them.                *)
(***************************************************************************)
EXTENDS PersistentLedger, FiniteSetTheorems, TLAPS

\* Where a transaction is, by a scan.
Holding(index, tx) == {n \in Stored(index) : tx \in index[n].transactions}

HasGreatest(S) == \E m \in S : \A n \in S : n <= m

\* Blocks under their own numbers, of which each set that recovery looks at has a last one.
Orderly(index) ==
  /\ index \in Index
  /\ \A n \in Stored(index) : index[n].number = n
  /\ Stored(index) = {} \/ HasGreatest(Stored(index))
  /\ \A tx \in Txs : Holding(index, tx) = {} \/ HasGreatest(Holding(index, tx))

Tip(index) == IF Stored(index) = {} THEN NoBlock ELSE index[Greatest(Stored(index))]

\* What one index has, the other one has too.
Below(index, other) == \A n \in Numbers : index[n] \in {other[n], NoBlock}

\* A file whose height is 0 has no rows, so recovery takes all of them.
Counted(disk) == disk.height = 0 => Stored(disk.rows) = {}

LedgerInv ==
  /\ TypeOK
  /\ Orderly(blocks) /\ Orderly(file.rows) /\ Orderly(synced.rows)
  /\ last_block = Tip(blocks)
  /\ Below(file.rows, blocks) /\ Below(synced.rows, file.rows)
  /\ Counted(file) /\ Counted(synced)

-----------------------------------------------------------------------------
(* Indexes.                                                                *)

LEMMA GreatestIsThere ==
  ASSUME NEW S \in SUBSET Int, HasGreatest(S)
  PROVE  Greatest(S) \in S /\ \A n \in S : n <= Greatest(S)
BY DEF Greatest, HasGreatest

LEMMA StoredAreNumbers ==
  ASSUME NEW index
  PROVE  Stored(index) \in SUBSET Int /\ Stored(index) \subseteq Numbers /\ Numbers \subseteq Nat
BY LedgerAssumption DEF Stored, Numbers

LEMMA HeightIsBounded ==
  ASSUME NEW index
  PROVE  /\ Height(index) \in 0..MaxNumber + 1
         /\ Height(index) = 0 => Stored(index) = {}
<1>1. IsFiniteSet(Numbers) /\ Cardinality(Numbers) = MaxNumber + 1
  BY FS_Interval, LedgerAssumption DEF Numbers
<1>2. IsFiniteSet(Stored(index)) /\ Cardinality(Stored(index)) <= Cardinality(Numbers)
  BY <1>1, FS_Subset DEF Stored
<1>3. Cardinality(Stored(index)) \in Nat
  BY <1>2, FS_CardinalityType
<1>4. Cardinality(Stored(index)) = 0 => Stored(index) = {}
  BY <1>2, FS_EmptySet
<1>. QED
  BY <1>1, <1>2, <1>3, <1>4, LedgerAssumption DEF Height

\* A block after all that are stored.
LEMMA NextIsOrderly ==
  ASSUME NEW index, Orderly(index), NEW b \in Block, \A n \in Stored(index) : n < b.number
  PROVE  LET added == [index EXCEPT ![b.number] = b]
         IN  /\ Orderly(added)
             /\ Stored(added) = Stored(index) \cup {b.number}
             /\ Tip(added) = b
             /\ index[b.number] = NoBlock
<1>. DEFINE added == [index EXCEPT ![b.number] = b]
<1>1. b.number \in Numbers /\ b # NoBlock /\ b.number \in Int
  BY NoBlockAssumption, LedgerAssumption DEF Block, Numbers
<1>2. /\ added \in Index /\ index \in Index
      /\ added[b.number] = b
      /\ \A n \in Numbers \ {b.number} : added[n] = index[n]
  BY <1>1 DEF Orderly, Index
<1>. HIDE DEF added
<1>3. b.number \notin Stored(index)
  BY <1>1, StoredAreNumbers
<1>4. Stored(added) = Stored(index) \cup {b.number}
  BY <1>1, <1>2 DEF Stored
<1>5. HasGreatest(Stored(added)) /\ Greatest(Stored(added)) = b.number
  <2>1. b.number \in Stored(added) /\ \A n \in Stored(added) : n <= b.number
    BY <1>1, <1>4, StoredAreNumbers
  <2>2. HasGreatest(Stored(added))
    BY <2>1 DEF HasGreatest
  <2>3. Greatest(Stored(added)) \in Stored(added) /\ b.number <= Greatest(Stored(added))
    BY <2>1, <2>2, GreatestIsThere, StoredAreNumbers
  <2>. QED
    BY <1>1, <2>1, <2>2, <2>3, StoredAreNumbers
<1>6. \A n \in Stored(added) : added[n].number = n
  BY <1>2, <1>4 DEF Orderly, Stored
<1>7. ASSUME NEW tx \in Txs
      PROVE  Holding(added, tx) = {} \/ HasGreatest(Holding(added, tx))
  <2>1. CASE tx \in b.transactions
    <3>1. b.number \in Holding(added, tx) /\ \A n \in Holding(added, tx) : n <= b.number
      BY <1>1, <1>2, <1>4, <2>1, StoredAreNumbers DEF Holding
    <3>. QED
      BY <3>1 DEF HasGreatest
  <2>2. CASE tx \notin b.transactions
    <3>1. Holding(added, tx) = Holding(index, tx)
      BY <1>2, <1>3, <1>4, <2>2 DEF Holding, Stored
    <3>. QED
      BY <3>1 DEF Orderly
  <2>. QED
    BY <2>1, <2>2
<1>8. Tip(added) = b
  BY <1>2, <1>4, <1>5 DEF Tip
<1>9. Orderly(added)
  BY <1>2, <1>5, <1>6, <1>7 DEF Orderly
<1>10. index[b.number] = NoBlock
  BY <1>1, <1>3 DEF Stored
<1>. QED
  BY <1>4, <1>8, <1>9, <1>10 DEF added

LEMMA EmptyIsOrderly == Orderly(EmptyIndex) /\ Stored(EmptyIndex) = {}
BY DEF Orderly, EmptyIndex, Stored, Index, Holding, Tip

\* Both ways of reading the rows give the rows.
LEMMA RecoveredRows ==
  ASSUME NEW disk, Orderly(disk.rows), Counted(disk), Recover(disk)
  PROVE  blocks' = disk.rows /\ last_block' = Tip(disk.rows)
<1>1. disk.height = 0 => disk.rows = EmptyIndex
  BY DEF Orderly, Counted, Stored, EmptyIndex, Index
<1>. QED
  BY <1>1 DEF Recover, Tip

\* The checks of append_block put a block after all others.
LEMMA FollowsAll ==
  ASSUME LedgerInv, NEW b \in Block, Follows(b)
  PROVE  /\ \A n \in Stored(blocks) : n < b.number
         /\ \A n \in Stored(file.rows) : n < b.number
         /\ last_block = NoBlock => Stored(blocks) = {} /\ b.number = 0
         /\ last_block # NoBlock => /\ Greatest(Stored(blocks)) \in Stored(blocks)
                                    /\ last_block = blocks[Greatest(Stored(blocks))]
                                    /\ b.number = Greatest(Stored(blocks)) + 1
                                    /\ b.prev_hash = last_block.hash
<1>1. Stored(file.rows) \subseteq Stored(blocks)
  BY DEF LedgerInv, Below, Stored
<1>2. CASE Stored(blocks) = {}
  BY <1>1, <1>2 DEF LedgerInv, Tip, Follows
<1>3. CASE Stored(blocks) # {}
  <2>1. /\ Greatest(Stored(blocks)) \in Stored(blocks)
        /\ \A n \in Stored(blocks) : n <= Greatest(Stored(blocks))
    BY <1>3, GreatestIsThere, StoredAreNumbers DEF LedgerInv, Orderly
  <2>2. last_block = blocks[Greatest(Stored(blocks))] /\ last_block # NoBlock
    BY <1>3, <2>1 DEF LedgerInv, Tip, Stored
  <2>3. last_block.number = Greatest(Stored(blocks))
    BY <2>1, <2>2 DEF LedgerInv, Orderly
  <2>4. b.number = Greatest(Stored(blocks)) + 1 /\ b.prev_hash = last_block.hash
    BY <2>2, <2>3 DEF Follows
  <2>. QED
    BY <1>1, <2>1, <2>2, <2>4, StoredAreNumbers
<1>. QED
  BY <1>2, <1>3

-----------------------------------------------------------------------------
(* Types, and what memory and file have to do with each other.             *)

LEMMA LedgerInit == Init => LedgerInv
<1>. SUFFICES ASSUME Init PROVE LedgerInv
  OBVIOUS
<1>1. EmptyFile \in File /\ EmptyFile.rows = EmptyIndex /\ EmptyFile.height = 0
  BY EmptyIsOrderly, LedgerAssumption DEF EmptyFile, File, Orderly
<1>2. TypeOK
  <2>1. EmptyIndex \in Index
    BY EmptyIsOrderly DEF Orderly
  <2>2. [tx \in Txs |-> NoBlock] \in [Txs -> Numbers \cup {NoBlock}]
    OBVIOUS
  <2>3. file \in File /\ synced \in File /\ crashes \in 0..MaxCrashes
    BY <1>1, LedgerAssumption DEF Init
  <2>4. /\ blocks \in Index /\ last_block \in Block \cup {NoBlock}
        /\ tx_index \in [Txs -> Numbers \cup {NoBlock}]
    BY <2>1, <2>2 DEF Init
  <2>5. state_root \in Seq(Hashes) /\ marked \in Seq(ProposalIds)
    BY DEF Init
  <2>6. processed \subseteq ProposalIds /\ failed \in BOOLEAN
    BY DEF Init
  <2>. QED
    BY <2>3, <2>4, <2>5, <2>6 DEF TypeOK
<1>3. Below(EmptyIndex, EmptyIndex)
  BY DEF Below
<1>. QED
  BY <1>1, <1>2, <1>3, EmptyIsOrderly DEF Init, LedgerInv, Tip, Counted

\* Step 1 and 2 of append_block.
LEMMA Remembered ==
  ASSUME LedgerInv, NEW b \in Block, Follows(b), Remember(b)
  PROVE  /\ Orderly(blocks') /\ last_block' = Tip(blocks')
         /\ Stored(blocks') = Stored(blocks) \cup {b.number} /\ blocks[b.number] = NoBlock
         /\ blocks' \in Index /\ last_block' \in Block \cup {NoBlock}
         /\ tx_index' \in [Txs -> Numbers \cup {NoBlock}]
         /\ state_root' \in Seq(Hashes)
<1>1. /\ blocks' = [blocks EXCEPT ![b.number] = b] /\ last_block' = b
      /\ state_root' = Append(state_root, b.hash)
      /\ tx_index' = [tx \in Txs |-> IF tx \in b.transactions THEN b.number ELSE tx_index[tx]]
  BY DEF Remember
<1>2. b.number \in Numbers /\ b.hash \in Hashes
  BY DEF Block
<1>3. Orderly(blocks') /\ blocks[b.number] = NoBlock /\ last_block' = Tip(blocks')
      /\ Stored(blocks') = Stored(blocks) \cup {b.number}
  BY <1>1, FollowsAll, NextIsOrderly DEF LedgerInv
<1>4. tx_index' \in [Txs -> Numbers \cup {NoBlock}] /\ state_root' \in Seq(Hashes)
  BY <1>1, <1>2 DEF LedgerInv, TypeOK
<1>. QED
  BY <1>1, <1>3, <1>4 DEF Orderly

\* Step 3.
LEMMA PersistedIsFile ==
  ASSUME LedgerInv, NEW b \in Block, Follows(b), Remember(b), file' = Persisted(b)
  PROVE  /\ file' \in File /\ Orderly(file'.rows) /\ Counted(file')
         /\ file'.rows = [file.rows EXCEPT ![b.number] = b]
         /\ file'.height = Height(blocks') /\ file'.state_root = state_root'
         /\ Below(file'.rows, blocks') /\ Below(file.rows, file'.rows)
<1>1. /\ file'.rows = [file.rows EXCEPT ![b.number] = b] /\ file'.height = Height(blocks')
      /\ file'.state_root = state_root'
      /\ file' = [rows |-> file'.rows, height |-> file'.height, state_root |-> file'.state_root]
  BY DEF Persisted
<1>2. Orderly(file'.rows) /\ file.rows[b.number] = NoBlock
  BY <1>1, FollowsAll, NextIsOrderly DEF LedgerInv
<1>3. Height(blocks') \in 0..MaxNumber + 1 /\ Height(blocks') # 0
  <2>1. b.number \in Stored(blocks')
    BY Remembered
  <2>. QED
    BY <2>1, HeightIsBounded
<1>4. file' \in File
  BY <1>1, <1>2, <1>3, Remembered DEF File, Orderly
<1>5. /\ \A n \in Numbers \ {b.number} : file'.rows[n] = file.rows[n] /\ blocks'[n] = blocks[n]
      /\ file'.rows[b.number] = b /\ blocks'[b.number] = b
  <2>1. file.rows \in Index /\ blocks \in Index /\ b.number \in Numbers
    BY DEF LedgerInv, Orderly, Block
  <2>2. blocks' = [blocks EXCEPT ![b.number] = b]
    BY DEF Remember
  <2>. QED
    BY <1>1, <2>1, <2>2 DEF Index
<1>6. Below(file'.rows, blocks') /\ Below(file.rows, file'.rows)
  BY <1>2, <1>5 DEF Below, LedgerInv
<1>. QED
  BY <1>1, <1>2, <1>3, <1>4, <1>6 DEF Counted

LEMMA BelowIsTransitive ==
  ASSUME NEW i, NEW j, NEW k, Below(i, j), Below(j, k)
  PROVE  Below(i, k)
BY DEF Below

LEMMA AppendKeepsLedger ==
  ASSUME LedgerInv, NEW b \in Block, AppendBlock(b)
  PROVE  LedgerInv'
<1>1. /\ Follows(b) /\ Remember(b) /\ file' = Persisted(b) /\ synced' \in {synced, file'}
      /\ UNCHANGED <<processed, marked, failed, crashes>>
  BY DEF AppendBlock
<1>2. TypeOK'
  BY <1>1, Remembered, PersistedIsFile DEF LedgerInv, TypeOK
<1>3. Below(synced.rows, file'.rows) /\ Below(file'.rows, file'.rows)
  <2>1. Below(synced.rows, file.rows) /\ Below(file.rows, file'.rows)
    BY <1>1, PersistedIsFile DEF LedgerInv
  <2>. QED
    BY <2>1, BelowIsTransitive DEF Below
<1>. QED
  BY <1>1, <1>2, <1>3, Remembered, PersistedIsFile DEF LedgerInv

LEMMA FailureKeepsLedger ==
  ASSUME LedgerInv, NEW b \in Block, AppendFails(b)
  PROVE  LedgerInv'
<1>1. /\ Follows(b) /\ Remember(b) /\ failed' = TRUE
      /\ UNCHANGED <<processed, file, synced, marked, crashes>>
  BY DEF AppendFails
<1>2. TypeOK'
  BY <1>1, Remembered DEF LedgerInv, TypeOK
<1>3. Below(file.rows, blocks')
  <2>1. blocks' = [blocks EXCEPT ![b.number] = b] /\ blocks \in Index /\ blocks[b.number] = NoBlock
    BY <1>1, Remembered DEF Remember, LedgerInv, TypeOK
  <2>. QED
    BY <2>1 DEF LedgerInv, Below, Index
<1>. QED
  BY <1>1, <1>2, <1>3, Remembered DEF LedgerInv

\* A new process opens what is on the disk.
LEMMA RecoveryIsTyped ==
  ASSUME NEW disk \in File, Orderly(disk.rows), Recover(disk)
  PROVE  /\ last_block' \in Block \cup {NoBlock}
         /\ tx_index' \in [Txs -> Numbers \cup {NoBlock}]
         /\ state_root' \in Seq(Hashes) /\ processed' = {}
<1>. DEFINE rows == IF disk.height = 0 THEN EmptyIndex ELSE disk.rows
<1>1. Orderly(rows) /\ disk.state_root \in Seq(Hashes)
  BY EmptyIsOrderly DEF File
<1>. HIDE DEF rows
<1>2. /\ last_block' = Tip(rows) /\ processed' = {}
      /\ state_root' = IF disk.height = 0 THEN <<>> ELSE disk.state_root
      /\ tx_index' = [tx \in Txs |->
           IF Holding(rows, tx) = {} THEN NoBlock ELSE Greatest(Holding(rows, tx))]
  BY DEF Recover, Tip, Holding, rows
<1>3. \A tx \in Txs : Holding(rows, tx) # {} => Greatest(Holding(rows, tx)) \in Numbers
  <2>. SUFFICES ASSUME NEW tx \in Txs, Holding(rows, tx) # {}
                PROVE  Greatest(Holding(rows, tx)) \in Numbers
    OBVIOUS
  <2>1. Holding(rows, tx) \in SUBSET Int /\ Holding(rows, tx) \subseteq Numbers
    BY StoredAreNumbers DEF Holding
  <2>2. HasGreatest(Holding(rows, tx))
    BY <1>1 DEF Orderly
  <2>. QED
    BY <2>1, <2>2, GreatestIsThere
<1>4. Tip(rows) \in Block \cup {NoBlock}
  <2>1. CASE Stored(rows) = {}
    BY <2>1 DEF Tip
  <2>2. CASE Stored(rows) # {}
    <3>1. Greatest(Stored(rows)) \in Numbers /\ rows \in Index
      BY <1>1, <2>2, GreatestIsThere, StoredAreNumbers DEF Orderly
    <3>. QED
      BY <2>2, <3>1 DEF Tip, Index
  <2>. QED
    BY <2>1, <2>2
<1>. QED
  BY <1>1, <1>2, <1>3, <1>4

LEMMA RecoveryKeepsLedger ==
  ASSUME LedgerInv, Restart \/ PowerLoss
  PROVE  LedgerInv' /\ Below(blocks', blocks)
<1>1. PICK disk \in {file, synced} :
        /\ Recover(disk) /\ file' = disk /\ crashes' = crashes + 1 /\ crashes < MaxCrashes
        /\ UNCHANGED <<synced, marked, failed>>
  BY DEF Restart, PowerLoss
<1>2. disk \in File /\ Orderly(disk.rows) /\ Counted(disk)
  BY DEF LedgerInv, TypeOK
<1>3. blocks' = disk.rows /\ last_block' = Tip(disk.rows)
  BY <1>1, <1>2, RecoveredRows
<1>4. Below(file.rows, blocks) /\ Below(synced.rows, file.rows)
  BY DEF LedgerInv
<1>5. Below(disk.rows, blocks) /\ Below(synced.rows, disk.rows) /\ Below(disk.rows, disk.rows)
  BY <1>4, BelowIsTransitive DEF Below
<1>6. TypeOK'
  <2>1. crashes' \in 0..MaxCrashes
    BY <1>1, LedgerAssumption DEF LedgerInv, TypeOK
  <2>2. blocks' \in Index
    BY <1>2, <1>3 DEF Orderly
  <2>. QED
    BY <1>1, <1>2, <2>1, <2>2, RecoveryIsTyped DEF LedgerInv, TypeOK
<1>. QED
  BY <1>1, <1>2, <1>3, <1>5, <1>6 DEF LedgerInv

LEMMA LedgerStep == ASSUME LedgerInv, [Next]_vars PROVE LedgerInv'
<1>1. ASSUME NEW b \in Block, AppendBlock(b) PROVE LedgerInv'
  BY <1>1, AppendKeepsLedger
<1>2. ASSUME NEW b \in Block, AppendFails(b) PROVE LedgerInv'
  BY <1>2, FailureKeepsLedger
<1>3. ASSUME NEW p \in ProposalIds, MarkProposal(p) PROVE LedgerInv'
  <2>1. UNCHANGED <<blocks, last_block, tx_index, state_root, file, synced, failed, crashes>>
    BY <1>3 DEF MarkProposal, chainVars
  <2>2. processed' \subseteq ProposalIds /\ marked' \in Seq(ProposalIds)
    BY <1>3 DEF MarkProposal, Kept, LedgerInv, TypeOK
  <2>. QED
    BY <2>1, <2>2 DEF LedgerInv, TypeOK
<1>4. CASE Restart \/ PowerLoss
  BY <1>4, RecoveryKeepsLedger
<1>5. CASE UNCHANGED vars
  BY <1>5 DEF vars, chainVars, LedgerInv, TypeOK
<1>. QED
  BY <1>1, <1>2, <1>3, <1>4, <1>5 DEF Next

\* The types hold for any blocks and crashes; above all, recovery finds a tip and a place
\* for every transaction whatever rows it is given (persistent_ledger.py:104-156).
THEOREM LedgerTypeCorrect == Spec => []TypeOK
<1>1. LedgerInv => TypeOK
  BY DEF LedgerInv
<1>. QED
  BY <1>1, LedgerInit, LedgerStep, PTL DEF Spec

\* A step never puts another block in the place of one
\* (persistent_ledger.py:276, 307).
THEOREM HistoryStays == Spec => HistoryIsKept
<1>1. ASSUME LedgerInv, [Next]_vars
      PROVE  [\A n \in Stored(blocks) : blocks'[n] \in {blocks[n], NoBlock}]_vars
  <2>. USE <1>1
  <2>1. ASSUME NEW b \in Block, AppendBlock(b) \/ AppendFails(b)
        PROVE  \A n \in Stored(blocks) : blocks'[n] = blocks[n]
    <3>1. Follows(b) /\ Remember(b)
      BY <2>1 DEF AppendBlock, AppendFails
    <3>2. blocks' = [blocks EXCEPT ![b.number] = b] /\ blocks \in Index
      BY <3>1 DEF Remember, LedgerInv, TypeOK
    <3>3. blocks[b.number] = NoBlock
      BY <3>1, Remembered
    <3>. QED
      BY <3>2, <3>3 DEF Stored, Index
  <2>2. ASSUME NEW p \in ProposalIds, MarkProposal(p) PROVE blocks' = blocks
    BY <2>2 DEF MarkProposal, chainVars
  <2>3. CASE Restart \/ PowerLoss
    BY <2>3, RecoveryKeepsLedger DEF Below, Stored
  <2>4. CASE UNCHANGED vars
    BY <2>4
  <2>5. CASE Next
    <3>1. CASE \E b \in Block : AppendBlock(b) \/ AppendFails(b)
      BY <2>1, <3>1
    <3>2. CASE \E p \in ProposalIds : MarkProposal(p)
      BY <2>2, <3>2
    <3>. QED
      BY <2>3, <2>5, <3>1, <3>2 DEF Next
  <2>. QED
    BY <2>4, <2>5
<1>. QED
  BY <1>1, LedgerInit, LedgerStep, PTL DEF Spec, HistoryIsKept

-----------------------------------------------------------------------------
(* A whole chain, as long as no commit fails.                              *)

\* The file describes linked blocks 0, 1, ... up to its height.
WholeFile(disk) ==
  /\ Stored(disk.rows) = 0..disk.height - 1
  /\ \A n \in Stored(disk.rows) : n > 0 => disk.rows[n].prev_hash = disk.rows[n - 1].hash
  /\ Len(disk.state_root) = disk.height
  /\ \A i \in 1..disk.height : disk.state_root[i] = disk.rows[i - 1].hash

\* The index leads to the last block of each transaction.
Indexed ==
  \A tx \in Txs, n \in Stored(blocks) : tx \in blocks[n].transactions =>
    tx_index[tx] \in Holding(blocks, tx) /\ n <= tx_index[tx]

WholeInv ==
  ~failed =>
    /\ file.rows = blocks /\ file.state_root = state_root
    /\ WholeFile(file) /\ WholeFile(synced)
    /\ Indexed

LEMMA HeightOfWhole ==
  ASSUME NEW index, NEW h \in Nat, Stored(index) = 0..h - 1
  PROVE  Height(index) = h
BY FS_Interval DEF Height

LEMMA WholeIsWhole == ASSUME LedgerInv, WholeInv, ~failed PROVE Whole
<1>. DEFINE h == file.height
<1>1. h \in Nat /\ state_root \in Seq(Hashes)
  BY LedgerAssumption DEF LedgerInv, TypeOK, File
<1>2. /\ Stored(blocks) = 0..h - 1
      /\ \A n \in Stored(blocks) : n > 0 => blocks[n].prev_hash = blocks[n - 1].hash
      /\ Len(state_root) = h
      /\ \A i \in 1..h : state_root[i] = blocks[i - 1].hash
      /\ Indexed
  BY DEF WholeInv, WholeFile
<1>. HIDE DEF h
<1>3. Height(blocks) = h
  BY <1>1, <1>2, HeightOfWhole
<1>4. state_root = [i \in 1..h |-> blocks[i - 1].hash]
  BY <1>1, <1>2
<1>5. last_block = IF h = 0 THEN NoBlock ELSE blocks[h - 1]
  <2>1. CASE h = 0
    BY <1>2, <2>1 DEF LedgerInv, Tip
  <2>2. CASE h # 0
    <3>1. h - 1 \in Stored(blocks) /\ \A n \in Stored(blocks) : n <= h - 1
      BY <1>1, <1>2, <2>2
    <3>2. HasGreatest(Stored(blocks))
      BY <3>1 DEF HasGreatest
    <3>3. Greatest(Stored(blocks)) \in Stored(blocks) /\ h - 1 <= Greatest(Stored(blocks))
      BY <3>1, <3>2, GreatestIsThere, StoredAreNumbers
    <3>4. Greatest(Stored(blocks)) = h - 1
      BY <1>1, <3>1, <3>3, StoredAreNumbers
    <3>. QED
      BY <2>2, <3>1, <3>4 DEF LedgerInv, Tip
  <2>. QED
    BY <2>1, <2>2
<1>6. \A tx \in Txs, n \in Stored(blocks) : tx \in blocks[n].transactions =>
        n <= tx_index[tx] /\ tx \in blocks[tx_index[tx]].transactions
  BY <1>2 DEF Indexed, Holding
<1>. QED
  BY <1>2, <1>3, <1>4, <1>5, <1>6 DEF Whole

LEMMA WholeInit == Init => WholeInv
<1>. SUFFICES ASSUME Init PROVE WholeInv
  OBVIOUS
<1>1. EmptyFile.rows = EmptyIndex /\ EmptyFile.height = 0 /\ EmptyFile.state_root = <<>>
  BY DEF EmptyFile
<1>2. WholeFile(EmptyFile)
  BY <1>1, EmptyIsOrderly DEF WholeFile
<1>. QED
  BY <1>1, <1>2, EmptyIsOrderly DEF Init, WholeInv, Indexed

\* A block that follows is the next one.
LEMMA NextNumber ==
  ASSUME LedgerInv, WholeInv, ~failed, NEW b \in Block, Follows(b)
  PROVE  /\ b.number = file.height
         /\ b.number > 0 => b.prev_hash = blocks[b.number - 1].hash
<1>1. file.height \in Nat /\ Stored(blocks) = 0..file.height - 1
  BY LedgerAssumption DEF LedgerInv, TypeOK, File, WholeInv, WholeFile
<1>2. CASE last_block = NoBlock
  BY <1>1, <1>2, FollowsAll
<1>3. CASE last_block # NoBlock
  <2>1. /\ Greatest(Stored(blocks)) \in Stored(blocks) /\ b.number = Greatest(Stored(blocks)) + 1
        /\ b.prev_hash = blocks[Greatest(Stored(blocks))].hash
        /\ \A n \in Stored(blocks) : n < b.number
    BY <1>3, FollowsAll
  <2>2. file.height - 1 \in Stored(blocks)
    BY <1>1, <2>1
  <2>3. file.height - 1 < b.number /\ b.number - 1 \in 0..file.height - 1
    BY <1>1, <2>1, <2>2
  <2>4. b.number - 1 = Greatest(Stored(blocks))
    BY <1>1, <2>1
  <2>. QED
    BY <1>1, <2>1, <2>3, <2>4
<1>. QED
  BY <1>2, <1>3

LEMMA AppendKeepsWhole ==
  ASSUME LedgerInv, WholeInv, NEW b \in Block, AppendBlock(b)
  PROVE  WholeInv'
<1>. SUFFICES ASSUME ~failed PROVE WholeInv'
  BY DEF AppendBlock, WholeInv
<1>1. /\ Follows(b) /\ Remember(b) /\ file' = Persisted(b) /\ synced' \in {synced, file'}
      /\ failed' = failed
  BY DEF AppendBlock
<1>. DEFINE h == file.height
<1>2. h \in Nat /\ b.number = h /\ (h > 0 => b.prev_hash = blocks[h - 1].hash)
  BY <1>1, NextNumber, LedgerAssumption DEF LedgerInv, TypeOK, File
<1>3. /\ Stored(blocks) = 0..h - 1 /\ file.rows = blocks /\ file.state_root = state_root
      /\ \A n \in Stored(blocks) : n > 0 => blocks[n].prev_hash = blocks[n - 1].hash
      /\ Len(state_root) = h /\ state_root \in Seq(Hashes)
      /\ \A i \in 1..h : state_root[i] = blocks[i - 1].hash
      /\ Indexed
  BY DEF WholeInv, WholeFile, LedgerInv, TypeOK
<1>4. /\ blocks' = [blocks EXCEPT ![h] = b] /\ blocks \in Index /\ h \in Numbers
      /\ state_root' = Append(state_root, b.hash) /\ b.hash \in Hashes
      /\ tx_index' = [tx \in Txs |-> IF tx \in b.transactions THEN h ELSE tx_index[tx]]
  BY <1>1, <1>2 DEF Remember, LedgerInv, TypeOK, Block
<1>5. /\ file'.rows = blocks' /\ file'.state_root = state_root'
      /\ file'.height = Height(blocks') /\ Stored(blocks') = Stored(blocks) \cup {h}
  BY <1>1, <1>2, <1>3, <1>4, Remembered, PersistedIsFile
<1>. HIDE DEF h
<1>6. /\ blocks'[h] = b
      /\ \A n \in Stored(blocks) : blocks'[n] = blocks[n] /\ n \in Numbers /\ n # h
  <2>1. \A n \in Stored(blocks) : n \in Numbers /\ n # h
    BY <1>2, <1>3, StoredAreNumbers
  <2>. QED
    BY <1>4, <2>1 DEF Index
<1>7. Stored(blocks') = 0..h
  BY <1>2, <1>3, <1>5
<1>8. file'.height = h + 1
  <2>. DEFINE next == h + 1
  <2>1. next \in Nat /\ Stored(blocks') = 0..next - 1
    BY <1>2, <1>7
  <2>. HIDE DEF next
  <2>2. Height(blocks') = next
    BY <2>1, HeightOfWhole
  <2>. QED
    BY <1>5, <2>2 DEF next
<1>9. \A n \in Stored(blocks') : n > 0 => blocks'[n].prev_hash = blocks'[n - 1].hash
  <2>. SUFFICES ASSUME NEW n \in Stored(blocks'), n > 0
                PROVE  blocks'[n].prev_hash = blocks'[n - 1].hash
    OBVIOUS
  <2>1. n - 1 \in Stored(blocks)
    BY <1>2, <1>3, <1>7
  <2>2. CASE n = h
    BY <1>2, <1>6, <2>1, <2>2
  <2>3. CASE n # h
    BY <1>3, <1>5, <1>6, <2>1, <2>3
  <2>. QED
    BY <2>2, <2>3
<1>10. Len(state_root') = h + 1 /\ \A i \in 1..h + 1 : state_root'[i] = blocks'[i - 1].hash
  <2>1. Len(state_root') = h + 1 /\ state_root'[h + 1] = b.hash
        /\ \A i \in 1..h : state_root'[i] = state_root[i]
    BY <1>2, <1>3, <1>4
  <2>2. \A i \in 1..h : i - 1 \in Stored(blocks)
    BY <1>2, <1>3
  <2>3. \A i \in 1..h : state_root'[i] = blocks'[i - 1].hash
    BY <1>3, <1>6, <2>1, <2>2
  <2>4. state_root'[h + 1] = blocks'[(h + 1) - 1].hash
    BY <1>2, <1>6, <2>1
  <2>. QED
    BY <1>2, <2>1, <2>3, <2>4
<1>11. Indexed'
  <2>. SUFFICES ASSUME NEW tx \in Txs, NEW n \in Stored(blocks'), tx \in blocks'[n].transactions
                PROVE  tx_index'[tx] \in Holding(blocks', tx) /\ n <= tx_index'[tx]
    BY DEF Indexed, Holding
  <2>1. CASE tx \in b.transactions
    BY <1>2, <1>4, <1>6, <1>7, <2>1 DEF Holding
  <2>2. CASE tx \notin b.transactions
    <3>1. n \in Stored(blocks) /\ tx \in blocks[n].transactions
      BY <1>5, <1>6, <2>2
    <3>2. tx_index[tx] \in Holding(blocks, tx) /\ n <= tx_index[tx]
      BY <1>3, <3>1 DEF Indexed
    <3>. QED
      BY <1>4, <1>5, <1>6, <2>2, <3>2 DEF Holding
  <2>. QED
    BY <2>1, <2>2
<1>12. WholeFile(file')
  <2>1. Stored(blocks') = 0..file'.height - 1
    BY <1>2, <1>7, <1>8
  <2>. QED
    BY <1>5, <1>8, <1>9, <1>10, <2>1 DEF WholeFile
<1>. QED
  BY <1>1, <1>5, <1>11, <1>12 DEF WholeInv

LEMMA RecoveryKeepsWhole ==
  ASSUME LedgerInv, WholeInv, Restart \/ PowerLoss
  PROVE  WholeInv'
<1>. SUFFICES ASSUME ~failed PROVE WholeInv'
  BY DEF Restart, PowerLoss, WholeInv
<1>1. PICK disk \in {file, synced} :
        Recover(disk) /\ file' = disk /\ UNCHANGED <<synced, failed>>
  BY DEF Restart, PowerLoss
<1>2. disk \in File /\ Orderly(disk.rows) /\ Counted(disk) /\ WholeFile(disk) /\ WholeFile(synced)
  BY DEF LedgerInv, TypeOK, WholeInv
<1>3. blocks' = disk.rows
  BY <1>1, <1>2, RecoveredRows
<1>4. state_root' = disk.state_root
  <2>1. disk.height = 0 => disk.state_root = <<>>
    <3>1. disk.state_root \in Seq(Hashes) /\ Len(disk.state_root) = disk.height
      BY <1>2 DEF File, WholeFile
    <3>. QED
      BY <3>1
  <2>. QED
    BY <1>1, <2>1 DEF Recover
<1>5. \A tx \in Txs :
        tx_index'[tx] = IF Holding(blocks', tx) = {} THEN NoBlock ELSE Greatest(Holding(blocks', tx))
  <2>1. (IF disk.height = 0 THEN EmptyIndex ELSE disk.rows) = blocks'
    BY <1>1 DEF Recover
  <2>2. tx_index' = [tx \in Txs |->
           IF Holding(blocks', tx) = {} THEN NoBlock ELSE Greatest(Holding(blocks', tx))]
    BY <1>1, <2>1 DEF Recover, Holding
  <2>. QED
    BY <2>2
<1>6. Indexed'
  <2>. SUFFICES ASSUME NEW tx \in Txs, NEW n \in Stored(blocks'), tx \in blocks'[n].transactions
                PROVE  tx_index'[tx] \in Holding(blocks', tx) /\ n <= tx_index'[tx]
    BY DEF Indexed, Holding
  <2>1. n \in Holding(blocks', tx) /\ Holding(blocks', tx) \in SUBSET Int
    BY StoredAreNumbers DEF Holding
  <2>2. HasGreatest(Holding(blocks', tx))
    BY <1>2, <1>3, <2>1 DEF Orderly
  <2>. QED
    BY <1>5, <2>1, <2>2, GreatestIsThere
<1>. QED
  BY <1>1, <1>2, <1>3, <1>4, <1>6 DEF WholeInv

LEMMA WholeStep == ASSUME LedgerInv, WholeInv, [Next]_vars PROVE WholeInv'
<1>1. ASSUME NEW b \in Block, AppendBlock(b) PROVE WholeInv'
  BY <1>1, AppendKeepsWhole
<1>2. ASSUME NEW b \in Block, AppendFails(b) PROVE WholeInv'
  BY <1>2 DEF AppendFails, WholeInv
<1>3. ASSUME UNCHANGED <<blocks, tx_index, state_root, file, synced, failed>> PROVE WholeInv'
  BY <1>3 DEF WholeInv, Indexed
<1>4. ASSUME NEW p \in ProposalIds, MarkProposal(p) PROVE WholeInv'
  BY <1>3, <1>4 DEF MarkProposal, chainVars
<1>5. CASE Restart \/ PowerLoss
  BY <1>5, RecoveryKeepsWhole
<1>6. CASE UNCHANGED vars
  BY <1>3, <1>6 DEF vars, chainVars
<1>. QED
  BY <1>1, <1>2, <1>4, <1>5, <1>6 DEF Next

\* While no commit fails, the chain in memory is whole, whatever was lost in whatever
\* crash: rows, height and state root are written together (persistent_ledger.py:104-156).
THEOREM RecoveredChainIsWhole == Spec => []ChainIsWhole
<1>1. LedgerInv /\ WholeInv => ChainIsWhole
  BY WholeIsWhole DEF ChainIsWhole
<1>. QED
  BY <1>1, LedgerInit, LedgerStep, WholeInit, WholeStep, PTL DEF Spec

\* A process that ends without a power loss finds the chain it had
\* (persistent_ledger.py:104-156, 332).
THEOREM RestartKeepsChain == Spec => RestartLosesNothing
<1>1. ASSUME LedgerInv, WholeInv, [Next]_vars
      PROVE  [crashes' # crashes /\ file' = file /\ ~failed => blocks' = blocks]_vars
  <2>. USE <1>1
  <2>1. ASSUME Restart \/ PowerLoss, file' = file, ~failed PROVE blocks' = blocks
    <3>1. Recover(file)
      BY <2>1 DEF Restart, PowerLoss
    <3>2. blocks' = file.rows
      BY <3>1, RecoveredRows DEF LedgerInv
    <3>. QED
      BY <2>1, <3>2 DEF WholeInv
  <2>2. ASSUME crashes' # crashes, Next PROVE Restart \/ PowerLoss
    BY <2>2 DEF Next, AppendBlock, AppendFails, MarkProposal
  <2>3. crashes' # crashes /\ file' = file /\ ~failed => blocks' = blocks
    BY <2>1, <2>2 DEF vars
  <2>. QED
    BY <2>3
<1>. QED
  BY <1>1, LedgerInit, LedgerStep, WholeInit, WholeStep, PTL DEF Spec, RestartLosesNothing
=============================================================================
