------------------------------ MODULE TableSync ------------------------------
(***************************************************************************)
(* One node's replay of its chain into its local database                  *)
(* (sync/table_sync.py, sync/state_manager.py, storage/table_registry.py). *)
(*                                                                         *)
(* Several asyncio tasks run sync_block over the same registry, database   *)
(* and progress: the consensus callback with each new block, start() after *)
(* a boot, and the syncTable RPC.  sync_block takes no lock and suspends   *)
(* in every database call.  A step here is the synchronous part of one     *)
(* transaction (the registry), its database call, or the end of a block.   *)
(*                                                                         *)
(* The registry and synced_height live in memory; the database and the     *)
(* state file survive a crash.  The ledger survives it when it is a        *)
(* PersistentLedger; main.py builds the in-memory Ledger.                  *)
(***************************************************************************)
EXTENDS LocalDatabase

CONSTANTS
  Pool,           \* transactions that blocks may hold
  Callbacks,      \* tasks that can await the block callback at the same time: the
                  \* leader has one, a follower one per connection it reads
  Startup,        \* the task of table_sync.start()
  Callers,        \* concurrent requests of the syncTable RPC
  EarlyBlocks,    \* TRUE on a follower: main.py starts the network and the consensus
                  \* before table_sync.  A leader has an empty mempool until then
  LedgerSurvives, \* the ledger is a PersistentLedger
  MaxBlocks,      \* bound: blocks after genesis
  MaxTxs,         \* bound: transactions in a block
  MaxCalls,       \* bound: syncTable requests
  MaxCrashes,     \* bound: crashes of the process
  Garbled         \* a state file that is not JSON

Workers == Callbacks \cup {Startup} \cup Callers

ASSUME TableSyncAssumption ==
  /\ Pool \subseteq Transaction
  /\ Startup \notin Callbacks \cup Callers /\ Callbacks \cap Callers = {}
  /\ EarlyBlocks \in BOOLEAN /\ LedgerSurvives \in BOOLEAN
  /\ MaxBlocks \in Nat /\ MaxTxs \in Nat /\ MaxCalls \in Nat /\ MaxCrashes \in Nat
  /\ Garbled \notin Nat

VARIABLES
  ledger,        \* transactions of blocks 1, 2, ...; genesis is block 0 and has none
  registry,      \* columns of the tables in the TableRegistry
  database,
  synced_height,
  state_file,    \* the synced_height it holds, or Garbled
  worker,        \* where each task is: block and transaction, last block, and
                 \* whether it runs or awaits the database
  tried,         \* history: positions <<block, transaction>> that were replayed
  calls, crashes

bounds == <<calls, crashes>>
vars == <<ledger, registry, database, synced_height, state_file, worker, tried, bounds>>

Block == UNION {[1..k -> Pool] : k \in 1..MaxTxs}

Task == [block : 0..MaxBlocks, tx : 0..MaxTxs + 1, last : 0..MaxBlocks,
         at : {"idle", "waiting", "run", "execute"}]

TypeOK ==
  /\ ledger \in Seq(Block) /\ Len(ledger) <= MaxBlocks
  /\ registry \in [Tables -> Seq(Column) \cup {NoTable}]
  /\ database \in [Tables -> Contents \cup {NoTable}]
  /\ synced_height \in 0..MaxBlocks
  /\ state_file \in 0..MaxBlocks \cup {Garbled}
  /\ worker \in [Workers -> Task]
  /\ tried \subseteq (1..MaxBlocks) \X (1..MaxTxs)
  /\ calls \in 0..MaxCalls /\ crashes \in 0..MaxCrashes

Idle == [block |-> 0, tx |-> 0, last |-> 0, at |-> "idle"]

\* start() is not reached yet.
Waiting == [Idle EXCEPT !.at = "waiting"]

\* A new process: nothing runs, and start() comes once the services are up.
Booted == [w \in Workers |-> IF w = Startup THEN Waiting ELSE Idle]

Init ==
  /\ ledger = <<>>
  /\ registry = EmptyDatabase
  /\ database = EmptyDatabase
  /\ synced_height = 0
  /\ state_file = 0
  /\ worker = Booted
  /\ tried = {}
  /\ calls = 0
  /\ crashes = 0

-----------------------------------------------------------------------------
\* Mutant of ReplayFrom: the last block is left out.
ReplayFromSkipsLast(height, ledgerLength) ==
  IF height >= ledgerLength
  THEN Idle
  ELSE [block |-> height, tx |-> 1, last |-> ledgerLength, at |-> "run"]

\* replay_from: the blocks from the given one to the height read at the start.
ReplayFrom(height, ledgerLength) ==
  IF height > ledgerLength
  THEN Idle
  ELSE [block |-> height, tx |-> 1, last |-> ledgerLength, at |-> "run"]

Transactions(w) == IF worker[w].block = 0 THEN <<>> ELSE ledger[worker[w].block]

Current(w) == Transactions(w)[worker[w].tx]

AtTransaction(w) == worker[w].at = "run" /\ worker[w].tx <= Len(Transactions(w))

AtEndOfBlock(w) == worker[w].at = "run" /\ worker[w].tx > Len(Transactions(w))

Started == worker[Startup].at = "idle"

Log == FlattenSeq(ledger)

\* A registry that replayed a part of the chain may have the table of a statement
\* and the column it names: a CREATE registered the table, that or an ADD the column.
Registrable(s) ==
  /\ \E tx \in ToSet(Log) : tx.kind = "CREATE" /\ tx.table = s.table
  /\ s.kind \in {"INSERT", "UPDATE"} =>
       \E tx \in ToSet(Log) :
         \/ tx.kind = "CREATE" /\ tx.table = s.table /\ s.column \in NamesOf(tx.columns)
         \/ tx.kind = "ADD" /\ tx.table = s.table /\ s.column = tx.column.name

\* sql_submit_batch validates every statement when the batch is submitted, long before
\* it is in a block.  Of a single statement nothing is known: create_table takes any,
\* without validation.  (Submission shows that this is what gets into blocks.)
Submitted(tx) ==
  tx.kind = "BATCH" =>
    \A i \in 1..Len(tx.statements) :
      tx.statements[i].kind = "CREATE" \/ Registrable(tx.statements[i])

\* The consensus appends a block and awaits the callback with it.
RecordBlock(c, block) ==
  /\ Len(ledger) < MaxBlocks
  /\ worker[c].at = "idle"
  /\ EarlyBlocks \/ Started
  /\ ledger' = Append(ledger, block)
  /\ worker' = [worker EXCEPT ![c] = ReplayFrom(Len(ledger) + 1, Len(ledger) + 1)]
  /\ UNCHANGED <<registry, database, synced_height, state_file, tried, bounds>>

CommitBlock(c, block) ==
  (\A i \in 1..Len(block) : Submitted(block[i])) /\ RecordBlock(c, block)

\* start() after a boot: from the block after the last synced one.
StartReplay ==
  /\ worker[Startup].at = "waiting"
  /\ worker' = [worker EXCEPT ![Startup] = ReplayFrom(synced_height + 1, Len(ledger))]
  /\ UNCHANGED <<ledger, registry, database, synced_height, state_file, tried, bounds>>

\* The syncTable RPC, served once the services are up; from_block defaults to 0.
SyncTable(c, from_block) ==
  /\ Started /\ worker[c].at = "idle" /\ calls < MaxCalls
  /\ worker' = [worker EXCEPT ![c] = ReplayFrom(from_block, Len(ledger))]
  /\ calls' = calls + 1
  /\ UNCHANGED <<ledger, registry, database, synced_height, state_file, tried, crashes>>

-----------------------------------------------------------------------------
\* The registry after the handler of a transaction: CREATE registers the columns
\* before SQLite has seen them, ADD appends without looking for the name, MODIFY
\* replaces the first column of that name.
Modified(columns, column) ==
  [i \in 1..Len(columns) |->
     IF columns[i].name = column.name /\ \A j \in 1..i-1 : columns[j].name # column.name
     THEN column ELSE columns[i]]

\* Mutant of Refused: unregister raises for a table that is not registered.
RefusedDropToo(tx) ==
  \/ tx.kind = "CREATE" /\ registry[tx.table] # NoTable
  \/ tx.kind \in {"ADD", "MODIFY", "DROP_COLUMN", "DROP_TABLE"} /\ registry[tx.table] = NoTable

\* register raises for a table that is registered, ALTER TABLE returns for one that
\* is not; the rest goes on.
Refused(tx) ==
  \/ tx.kind = "CREATE" /\ registry[tx.table] # NoTable
  \/ tx.kind \in {"ADD", "MODIFY", "DROP_COLUMN"} /\ registry[tx.table] = NoTable

\* Mutant of Unregistered: the dropped table stays registered.
UnregisteredNever(t) == registry

Unregistered(t) == [registry EXCEPT ![t] = NoTable]

Register(tx) ==
  CASE tx.kind = "CREATE"      -> [registry EXCEPT ![tx.table] = tx.columns]
    [] tx.kind = "ADD"         -> [registry EXCEPT ![tx.table] = Append(@, tx.column)]
    [] tx.kind = "MODIFY"      -> [registry EXCEPT ![tx.table] = Modified(@, tx.column)]
    [] tx.kind = "DROP_COLUMN" -> [registry EXCEPT ![tx.table] = Without(@, tx.name)]
    [] tx.kind = "DROP_TABLE"  -> Unregistered(tx.table)
    [] OTHER                   -> registry

\* sync_block is done with a transaction, whatever came of it.
NextTransaction(w) ==
  /\ worker' = [worker EXCEPT ![w].tx = @ + 1, ![w].at = "run"]
  /\ tried' = tried \cup {<<worker[w].block, worker[w].tx>>}

\* A transaction that ends without a database call: the exception of register is
\* logged, ALTER TABLE of an unknown table is a warning, MODIFY has no statement.
SkipDatabase(w) ==
  /\ AtTransaction(w)
  /\ Refused(Current(w)) \/ Current(w).kind = "MODIFY"
  /\ registry' = IF Refused(Current(w)) THEN registry ELSE Register(Current(w))
  /\ NextTransaction(w)
  /\ UNCHANGED <<ledger, database, synced_height, state_file, bounds>>

\* A transaction up to the await of its database call.
BeginTransaction(w) ==
  /\ AtTransaction(w)
  /\ ~Refused(Current(w)) /\ Current(w).kind # "MODIFY"
  /\ registry' = Register(Current(w))
  /\ worker' = [worker EXCEPT ![w].at = "execute"]
  /\ UNCHANGED <<ledger, database, synced_height, state_file, tried, bounds>>

\* The database commits or refuses; an exception is logged and the next transaction
\* follows.
ExecuteTransaction(w) ==
  /\ worker[w].at = "execute"
  /\ database' = Executed(database, Current(w))
  /\ NextTransaction(w)
  /\ UNCHANGED <<ledger, registry, synced_height, state_file, bounds>>

\* Mutants of Updated: any height replaces the saved one; the next height is saved.
UpdatedAlways(height) == height

UpdatedToNext(height) == IF height >= synced_height THEN height + 1 ELSE synced_height

\* StateManager.update.
Updated(height) == IF height > synced_height THEN height ELSE synced_height

\* The end of sync_block: update and save, then the next block of replay_from.
FinishBlock(w) ==
  /\ AtEndOfBlock(w)
  /\ synced_height' = Updated(worker[w].block)
  /\ state_file' = Updated(worker[w].block)
  /\ worker' = [worker EXCEPT ![w] = ReplayFrom(worker[w].block + 1, worker[w].last)]
  /\ UNCHANGED <<ledger, registry, database, tried, bounds>>

-----------------------------------------------------------------------------
\* What _load makes of the state file.
Loaded(file) == IF file = Garbled THEN 0 ELSE file

\* The process ends at any step and starts again.  save() truncates the file before
\* it writes it: a crash in between leaves a file that does not parse.
Crash ==
  /\ crashes < MaxCrashes
  /\ crashes' = crashes + 1
  /\ \/ state_file' = state_file
     \/ state_file' = Garbled /\ \E w \in Workers : AtEndOfBlock(w)
  /\ synced_height' = Loaded(state_file')
  /\ registry' = EmptyDatabase
  /\ worker' = Booted
  /\ ledger' = IF LedgerSurvives THEN ledger ELSE <<>>
  /\ tried' = IF LedgerSurvives THEN tried ELSE {}
  /\ UNCHANGED <<database, calls>>

Run(w) ==
  \/ SkipDatabase(w)
  \/ BeginTransaction(w)
  \/ ExecuteTransaction(w)
  \/ FinishBlock(w)

Next ==
  \/ \E c \in Callbacks, block \in Block : CommitBlock(c, block)
  \/ StartReplay
  \/ \E c \in Callers, from_block \in 0..Len(ledger) : SyncTable(c, from_block)
  \/ \E w \in Workers : Run(w)
  \/ Crash

Spec == Init /\ [][Next]_vars

\* The event loop resumes every task whose database call has ended, and a process
\* that has started reaches table_sync.start().
FairSpec == Spec /\ WF_vars(StartReplay) /\ \A w \in Workers : WF_vars(Run(w))

-----------------------------------------------------------------------------
AllIdle == \A w \in Workers : worker[w].at = "idle"

\* When nothing is left to replay, the database is what executing the transactions
\* of the chain once each, in chain order, makes of an empty one: nothing skipped,
\* repeated or reordered (system_design.md:48 and 289; table_sync.py:109-151).
DatabaseFollowsLedger == AllIdle => database = Replayed(Log)

\* The same for the tables alone, as long as nobody calls syncTable: a table exists exactly
\* when the chain says so.  CREATE and DROP replayed a second time after a crash, from an
\* empty registry, end where they ended the first time (table_sync.py:188-224, 291-303).
TablesFollowLedger ==
  AllIdle /\ calls = 0 => \A t \in Tables : database[t] = NoTable <=> Replayed(Log)[t] = NoTable

\* The checkpoint is honest: every transaction of a block at or below the saved
\* height has been replayed, although each task that ends a block moves it
\* (table_sync.py:131, state_manager.py:48).
NothingSkipped ==
  state_file # Garbled =>
    \A b \in 1..Len(ledger) : b <= state_file =>
      \A i \in 1..Len(ledger[b]) : <<b, i>> \in tried

\* The saved height grows only, although syncTable replays old blocks while new ones
\* are committed; a garbled file is the exception (state_manager.py:48-49, 75).
ProgressNeverGoesBack ==
  [][ state_file # Garbled /\ state_file' # Garbled => state_file' >= state_file ]_vars

\* Every block on a surviving ledger is replayed and checkpointed in the end, in spite
\* of crashes and garbled state files (table_sync.py:98).
EveryBlockSynced ==
  \A b \in 1..MaxBlocks : Len(ledger) >= b ~> state_file # Garbled /\ state_file >= b

\* The registry, which validates statements and answers queries, describes the
\* tables the database has (table_registry.py:77-82).
RegistryDescribesDatabase ==
  AllIdle => \A t \in Tables :
    registry[t] = IF database[t] = NoTable THEN NoTable ELSE database[t].columns

\* "If any statement fails, the entire batch is rolled back" (table_sync.py:323-324).
BatchIsAtomic ==
  [][ \A w \in Workers :
        /\ worker[w].at = "execute" /\ Current(w).kind = "BATCH"
        /\ tried' = tried \cup {<<worker[w].block, worker[w].tx>>}
        /\ Attempt(database, Current(w).statements).failed
        => database' = database ]_vars
=============================================================================
