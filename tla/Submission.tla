----------------------------- MODULE Submission -----------------------------
(***************************************************************************)
(* From a request to the chain, on the leader: the RPC handlers validate a *)
(* statement against the registry of the moment and number it, the mempool *)
(* keeps it, a round proposes a copy of the mempool, and a committed block *)
(* takes its transactions out again (api/handlers.py, sql/validator.py,    *)
(* sql/converter.py, models/transaction.py, consensus/pop.py).  What the   *)
(* block does to the database is TableSync, whose steps are steps here.    *)
(*                                                                         *)
(* The hash of a transaction covers its content, the account and the       *)
(* sequence number, the last two as one text with nothing between them:    *)
(* two accounts can have a text in common, and the mempool and the index   *)
(* of the ledger know transactions by their hash.  The text is taken to    *)
(* end where the payload begins: no account has a brace in its name.       *)
(*                                                                         *)
(* Which rounds succeed is up to POPConsensus.  Only the ledger, the       *)
(* database and the state file outlive the process.                        *)
(***************************************************************************)
EXTENDS TableSync

CONSTANTS
  Accounts,
  Text,           \* Text[a][n]: the name of account a followed by the digits of n
  Leader,         \* the callback task of the leader
  NoRound,
  MaxSequence     \* bound: submissions of each account to one process

ASSUME SubmissionAssumption ==
  /\ Leader \in Callbacks /\ MaxSequence \in [Accounts -> Nat]
  /\ \A a \in Accounts : DOMAIN Text[a] = 1..MaxSequence[a] /\ IsInjective(Text[a])

VARIABLES
  sequence,       \* _sequence_counters
  mempool,        \* in the order of insertion
  round,          \* the transactions of the running round, or NoRound
  recorded,       \* what ledger holds, with accounts and sequence numbers
  accepted,       \* history: what this process has accepted
  boot            \* history: blocks on the chain when this process started

pipeline == <<sequence, mempool, round, recorded, accepted, boot>>
nodeVars == <<vars, pipeline>>

Hashed ==
  {e \in [tx : Pool, account : Accounts, sequence : Nat \ {0}] : e.sequence <= MaxSequence[e.account]}

NodeInit ==
  /\ Init
  /\ sequence = [a \in Accounts |-> 0]
  /\ mempool = <<>>
  /\ round = NoRound
  /\ recorded = <<>>
  /\ accepted = {}
  /\ boot = 0

-----------------------------------------------------------------------------
\* Mutant of Valid: columns are not looked up.
ValidTable(s) == IF s.kind = "CREATE" THEN registry[s.table] = NoTable ELSE registry[s.table] # NoTable

\* SQLValidator.validate: one statement against the registry as it is.
Valid(s) ==
  /\ IF s.kind = "CREATE" THEN registry[s.table] = NoTable ELSE registry[s.table] # NoTable
  /\ s.kind \in {"INSERT", "UPDATE"} => s.column \in NamesOf(registry[s.table])
  /\ s.kind = "DROP_COLUMN" => s.name \in NamesOf(registry[s.table])
  /\ s.kind = "MODIFY" => s.column.name \in NamesOf(registry[s.table])

\* Mutant of Counted: the counter is not stored.
CountedNever(account) == sequence

\* _next_sequence.
Counted(account) == [sequence EXCEPT ![account] = @ + 1]

\* compute_hash; SHA-256 itself does not collide.
HashOf(e) == <<e.tx, Text[e.account][e.sequence]>>

Hashes(entries) == {HashOf(e) : e \in ToSet(entries)}

\* Mempool.add: a dict by hash.  An entry with the hash of an older one takes its place.
Added(e) ==
  IF HashOf(e) \in Hashes(mempool)
  THEN [i \in DOMAIN mempool |-> IF HashOf(mempool[i]) = HashOf(e) THEN e ELSE mempool[i]]
  ELSE Append(mempool, e)

\* The rest of a handler once the statement has passed.  RPC is served after startup.
Queue(account, tx) ==
  LET e == [tx |-> tx, account |-> account, sequence |-> sequence[account] + 1]
  IN  /\ Started
      /\ sequence[account] < MaxSequence[account] /\ Len(mempool) < MaxTxs
      /\ sequence' = Counted(account)
      /\ mempool' = Added(e)
      /\ accepted' = accepted \cup {e}
      /\ UNCHANGED <<vars, round, recorded, boot>>

\* The submitSql RPC skips validation for DDL.
SqlSubmit(account, tx) ==
  /\ tx.kind # "BATCH"
  /\ IsDml(tx) => Valid(tx)
  /\ Queue(account, tx)

\* The createTable RPC skips it for everything, and does not look at what it is given.
CreateTable(account, tx) ==
  /\ tx.kind # "BATCH"
  /\ Queue(account, tx)

\* Every statement of a batch is validated, each as if it were the first.
SqlSubmitBatch(account, tx) ==
  /\ tx.kind = "BATCH"
  /\ \A i \in 1..Len(tx.statements) : Valid(tx.statements[i])
  /\ Queue(account, tx)

-----------------------------------------------------------------------------
\* The leader loop proposes what is pending; it awaits the callback of a block before
\* it begins the next round.
Propose ==
  /\ round = NoRound /\ mempool # <<>>
  /\ Started /\ worker[Leader].at = "idle"
  /\ round' = mempool
  /\ UNCHANGED <<vars, sequence, mempool, recorded, accepted, boot>>

\* A timeout of either phase leaves the mempool as it is.
RoundFails ==
  /\ round # NoRound
  /\ round' = NoRound
  /\ UNCHANGED <<vars, sequence, mempool, recorded, accepted, boot>>

\* Mutants of Remaining: the mempool is cleared; nothing is taken out of it.
RemainingNone == <<>>

RemainingAll == mempool

\* The mempool without the hashes of the block.
Remaining == Selection(mempool, {e \in ToSet(mempool) : HashOf(e) \notin Hashes(round)})

\* _commit_block up to the callback.
Commit ==
  /\ round # NoRound
  /\ RecordBlock(Leader, [i \in DOMAIN round |-> round[i].tx])
  /\ recorded' = Append(recorded, round)
  /\ mempool' = Remaining
  /\ round' = NoRound
  /\ UNCHANGED <<sequence, accepted, boot>>

\* A new process counts from 1 again and has an empty mempool.
NodeCrash ==
  /\ Crash
  /\ sequence' = [a \in Accounts |-> 0]
  /\ mempool' = <<>>
  /\ round' = NoRound
  /\ recorded' = IF LedgerSurvives THEN recorded ELSE <<>>
  /\ accepted' = {}
  /\ boot' = Len(ledger')

Replay ==
  /\ \/ StartReplay
     \/ \E c \in Callers, from_block \in 0..Len(ledger) : SyncTable(c, from_block)
     \/ \E w \in Workers : Run(w)
  /\ UNCHANGED pipeline

NodeNext ==
  \/ \E a \in Accounts, tx \in Pool :
       SqlSubmit(a, tx) \/ CreateTable(a, tx) \/ SqlSubmitBatch(a, tx)
  \/ Propose
  \/ RoundFails
  \/ Commit
  \/ Replay
  \/ NodeCrash

NodeSpec == NodeInit /\ [][NodeNext]_nodeVars

-----------------------------------------------------------------------------
\* get_transaction and its index by hash, for the blocks from a given one on.
Places(e, from) ==
  {p \in (from + 1..Len(recorded)) \X (1..MaxTxs) :
     p[2] <= Len(recorded[p[1]]) /\ HashOf(recorded[p[1]][p[2]]) = HashOf(e)}

\* The status getTransaction reports: it looks in the mempool first.
Status(e) ==
  IF HashOf(e) \in Hashes(mempool) THEN "pending"
  ELSE IF Places(e, 0) # {} THEN "committed" ELSE "not found"

\* This process has accepted nothing else with the hash of e.
Unshared(e) == \A f \in accepted : HashOf(f) = HashOf(e) => f = e

\* An entry is pending or in one place of what this process recorded.
Once(e) ==
  Cardinality(Places(e, boot)) + (IF HashOf(e) \in Hashes(mempool) THEN 1 ELSE 0) = 1

\* What was accepted, and shares its hash with no other acceptance, is pending or on the
\* chain, once, for as long as the process lives: a submission during a round is not lost
\* with the round's block, a round that failed is not recorded beside its repetition
\* (pop.py:180, 337-338; converter.py:166-177).
AcceptedOnce == \A e \in accepted : Unshared(e) => Once(e)

\* Shared or not, a hash that a handler gave to a client is one that getTransaction knows:
\* taking a hash out of the mempool and finding it in the index go together, also when
\* another transaction has it (transaction.py:130-138, handlers.py:274-299).
AcceptedIsKnown == \A e \in accepted : Status(e) # "not found"

\* A client that was told "committed" is never told anything else by the same process
\* about a transaction it submitted there, unless another acceptance has its hash
\* (handlers.py:260-299).
CommittedStaysCommitted ==
  [][ crashes' = crashes =>
        \A e \in accepted :
          Status(e) = "committed" /\ Unshared(e)' => Status(e)' = "committed" ]_nodeVars

\* "Monotonically increasing sequence number for this account" (transaction.py:37): with
\* it in the hash, no two acceptances of a process have the same one.
OneHashEach == \A e, f \in accepted : HashOf(e) = HashOf(f) => e = f

\* The same about any transaction of the chain, over restarts as well.
StatusIsFinal ==
  [][ \A b \in DOMAIN recorded : \A i \in DOMAIN recorded[b] :
        LET e == recorded[b][i]
        IN  Status(e) = "committed" /\ Unshared(e)' => Status(e)' = "committed" ]_nodeVars

\* The whole pipeline does to the node what TableSync says: whatever is in the mempool
\* for however long, a batch that gets into a block was valid in a registry the chain
\* accounts for (validator.py:44-223, table_sync.py:109-131).
ImplementsTableSync == Spec

\* "INSERT/UPDATE/DELETE: target table must exist" (validator.py:28): a recorded one
\* names a table that the chain created before.
RowsHaveTables ==
  \A i \in DOMAIN Log : IsDml(Log[i]) =>
    \E j \in 1..i - 1 : Log[j].kind = "CREATE" /\ Log[j].table = Log[i].table
=============================================================================
