----------------------------- MODULE ViewedChain -----------------------------
(***************************************************************************)
(* A node's chain as its readers see it: blocks that are only ever added   *)
(* (models/ledger.py), and the readers that scan it from the start on      *)
(* every request (api/handlers.py, dashboard/routes.py).  The indexes of   *)
(* IncrementalSync and RelationIndex are measured against these.           *)
(*                                                                         *)
(* A transaction says who submitted it, whether it creates a table, which  *)
(* table its payload names under "table_name" (a batch names none), and    *)
(* which tables its statements change.  Its hash is its place on the       *)
(* chain: no transaction is recorded twice.                                *)
(***************************************************************************)
EXTENDS Naturals, Sequences, FiniteSets, SequencesExt, TLC

CONSTANTS
  Tables, Accounts,
  NoTable,        \* what a payload without "table_name" yields
  NoAccount,      \* the empty account, which a request may leave out
  Pool,           \* transactions that blocks may hold
  MaxBlocks,      \* bound: blocks after genesis
  MaxTxs          \* bound: transactions on the chain

Transaction ==
  [account : Accounts \cup {NoAccount}, creates : BOOLEAN,
   table : Tables \cup {NoTable}, changes : SUBSET Tables]

ASSUME ViewedChainAssumption ==
  /\ Pool \subseteq Transaction
  /\ NoTable \notin Tables /\ NoAccount \notin Accounts
  /\ MaxBlocks \in Nat /\ MaxTxs \in Nat

VARIABLE
  chain           \* the blocks after genesis; genesis is block 0 and has no transactions

Height == Len(chain) + 1

BlockAt(n) == IF n = 0 THEN <<>> ELSE chain[n]

\* The numbers range(from, ledger.height) goes through.
Numbers(from) == {n \in 0..Len(chain) : n >= from}

Block == UNION {[1..k -> Pool] : k \in 1..MaxTxs}

\* The consensus records a block; it proposes none without transactions.
AppendBlock(block) ==
  /\ Len(chain) < MaxBlocks
  /\ Len(FlattenSeq(chain)) + Len(block) <= MaxTxs
  /\ chain' = Append(chain, block)

-----------------------------------------------------------------------------
\* Where the transactions are that a block's payloads say are about a table.
Entries(n, table) == {<<n, i>> : i \in {j \in DOMAIN BlockAt(n) : BlockAt(n)[j].table = table}}

\* audit_record and the dashboard's audit_table: every transaction that names the table.
AuditTrail(table) == UNION {Entries(n, table) : n \in Numbers(0)}

AuditedBlocks(table) == {entry[1] : entry \in AuditTrail(table)}

\* data_lineage of the dashboard: who submitted a transaction that names the table.
Writers(table) == {BlockAt(entry[1])[entry[2]].account : entry \in AuditTrail(table)}

\* The blocks whose statements change a table, whatever their payloads say.
ChangingBlocks(table) ==
  {n \in Numbers(0) : \E tx \in ToSet(BlockAt(n)) : table \in tx.changes}
=============================================================================
