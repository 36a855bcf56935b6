------------------------- MODULE TableSyncRefinement -------------------------
(***************************************************************************)
(* A node that replays blocks only as they are committed (one callback, no *)
(* crash, no syncTable) implements SerialReplay.                           *)
(***************************************************************************)
EXTENDS TableSync

TheCallback == CHOOSE c \in Callbacks : TRUE

\* Transactions of the chain that have been dealt with.
Applied ==
  LET task == worker[TheCallback]
  IN  IF task.at = "idle"
      THEN Len(Log)
      ELSE Len(FlattenSeq(SubSeq(ledger, 1, task.block - 1))) + task.tx - 1

Promise == INSTANCE SerialReplay WITH log <- Log, applied <- Applied, db <- database

\* The registry decides which statements reach the database before the database is
\* asked, and it never decides wrongly: what it holds back would have been refused,
\* so that each step executes the next transaction of the chain on the database, or
\* changes neither (table_sync.py:117-128, 219, 236-238, 299-302).
ImplementsSerialReplay == Promise!Spec
=============================================================================
