---------------------------- MODULE MCViewedChain ----------------------------
(***************************************************************************)
(* Transactions on two tables for the readers of a chain: a CREATE by a    *)
(* named account, INSERTs without one, a batch that names no table.        *)
(***************************************************************************)
EXTENDS ViewedChain

CONSTANTS t, u, alice

CreateT == [account |-> alice, creates |-> TRUE, table |-> t, changes |-> {t}]
InsertT == [account |-> NoAccount, creates |-> FALSE, table |-> t, changes |-> {t}]
InsertU == [account |-> NoAccount, creates |-> FALSE, table |-> u, changes |-> {u}]
CreateU == [account |-> NoAccount, creates |-> TRUE, table |-> u, changes |-> {u}]
BatchTU == [account |-> alice, creates |-> FALSE, table |-> NoTable, changes |-> {t, u}]

WithBatch == {CreateT, InsertU, BatchTU}
Statements == {CreateT, InsertT, CreateU, BatchTU}
=============================================================================
