---------------------------- MODULE POPRefinement ----------------------------
(***************************************************************************)
(* POPConsensus with one leader implements ReplicatedChain: the leader's   *)
(* ledger is the log, the ledger of every other node a copy of it.         *)
(***************************************************************************)
EXTENDS POPConsensus

TheLeader == CHOOSE l \in Leaders : TRUE

\* The batches a ledger records after its genesis block.
Batches(ledger) == [i \in 1..Len(ledger) - 1 |-> ledger[i + 1].transactions]

Promise == INSTANCE ReplicatedChain WITH
             Copies <- Nodes \ Leaders,
             log    <- Batches(chain[TheLeader]),
             copy   <- [n \in Nodes \ Leaders |-> Batches(chain[n])]

\* Every step of the two-phase protocol, with its lost, late and reordered messages,
\* its timeouts and its retries, extends the log by new transactions, copies its
\* next batch, or changes neither (pop.py:322-365, 416-445).
ImplementsReplicatedChain == Promise!Spec
=============================================================================
