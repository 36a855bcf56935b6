--------------------------- MODULE MCPOPConsensus ---------------------------
(***************************************************************************)
(* POPConsensus on two and three nodes.  Transactions are interchangeable: *)
(* clients hand over any of them, and no definition compares two.          *)
(***************************************************************************)
EXTENDS POPRefinement, TLC

\* Every node lists every other one among its peers.
Complete == [n \in Nodes |-> Nodes \ {n}]

\* Followers list the leaders only.
Star == [n \in Nodes |-> IF n \in Leaders THEN Nodes \ {n} ELSE Leaders]

TxSymmetry == Permutations(Txs)
=============================================================================
