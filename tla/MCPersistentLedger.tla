-------------------------- MODULE MCPersistentLedger --------------------------
(***************************************************************************)
(* PersistentLedger with the proposal identifiers node_8 ... node_11: as   *)
(* strings they sort 10, 11, 8, 9.                                         *)
(***************************************************************************)
EXTENDS PersistentLedger

AsStrings == [p \in ProposalIds |-> CASE p = 10 -> 1 [] p = 11 -> 2 [] p = 8 -> 3 [] p = 9 -> 4]
=============================================================================
