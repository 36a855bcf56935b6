--------------------------- MODULE VoteCollector ---------------------------
(***************************************************************************)
(* The vote collector of consensus/vote.py as operators on a record: the   *)
(* dict voter -> Vote and the two incremental counters that replaced       *)
(* iterating over it.  A node owns two collectors, one per voting phase.   *)
(*                                                                         *)
(* Nothing in add_vote looks at the proposal a vote names: the collector   *)
(* keeps the identifier it was reset with and counts whatever it is given. *)
(***************************************************************************)
EXTENDS Integers, FiniteSets

CONSTANTS
  Voters,       \* node identifiers a vote can carry
  ProposalIds,  \* identifiers of proposals, the empty one of __init__ included
  NoVote,       \* the answer of dict.get for a voter that has not voted
  TotalNodes    \* total_nodes, the N of the threshold

Vote == [proposal_id : ProposalIds, approve : BOOLEAN]

ASSUME CollectorAssumption ==
  /\ IsFiniteSet(Voters)
  /\ TotalNodes \in Nat
  /\ NoVote \notin Vote

Collector == [proposal_id   : ProposalIds,
              votes         : [Voters -> Vote \cup {NoVote}],
              approve_count : Int,
              reject_count  : Int]

\* Mutant of Reset: the identifier is lost.
ResetForgetsId(id) == [proposal_id   |-> NoVote,
                       votes         |-> [v \in Voters |-> NoVote],
                       approve_count |-> 0,
                       reject_count  |-> 0]

\* reset (and __init__, with the empty identifier).
Reset(id) == [proposal_id   |-> id,
              votes         |-> [v \in Voters |-> NoVote],
              approve_count |-> 0,
              reject_count  |-> 0]

\* 1 when a recorded or new entry is a vote of the given kind, else 0.
Weight(entry, kind) == IF entry # NoVote /\ entry.approve = kind THEN 1 ELSE 0

\* Mutant of AddVote: the previous vote of the voter stays counted.
AddVoteCountsTwice(c, voter, vote) ==
  [c EXCEPT !.votes[voter] = vote,
            !.approve_count = @ + Weight(vote, TRUE),
            !.reject_count  = @ + Weight(vote, FALSE)]

\* Mutant of AddVote: any previous vote is undone as if it had been an approval.
AddVoteUndoesApproval(c, voter, vote) ==
  [c EXCEPT !.votes[voter] = vote,
            !.approve_count = @ - (IF c.votes[voter] # NoVote THEN 1 ELSE 0) + Weight(vote, TRUE),
            !.reject_count  = @ + Weight(vote, FALSE)]

\* add_vote: undo the voter's previous vote in the counters, then count this one.
AddVote(c, voter, vote) ==
  [proposal_id   |-> c.proposal_id,
   votes         |-> [c.votes EXCEPT ![voter] = vote],
   approve_count |-> c.approve_count - Weight(c.votes[voter], TRUE)  + Weight(vote, TRUE),
   reject_count  |-> c.reject_count  - Weight(c.votes[voter], FALSE) + Weight(vote, FALSE)]

\* check_consensus of the native bridge: ceil(2N/3) approvals, never for N = 0.
Threshold == (2 * TotalNodes + 2) \div 3

HasConsensus(c) == TotalNodes # 0 /\ c.approve_count >= Threshold

\* Mutant of RejectThreshold: a third of the nodes is enough.
RejectThresholdTooLow == TotalNodes \div 3

RejectThreshold == TotalNodes \div 3 + 1

IsRejected(c) == c.reject_count >= RejectThreshold

\* The voters whose recorded vote is an approval (TRUE) or a rejection (FALSE).
Supporters(c, kind) == {v \in Voters : Weight(c.votes[v], kind) = 1}
=============================================================================
