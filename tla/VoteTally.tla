----------------------------- MODULE VoteTally -----------------------------
(***************************************************************************)
(* One collector receiving any votes in any order: first votes, changed    *)
(* votes, repeated votes, votes that name another proposal, and resets.    *)
(***************************************************************************)
EXTENDS VoteCollector

VARIABLE tally

Init == \E id \in ProposalIds : tally = Reset(id)

ResetFor(id) == tally' = Reset(id)

Receive(voter, vote) == tally' = AddVote(tally, voter, vote)

Next ==
  \/ \E id \in ProposalIds : ResetFor(id)
  \/ \E voter \in Voters, vote \in Vote : Receive(voter, vote)

Spec == Init /\ [][Next]_tally

-----------------------------------------------------------------------------
TypeOK == tally \in Collector

\* The O(1) counters always equal what iterating over the dict would count:
\* a voter that changes its mind is moved, never counted twice (vote.py:82-95).
TallyExact ==
  /\ tally.approve_count = Cardinality(Supporters(tally, TRUE))
  /\ tally.reject_count  = Cardinality(Supporters(tally, FALSE))

\* The two verdicts exclude each other: no set of votes of at most N nodes makes
\* has_consensus and is_rejected both true, whatever N modulo 3 is (vote.py:120-140).
OneVerdict ==
  Cardinality(Voters) <= TotalNodes => ~(HasConsensus(tally) /\ IsRejected(tally))

\* A quorum is lost only when an approving voter changes its vote or the
\* collector is reset: no vote of somebody else, late or repeated, takes away an
\* agreement on which an asyncio.Event was already set (pop.py:408-410).
QuorumIsStable ==
  [][ HasConsensus(tally) /\ ~HasConsensus(tally')
      => \/ tally'.votes = [v \in Voters |-> NoVote]
         \/ \E v \in Supporters(tally, TRUE) : v \in Supporters(tally', FALSE) ]_tally

\* What the docstring of has_consensus, the class comment of POPConsensus and the
\* design document say: floor(2N/3) + 1 approvals.  The code asks for ceil(2N/3).
TwoThirdsPlusOne ==
  HasConsensus(tally) => tally.approve_count >= (2 * TotalNodes) \div 3 + 1
=============================================================================
