--------------------------- MODULE VoteTallyProofs ---------------------------
(***************************************************************************)
(* The properties of VoteTally for any voters and any number of nodes.     *)
(***************************************************************************)
EXTENDS VoteTally, FiniteSetTheorems, TLAPS

-----------------------------------------------------------------------------
(* A new collector is empty, and add_vote keeps the shape of a collector.  *)

\* reset yields a collector whose counters agree with its empty dict.
LEMMA ResetIsEmpty ==
  ASSUME NEW id \in ProposalIds, NEW kind \in BOOLEAN
  PROVE  /\ Reset(id) \in Collector
         /\ Supporters(Reset(id), kind) = {}
BY DEF Reset, Collector, Supporters, Weight

\* add_vote returns a collector.
LEMMA AddVoteType ==
  ASSUME NEW c \in Collector, NEW voter \in Voters, NEW vote \in Vote
  PROVE  AddVote(c, voter, vote) \in Collector
<1> DEFINE votes == [c.votes EXCEPT ![voter] = vote]
           a == c.approve_count - Weight(c.votes[voter], TRUE) + Weight(vote, TRUE)
           r == c.reject_count - Weight(c.votes[voter], FALSE) + Weight(vote, FALSE)
<1>1. votes \in [Voters -> Vote \cup {NoVote}] /\ c.proposal_id \in ProposalIds
  BY DEF Collector
<1>2. a \in Int
  BY DEF Collector, Weight
<1>3. r \in Int
  BY DEF Collector, Weight
<1>4. AddVote(c, voter, vote) =
        [proposal_id |-> c.proposal_id, votes |-> votes, approve_count |-> a, reject_count |-> r]
  BY DEF AddVote
<1>. HIDE DEF votes, a, r
<1>. QED
  BY <1>1, <1>2, <1>3, <1>4 DEF Collector

\* The voters on one side are finitely many, at most all voters.
LEMMA SupportersFinite ==
  ASSUME NEW c, NEW kind \in BOOLEAN
  PROVE  /\ IsFiniteSet(Supporters(c, kind))
         /\ Cardinality(Supporters(c, kind)) \in Nat
         /\ Cardinality(Supporters(c, kind)) <= Cardinality(Voters)
<1>1. Supporters(c, kind) \in SUBSET Voters
  BY DEF Supporters
<1>. QED
  BY <1>1, CollectorAssumption, FS_Subset, FS_CardinalityType

\* A vote puts its voter on the side it takes and off the other one.
LEMMA AddVoteSides ==
  ASSUME NEW c \in Collector, NEW voter \in Voters, NEW vote \in Vote, NEW kind \in BOOLEAN
  PROVE  Supporters(AddVote(c, voter, vote), kind) =
           IF vote.approve = kind THEN Supporters(c, kind) \cup {voter}
                                  ELSE Supporters(c, kind) \ {voter}
<1> DEFINE d == AddVote(c, voter, vote)
<1>1. d.votes = [c.votes EXCEPT ![voter] = vote]
  BY DEF AddVote, Collector
<1>2. \A v \in Voters : d.votes[v] = IF v = voter THEN vote ELSE c.votes[v]
  BY <1>1 DEF Collector
<1>3. vote # NoVote
  BY CollectorAssumption
<1>4. \A v \in Voters : (Weight(d.votes[v], kind) = 1) <=>
        IF v = voter THEN vote.approve = kind ELSE Weight(c.votes[v], kind) = 1
  BY <1>2, <1>3 DEF Weight
<1>. QED
  BY <1>4 DEF Supporters

\* The counter of one side moves exactly as the set of its voters does.
LEMMA AddVoteCounts ==
  ASSUME NEW c \in Collector, NEW voter \in Voters, NEW vote \in Vote, NEW kind \in BOOLEAN
  PROVE  Cardinality(Supporters(AddVote(c, voter, vote), kind)) =
           Cardinality(Supporters(c, kind)) - Weight(c.votes[voter], kind) + Weight(vote, kind)
<1> DEFINE S == Supporters(c, kind)
           old == Weight(c.votes[voter], kind)
           new == Weight(vote, kind)
           T == Supporters(AddVote(c, voter, vote), kind)
<1>1. /\ IsFiniteSet(S)
      /\ Cardinality(S) \in Nat
  BY SupportersFinite
<1>2. Cardinality(S \cup {voter}) = IF voter \in S THEN Cardinality(S) ELSE Cardinality(S) + 1
  BY <1>1, FS_AddElement
<1>3. Cardinality(S \ {voter}) = IF voter \in S THEN Cardinality(S) - 1 ELSE Cardinality(S)
  BY <1>1, FS_RemoveElement
<1>4. old = IF voter \in S THEN 1 ELSE 0
  BY DEF Supporters, Weight
<1>5. CASE vote.approve = kind
  <2>1. new = 1
    BY <1>5, CollectorAssumption DEF Weight
  <2>2. T = S \cup {voter}
    BY <1>5, AddVoteSides
  <2>3. Cardinality(T) = IF voter \in S THEN Cardinality(S) ELSE Cardinality(S) + 1
    BY <1>2, <2>2
  <2>. HIDE DEF S, T, old, new
  <2>4. Cardinality(T) = Cardinality(S) - old + new
    BY <1>1, <1>4, <2>1, <2>3
  <2>. QED
    BY <2>4 DEF S, T, old, new
<1>6. CASE vote.approve # kind
  <2>1. new = 0
    BY <1>6 DEF Weight
  <2>2. T = S \ {voter}
    BY <1>6, AddVoteSides
  <2>3. Cardinality(T) = IF voter \in S THEN Cardinality(S) - 1 ELSE Cardinality(S)
    BY <1>3, <2>2
  <2>. HIDE DEF S, T, old, new
  <2>4. Cardinality(T) = Cardinality(S) - old + new
    BY <1>1, <1>4, <2>1, <2>3
  <2>. QED
    BY <2>4 DEF S, T, old, new
<1>. QED
  BY <1>5, <1>6

-----------------------------------------------------------------------------
\* The inductive invariant: the shape of the collector and its exact counters.
TallyInv == TypeOK /\ TallyExact

LEMMA TallyInit == Init => TallyInv
<1> SUFFICES ASSUME NEW id \in ProposalIds, tally = Reset(id)
             PROVE  TallyInv
  BY DEF Init
<1>1. Cardinality({}) = 0
  BY FS_EmptySet
<1>. QED
  BY <1>1, ResetIsEmpty DEF TallyInv, TypeOK, TallyExact, Reset

LEMMA TallyStep == TallyInv /\ [Next]_tally => TallyInv'
<1> SUFFICES ASSUME TallyInv, [Next]_tally
             PROVE  TallyInv'
  OBVIOUS
<1>1. ASSUME NEW id \in ProposalIds, ResetFor(id)
      PROVE  TallyInv'
  <2>1. Cardinality({}) = 0
    BY FS_EmptySet
  <2>2. tally' = Reset(id)
    BY <1>1 DEF ResetFor
  <2>. QED
    BY <2>1, <2>2, ResetIsEmpty DEF TallyInv, TypeOK, TallyExact, Reset
<1>2. ASSUME NEW voter \in Voters, NEW vote \in Vote, Receive(voter, vote)
      PROVE  TallyInv'
  <2>1. tally \in Collector /\ tally' = AddVote(tally, voter, vote)
    BY <1>2 DEF TallyInv, TypeOK, Receive
  <2>2. tally' \in Collector
    BY <2>1, AddVoteType
  <2>3. /\ tally'.approve_count = tally.approve_count
             - Weight(tally.votes[voter], TRUE) + Weight(vote, TRUE)
        /\ tally'.reject_count = tally.reject_count
             - Weight(tally.votes[voter], FALSE) + Weight(vote, FALSE)
    BY <2>1 DEF AddVote, Collector
  <2>4. TallyExact'
    BY <2>1, <2>3, AddVoteCounts DEF TallyInv, TallyExact
  <2>. QED
    BY <2>2, <2>4 DEF TallyInv, TypeOK
<1>3. CASE UNCHANGED tally
  BY <1>3 DEF TallyInv, TypeOK, TallyExact
<1>. QED
  BY <1>1, <1>2, <1>3 DEF Next

\* For any voters and any N: the counters of a collector are exact (vote.py:82-95).
THEOREM TallyCorrect == Spec => [](TypeOK /\ TallyExact)
BY TallyInit, TallyStep, PTL DEF Spec, TallyInv

-----------------------------------------------------------------------------
\* Nobody is on both sides.
LEMMA SidesAreDisjoint ==
  ASSUME NEW c
  PROVE  Supporters(c, TRUE) \cap Supporters(c, FALSE) = {}
BY DEF Supporters, Weight

\* ceil(2N/3) approvals and floor(N/3) + 1 rejections together exceed N.
LEMMA VerdictsNeedTooMany ==
  ASSUME NEW a \in Nat, NEW r \in Nat, a + r <= TotalNodes,
         a >= Threshold, r >= RejectThreshold
  PROVE  FALSE
<1>1. TotalNodes \in Nat
  BY CollectorAssumption
<1>. QED
  BY <1>1 DEF Threshold, RejectThreshold

LEMMA ExactTallyHasOneVerdict == TallyInv => OneVerdict
<1> SUFFICES ASSUME TallyInv, Cardinality(Voters) <= TotalNodes,
                    HasConsensus(tally), IsRejected(tally)
             PROVE  FALSE
  BY DEF OneVerdict
<1> DEFINE A == Supporters(tally, TRUE)
           R == Supporters(tally, FALSE)
<1>1. /\ IsFiniteSet(A) /\ Cardinality(A) \in Nat
      /\ IsFiniteSet(R) /\ Cardinality(R) \in Nat
  BY SupportersFinite
<1>2. A \cap R = {}
  BY SidesAreDisjoint
<1>3. Cardinality(A \cup R) = Cardinality(A) + Cardinality(R)
  <2>1. Cardinality(A \cup R) = Cardinality(A) + Cardinality(R) - Cardinality(A \cap R)
    BY <1>1, FS_Union
  <2>2. Cardinality(A \cap R) = 0
    BY <1>2, FS_EmptySet
  <2>. HIDE DEF A, R
  <2>. QED  BY <1>1, <2>1, <2>2
<1>4. Cardinality(A \cup R) <= Cardinality(Voters) /\ Cardinality(Voters) \in Nat
  <2>1. A \cup R \in SUBSET Voters
    BY DEF Supporters
  <2>. QED  BY <2>1, CollectorAssumption, FS_Subset, FS_CardinalityType
<1>. HIDE DEF A, R
<1>5. Cardinality(A) + Cardinality(R) <= TotalNodes
  BY <1>1, <1>3, <1>4, CollectorAssumption
<1>6. Cardinality(A) >= Threshold /\ Cardinality(R) >= RejectThreshold
  BY DEF A, R, TallyInv, TallyExact, HasConsensus, IsRejected
<1>. QED
  BY <1>1, <1>5, <1>6, VerdictsNeedTooMany

\* For any N and at most N voters: approved and rejected exclude each other.
THEOREM VerdictIsUnique == Spec => []OneVerdict
BY TallyInit, TallyStep, ExactTallyHasOneVerdict, PTL DEF Spec

-----------------------------------------------------------------------------
\* For any voters and any N: a collector stays a collector (vote.py:32-100).
THEOREM TallyTyped == Spec => []TypeOK
BY TallyCorrect, PTL

\* A vote that takes the quorum away is the change of mind of one who had approved.
LEMMA LostQuorumIsChangedVote ==
  ASSUME TallyInv, NEW voter \in Voters, NEW vote \in Vote, Receive(voter, vote),
         HasConsensus(tally), ~HasConsensus(tally')
  PROVE  voter \in Supporters(tally, TRUE) /\ voter \in Supporters(tally', FALSE)
<1> DEFINE old == Weight(tally.votes[voter], TRUE)
           new == Weight(vote, TRUE)
<1>1. tally \in Collector /\ tally' = AddVote(tally, voter, vote)
  BY DEF TallyInv, TypeOK, Receive
<1>2. tally'.approve_count = tally.approve_count - old + new /\ tally.approve_count \in Int
  BY <1>1 DEF AddVote, Collector
<1>3. old \in {0, 1} /\ new \in {0, 1} /\ Threshold \in Int
  BY CollectorAssumption DEF Weight, Threshold
<1>4. tally'.approve_count < tally.approve_count
  <2>. HIDE DEF old, new
  <2>1. tally.approve_count >= Threshold /\ ~(tally'.approve_count >= Threshold)
    BY DEF HasConsensus
  <2>. QED
    BY <1>2, <1>3, <2>1
<1>5. old = 1 /\ new = 0
  <2>. HIDE DEF old, new
  <2>. QED
    BY <1>2, <1>3, <1>4
<1>6. vote # NoVote /\ vote.approve \in BOOLEAN
  BY CollectorAssumption DEF Vote
<1>7. vote.approve = FALSE
  BY <1>5, <1>6 DEF Weight
<1>8. voter \in Supporters(tally, TRUE)
  BY <1>5 DEF Supporters
<1>9. voter \in Supporters(tally', FALSE)
  <2>1. tally'.votes[voter] = vote
    BY <1>1 DEF AddVote, Collector
  <2>. QED
    BY <1>6, <1>7, <2>1 DEF Supporters, Weight
<1>. QED
  BY <1>8, <1>9

\* For any voters and any N: a quorum is lost by a reset or by a changed vote, never by a
\* vote of somebody else (pop.py:408-410).
THEOREM QuorumStays == Spec => QuorumIsStable
<1>1. ASSUME TallyInv, [Next]_tally
      PROVE  [ HasConsensus(tally) /\ ~HasConsensus(tally')
               => \/ tally'.votes = [v \in Voters |-> NoVote]
                  \/ \E v \in Supporters(tally, TRUE) : v \in Supporters(tally', FALSE) ]_tally
  <2>1. ASSUME NEW id \in ProposalIds, ResetFor(id)
        PROVE  tally'.votes = [v \in Voters |-> NoVote]
    BY <2>1 DEF ResetFor, Reset
  <2>2. ASSUME NEW voter \in Voters, NEW vote \in Vote, Receive(voter, vote),
               HasConsensus(tally), ~HasConsensus(tally')
        PROVE  \E v \in Supporters(tally, TRUE) : v \in Supporters(tally', FALSE)
    BY <1>1, <2>2, LostQuorumIsChangedVote
  <2>. QED
    BY <1>1, <2>1, <2>2 DEF Next
<1>. QED
  BY <1>1, TallyInit, TallyStep, PTL DEF Spec, QuorumIsStable
=============================================================================
