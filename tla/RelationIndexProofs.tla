------------------------- MODULE RelationIndexProofs -------------------------
(***************************************************************************)
(* The relation index, for any chain and any calls of process_block: the   *)
(* order of the calls and how often a block comes do not matter.           *)
(*                                                                         *)
(* The relations and the profiles alone do not say where a weight or a     *)
(* block number comes from, so the invariant relates the index to the      *)
(* occurrences, that is which transaction of which call said what.  It has *)
(* two parts: the index is a graph (profiles and reverse index are those   *)
(* of the relations), and it records the occurrences.  One relation more   *)
(* keeps both (AddOld, AddNew, RecordOld, RecordNew), hence the five of a  *)
(* transaction (TxKeeps), hence those of a block (BlockKeeps).             *)
(***************************************************************************)
EXTENDS RelationIndex, FiniteSetTheorems, TLAPS

-----------------------------------------------------------------------------
(* The graph and the profiles.                                             *)

\* What an entity starts with.
Kinds == {"table", "block", "tx", "account"}

Profile == [relation_count : Nat, incoming_count : Nat, first_seen : Nat, last_seen : Nat,
            touched : SUBSET Kinds]

From(R, e) == {r \in R : r.source = e}

To(R, e) == {r \in R : r.target = e}

EntitiesOf(R) == UNION {{r.source, r.target} : r \in R}

\* The profile of an entity counts the relations of a set.
Counts(p, R, e) ==
  /\ p.relation_count = Cardinality(From(R, e))
  /\ p.incoming_count = Cardinality(To(R, e))
  /\ p.touched = {r.target[1] : r \in From(R, e)} \cup {r.source[1] : r \in To(R, e)}

\* A relation connects entities of two kinds.
Kinded(r) ==
  /\ r = Relation(r.source, r.target, r.type)
  /\ r.source[1] \in Kinds /\ r.target[1] \in Kinds /\ r.source[1] # r.target[1]

\* An index whose profiles and reverse index are those of its relations.
Graph(idx) ==
  /\ IsFiniteSet(DOMAIN idx.relations) /\ \A r \in DOMAIN idx.relations : Kinded(r)
  /\ idx.relations \in [DOMAIN idx.relations -> [weight : Nat, block : Nat]]
  /\ idx.profiles \in [EntitiesOf(DOMAIN idx.relations) -> Profile]
  /\ \A e \in EntitiesOf(DOMAIN idx.relations) : Counts(idx.profiles[e], DOMAIN idx.relations, e)
  /\ \A e : Incoming(idx, e) = {r.source : r \in To(DOMAIN idx.relations, e)}

\* What _get_or_create_profile finds or makes.
Old(profiles, e, n) == IF e \in DOMAIN profiles THEN profiles[e] ELSE NewProfile(n)

\* One more relation of an entity, with an entity of some kind.
Extended(new, old, out, in, kind, n) ==
  /\ new.relation_count = old.relation_count + out
  /\ new.incoming_count = old.incoming_count + in
  /\ new.touched = old.touched \cup {kind}
  /\ new.first_seen = old.first_seen
  /\ new.last_seen = Larger(old.last_seen, n)

LEMMA OldType ==
  ASSUME NEW D, NEW P \in [D -> Profile], NEW e, NEW n \in Nat
  PROVE  Old(P, e, n) \in Profile
BY DEF Old, Profile, NewProfile

LEMMA SeenIs ==
  ASSUME NEW D, NEW P \in [D -> Profile], NEW e, NEW n \in Nat, NEW kind \in Kinds
  PROVE  /\ Seen(P, e, n, kind) \in Profile
         /\ Extended(Seen(P, e, n, kind), Old(P, e, n), 0, 0, kind, n)
<1>1. PICK old \in Profile : old = Old(P, e, n)
  BY OldType
<1>2. Seen(P, e, n, kind) = [old EXCEPT !.last_seen = Larger(@, n), !.touched = @ \cup {kind}]
  BY <1>1 DEF Seen, Old
<1>3. PICK new : new = Seen(P, e, n, kind)
  OBVIOUS
<1>4. PICK last \in Nat : last = Larger(old.last_seen, n)
  BY <1>1 DEF Larger, Profile
<1>5. new = [old EXCEPT !.last_seen = last, !.touched = old.touched \cup {kind}]
  BY <1>1, <1>2, <1>3, <1>4
<1>6. /\ new \in Profile /\ new.relation_count = old.relation_count
      /\ new.incoming_count = old.incoming_count /\ new.touched = old.touched \cup {kind}
      /\ new.first_seen = old.first_seen /\ new.last_seen = last
  BY <1>1, <1>5 DEF Profile
<1>7. old.relation_count + 0 = old.relation_count /\ old.incoming_count + 0 = old.incoming_count
  BY <1>1 DEF Profile
<1>. QED
  BY <1>1, <1>3, <1>4, <1>6, <1>7 DEF Extended

\* What a new relation makes of the profiles.
LEMMA ProfiledBothIs ==
  ASSUME NEW D, NEW P \in [D -> Profile], NEW r, Kinded(r), NEW n \in Nat,
         NEW E, E = D \cup {r.source, r.target}
  PROVE  /\ ProfiledBoth(P, r, n) \in [E -> Profile]
         /\ Extended(ProfiledBoth(P, r, n)[r.source], Old(P, r.source, n), 1, 0, r.target[1], n)
         /\ Extended(ProfiledBoth(P, r, n)[r.target], Old(P, r.target, n), 0, 1, r.source[1], n)
         /\ \A e \in D : e \notin {r.source, r.target} => ProfiledBoth(P, r, n)[e] = P[e]
<1>1. r.source # r.target /\ r.source[1] \in Kinds /\ r.target[1] \in Kinds
  BY DEF Kinded
<1>2. PICK source : source = Seen(P, r.source, n, r.target[1])
  OBVIOUS
<1>3. source \in Profile /\ Extended(source, Old(P, r.source, n), 0, 0, r.target[1], n)
  BY <1>1, <1>2, SeenIs
<1>4. PICK first : first = [source EXCEPT !.relation_count = @ + 1]
  OBVIOUS
<1>5. /\ first \in Profile /\ first.relation_count = source.relation_count + 1
      /\ first.incoming_count = source.incoming_count /\ first.touched = source.touched
      /\ first.first_seen = source.first_seen /\ first.last_seen = source.last_seen
  BY <1>3, <1>4 DEF Profile
<1>6. PICK half : half = With(P, r.source, first)
  OBVIOUS
<1>7. /\ half \in [D \cup {r.source} -> Profile] /\ half[r.source] = first
      /\ \A e \in D : e # r.source => half[e] = P[e]
  BY <1>5, <1>6 DEF With
<1>8. Old(half, r.target, n) = Old(P, r.target, n)
  BY <1>1, <1>7 DEF Old
<1>9. PICK target : target = Seen(half, r.target, n, r.source[1])
  OBVIOUS
<1>10. target \in Profile
  BY <1>1, <1>7, <1>9, SeenIs
<1>11. Extended(target, Old(P, r.target, n), 0, 0, r.source[1], n)
  BY <1>1, <1>7, <1>8, <1>9, SeenIs
<1>12. PICK second : second = [target EXCEPT !.incoming_count = @ + 1]
  OBVIOUS
<1>13. /\ second \in Profile /\ second.relation_count = target.relation_count
       /\ second.incoming_count = target.incoming_count + 1 /\ second.touched = target.touched
       /\ second.first_seen = target.first_seen /\ second.last_seen = target.last_seen
  BY <1>10, <1>12 DEF Profile
<1>14. PICK new : new = With(half, r.target, second)
  OBVIOUS
<1>15. ProfiledBoth(P, r, n) = new
  BY <1>2, <1>4, <1>6, <1>9, <1>12, <1>14 DEF ProfiledBoth
<1>16. /\ new \in [D \cup {r.source} \cup {r.target} -> Profile]
       /\ new[r.target] = second /\ new[r.source] = first
       /\ \A e \in D : e \notin {r.source, r.target} => new[e] = P[e]
  BY <1>1, <1>7, <1>13, <1>14 DEF With
<1>17. D \cup {r.source} \cup {r.target} = E
  OBVIOUS
<1>18. Old(P, r.source, n) \in Profile /\ Old(P, r.target, n) \in Profile
  BY OldType
<1>19. Extended(first, Old(P, r.source, n), 1, 0, r.target[1], n)
  BY <1>3, <1>5, <1>18 DEF Extended, Profile
<1>20. Extended(second, Old(P, r.target, n), 0, 1, r.source[1], n)
  BY <1>11, <1>13, <1>18 DEF Extended, Profile
<1>. QED
  BY <1>15, <1>16, <1>17, <1>19, <1>20

-----------------------------------------------------------------------------
(* _add_relation keeps the degrees and the reverse index.                  *)

\* An entity without a profile has no relations.
LEMMA FromNone ==
  ASSUME NEW R, NEW e, e \notin EntitiesOf(R)
  PROVE  From(R, e) = {} /\ To(R, e) = {}
BY DEF From, To, EntitiesOf

LEMMA FromFinite ==
  ASSUME NEW R, IsFiniteSet(R), NEW e
  PROVE  IsFiniteSet(From(R, e)) /\ IsFiniteSet(To(R, e))
<1>1. From(R, e) \in SUBSET R /\ To(R, e) \in SUBSET R
  BY DEF From, To
<1>. QED
  BY <1>1, FS_Subset

LEMMA OldCounts ==
  ASSUME NEW R, NEW P \in [EntitiesOf(R) -> Profile], NEW n \in Nat,
         \A e \in EntitiesOf(R) : Counts(P[e], R, e), NEW e
  PROVE  Counts(Old(P, e, n), R, e)
<1>1. CASE e \in EntitiesOf(R)
  BY <1>1 DEF Old
<1>2. CASE e \notin EntitiesOf(R)
  <2>1. From(R, e) = {} /\ To(R, e) = {}
    BY <1>2, FromNone
  <2>2. Old(P, e, n).relation_count = 0 /\ Old(P, e, n).incoming_count = 0 /\ Old(P, e, n).touched = {}
    BY <1>2 DEF Old, NewProfile
  <2>. QED
    BY <2>1, <2>2, FS_EmptySet DEF Counts
<1>. QED
  BY <1>1, <1>2

LEMMA CountsMore ==
  ASSUME NEW R, IsFiniteSet(R), NEW r, r \notin R, Kinded(r), NEW Q, Q = R \cup {r},
         NEW p, NEW q, NEW n
  PROVE  /\ Counts(p, R, r.source) /\ Extended(q, p, 1, 0, r.target[1], n) => Counts(q, Q, r.source)
         /\ Counts(p, R, r.target) /\ Extended(q, p, 0, 1, r.source[1], n) => Counts(q, Q, r.target)
<1>1. r.source # r.target
  BY DEF Kinded
<1>2. /\ From(Q, r.source) = From(R, r.source) \cup {r} /\ To(Q, r.source) = To(R, r.source)
      /\ From(Q, r.target) = From(R, r.target) /\ To(Q, r.target) = To(R, r.target) \cup {r}
  BY <1>1 DEF From, To
<1>3. /\ Cardinality(From(Q, r.source)) = Cardinality(From(R, r.source)) + 1
      /\ Cardinality(To(Q, r.target)) = Cardinality(To(R, r.target)) + 1
  <2>1. r \notin From(R, r.source) /\ r \notin To(R, r.target)
    BY DEF From, To
  <2>. QED
    BY <1>2, <2>1, FromFinite, FS_AddElement
<1>4. /\ Cardinality(From(R, r.target)) \in Nat /\ Cardinality(To(R, r.source)) \in Nat
  BY FromFinite, FS_CardinalityType
<1>5. {x.target[1] : x \in From(Q, r.source)} = {x.target[1] : x \in From(R, r.source)} \cup {r.target[1]}
  BY <1>2
<1>6. {x.source[1] : x \in To(Q, r.target)} = {x.source[1] : x \in To(R, r.target)} \cup {r.source[1]}
  BY <1>2
<1>7. ASSUME Counts(p, R, r.source), Extended(q, p, 1, 0, r.target[1], n) PROVE Counts(q, Q, r.source)
  <2>1. q.relation_count = Cardinality(From(Q, r.source)) /\ q.incoming_count = Cardinality(To(Q, r.source))
    BY <1>2, <1>3, <1>4, <1>7 DEF Counts, Extended
  <2>2. q.touched = {x.target[1] : x \in From(R, r.source)} \cup {x.source[1] : x \in To(R, r.source)}
                      \cup {r.target[1]}
    BY <1>7 DEF Counts, Extended
  <2>3. q.touched = {x.target[1] : x \in From(Q, r.source)} \cup {x.source[1] : x \in To(Q, r.source)}
    BY <1>2, <1>5, <2>2
  <2>. QED
    BY <2>1, <2>3 DEF Counts
<1>8. ASSUME Counts(p, R, r.target), Extended(q, p, 0, 1, r.source[1], n) PROVE Counts(q, Q, r.target)
  <2>1. q.relation_count = Cardinality(From(Q, r.target)) /\ q.incoming_count = Cardinality(To(Q, r.target))
    BY <1>2, <1>3, <1>4, <1>8 DEF Counts, Extended
  <2>2. q.touched = {x.target[1] : x \in From(R, r.target)} \cup {x.source[1] : x \in To(R, r.target)}
                      \cup {r.source[1]}
    BY <1>8 DEF Counts, Extended
  <2>3. q.touched = {x.target[1] : x \in From(Q, r.target)} \cup {x.source[1] : x \in To(Q, r.target)}
    BY <1>2, <1>6, <2>2
  <2>. QED
    BY <2>1, <2>3 DEF Counts
<1>. QED
  BY <1>7, <1>8

LEMMA ReinforcedIs ==
  ASSUME NEW idx, NEW r \in DOMAIN idx.relations, NEW n \in Nat,
         idx.relations \in [DOMAIN idx.relations -> [weight : Nat, block : Nat]]
  PROVE  LET new == Reinforced(idx, r, n)
         IN  /\ new.relations \in [DOMAIN idx.relations -> [weight : Nat, block : Nat]]
             /\ new.relations[r].weight = idx.relations[r].weight + 1
             /\ new.relations[r].block = Larger(idx.relations[r].block, n)
             /\ \A q \in DOMAIN idx.relations : q # r => new.relations[q] = idx.relations[q]
             /\ new.incoming = idx.incoming /\ new.profiles = idx.profiles
BY DEF Reinforced, Larger

LEMMA EstablishedIs ==
  ASSUME NEW idx, NEW r, NEW R, r \notin R, NEW n \in Nat, NEW Q, Q = R \cup {r},
         idx.relations \in [R -> [weight : Nat, block : Nat]]
  PROVE  /\ Established(idx, r, n).relations \in [Q -> [weight : Nat, block : Nat]]
         /\ Established(idx, r, n).relations[r] = [weight |-> 1, block |-> n]
         /\ \A q \in R : Established(idx, r, n).relations[q] = idx.relations[q]
<1>1. [weight |-> 1, block |-> n] \in [weight : Nat, block : Nat]
  OBVIOUS
<1>2. Established(idx, r, n).relations = With(idx.relations, r, [weight |-> 1, block |-> n])
  BY DEF Established
<1>. QED
  BY <1>1, <1>2 DEF With

LEMMA EstablishedIncoming ==
  ASSUME NEW idx, NEW r, NEW n, NEW e
  PROVE  Incoming(Established(idx, r, n), e) =
           IF e = r.target THEN Incoming(idx, e) \cup {r.source} ELSE Incoming(idx, e)
<1>1. Established(idx, r, n).incoming = With(idx.incoming, r.target, Incoming(idx, r.target) \cup {r.source})
  BY DEF Established
<1>. QED
  BY <1>1 DEF Incoming, With

\* What _add_relation does to the graph and to the profiles of the two ends.
LEMMA AddOld ==
  ASSUME NEW idx, Graph(idx), NEW r \in DOMAIN idx.relations, NEW n \in Nat
  PROVE  /\ Graph(AddRelation(idx, r, n))
         /\ DOMAIN AddRelation(idx, r, n).relations = DOMAIN idx.relations
         /\ AddRelation(idx, r, n).relations[r].weight = idx.relations[r].weight + 1
         /\ AddRelation(idx, r, n).relations[r].block = Larger(idx.relations[r].block, n)
         /\ \A q \in DOMAIN idx.relations : q # r =>
              AddRelation(idx, r, n).relations[q] = idx.relations[q]
         /\ AddRelation(idx, r, n).profiles = idx.profiles
<1>1. PICK new : new = AddRelation(idx, r, n)
  OBVIOUS
<1>2. new = Reinforced(idx, r, n)
  BY <1>1 DEF AddRelation
<1>3. idx.relations \in [DOMAIN idx.relations -> [weight : Nat, block : Nat]]
  BY DEF Graph
<1>4. /\ new.relations \in [DOMAIN idx.relations -> [weight : Nat, block : Nat]]
      /\ new.relations[r].weight = idx.relations[r].weight + 1
      /\ new.relations[r].block = Larger(idx.relations[r].block, n)
      /\ \A q \in DOMAIN idx.relations : q # r => new.relations[q] = idx.relations[q]
      /\ new.incoming = idx.incoming /\ new.profiles = idx.profiles
  BY <1>2, <1>3, ReinforcedIs
<1>5. \A e : Incoming(new, e) = Incoming(idx, e)
  BY <1>4 DEF Incoming
<1>6. DOMAIN new.relations = DOMAIN idx.relations
  BY <1>4
<1>7. Graph(new)
  BY <1>4, <1>5, <1>6 DEF Graph
<1>. QED
  BY <1>1, <1>4, <1>6, <1>7

LEMMA AddNew ==
  ASSUME NEW idx, Graph(idx), NEW r, Kinded(r), r \notin DOMAIN idx.relations, NEW n \in Nat
  PROVE  /\ Graph(AddRelation(idx, r, n))
         /\ DOMAIN AddRelation(idx, r, n).relations = DOMAIN idx.relations \cup {r}
         /\ AddRelation(idx, r, n).relations[r] = [weight |-> 1, block |-> n]
         /\ Extended(AddRelation(idx, r, n).profiles[r.source], Old(idx.profiles, r.source, n),
                     1, 0, r.target[1], n)
         /\ Extended(AddRelation(idx, r, n).profiles[r.target], Old(idx.profiles, r.target, n),
                     0, 1, r.source[1], n)
<1>1. PICK new : new = AddRelation(idx, r, n)
  OBVIOUS
<1>2. PICK R : R = DOMAIN idx.relations
  OBVIOUS
<1>3. PICK Q : Q = R \cup {r}
  OBVIOUS
<1>4. PICK P : P = idx.profiles
  OBVIOUS
<1>5. IsFiniteSet(R) /\ (\A q \in R : Kinded(q)) /\ r \notin R
  BY <1>2 DEF Graph
<1>6. idx.relations \in [R -> [weight : Nat, block : Nat]]
  BY <1>2 DEF Graph
<1>7. /\ P \in [EntitiesOf(R) -> Profile]
      /\ \A e \in EntitiesOf(R) : Counts(P[e], R, e)
  BY <1>2, <1>4 DEF Graph
<1>8. \A e : Incoming(idx, e) = {q.source : q \in To(R, e)}
  BY <1>2 DEF Graph
<1>9. new = Established(idx, r, n)
  BY <1>1 DEF AddRelation
<1>10. r \notin R
  BY <1>5
<1>11. new.relations \in [Q -> [weight : Nat, block : Nat]]
  BY <1>3, <1>6, <1>9, <1>10, EstablishedIs
<1>12. new.relations[r] = [weight |-> 1, block |-> n]
  <2>1. new.relations = With(idx.relations, r, [weight |-> 1, block |-> n])
    BY <1>9 DEF Established
  <2>. QED
    BY <1>6, <1>10, <2>1 DEF With
<1>13. PICK both : both = ProfiledBoth(P, r, n)
  OBVIOUS
<1>14. new.profiles = both
  BY <1>4, <1>9, <1>13 DEF Established
<1>15. IsFiniteSet(Q) /\ (\A q \in Q : Kinded(q)) /\ DOMAIN new.relations = Q
  BY <1>3, <1>5, <1>11, FS_AddElement
<1>16. PICK D : D = EntitiesOf(R)
  OBVIOUS
<1>17. PICK E : E = D \cup {r.source, r.target}
  OBVIOUS
<1>18. EntitiesOf(Q) = E
  BY <1>3, <1>16, <1>17 DEF EntitiesOf
<1>19. P \in [D -> Profile]
  BY <1>7, <1>16
<1>20. /\ both \in [E -> Profile]
       /\ Extended(both[r.source], Old(P, r.source, n), 1, 0, r.target[1], n)
       /\ Extended(both[r.target], Old(P, r.target, n), 0, 1, r.source[1], n)
       /\ \A e \in D : e \notin {r.source, r.target} => both[e] = P[e]
  <2>1. both \in [E -> Profile]
    BY <1>13, <1>17, <1>19, ProfiledBothIs
  <2>2. Extended(both[r.source], Old(P, r.source, n), 1, 0, r.target[1], n)
    BY <1>13, <1>17, <1>19, ProfiledBothIs
  <2>3. Extended(both[r.target], Old(P, r.target, n), 0, 1, r.source[1], n)
    BY <1>13, <1>17, <1>19, ProfiledBothIs
  <2>4. ASSUME NEW e \in D, e \notin {r.source, r.target} PROVE both[e] = P[e]
    BY <1>13, <1>17, <1>19, <2>4, ProfiledBothIs
  <2>. QED
    BY <2>1, <2>2, <2>3, <2>4
<1>21. ASSUME NEW e \in E PROVE Counts(both[e], Q, e)
  <2>1. PICK p : p = Old(P, e, n)
    OBVIOUS
  <2>2. Counts(p, R, e)
    BY <1>7, <2>1, OldCounts
  <2>3. IsFiniteSet(R)
    BY <1>5
  <2>4. PICK q : q = both[e]
    OBVIOUS
  <2>5. CASE e = r.source
    <3>1. Extended(q, p, 1, 0, r.target[1], n) /\ Counts(p, R, r.source)
      BY <1>20, <2>1, <2>2, <2>4, <2>5
    <3>2. Counts(q, Q, r.source)
      BY <1>3, <1>10, <2>3, <3>1, CountsMore
    <3>. QED
      BY <2>4, <2>5, <3>2
  <2>6. CASE e = r.target
    <3>1. Extended(q, p, 0, 1, r.source[1], n) /\ Counts(p, R, r.target)
      BY <1>20, <2>1, <2>2, <2>4, <2>6
    <3>2. Counts(q, Q, r.target)
      BY <1>3, <1>10, <2>3, <3>1, CountsMore
    <3>. QED
      BY <2>4, <2>6, <3>2
  <2>7. CASE e \notin {r.source, r.target}
    <3>1. From(Q, e) = From(R, e) /\ To(Q, e) = To(R, e)
      BY <1>3, <2>7 DEF From, To
    <3>2. e \in D /\ both[e] = P[e]
      BY <1>17, <1>20, <2>7
    <3>3. Counts(P[e], R, e)
      BY <1>7, <1>16, <3>2
    <3>. QED
      BY <3>1, <3>2, <3>3 DEF Counts
  <2>. QED
    BY <2>5, <2>6, <2>7
<1>22. ASSUME NEW e PROVE Incoming(new, e) = {q.source : q \in To(Q, e)}
  <2>1. Incoming(new, e) = IF e = r.target THEN Incoming(idx, e) \cup {r.source} ELSE Incoming(idx, e)
    BY <1>9, EstablishedIncoming
  <2>2. To(Q, e) = IF r.target = e THEN To(R, e) \cup {r} ELSE To(R, e)
    BY <1>3 DEF To
  <2>3. Incoming(idx, e) = {q.source : q \in To(R, e)}
    BY <1>8
  <2>. QED
    BY <2>1, <2>2, <2>3
<1>23. Graph(new)
  BY <1>11, <1>14, <1>15, <1>18, <1>20, <1>21, <1>22 DEF Graph
<1>24. DOMAIN P = D
  BY <1>19
<1>. QED
  BY <1>1, <1>2, <1>3, <1>4, <1>12, <1>14, <1>15, <1>20, <1>23, <1>24

-----------------------------------------------------------------------------
(* The history.                                                            *)

\* That a transaction of a call said so.  Such a relation names the block, or a
\* transaction of the block, unless it is about who owns a table.
BlockOf(r) == IF r.type \in {"account_submits_tx", "table_touches_block"} THEN r.target[2] ELSE r.source[2]

Occurrence(o) ==
  /\ o = [call |-> o.call, tx |-> o.tx, rel |-> o.rel, block |-> o.block]
  /\ o.call \in Nat /\ o.tx \in Nat /\ o.block \in Nat /\ Kinded(o.rel)
  /\ o.rel.type # "account_owns_table" => o.block = BlockOf(o.rel)

Of(o, e) == e \in {o.rel.source, o.rel.target}

Sayings(O, r) == {<<o.call, o.tx>> : o \in {q \in O : q.rel = r}}

Latest(b, O, r) ==
  /\ \E o \in O : o.rel = r /\ o.block = b
  /\ \A o \in O : o.rel = r => o.block <= b

FirstOf(b, O, e) ==
  \E o \in O : /\ Of(o, e) /\ o.block = b
               /\ \A q \in O : Of(q, e) => o.call <= q.call

LastOf(b, O, e) ==
  /\ \E o \in O : Of(o, e) /\ o.block = b
  /\ \A o \in O : Of(o, e) /\ o.rel.type # "account_owns_table" => o.block <= b

\* The index holds what the occurrences say.
Recorded(idx, O) ==
  /\ IsFiniteSet(O) /\ (\A o \in O : Occurrence(o))
  /\ DOMAIN idx.relations = {o.rel : o \in O}
  /\ \A r \in DOMAIN idx.relations : idx.relations[r].weight = Cardinality(Sayings(O, r))
  /\ \A r \in DOMAIN idx.relations : Latest(idx.relations[r].block, O, r)
  /\ \A e \in DOMAIN idx.profiles : FirstOf(idx.profiles[e].first_seen, O, e)
  /\ \A e \in DOMAIN idx.profiles : LastOf(idx.profiles[e].last_seen, O, e)

LEMMA SayingsMore ==
  ASSUME NEW O, IsFiniteSet(O), NEW o, NEW N, N = O \cup {o},
         \A q \in O : q.rel = o.rel => <<q.call, q.tx>> # <<o.call, o.tx>>
  PROVE  /\ Cardinality(Sayings(N, o.rel)) = Cardinality(Sayings(O, o.rel)) + 1
         /\ \A r : r # o.rel => Sayings(N, r) = Sayings(O, r)
<1>1. Sayings(N, o.rel) = Sayings(O, o.rel) \cup {<<o.call, o.tx>>}
  BY DEF Sayings
<1>2. <<o.call, o.tx>> \notin Sayings(O, o.rel)
  BY DEF Sayings
<1>3. IsFiniteSet(Sayings(O, o.rel))
  <2>1. IsFiniteSet({q \in O : q.rel = o.rel})
    BY FS_Subset
  <2>. QED
    <3> DEFINE S == {q \in O : q.rel = o.rel}
               f == [q \in S |-> <<q.call, q.tx>>]
    <3>1. f \in Surjection(S, Sayings(O, o.rel))
      BY DEF Surjection, Sayings
    <3>. HIDE DEF S, f
    <3>. QED
      BY <2>1, <3>1, FS_Surjection DEF S
<1>4. \A r : r # o.rel => Sayings(N, r) = Sayings(O, r)
  BY DEF Sayings
<1>. QED
  BY <1>1, <1>2, <1>3, <1>4, FS_AddElement

LEMMA RecordOld ==
  ASSUME NEW idx, Graph(idx), NEW O, Recorded(idx, O), NEW o, Occurrence(o), o.rel \in DOMAIN idx.relations,
         \A q \in O : q.rel = o.rel => <<q.call, q.tx>> # <<o.call, o.tx>>,
         \A q \in O : q.call <= o.call,
         NEW N, N = O \cup {o}
  PROVE  Graph(AddRelation(idx, o.rel, o.block)) /\ Recorded(AddRelation(idx, o.rel, o.block), N)
<1>1. PICK r : r = o.rel
  OBVIOUS
<1>2. PICK n : n = o.block
  OBVIOUS
<1>3. PICK new : new = AddRelation(idx, r, n)
  OBVIOUS
<1>4. n \in Nat /\ r \in DOMAIN idx.relations
  BY <1>1, <1>2 DEF Occurrence
<1>5. /\ Graph(new)
      /\ DOMAIN new.relations = DOMAIN idx.relations
      /\ new.relations[r].weight = idx.relations[r].weight + 1
      /\ new.relations[r].block = Larger(idx.relations[r].block, n)
      /\ \A q \in DOMAIN idx.relations : q # r => new.relations[q] = idx.relations[q]
      /\ new.profiles = idx.profiles
  BY <1>3, <1>4, AddOld
<1>6. IsFiniteSet(O) /\ (\A q \in O : Occurrence(q)) /\ DOMAIN idx.relations = {q.rel : q \in O}
  BY DEF Recorded
<1>7. IsFiniteSet(N) /\ (\A q \in N : Occurrence(q))
  BY <1>6, FS_AddElement
<1>8. DOMAIN new.relations = {q.rel : q \in N}
  BY <1>1, <1>4, <1>5, <1>6
<1>9. ASSUME NEW q \in DOMAIN idx.relations PROVE new.relations[q].weight = Cardinality(Sayings(N, q))
  <2>1. idx.relations[q].weight = Cardinality(Sayings(O, q))
    BY DEF Recorded
  <2>2. CASE q = r
    BY <1>1, <1>5, <1>6, <2>1, <2>2, SayingsMore
  <2>3. CASE q # r
    <3>1. Sayings(N, q) = Sayings(O, q)
      BY <1>1, <2>3 DEF Sayings
    <3>. QED
      BY <1>5, <2>1, <2>3, <3>1
  <2>. QED
    BY <2>2, <2>3
<1>10. ASSUME NEW q \in DOMAIN idx.relations PROVE Latest(new.relations[q].block, N, q)
  <2>1. Latest(idx.relations[q].block, O, q)
    BY DEF Recorded
  <2>2. CASE q = r
    <3>1. PICK b \in Nat : b = idx.relations[r].block
      BY <1>4 DEF Graph
    <3>2. new.relations[q].block = Larger(b, n)
      BY <1>5, <2>2, <3>1
    <3>3. PICK x \in O : x.rel = r /\ x.block = b
      BY <2>1, <2>2, <3>1 DEF Latest
    <3>4. \A y \in O : y.rel = r => y.block <= b /\ y.block \in Nat
      BY <1>6, <2>1, <2>2, <3>1 DEF Latest, Occurrence
    <3>5. \A y \in N : y.rel = r => y.block <= Larger(b, n)
      BY <1>2, <1>4, <3>4 DEF Larger
    <3>6. x \in N /\ o \in N
      OBVIOUS
    <3>7. \E y \in N : y.rel = r /\ y.block = Larger(b, n)
      BY <1>1, <1>2, <3>3, <3>6 DEF Larger
    <3>. QED
      BY <2>2, <3>2, <3>5, <3>7 DEF Latest
  <2>3. CASE q # r
    BY <1>1, <1>5, <2>1, <2>3 DEF Latest
  <2>. QED
    BY <2>2, <2>3
<1>11. ASSUME NEW e \in DOMAIN idx.profiles PROVE FirstOf(idx.profiles[e].first_seen, N, e)
  <2>1. FirstOf(idx.profiles[e].first_seen, O, e)
    BY DEF Recorded
  <2>. QED
    BY <2>1 DEF FirstOf
<1>12. ASSUME NEW e \in DOMAIN idx.profiles PROVE LastOf(idx.profiles[e].last_seen, N, e)
  <2>1. PICK b : b = idx.profiles[e].last_seen
    OBVIOUS
  <2>2. LastOf(b, O, e)
    BY <2>1 DEF Recorded
  <2>3. ASSUME Of(o, e), r.type # "account_owns_table" PROVE n <= b
    <3>1. PICK q \in O : q.rel = r
      BY <1>4, <1>6
    <3>2. Of(q, e) /\ q.block = n
      BY <1>1, <1>2, <1>6, <2>3, <3>1 DEF Of, Occurrence
    <3>. QED
      BY <2>2, <2>3, <3>1, <3>2 DEF LastOf
  <2>. QED
    BY <1>1, <1>2, <2>1, <2>2, <2>3 DEF LastOf
<1>13. Recorded(new, N)
  BY <1>5, <1>7, <1>8, <1>9, <1>10, <1>11, <1>12 DEF Recorded
<1>. QED
  BY <1>1, <1>2, <1>3, <1>5, <1>13

LEMMA RecordNew ==
  ASSUME NEW idx, Graph(idx), NEW O, Recorded(idx, O), NEW o, Occurrence(o), o.rel \notin DOMAIN idx.relations,
         \A q \in O : q.call <= o.call,
         NEW N, N = O \cup {o}
  PROVE  Graph(AddRelation(idx, o.rel, o.block)) /\ Recorded(AddRelation(idx, o.rel, o.block), N)
<1>1. PICK r : r = o.rel
  OBVIOUS
<1>2. PICK n : n = o.block
  OBVIOUS
<1>3. PICK new : new = AddRelation(idx, r, n)
  OBVIOUS
<1>4. n \in Nat /\ r \notin DOMAIN idx.relations /\ Kinded(r)
  BY <1>1, <1>2 DEF Occurrence
<1>5. PICK P : P = idx.profiles
  OBVIOUS
<1>6. /\ Graph(new)
      /\ DOMAIN new.relations = DOMAIN idx.relations \cup {r}
      /\ new.relations[r] = [weight |-> 1, block |-> n]
      /\ \A q \in DOMAIN idx.relations : new.relations[q] = idx.relations[q]
  <2>1. Graph(new)
    BY <1>3, <1>4, AddNew
  <2>2. DOMAIN new.relations = DOMAIN idx.relations \cup {r}
    BY <1>3, <1>4, AddNew
  <2>3. new.relations[r] = [weight |-> 1, block |-> n]
    BY <1>3, <1>4, AddNew
  <2>4. new.relations = With(idx.relations, r, [weight |-> 1, block |-> n])
    BY <1>3, <1>4 DEF AddRelation, Established
  <2>5. ASSUME NEW q \in DOMAIN idx.relations PROVE new.relations[q] = idx.relations[q]
    BY <1>4, <2>4 DEF With
  <2>. QED
    BY <2>1, <2>2, <2>3, <2>5
<1>7. /\ Extended(new.profiles[r.source], Old(P, r.source, n), 1, 0, r.target[1], n)
      /\ Extended(new.profiles[r.target], Old(P, r.target, n), 0, 1, r.source[1], n)
      /\ \A e \in DOMAIN P : e \notin {r.source, r.target} => new.profiles[e] = P[e]
  <2>1. Extended(new.profiles[r.source], Old(P, r.source, n), 1, 0, r.target[1], n)
    BY <1>3, <1>4, <1>5, AddNew
  <2>2. Extended(new.profiles[r.target], Old(P, r.target, n), 0, 1, r.source[1], n)
    BY <1>3, <1>4, <1>5, AddNew
  <2>3. new.profiles = ProfiledBoth(P, r, n)
    BY <1>3, <1>4, <1>5 DEF AddRelation, Established
  <2>4. ASSUME NEW e \in DOMAIN P, e \notin {r.source, r.target} PROVE new.profiles[e] = P[e]
    BY <2>3, <2>4 DEF ProfiledBoth, With
  <2>. QED
    BY <2>1, <2>2, <2>4
<1>8. IsFiniteSet(O) /\ (\A q \in O : Occurrence(q)) /\ DOMAIN idx.relations = {q.rel : q \in O}
  BY DEF Recorded
<1>9. IsFiniteSet(N) /\ (\A q \in N : Occurrence(q))
  BY <1>8, FS_AddElement
<1>10. DOMAIN new.relations = {q.rel : q \in N}
  BY <1>1, <1>6, <1>8
<1>11. \A q \in O : q.rel # r
  BY <1>4, <1>8
<1>12. ASSUME NEW q \in DOMAIN new.relations
       PROVE  new.relations[q].weight = Cardinality(Sayings(N, q)) /\ Latest(new.relations[q].block, N, q)
  <2>1. CASE q = r
    <3>1. Sayings(N, q) = {<<o.call, o.tx>>}
      BY <1>1, <1>11, <2>1 DEF Sayings
    <3>2. new.relations[q].weight = Cardinality(Sayings(N, q))
      <4>1. Cardinality(Sayings(N, q)) = 1
        BY <3>1, FS_Singleton
      <4>. QED
        BY <1>6, <2>1, <4>1
    <3>3. new.relations[q].block = n /\ n <= n
      BY <1>4, <1>6, <2>1
    <3>. QED
      BY <1>1, <1>2, <1>11, <2>1, <3>2, <3>3 DEF Latest
  <2>2. CASE q # r
    <3>1. q \in DOMAIN idx.relations /\ new.relations[q] = idx.relations[q]
      BY <1>6, <2>2
    <3>2. Sayings(N, q) = Sayings(O, q)
      BY <1>1, <2>2 DEF Sayings
    <3>3. idx.relations[q].weight = Cardinality(Sayings(O, q)) /\ Latest(idx.relations[q].block, O, q)
      BY <3>1 DEF Recorded
    <3>4. Latest(idx.relations[q].block, N, q)
      BY <1>1, <2>2, <3>3 DEF Latest
    <3>. QED
      BY <3>1, <3>2, <3>3, <3>4
  <2>. QED
    BY <2>1, <2>2
<1>13. /\ DOMAIN new.profiles = EntitiesOf(DOMAIN new.relations)
       /\ DOMAIN P = EntitiesOf(DOMAIN idx.relations) /\ P \in [DOMAIN P -> Profile]
  BY <1>5, <1>6 DEF Graph
<1>14. DOMAIN new.profiles = DOMAIN P \cup {r.source, r.target}
  BY <1>6, <1>13 DEF EntitiesOf
<1>15. ASSUME NEW e \in {r.source, r.target}
       PROVE  FirstOf(new.profiles[e].first_seen, N, e) /\ LastOf(new.profiles[e].last_seen, N, e)
  <2>1. PICK p : p = new.profiles[e]
    OBVIOUS
  <2>2. p.first_seen = Old(P, e, n).first_seen /\ p.last_seen = Larger(Old(P, e, n).last_seen, n)
    BY <1>7, <2>1 DEF Extended
  <2>3. Of(o, e) /\ o \in N
    BY <1>1 DEF Of
  <2>4. CASE e \in DOMAIN P
    <3>1. PICK f \in Nat, b \in Nat : f = P[e].first_seen /\ b = P[e].last_seen
      BY <1>13, <2>4 DEF Profile
    <3>2. p.first_seen = f /\ p.last_seen = Larger(b, n)
      BY <2>2, <2>4, <3>1 DEF Old
    <3>3. FirstOf(f, O, e) /\ LastOf(b, O, e)
      BY <1>5, <2>4, <3>1 DEF Recorded
    <3>4. FirstOf(f, N, e)
      BY <3>3 DEF FirstOf
    <3>5. PICK x \in O : Of(x, e) /\ x.block = b
      BY <3>3 DEF LastOf
    <3>6. \E y \in N : Of(y, e) /\ y.block = Larger(b, n)
      BY <1>2, <2>3, <3>5 DEF Larger
    <3>7. \A y \in O : Of(y, e) /\ y.rel.type # "account_owns_table" => y.block <= b /\ y.block \in Nat
      BY <1>8, <3>3 DEF LastOf, Occurrence
    <3>8. \A y \in N : Of(y, e) /\ y.rel.type # "account_owns_table" => y.block <= Larger(b, n)
      BY <1>2, <1>4, <3>7 DEF Larger
    <3>. QED
      BY <2>1, <3>2, <3>4, <3>6, <3>8 DEF LastOf
  <2>5. CASE e \notin DOMAIN P
    <3>1. p.first_seen = n /\ p.last_seen = n
      BY <1>4, <2>2, <2>5 DEF Old, NewProfile, Larger
    <3>2. \A q \in O : ~Of(q, e)
      BY <1>8, <1>13, <2>5 DEF Of, EntitiesOf
    <3>3. o.call <= o.call /\ o.block <= o.block
      BY DEF Occurrence
    <3>4. FirstOf(n, N, e)
      BY <1>2, <2>3, <3>2, <3>3 DEF FirstOf
    <3>5. LastOf(n, N, e)
      BY <1>2, <2>3, <3>2, <3>3 DEF LastOf
    <3>. QED
      BY <2>1, <3>1, <3>4, <3>5
  <2>. QED
    BY <2>4, <2>5
<1>16. ASSUME NEW e \in DOMAIN P, e \notin {r.source, r.target}
       PROVE  FirstOf(new.profiles[e].first_seen, N, e) /\ LastOf(new.profiles[e].last_seen, N, e)
  <2>1. new.profiles[e] = P[e]
    BY <1>7, <1>16
  <2>2. FirstOf(P[e].first_seen, O, e) /\ LastOf(P[e].last_seen, O, e)
    BY <1>5 DEF Recorded
  <2>3. ~Of(o, e)
    BY <1>1, <1>16 DEF Of
  <2>4. FirstOf(P[e].first_seen, N, e)
    BY <2>2, <2>3 DEF FirstOf
  <2>5. LastOf(P[e].last_seen, N, e)
    BY <2>2, <2>3 DEF LastOf
  <2>. QED
    BY <2>1, <2>4, <2>5
<1>17. \A e \in DOMAIN new.profiles :
         FirstOf(new.profiles[e].first_seen, N, e) /\ LastOf(new.profiles[e].last_seen, N, e)
  BY <1>14, <1>15, <1>16
<1>18. Recorded(new, N)
  BY <1>9, <1>10, <1>12, <1>17 DEF Recorded
<1>. QED
  BY <1>1, <1>2, <1>3, <1>6, <1>18

-----------------------------------------------------------------------------
(* One transaction.                                                        *)

RelOp(p, acc, r) == AddRelation(acc, r, p)

RelFold == INSTANCE FoldLemmas WITH Op <- RelOp

LEMMA AddTxFold ==
  ASSUME NEW idx, NEW tx, NEW n, NEW i
  PROVE  AddTx(idx, tx, n, i) = RelFold!Fold(n, idx, RelationsOfTx(tx, n, i))
BY DEF AddTx, RelOp, RelFold!Fold, FoldLeft, RelFold!FoldLeft,
       MapThenFoldSet, RelFold!MapThenFoldSet, Max, RelFold!Max

AddIf(condition, idx, r, n) == IF condition THEN AddRelation(idx, r, n) ELSE idx

SetIf(condition, x) == IF condition THEN {x} ELSE {}

\* A sequence of relations that has one more than another, under a condition.
OneMore(X, s, condition, r, t, idx, n) ==
  /\ t \in Seq(X)
  /\ ToSet(t) = ToSet(s) \cup SetIf(condition, r)
  /\ RelFold!Fold(n, idx, t) = AddIf(condition, RelFold!Fold(n, idx, s), r, n)

LEMMA FoldIf ==
  ASSUME NEW X, NEW s \in Seq(X), NEW r \in X, NEW condition \in BOOLEAN, NEW idx, NEW n,
         NEW t, t = s \o (IF condition THEN <<r>> ELSE <<>>)
  PROVE  OneMore(X, s, condition, r, t, idx, n)
<1>1. CASE condition
  <2>1. t = Append(s, r)
    BY <1>1
  <2>2. t \in Seq(X) /\ Len(s) \in Nat /\ DOMAIN s = 1..Len(s)
    BY <2>1
  <2>3. ToSet(t) = ToSet(s) \cup {r}
    <3>1. Len(t) = Len(s) + 1 /\ t[Len(s) + 1] = r /\ \A i \in 1..Len(s) : t[i] = s[i]
      BY <2>1, <2>2
    <3>2. DOMAIN t = (1..Len(s)) \cup {Len(s) + 1}
      BY <2>2, <3>1
    <3>. QED
      BY <2>2, <3>1, <3>2 DEF ToSet
  <2>4. RelFold!Fold(n, idx, Append(s, r)) = RelOp(n, RelFold!Fold(n, idx, s), r)
    BY RelFold!FoldAppend
  <2>. QED
    BY <1>1, <2>1, <2>2, <2>3, <2>4 DEF AddIf, SetIf, RelOp, OneMore
<1>2. CASE ~condition
  <2>1. t = s
    BY <1>2
  <2>. QED
    BY <1>2, <2>1 DEF AddIf, SetIf, OneMore
<1>. QED
  BY <1>1, <1>2

TouchesTable(tx, n, i) == Relation(TxEntity(n, i), TableEntity(tx.table), "tx_touches_table")

SubmitsTx(tx, n, i) == Relation(AccountEntity(tx.account), TxEntity(n, i), "account_submits_tx")

ContainsTx(tx, n, i) == Relation(BlockEntity(n), TxEntity(n, i), "block_contains_tx")

OwnsTable(tx, n, i) == Relation(AccountEntity(tx.account), TableEntity(tx.table), "account_owns_table")

TouchesBlock(tx, n, i) == Relation(TableEntity(tx.table), BlockEntity(n), "table_touches_block")

Told(tx, n, i) ==
  LET names == tx.table # NoTable
  IN  SetIf(names, TouchesTable(tx, n, i)) \cup SetIf(tx.account # NoAccount, SubmitsTx(tx, n, i))
        \cup SetIf(TRUE, ContainsTx(tx, n, i)) \cup SetIf(tx.creates /\ names, OwnsTable(tx, n, i))
        \cup SetIf(names, TouchesBlock(tx, n, i))

AllAdded(idx, tx, n, i) ==
  LET names == tx.table # NoTable
      touching == AddIf(names, idx, TouchesTable(tx, n, i), n)
      submitted == AddIf(tx.account # NoAccount, touching, SubmitsTx(tx, n, i), n)
      contained == AddIf(TRUE, submitted, ContainsTx(tx, n, i), n)
      owned == AddIf(tx.creates /\ names, contained, OwnsTable(tx, n, i), n)
  IN  AddIf(names, owned, TouchesBlock(tx, n, i), n)

\* The relations of a transaction, one after the other.
LEMMA TxSteps ==
  ASSUME NEW tx \in Transaction, NEW n, NEW i, NEW idx
  PROVE  /\ AddTx(idx, tx, n, i) = AllAdded(idx, tx, n, i)
         /\ ToSet(RelationsOfTx(tx, n, i)) = Told(tx, n, i)
<1>0. PICK names \in BOOLEAN : names = (tx.table # NoTable)
  OBVIOUS
<1>1. PICK r1, r2, r3, r4, r5 :
        /\ r1 = TouchesTable(tx, n, i) /\ r2 = SubmitsTx(tx, n, i) /\ r3 = ContainsTx(tx, n, i)
        /\ r4 = OwnsTable(tx, n, i) /\ r5 = TouchesBlock(tx, n, i)
  OBVIOUS
<1>2. PICK c2 \in BOOLEAN, c4 \in BOOLEAN : c2 = (tx.account # NoAccount) /\ c4 = (tx.creates /\ names)
  BY DEF Transaction
<1>3. PICK X : X = {r1, r2, r3, r4, r5}
  OBVIOUS
<1>4. /\ <<>> \in Seq(X) /\ ToSet(<<>>) = {} /\ RelFold!Fold(n, idx, <<>>) = idx
      /\ r1 \in X /\ r2 \in X /\ r3 \in X /\ r4 \in X /\ r5 \in X
  BY <1>3, RelFold!FoldEmpty DEF ToSet
<1>5. PICK s1 : s1 = <<>> \o (IF names THEN <<r1>> ELSE <<>>)
  OBVIOUS
<1>6. PICK s2 : s2 = s1 \o (IF c2 THEN <<r2>> ELSE <<>>)
  OBVIOUS
<1>7. PICK s3 : s3 = s2 \o (IF TRUE THEN <<r3>> ELSE <<>>)
  OBVIOUS
<1>8. PICK s4 : s4 = s3 \o (IF c4 THEN <<r4>> ELSE <<>>)
  OBVIOUS
<1>9. PICK s5 : s5 = s4 \o (IF names THEN <<r5>> ELSE <<>>)
  OBVIOUS
<1>10. s1 \in Seq(X) /\ OneMore(X, <<>>, names, r1, s1, idx, n)
  <2>1. OneMore(X, <<>>, names, r1, s1, idx, n)
    BY <1>4, <1>5, FoldIf
  <2>. QED
    BY <2>1 DEF OneMore
<1>11. s2 \in Seq(X) /\ OneMore(X, s1, c2, r2, s2, idx, n)
  <2>1. OneMore(X, s1, c2, r2, s2, idx, n)
    BY <1>4, <1>6, <1>10, FoldIf
  <2>. QED
    BY <2>1 DEF OneMore
<1>12. s3 \in Seq(X) /\ OneMore(X, s2, TRUE, r3, s3, idx, n)
  <2>1. OneMore(X, s2, TRUE, r3, s3, idx, n)
    BY <1>4, <1>7, <1>11, FoldIf
  <2>. QED
    BY <2>1 DEF OneMore
<1>13. s4 \in Seq(X) /\ OneMore(X, s3, c4, r4, s4, idx, n)
  <2>1. OneMore(X, s3, c4, r4, s4, idx, n)
    BY <1>4, <1>8, <1>12, FoldIf
  <2>. QED
    BY <2>1 DEF OneMore
<1>14. s5 \in Seq(X) /\ OneMore(X, s4, names, r5, s5, idx, n)
  <2>1. OneMore(X, s4, names, r5, s5, idx, n)
    BY <1>4, <1>9, <1>13, FoldIf
  <2>. QED
    BY <2>1 DEF OneMore
<1>15. RelationsOfTx(tx, n, i) = s5
  <2>1. s1 = (IF names THEN <<r1>> ELSE <<>>)
    BY <1>5
  <2>2. s3 = s2 \o <<r3>>
    BY <1>7
  <2>. QED
    BY <1>0, <1>1, <1>2, <1>6, <1>8, <1>9, <2>1, <2>2
    DEF RelationsOfTx, TouchesTable, SubmitsTx, ContainsTx, OwnsTable, TouchesBlock
<1>16. AddTx(idx, tx, n, i) = RelFold!Fold(n, idx, s5)
  BY <1>15, AddTxFold
<1>17. RelFold!Fold(n, idx, s5) =
         AddIf(names, AddIf(c4, AddIf(TRUE, AddIf(c2, AddIf(names, idx, r1, n), r2, n), r3, n), r4, n), r5, n)
  BY <1>4, <1>10, <1>11, <1>12, <1>13, <1>14 DEF OneMore
<1>18. ToSet(s5) = SetIf(names, r1) \cup SetIf(c2, r2) \cup SetIf(TRUE, r3) \cup SetIf(c4, r4) \cup SetIf(names, r5)
  BY <1>4, <1>10, <1>11, <1>12, <1>13, <1>14 DEF OneMore
<1>19. Told(tx, n, i) = ToSet(s5)
  BY <1>0, <1>1, <1>2, <1>18 DEF Told
<1>20. AddTx(idx, tx, n, i) = AllAdded(idx, tx, n, i)
  BY <1>0, <1>1, <1>2, <1>16, <1>17 DEF AllAdded
<1>. QED
  BY <1>15, <1>19, <1>20

-----------------------------------------------------------------------------
(* One block.                                                              *)

Occ(call, i, r, n) == [call |-> call, tx |-> i, rel |-> r, block |-> n]

\* What the i-th transaction of the block of a call says.
TxSays(call, tx, n, i) == {Occ(call, i, r, n) : r \in ToSet(RelationsOfTx(tx, n, i))}

BlockSays(call, block, n, m) == UNION {TxSays(call, block[i], n, i) : i \in 1..m}

\* The occurrences up to some of those of the transaction that is under way.
Until(O, call, i, types) ==
  \A q \in O : q.call <= call /\ (q.call = call /\ q.tx = i => q.rel.type \in types)

\* The index, the occurrences and where the call is.
At(idx, O, call, i, types) == Graph(idx) /\ Recorded(idx, O) /\ Until(O, call, i, types)

LEMMA RecordIf ==
  ASSUME NEW idx, NEW O, NEW call \in Nat, NEW i \in Nat, NEW n \in Nat, NEW types,
         At(idx, O, call, i, types), NEW condition \in BOOLEAN, NEW r,
         Occurrence(Occ(call, i, r, n)), r.type \notin types,
         NEW N, N = O \cup SetIf(condition, Occ(call, i, r, n)), NEW more, more = types \cup {r.type}
  PROVE  At(AddIf(condition, idx, r, n), N, call, i, more)
<1>1. Graph(idx) /\ Recorded(idx, O) /\ Until(O, call, i, types)
  BY DEF At
<1>2. CASE ~condition
  <2>1. N = O /\ AddIf(condition, idx, r, n) = idx
    BY <1>2 DEF AddIf, SetIf
  <2>2. Until(O, call, i, more)
    BY <1>1 DEF Until
  <2>. QED
    BY <1>1, <2>1, <2>2 DEF At
<1>3. CASE condition
  <2>1. PICK o : o = Occ(call, i, r, n)
    OBVIOUS
  <2>2. o.rel = r /\ o.block = n /\ o.call = call /\ o.tx = i
    BY <2>1 DEF Occ
  <2>3. N = O \cup {o} /\ AddIf(condition, idx, r, n) = AddRelation(idx, o.rel, o.block)
    BY <1>3, <2>1, <2>2 DEF AddIf, SetIf
  <2>4. \A q \in O : q.call <= o.call
    BY <1>1, <2>2 DEF Until
  <2>5. \A q \in O : q.rel = o.rel => <<q.call, q.tx>> # <<o.call, o.tx>>
    BY <1>1, <2>2 DEF Until
  <2>6. Occurrence(o)
    BY <2>1
  <2>7. N = O \cup {o}
    BY <2>3
  <2>8. Graph(AddRelation(idx, o.rel, o.block)) /\ Recorded(AddRelation(idx, o.rel, o.block), N)
    <3>1. CASE o.rel \in DOMAIN idx.relations
      BY <1>1, <2>4, <2>5, <2>6, <2>7, <3>1, RecordOld
    <3>2. CASE o.rel \notin DOMAIN idx.relations
      BY <1>1, <2>4, <2>6, <2>7, <3>2, RecordNew
    <3>. QED
      BY <3>1, <3>2
  <2>9. Until(N, call, i, more)
    BY <1>1, <2>2, <2>7 DEF Until
  <2>. QED
    BY <2>3, <2>8, <2>9 DEF At
<1>. QED
  BY <1>2, <1>3

LEMMA OccurrenceOf ==
  ASSUME NEW call \in Nat, NEW i \in Nat, NEW n \in Nat, NEW source, NEW target, NEW type, NEW r,
         r = Relation(source, target, type),
         source[1] \in Kinds, target[1] \in Kinds, source[1] # target[1],
         type # "account_owns_table" => n = BlockOf(r)
  PROVE  Occurrence(Occ(call, i, r, n)) /\ r.type = type
<1>1. r.source = source /\ r.target = target /\ r.type = type
  BY DEF Relation
<1>2. Kinded(r)
  BY <1>1 DEF Kinded
<1>. QED
  BY <1>1, <1>2 DEF Occurrence, Occ

\* What a transaction says of its own block.
LEMMA Occurrences ==
  ASSUME NEW tx, NEW n \in Nat, NEW i \in Nat, NEW call \in Nat
  PROVE  /\ Occurrence(Occ(call, i, TouchesTable(tx, n, i), n))
         /\ Occurrence(Occ(call, i, SubmitsTx(tx, n, i), n))
         /\ Occurrence(Occ(call, i, ContainsTx(tx, n, i), n))
         /\ Occurrence(Occ(call, i, OwnsTable(tx, n, i), n))
         /\ Occurrence(Occ(call, i, TouchesBlock(tx, n, i), n))
<1>1. PICK t, a, b, x : t = TableEntity(tx.table) /\ a = AccountEntity(tx.account)
                          /\ b = BlockEntity(n) /\ x = TxEntity(n, i)
  OBVIOUS
<1>2. t[1] = "table" /\ a[1] = "account" /\ b[1] = "block" /\ x[1] = "tx" /\ b[2] = n /\ x[2] = n
  BY <1>1 DEF TableEntity, AccountEntity, BlockEntity, TxEntity
<1>3. /\ t[1] \in Kinds /\ a[1] \in Kinds /\ b[1] \in Kinds /\ x[1] \in Kinds
      /\ x[1] # t[1] /\ a[1] # x[1] /\ b[1] # x[1] /\ a[1] # t[1] /\ t[1] # b[1]
  <2>1. x[1] # t[1] /\ a[1] # x[1] /\ b[1] # x[1] /\ a[1] # t[1] /\ t[1] # b[1]
    BY <1>2
  <2>2. t[1] \in Kinds /\ a[1] \in Kinds
    BY <1>2 DEF Kinds
  <2>3. b[1] \in Kinds /\ x[1] \in Kinds
    BY <1>2 DEF Kinds
  <2>. QED
    BY <2>1, <2>2, <2>3
<1>4. Occurrence(Occ(call, i, TouchesTable(tx, n, i), n))
  <2>1. PICK r : r = Relation(x, t, "tx_touches_table")
    OBVIOUS
  <2>2. BlockOf(r) = n
    BY <1>2, <2>1 DEF BlockOf, Relation
  <2>3. Occurrence(Occ(call, i, r, n))
    BY <1>3, <2>1, <2>2, OccurrenceOf
  <2>. QED
    BY <1>1, <2>1, <2>3 DEF TouchesTable
<1>5. Occurrence(Occ(call, i, SubmitsTx(tx, n, i), n))
  <2>1. PICK r : r = Relation(a, x, "account_submits_tx")
    OBVIOUS
  <2>2. BlockOf(r) = n
    BY <1>2, <2>1 DEF BlockOf, Relation
  <2>3. Occurrence(Occ(call, i, r, n))
    BY <1>3, <2>1, <2>2, OccurrenceOf
  <2>. QED
    BY <1>1, <2>1, <2>3 DEF SubmitsTx
<1>6. Occurrence(Occ(call, i, ContainsTx(tx, n, i), n))
  <2>1. PICK r : r = Relation(b, x, "block_contains_tx")
    OBVIOUS
  <2>2. BlockOf(r) = n
    BY <1>2, <2>1 DEF BlockOf, Relation
  <2>3. Occurrence(Occ(call, i, r, n))
    BY <1>3, <2>1, <2>2, OccurrenceOf
  <2>. QED
    BY <1>1, <2>1, <2>3 DEF ContainsTx
<1>7. Occurrence(Occ(call, i, OwnsTable(tx, n, i), n))
  <2>1. PICK r : r = Relation(a, t, "account_owns_table")
    OBVIOUS
  <2>2. Occurrence(Occ(call, i, r, n))
    BY <1>3, <2>1, OccurrenceOf
  <2>. QED
    BY <1>1, <2>1, <2>2 DEF OwnsTable
<1>8. Occurrence(Occ(call, i, TouchesBlock(tx, n, i), n))
  <2>1. PICK r : r = Relation(t, b, "table_touches_block")
    OBVIOUS
  <2>2. BlockOf(r) = n
    BY <1>2, <2>1 DEF BlockOf, Relation
  <2>3. Occurrence(Occ(call, i, r, n))
    BY <1>3, <2>1, <2>2, OccurrenceOf
  <2>. QED
    BY <1>1, <2>1, <2>3 DEF TouchesBlock
<1>. QED
  BY <1>4, <1>5, <1>6, <1>7, <1>8

Types == {"tx_touches_table", "account_submits_tx", "block_contains_tx", "account_owns_table",
          "table_touches_block"}

LEMMA TxKeeps ==
  ASSUME NEW idx, NEW O, NEW call \in Nat, NEW i \in Nat, NEW n \in Nat, At(idx, O, call, i, {}),
         NEW tx \in Transaction, NEW N, N = O \cup TxSays(call, tx, n, i)
  PROVE  At(AddTx(idx, tx, n, i), N, call, i, Types)
<1>1. PICK names \in BOOLEAN : names = (tx.table # NoTable)
  OBVIOUS
<1>2. PICK r1, r2, r3, r4, r5 :
        /\ r1 = TouchesTable(tx, n, i) /\ r2 = SubmitsTx(tx, n, i) /\ r3 = ContainsTx(tx, n, i)
        /\ r4 = OwnsTable(tx, n, i) /\ r5 = TouchesBlock(tx, n, i)
  OBVIOUS
<1>3. /\ r1.type = "tx_touches_table" /\ r2.type = "account_submits_tx" /\ r3.type = "block_contains_tx"
      /\ r4.type = "account_owns_table" /\ r5.type = "table_touches_block"
  BY <1>2 DEF TouchesTable, SubmitsTx, ContainsTx, OwnsTable, TouchesBlock, Relation
<1>4. /\ Occurrence(Occ(call, i, r1, n)) /\ Occurrence(Occ(call, i, r2, n)) /\ Occurrence(Occ(call, i, r3, n))
      /\ Occurrence(Occ(call, i, r4, n)) /\ Occurrence(Occ(call, i, r5, n))
  BY <1>2, Occurrences
<1>5. PICK c2 \in BOOLEAN, c4 \in BOOLEAN : c2 = (tx.account # NoAccount) /\ c4 = (tx.creates /\ names)
  BY DEF Transaction
<1>6. PICK t1, t2, t3, t4, t5 :
        /\ t1 = {} \cup {r1.type} /\ t2 = t1 \cup {r2.type} /\ t3 = t2 \cup {r3.type}
        /\ t4 = t3 \cup {r4.type} /\ t5 = t4 \cup {r5.type}
  OBVIOUS
<1>7. r1.type \notin {} /\ r2.type \notin t1 /\ r3.type \notin t2 /\ r4.type \notin t3 /\ r5.type \notin t4 /\ t5 = Types
  BY <1>3, <1>6 DEF Types
<1>8. PICK O1, O2, O3, O4, O5 :
        /\ O1 = O \cup SetIf(names, Occ(call, i, r1, n)) /\ O2 = O1 \cup SetIf(c2, Occ(call, i, r2, n))
        /\ O3 = O2 \cup SetIf(TRUE, Occ(call, i, r3, n)) /\ O4 = O3 \cup SetIf(c4, Occ(call, i, r4, n))
        /\ O5 = O4 \cup SetIf(names, Occ(call, i, r5, n))
  OBVIOUS
<1>9. PICK i1, i2, i3, i4, i5 :
        /\ i1 = AddIf(names, idx, r1, n) /\ i2 = AddIf(c2, i1, r2, n) /\ i3 = AddIf(TRUE, i2, r3, n)
        /\ i4 = AddIf(c4, i3, r4, n) /\ i5 = AddIf(names, i4, r5, n)
  OBVIOUS
<1>10. At(i1, O1, call, i, t1)
  BY <1>4, <1>6, <1>7, <1>8, <1>9, RecordIf
<1>11. At(i2, O2, call, i, t2)
  BY <1>4, <1>6, <1>7, <1>8, <1>9, <1>10, RecordIf
<1>12. At(i3, O3, call, i, t3)
  BY <1>4, <1>6, <1>7, <1>8, <1>9, <1>11, RecordIf
<1>13. At(i4, O4, call, i, t4)
  BY <1>4, <1>6, <1>7, <1>8, <1>9, <1>12, RecordIf
<1>14. At(i5, O5, call, i, t5)
  BY <1>4, <1>6, <1>7, <1>8, <1>9, <1>13, RecordIf
<1>15. AddTx(idx, tx, n, i) = i5
  <2>1. AddTx(idx, tx, n, i) = AllAdded(idx, tx, n, i)
    BY TxSteps
  <2>. QED
    BY <1>1, <1>2, <1>5, <1>9, <2>1 DEF AllAdded
<1>16. ToSet(RelationsOfTx(tx, n, i)) = Told(tx, n, i)
  BY TxSteps
<1>17. PICK S1, S2, S3, S4, S5 :
         /\ S1 = SetIf(names, r1) /\ S2 = SetIf(c2, r2) /\ S3 = SetIf(TRUE, r3)
         /\ S4 = SetIf(c4, r4) /\ S5 = SetIf(names, r5)
  OBVIOUS
<1>18. TxSays(call, tx, n, i) = {Occ(call, i, q, n) : q \in S1 \cup S2 \cup S3 \cup S4 \cup S5}
  BY <1>1, <1>2, <1>5, <1>16, <1>17 DEF TxSays, Told
<1>19. TxSays(call, tx, n, i) =
         {Occ(call, i, q, n) : q \in S1} \cup {Occ(call, i, q, n) : q \in S2} \cup {Occ(call, i, q, n) : q \in S3}
           \cup {Occ(call, i, q, n) : q \in S4} \cup {Occ(call, i, q, n) : q \in S5}
  BY <1>18
<1>20. N = O5
  <2>1. \A c, r : {Occ(call, i, q, n) : q \in SetIf(c, r)} = SetIf(c, Occ(call, i, r, n))
    BY DEF SetIf
  <2>2. PICK V1, V2, V3, V4, V5 :
          /\ V1 = SetIf(names, Occ(call, i, r1, n)) /\ V2 = SetIf(c2, Occ(call, i, r2, n))
          /\ V3 = SetIf(TRUE, Occ(call, i, r3, n)) /\ V4 = SetIf(c4, Occ(call, i, r4, n))
          /\ V5 = SetIf(names, Occ(call, i, r5, n))
    OBVIOUS
  <2>3. {Occ(call, i, q, n) : q \in S1} = V1 /\ {Occ(call, i, q, n) : q \in S2} = V2
    BY <1>17, <2>1, <2>2
  <2>4. {Occ(call, i, q, n) : q \in S3} = V3 /\ {Occ(call, i, q, n) : q \in S4} = V4
    BY <1>17, <2>1, <2>2
  <2>5. {Occ(call, i, q, n) : q \in S5} = V5
    BY <1>17, <2>1, <2>2
  <2>6. TxSays(call, tx, n, i) = V1 \cup V2 \cup V3 \cup V4 \cup V5
    BY <1>19, <2>3, <2>4, <2>5
  <2>7. O5 = O \cup V1 \cup V2 \cup V3 \cup V4 \cup V5
    BY <1>8, <2>2
  <2>. QED
    BY <2>6, <2>7
<1>. QED
  BY <1>7, <1>14, <1>15, <1>20

TxOp(p, acc, i) == AddTx(acc, p.block[i], p.n, i)

TxFold == INSTANCE FoldLemmas WITH Op <- TxOp

UpTo(m) == [i \in 1..m |-> i]

LEMMA ProcessedFold ==
  ASSUME NEW idx, NEW p, NEW m, DOMAIN p.block = 1..m
  PROVE  Processed(idx, p.block, p.n) = TxFold!Fold(p, idx, UpTo(m))
<1>1. [i \in DOMAIN p.block |-> i] = UpTo(m)
  BY DEF UpTo
<1>. HIDE DEF UpTo
<1>2. Processed(idx, p.block, p.n) = FoldLeft(LAMBDA acc, i : AddTx(acc, p.block[i], p.n, i), idx, UpTo(m))
  BY <1>1 DEF Processed
<1>. QED
  BY <1>2 DEF TxOp, TxFold!Fold, FoldLeft, TxFold!FoldLeft, MapThenFoldSet, TxFold!MapThenFoldSet, Max, TxFold!Max

LEMMA BlockKeeps ==
  ASSUME NEW idx, NEW O, NEW call \in Nat, NEW n \in Nat, NEW block \in Seq(Transaction),
         Graph(idx), Recorded(idx, O), \A q \in O : q.call < call,
         NEW N, N = O \cup BlockSays(call, block, n, Len(block))
  PROVE  Graph(Processed(idx, block, n)) /\ Recorded(Processed(idx, block, n), N)
<1> DEFINE p == [block |-> block, n |-> n]
           Fold(m) == TxFold!Fold(p, idx, UpTo(m))
           SoFar(m) == O \cup BlockSays(call, block, n, m)
           P == {m \in Nat : m <= Len(block) =>
                   /\ Graph(Fold(m)) /\ Recorded(Fold(m), SoFar(m))
                   /\ \A q \in SoFar(m) : q.call <= call /\ (q.call = call => q.tx <= m)}
<1>1. Len(block) \in Nat /\ DOMAIN block = 1..Len(block)
  OBVIOUS
<1>2. \A q \in O : q.call \in Nat
  BY DEF Recorded, Occurrence
<1>3. 0 \in P
  <2>1. BlockSays(call, block, n, 0) = {}
    BY DEF BlockSays
  <2>2. SoFar(0) = O
    BY <2>1
  <2>3. UpTo(0) = <<>>
    BY DEF UpTo
  <2>4. Fold(0) = idx
    BY <2>3, TxFold!FoldEmpty
  <2>. HIDE DEF Fold, SoFar
  <2>. QED
    BY <1>2, <2>2, <2>4
<1>4. ASSUME NEW m \in Nat, m \in P PROVE m + 1 \in P
  <2> SUFFICES ASSUME m + 1 <= Len(block)
               PROVE  /\ Graph(Fold(m + 1)) /\ Recorded(Fold(m + 1), SoFar(m + 1))
                      /\ \A q \in SoFar(m + 1) : q.call <= call /\ (q.call = call => q.tx <= m + 1)
    OBVIOUS
  <2>1. /\ Graph(Fold(m)) /\ Recorded(Fold(m), SoFar(m))
        /\ \A q \in SoFar(m) : q.call <= call /\ (q.call = call => q.tx <= m)
    BY <1>1, <1>4
  <2>2. PICK tx \in Transaction : tx = block[m + 1]
    BY <1>1
  <2>3. SoFar(m + 1) = SoFar(m) \cup TxSays(call, tx, n, m + 1)
    <3>1. 1..(m + 1) = (1..m) \cup {m + 1}
      OBVIOUS
    <3>2. BlockSays(call, block, n, m + 1) = BlockSays(call, block, n, m) \cup TxSays(call, block[m + 1], n, m + 1)
      BY <3>1 DEF BlockSays
    <3>. QED
      BY <2>2, <3>2
  <2>4. Fold(m + 1) = AddTx(Fold(m), tx, n, m + 1)
    <3>1. UpTo(m) \in Seq(Nat) /\ m + 1 \in Nat
      BY DEF UpTo
    <3>2. UpTo(m + 1) = Append(UpTo(m), m + 1)
      BY DEF UpTo
    <3>3. TxFold!Fold(p, idx, Append(UpTo(m), m + 1)) = TxOp(p, TxFold!Fold(p, idx, UpTo(m)), m + 1)
      BY <3>1, TxFold!FoldAppend
    <3>. QED
      BY <2>2, <3>2, <3>3 DEF TxOp
  <2>5. PICK x, A, y, B : x = Fold(m) /\ A = SoFar(m) /\ y = Fold(m + 1) /\ B = SoFar(m + 1)
    OBVIOUS
  <2>. HIDE DEF Fold, SoFar
  <2>6. At(x, A, call, m + 1, {})
    <3>1. \A q \in A : q.call <= call /\ ~(q.call = call /\ q.tx = m + 1)
      <4>1. \A q \in A : q.tx \in Nat
        BY <2>1, <2>5 DEF Recorded, Occurrence
      <4>. QED
        BY <2>1, <2>5, <4>1
    <3>. QED
      BY <2>1, <2>5, <3>1 DEF At, Until
  <2>7. At(y, B, call, m + 1, Types)
    <3>1. y = AddTx(x, tx, n, m + 1) /\ m + 1 \in Nat
      BY <2>4, <2>5
    <3>2. B = A \cup TxSays(call, tx, n, m + 1)
      BY <2>3, <2>5
    <3>. QED
      BY <2>6, <3>1, <3>2, TxKeeps
  <2>8. ASSUME NEW q \in B PROVE q.call <= call /\ (q.call = call => q.tx <= m + 1)
    <3>1. CASE q \in A
      <4>1. q.tx \in Nat
        BY <2>1, <2>5, <3>1 DEF Recorded, Occurrence
      <4>. QED
        BY <2>1, <2>5, <3>1, <4>1
    <3>2. CASE q \in TxSays(call, tx, n, m + 1)
      BY <3>2 DEF TxSays, Occ
    <3>. QED
      BY <2>3, <2>5, <3>1, <3>2
  <2>. QED
    BY <2>5, <2>7, <2>8 DEF At
<1>5. Len(block) \in P
  <2>. HIDE DEF P
  <2>. QED
    BY <1>1, <1>3, <1>4, TxFold!Induction
<1>6. Graph(Fold(Len(block))) /\ Recorded(Fold(Len(block)), SoFar(Len(block)))
  BY <1>1, <1>5
<1>7. Processed(idx, block, n) = Fold(Len(block))
  <2>1. p.block = block /\ p.n = n
    OBVIOUS
  <2>. HIDE DEF p
  <2>2. DOMAIN p.block = 1..Len(block)
    BY <1>1, <2>1
  <2>3. Processed(idx, p.block, p.n) = TxFold!Fold(p, idx, UpTo(Len(block)))
    BY <2>2, ProcessedFold
  <2>. QED
    BY <2>1, <2>3
<1>. QED
  BY <1>6, <1>7

-----------------------------------------------------------------------------
(* The invariant.                                                          *)

\* What all calls of process_block said.
CallSays(k, n) == BlockSays(k, BlockAt(n), n, Len(BlockAt(n)))

History == UNION {CallSays(k, indexed[k]) : k \in DOMAIN indexed}

IndexInv ==
  /\ chain \in Seq(Seq(Transaction))
  /\ indexed \in Seq(Nat) /\ \A k \in DOMAIN indexed : indexed[k] <= Len(chain)
  /\ Graph(index) /\ Recorded(index, History)

LEMMA BlockType ==
  ASSUME NEW n \in Nat, chain \in Seq(Seq(Transaction)), n <= Len(chain)
  PROVE  BlockAt(n) \in Seq(Transaction)
<1>1. CASE n = 0
  BY <1>1 DEF BlockAt
<1>2. CASE n # 0
  <2>1. n \in 1..Len(chain)
    BY <1>2
  <2>. QED
    BY <1>2, <2>1 DEF BlockAt
<1>. QED
  BY <1>1, <1>2

LEMMA InitIndex == Init => IndexInv
<1> SUFFICES ASSUME Init PROVE IndexInv
  OBVIOUS
<1>1. chain = <<>> /\ indexed = <<>> /\ index = EmptyIndex
  BY DEF Init
<1>2. index.relations = <<>> /\ index.incoming = <<>> /\ index.profiles = <<>>
  BY <1>1 DEF EmptyIndex
<1>3. DOMAIN index.relations = {} /\ DOMAIN index.incoming = {} /\ DOMAIN index.profiles = {}
  BY <1>2
<1>4. EntitiesOf({}) = {} /\ \A e : To({}, e) = {}
  BY DEF EntitiesOf, To
<1>5. \A e : Incoming(index, e) = {}
  BY <1>3 DEF Incoming
<1>6. /\ index.relations \in [{} -> [weight : Nat, block : Nat]]
      /\ index.profiles \in [{} -> Profile]
  BY <1>2
<1>7. Graph(index)
  BY <1>3, <1>4, <1>5, <1>6, FS_EmptySet DEF Graph
<1>8. History = {}
  BY <1>1 DEF History
<1>9. Recorded(index, History)
  BY <1>3, <1>8, FS_EmptySet DEF Recorded
<1>10. chain \in Seq(Seq(Transaction)) /\ indexed \in Seq(Nat) /\ DOMAIN indexed = {}
  BY <1>1
<1>. QED
  BY <1>7, <1>9, <1>10 DEF IndexInv

LEMMA GrowKeeps ==
  ASSUME IndexInv, NEW block \in Block, Grow(block)
  PROVE  IndexInv'
<1>1. chain' = Append(chain, block) /\ UNCHANGED <<index, indexed>>
  BY DEF Grow, AppendBlock
<1>2. /\ chain \in Seq(Seq(Transaction))
      /\ indexed \in Seq(Nat) /\ \A k \in DOMAIN indexed : indexed[k] <= Len(chain)
      /\ Graph(index) /\ Recorded(index, History)
  BY DEF IndexInv
<1>3. block \in Seq(Transaction)
  <2>1. PICK k \in 1..MaxTxs : block \in [1..k -> Pool]
    BY DEF Block
  <2>2. block \in [1..k -> Transaction] /\ k \in Nat
    BY <2>1, ViewedChainAssumption
  <2>. QED
    BY <2>2
<1>4. chain' \in Seq(Seq(Transaction)) /\ Len(chain') = Len(chain) + 1
  BY <1>1, <1>2, <1>3
<1>5. ASSUME NEW k \in DOMAIN indexed PROVE CallSays(k, indexed[k])' = CallSays(k, indexed[k])
  <2>1. indexed[k] \in Nat /\ indexed[k] <= Len(chain)
    BY <1>2
  <2>2. BlockAt(indexed[k])' = BlockAt(indexed[k])
    BY <1>1, <1>2, <2>1 DEF BlockAt
  <2>. QED
    BY <1>1, <2>2 DEF CallSays
<1>6. History' = History
  BY <1>1, <1>5 DEF History
<1>7. \A k \in DOMAIN indexed' : indexed'[k] <= Len(chain')
  BY <1>1, <1>2, <1>4
<1>8. Graph(index)' /\ Recorded(index, History)'
  BY <1>1, <1>2, <1>6
<1>. QED
  BY <1>1, <1>2, <1>4, <1>7, <1>8 DEF IndexInv

LEMMA ProcessKeeps ==
  ASSUME IndexInv, NEW n \in Numbers(0), ProcessBlock(n)
  PROVE  IndexInv'
<1>1. index' = Processed(index, BlockAt(n), n) /\ indexed' = Append(indexed, n) /\ UNCHANGED chain
  BY DEF ProcessBlock
<1>2. /\ chain \in Seq(Seq(Transaction))
      /\ indexed \in Seq(Nat) /\ \A k \in DOMAIN indexed : indexed[k] <= Len(chain)
      /\ Graph(index) /\ Recorded(index, History)
  BY DEF IndexInv
<1>3. n \in Nat /\ n <= Len(chain)
  BY <1>2 DEF Numbers
<1>4. PICK call \in Nat : call = Len(indexed) + 1
  BY <1>2
<1>5. PICK block \in Seq(Transaction) : block = BlockAt(n)
  BY <1>2, <1>3, BlockType
<1>6. /\ DOMAIN indexed' = DOMAIN indexed \cup {call} /\ indexed'[call] = n
      /\ \A k \in DOMAIN indexed : indexed'[k] = indexed[k] /\ k < call /\ k \in Nat
  BY <1>1, <1>2, <1>3, <1>4
<1>7. \A m : BlockAt(m)' = BlockAt(m)
  BY <1>1 DEF BlockAt
<1>8. \A k, m : CallSays(k, m)' = CallSays(k, m)
  BY <1>7 DEF CallSays
<1>9. History' = History \cup BlockSays(call, block, n, Len(block))
  <2>1. History' = UNION {CallSays(k, indexed'[k]) : k \in DOMAIN indexed'}
    BY <1>8 DEF History
  <2>2. CallSays(call, n) = BlockSays(call, block, n, Len(block))
    BY <1>5 DEF CallSays
  <2>. QED
    BY <1>6, <2>1, <2>2 DEF History
<1>10. ASSUME NEW q \in History PROVE q.call < call
  <2>1. PICK k \in DOMAIN indexed : q \in CallSays(k, indexed[k])
    BY DEF History
  <2>2. q.call = k
    BY <2>1 DEF CallSays, BlockSays, TxSays, Occ
  <2>. QED
    BY <1>6, <2>2
<1>11. Graph(index') /\ Recorded(index', History')
  <2>1. PICK N : N = History'
    OBVIOUS
  <2>2. PICK O : O = History
    OBVIOUS
  <2>3. PICK old : old = index
    OBVIOUS
  <2>4. Graph(old) /\ Recorded(old, O) /\ \A q \in O : q.call < call
    BY <1>2, <1>10, <2>2, <2>3
  <2>5. N = O \cup BlockSays(call, block, n, Len(block))
    BY <1>9, <2>1, <2>2
  <2>6. Graph(Processed(old, block, n)) /\ Recorded(Processed(old, block, n), N)
    BY <1>3, <1>5, <2>4, <2>5, BlockKeeps
  <2>. QED
    BY <1>1, <1>5, <2>1, <2>3, <2>6
<1>12. indexed' \in Seq(Nat) /\ \A k \in DOMAIN indexed' : indexed'[k] <= Len(chain')
  BY <1>1, <1>2, <1>3, <1>6
<1>13. Graph(index)' /\ Recorded(index, History)'
  BY <1>11
<1>. QED
  BY <1>1, <1>2, <1>12, <1>13 DEF IndexInv

\* After any calls of process_block, in any order and with repetitions, the index is the
\* graph its relations make, and records what the blocks of the calls say
\* (relation_index.py:160-303).
THEOREM IndexIsKept == Spec => []IndexInv
<1>1. IndexInv /\ [Next]_vars => IndexInv'
  <2> SUFFICES ASSUME IndexInv, [Next]_vars PROVE IndexInv'
    OBVIOUS
  <2>1. CASE UNCHANGED vars
    <3>1. chain' = chain /\ index' = index /\ indexed' = indexed
      BY <2>1 DEF vars
    <3>2. \A m : BlockAt(m)' = BlockAt(m)
      BY <3>1 DEF BlockAt
    <3>3. \A k, m : CallSays(k, m)' = CallSays(k, m)
      BY <3>2 DEF CallSays
    <3>4. History' = History
      BY <3>1, <3>3 DEF History
    <3>5. Graph(index)' /\ Recorded(index, History)'
      BY <3>1, <3>4 DEF IndexInv
    <3>. QED
      BY <3>1, <3>5 DEF IndexInv
  <2>2. ASSUME NEW block \in Block, Grow(block) PROVE IndexInv'
    BY <2>2, GrowKeeps
  <2>3. ASSUME NEW n \in Numbers(0), ProcessBlock(n) PROVE IndexInv'
    BY <2>3, ProcessKeeps
  <2>. QED
    BY <2>1, <2>2, <2>3 DEF Next
<1>. QED
  BY <1>1, InitIndex, PTL DEF Spec

-----------------------------------------------------------------------------
(* Degrees.                                                                *)

LEMMA IndexDegrees == IndexInv => DegreesExact
<1> SUFFICES ASSUME IndexInv PROVE DegreesExact
  OBVIOUS
<1>1. PICK R : R = DOMAIN index.relations
  OBVIOUS
<1>2. /\ index.profiles \in [EntitiesOf(R) -> Profile]
      /\ \A e \in EntitiesOf(R) : Counts(index.profiles[e], R, e)
      /\ \A e : Incoming(index, e) = {r.source : r \in To(R, e)}
  BY <1>1 DEF IndexInv, Graph
<1>3. UNION {{r.source, r.target} : r \in DOMAIN index.relations} = EntitiesOf(R)
  BY <1>1 DEF EntitiesOf
<1>4. DOMAIN index.profiles = EntitiesOf(R)
  BY <1>2
<1>5. ASSUME NEW e \in EntitiesOf(R)
      PROVE  LET out == {r \in DOMAIN index.relations : r.source = e}
                 in  == {r \in DOMAIN index.relations : r.target = e}
             IN  /\ index.profiles[e].relation_count = Cardinality(out)
                 /\ index.profiles[e].incoming_count = Cardinality(in)
                 /\ index.profiles[e].touched = {r.target[1] : r \in out} \cup {r.source[1] : r \in in}
                 /\ Incoming(index, e) = {r.source : r \in in}
  <2>1. /\ {r \in DOMAIN index.relations : r.source = e} = From(R, e)
        /\ {r \in DOMAIN index.relations : r.target = e} = To(R, e)
    BY <1>1 DEF From, To
  <2>2. Counts(index.profiles[e], R, e) /\ Incoming(index, e) = {r.source : r \in To(R, e)}
    BY <1>2
  <2>. QED
    BY <2>1, <2>2 DEF Counts
<1>. QED
  BY <1>3, <1>4, <1>5 DEF DegreesExact

-----------------------------------------------------------------------------
(* What the relations are.                                                 *)

LEMMA HistoryIs ==
  ASSUME IndexInv, NEW o
  PROVE  o \in History <=>
           \E k \in DOMAIN indexed : \E i \in DOMAIN BlockAt(indexed[k]) :
             \E r \in Told(BlockAt(indexed[k])[i], indexed[k], i) : o = Occ(k, i, r, indexed[k])
<1>1. ASSUME NEW k \in DOMAIN indexed
      PROVE  /\ indexed[k] \in Nat /\ BlockAt(indexed[k]) \in Seq(Transaction)
             /\ DOMAIN BlockAt(indexed[k]) = 1..Len(BlockAt(indexed[k]))
  <2>1. indexed[k] \in Nat /\ indexed[k] <= Len(chain) /\ chain \in Seq(Seq(Transaction))
    BY DEF IndexInv
  <2>2. BlockAt(indexed[k]) \in Seq(Transaction)
    BY <2>1, BlockType
  <2>. QED
    BY <2>1, <2>2
<1>2. ASSUME NEW k \in DOMAIN indexed, NEW i \in DOMAIN BlockAt(indexed[k])
      PROVE  ToSet(RelationsOfTx(BlockAt(indexed[k])[i], indexed[k], i)) = Told(BlockAt(indexed[k])[i], indexed[k], i)
  <2>1. PICK tx \in Transaction : tx = BlockAt(indexed[k])[i]
    BY <1>1
  <2>2. ToSet(RelationsOfTx(tx, indexed[k], i)) = Told(tx, indexed[k], i)
    BY TxSteps
  <2>. QED
    BY <2>1, <2>2
<1>3. o \in History <=> \E k \in DOMAIN indexed : o \in CallSays(k, indexed[k])
  BY DEF History
<1>4. ASSUME NEW k \in DOMAIN indexed
      PROVE  o \in CallSays(k, indexed[k]) <=>
               \E i \in DOMAIN BlockAt(indexed[k]) :
                 \E r \in ToSet(RelationsOfTx(BlockAt(indexed[k])[i], indexed[k], i)) : o = Occ(k, i, r, indexed[k])
  BY <1>1 DEF CallSays, BlockSays, TxSays
<1>. QED
  BY <1>2, <1>3, <1>4

\* That a block that was handed over says so.
SaidIn(n, r) == n \in ToSet(indexed) /\ \E i \in DOMAIN BlockAt(n) : r \in Told(BlockAt(n)[i], n, i)

LEMMA RelationsAre ==
  ASSUME IndexInv, NEW r
  PROVE  r \in DOMAIN index.relations <=> \E n : SaidIn(n, r)
<1>1. r \in DOMAIN index.relations <=> \E o \in History : o.rel = r
  BY DEF IndexInv, Recorded
<1>2. ASSUME NEW o \in History, o.rel = r PROVE \E n : SaidIn(n, r)
  <2>1. PICK k \in DOMAIN indexed :
          \E i \in DOMAIN BlockAt(indexed[k]) :
            \E q \in Told(BlockAt(indexed[k])[i], indexed[k], i) : o = Occ(k, i, q, indexed[k])
    BY HistoryIs
  <2>2. PICK i \in DOMAIN BlockAt(indexed[k]) :
          \E q \in Told(BlockAt(indexed[k])[i], indexed[k], i) : o = Occ(k, i, q, indexed[k])
    BY <2>1
  <2>3. r \in Told(BlockAt(indexed[k])[i], indexed[k], i)
    BY <1>2, <2>2 DEF Occ
  <2>. QED
    BY <2>3 DEF SaidIn, ToSet
<1>3. ASSUME NEW n, SaidIn(n, r) PROVE \E o \in History : o.rel = r
  <2>1. PICK k \in DOMAIN indexed : indexed[k] = n
    BY <1>3 DEF SaidIn, ToSet
  <2>2. PICK i \in DOMAIN BlockAt(n) : r \in Told(BlockAt(n)[i], n, i)
    BY <1>3 DEF SaidIn
  <2>3. Occ(k, i, r, n) \in History
    BY <2>1, <2>2, HistoryIs
  <2>4. Occ(k, i, r, n).rel = r
    BY DEF Occ
  <2>. QED
    BY <2>3, <2>4
<1>. QED
  BY <1>1, <1>2, <1>3

LEMMA ToldIs ==
  ASSUME NEW tx \in Transaction, NEW n, NEW i, NEW r
  PROVE  r \in Told(tx, n, i) <=>
           \/ tx.table # NoTable /\ r = TouchesTable(tx, n, i)
           \/ tx.account # NoAccount /\ r = SubmitsTx(tx, n, i)
           \/ r = ContainsTx(tx, n, i)
           \/ tx.creates /\ tx.table # NoTable /\ r = OwnsTable(tx, n, i)
           \/ tx.table # NoTable /\ r = TouchesBlock(tx, n, i)
BY DEF Told, SetIf

LEMMA HandedOver ==
  ASSUME IndexInv, NEW n \in ToSet(indexed)
  PROVE  n \in Numbers(0) /\ n \in Nat /\ BlockAt(n) \in Seq(Transaction)
<1>1. n \in Nat /\ n <= Len(chain) /\ chain \in Seq(Seq(Transaction))
  BY DEF ToSet, IndexInv
<1>2. BlockAt(n) \in Seq(Transaction)
  BY <1>1, BlockType
<1>. QED
  BY <1>1, <1>2 DEF Numbers

\* A relation of a type is said by a transaction that names a table, and so on.
LEMMA Say ==
  ASSUME IndexInv, NEW r
  PROVE  r \in DOMAIN index.relations <=>
           \E n \in ToSet(indexed) : \E i \in DOMAIN BlockAt(n) :
             \/ BlockAt(n)[i].table # NoTable /\ r = TouchesTable(BlockAt(n)[i], n, i)
             \/ BlockAt(n)[i].account # NoAccount /\ r = SubmitsTx(BlockAt(n)[i], n, i)
             \/ r = ContainsTx(BlockAt(n)[i], n, i)
             \/ BlockAt(n)[i].creates /\ BlockAt(n)[i].table # NoTable /\ r = OwnsTable(BlockAt(n)[i], n, i)
             \/ BlockAt(n)[i].table # NoTable /\ r = TouchesBlock(BlockAt(n)[i], n, i)
<1>1. ASSUME NEW n \in ToSet(indexed), NEW i \in DOMAIN BlockAt(n)
      PROVE  BlockAt(n)[i] \in Transaction
  <2>1. BlockAt(n) \in Seq(Transaction)
    BY HandedOver
  <2>. QED
    BY <2>1
<1>2. r \in DOMAIN index.relations <=> \E n \in ToSet(indexed) : \E i \in DOMAIN BlockAt(n) : r \in Told(BlockAt(n)[i], n, i)
  BY RelationsAre DEF SaidIn
<1>. QED
  BY <1>1, <1>2, ToldIs

-----------------------------------------------------------------------------
(* Weights, block numbers and times.                                       *)

LEMMA MaxIs ==
  ASSUME NEW S \in SUBSET Nat, NEW m \in S, \A x \in S : x <= m
  PROVE  Max(S) = m
<1>1. \A x \in S : m >= x
  OBVIOUS
<1>2. Max(S) \in S /\ \A x \in S : Max(S) >= x
  BY <1>1 DEF Max
<1>3. Max(S) \in Nat /\ Max(S) >= m /\ Max(S) <= m
  BY <1>2
<1>. QED
  BY <1>3

LEMMA MinIs ==
  ASSUME NEW S \in SUBSET Nat, NEW m \in S, \A x \in S : m <= x
  PROVE  Min(S) = m
<1>1. Min(S) \in S /\ \A x \in S : Min(S) <= x
  BY DEF Min
<1>2. Min(S) \in Nat /\ Min(S) <= m /\ Min(S) >= m
  BY <1>1
<1>. QED
  BY <1>2

LEMMA OccurrenceAt ==
  ASSUME IndexInv, NEW k, NEW r
  PROVE  /\ k \in DOMAIN indexed => (r \in RelationsOfBlock(indexed[k]) <=>
              \E o \in History : o.call = k /\ o.rel = r)
         /\ \A i : k \in DOMAIN indexed /\ i \in DOMAIN BlockAt(indexed[k]) =>
              (Says(indexed[k], i, r) <=> \E o \in History : o.call = k /\ o.tx = i /\ o.rel = r)
<1>1. ASSUME NEW i, k \in DOMAIN indexed, i \in DOMAIN BlockAt(indexed[k])
      PROVE  Says(indexed[k], i, r) <=> \E o \in History : o.call = k /\ o.tx = i /\ o.rel = r
  <2>1. indexed[k] \in ToSet(indexed)
    BY <1>1 DEF ToSet
  <2>2. BlockAt(indexed[k])[i] \in Transaction
    BY <1>1, <2>1, HandedOver
  <2>3. PICK tx \in Transaction : tx = BlockAt(indexed[k])[i]
    BY <2>2
  <2>4. ToSet(RelationsOfTx(tx, indexed[k], i)) = Told(tx, indexed[k], i)
    BY TxSteps
  <2>5. Says(indexed[k], i, r) <=> r \in Told(BlockAt(indexed[k])[i], indexed[k], i)
    BY <2>3, <2>4 DEF Says
  <2>6. ASSUME r \in Told(BlockAt(indexed[k])[i], indexed[k], i)
        PROVE  \E o \in History : o.call = k /\ o.tx = i /\ o.rel = r
    <3>1. Occ(k, i, r, indexed[k]) \in History
      BY <1>1, <2>6, HistoryIs
    <3>. QED
      BY <3>1 DEF Occ
  <2>7. ASSUME NEW o \in History, o.call = k, o.tx = i, o.rel = r
        PROVE  r \in Told(BlockAt(indexed[k])[i], indexed[k], i)
    <3>1. \E l \in DOMAIN indexed : \E j \in DOMAIN BlockAt(indexed[l]) :
            \E q \in Told(BlockAt(indexed[l])[j], indexed[l], j) : o = Occ(l, j, q, indexed[l])
      BY HistoryIs
    <3>. QED
      BY <2>7, <3>1 DEF Occ
  <2>. QED
    BY <2>5, <2>6, <2>7
<1>2. ASSUME k \in DOMAIN indexed
      PROVE  r \in RelationsOfBlock(indexed[k]) <=> \E o \in History : o.call = k /\ o.rel = r
  <2>1. r \in RelationsOfBlock(indexed[k]) <=> \E i \in DOMAIN BlockAt(indexed[k]) : Says(indexed[k], i, r)
    BY DEF RelationsOfBlock, Says
  <2>2. ASSUME NEW o \in History, o.call = k PROVE o.tx \in DOMAIN BlockAt(indexed[k])
    <3>1. \E l \in DOMAIN indexed : \E j \in DOMAIN BlockAt(indexed[l]) :
            \E q \in Told(BlockAt(indexed[l])[j], indexed[l], j) : o = Occ(l, j, q, indexed[l])
      BY HistoryIs
    <3>. QED
      BY <2>2, <3>1 DEF Occ
  <2>. QED
    BY <1>1, <1>2, <2>1, <2>2
<1>. QED
  BY <1>1, <1>2

LEMMA OccurrenceCall ==
  ASSUME IndexInv, NEW o \in History
  PROVE  /\ o.call \in DOMAIN indexed /\ o.block = indexed[o.call] /\ o.block \in ToSet(indexed)
         /\ o.tx \in DOMAIN BlockAt(indexed[o.call])
<1>1. \E l \in DOMAIN indexed : \E j \in DOMAIN BlockAt(indexed[l]) :
        \E q \in Told(BlockAt(indexed[l])[j], indexed[l], j) : o = Occ(l, j, q, indexed[l])
  BY HistoryIs
<1>. QED
  BY <1>1 DEF Occ, ToSet

\* A block that speaks of an entity does so in a relation that tells the block, unless it
\* is of the empty account.
LEMMA Witnessed ==
  ASSUME IndexInv, NEW o \in History, NEW e, Of(o, e), e # AccountEntity(NoAccount)
  PROVE  \E q \in History : Of(q, e) /\ q.rel.type # "account_owns_table" /\ q.block = o.block
<1>1. PICK k \in DOMAIN indexed :
        \E i \in DOMAIN BlockAt(indexed[k]) :
          \E r \in Told(BlockAt(indexed[k])[i], indexed[k], i) : o = Occ(k, i, r, indexed[k])
  BY HistoryIs
<1>2. PICK i \in DOMAIN BlockAt(indexed[k]) :
        \E r \in Told(BlockAt(indexed[k])[i], indexed[k], i) : o = Occ(k, i, r, indexed[k])
  BY <1>1
<1>3. PICK n, tx : n = indexed[k] /\ tx = BlockAt(n)[i]
  OBVIOUS
<1>4. PICK r \in Told(tx, n, i) : o = Occ(k, i, r, n)
  BY <1>2, <1>3
<1>5. o.rel = r /\ o.block = n
  BY <1>4 DEF Occ
<1>6. CASE r.type # "account_owns_table"
  BY <1>5, <1>6
<1>7. CASE r.type = "account_owns_table"
  <2>1. tx \in Transaction
    <3>1. n \in ToSet(indexed)
      BY <1>3 DEF ToSet
    <3>. QED
      BY <1>2, <1>3, <3>1, HandedOver
  <2>2. tx.table # NoTable /\ r = OwnsTable(tx, n, i)
    BY <1>4, <1>7, <2>1, ToldIs
    DEF TouchesTable, SubmitsTx, ContainsTx, OwnsTable, TouchesBlock, Relation
  <2>3. ASSUME NEW q \in Told(tx, n, i), e \in {q.source, q.target}, q.type # "account_owns_table"
        PROVE  \E x \in History : Of(x, e) /\ x.rel.type # "account_owns_table" /\ x.block = o.block
    <3>1. Occ(k, i, q, n) \in History
      BY <1>2, <1>3, HistoryIs
    <3>. QED
      BY <1>5, <2>3, <3>1 DEF Occ, Of
  <2>4. CASE e = TableEntity(tx.table)
    <3>1. TouchesTable(tx, n, i) \in Told(tx, n, i)
      BY <2>1, <2>2, ToldIs
    <3>2. /\ TouchesTable(tx, n, i).target = e
          /\ TouchesTable(tx, n, i).type # "account_owns_table"
      BY <2>4 DEF TouchesTable, Relation
    <3>. QED
      BY <2>3, <3>1, <3>2
  <2>5. CASE e = AccountEntity(tx.account)
    <3>1. tx.account # NoAccount
      BY <2>5
    <3>2. SubmitsTx(tx, n, i) \in Told(tx, n, i)
      BY <2>1, <3>1, ToldIs
    <3>3. /\ SubmitsTx(tx, n, i).source = e
          /\ SubmitsTx(tx, n, i).type # "account_owns_table"
      BY <2>5 DEF SubmitsTx, Relation
    <3>. QED
      BY <2>3, <3>2, <3>3
  <2>. QED
    BY <1>5, <2>2, <2>4, <2>5 DEF Of, OwnsTable, Relation
<1>. QED
  BY <1>6, <1>7

LEMMA IndexHistory == IndexInv => HistoryExact
<1> SUFFICES ASSUME IndexInv PROVE HistoryExact
  OBVIOUS
<1>1. Recorded(index, History) /\ Graph(index) /\ indexed \in Seq(Nat)
  BY DEF IndexInv
<1>2. ToSet(indexed) \in SUBSET Nat /\ DOMAIN indexed \in SUBSET Nat
  BY <1>1 DEF ToSet
<1>3. ASSUME NEW r \in DOMAIN index.relations
      PROVE  index.relations[r].weight = Cardinality(Given(r))
  <2>1. Given(r) = Sayings(History, r)
    <3>1. ASSUME NEW x \in Given(r) PROVE x \in Sayings(History, r)
      <4>1. PICK k \in DOMAIN indexed : \E i \in DOMAIN BlockAt(indexed[k]) : Says(indexed[k], i, r) /\ x = <<k, i>>
        BY <3>1 DEF Given
      <4>2. PICK i \in DOMAIN BlockAt(indexed[k]) : Says(indexed[k], i, r) /\ x = <<k, i>>
        BY <4>1
      <4>3. \E o \in History : o.call = k /\ o.tx = i /\ o.rel = r
        BY <4>2, OccurrenceAt
      <4>. QED
        BY <4>2, <4>3 DEF Sayings
    <3>2. ASSUME NEW x \in Sayings(History, r) PROVE x \in Given(r)
      <4>1. PICK o \in History : o.rel = r /\ x = <<o.call, o.tx>>
        BY <3>2 DEF Sayings
      <4>2. o.call \in DOMAIN indexed /\ o.tx \in DOMAIN BlockAt(indexed[o.call])
        BY OccurrenceCall
      <4>3. Says(indexed[o.call], o.tx, r)
        BY <4>1, <4>2, OccurrenceAt
      <4>. QED
        BY <4>1, <4>2, <4>3 DEF Given
    <3>. QED
      BY <3>1, <3>2
  <2>. QED
    BY <1>1, <2>1 DEF Recorded
<1>4. ASSUME NEW r \in DOMAIN index.relations
      PROVE  index.relations[r].block = Max({n \in ToSet(indexed) : r \in RelationsOfBlock(n)})
  <2>1. PICK b : b = index.relations[r].block
    OBVIOUS
  <2>2. Latest(b, History, r)
    BY <1>1, <2>1 DEF Recorded
  <2>3. PICK S \in SUBSET Nat : S = {n \in ToSet(indexed) : r \in RelationsOfBlock(n)}
    BY <1>2
  <2>4. b \in S
    <3>1. PICK o \in History : o.rel = r /\ o.block = b
      BY <2>2 DEF Latest
    <3>2. o.call \in DOMAIN indexed /\ o.block = indexed[o.call] /\ o.block \in ToSet(indexed)
      BY OccurrenceCall
    <3>3. r \in RelationsOfBlock(indexed[o.call])
      BY <3>1, <3>2, OccurrenceAt
    <3>. QED
      BY <2>3, <3>1, <3>2, <3>3
  <2>5. ASSUME NEW n \in S PROVE n <= b
    <3>1. PICK k \in DOMAIN indexed : indexed[k] = n
      BY <2>3 DEF ToSet
    <3>2. r \in RelationsOfBlock(indexed[k])
      BY <2>3, <3>1
    <3>3. PICK o \in History : o.call = k /\ o.rel = r
      BY <3>2, OccurrenceAt
    <3>4. o.block = n
      BY <3>1, <3>3, OccurrenceCall
    <3>. QED
      BY <2>2, <3>3, <3>4 DEF Latest
  <2>6. Max(S) = b
    BY <2>4, <2>5, MaxIs
  <2>. QED
    BY <2>1, <2>3, <2>6
<1>5. ASSUME NEW e, NEW k \in DOMAIN indexed
      PROVE  Mentions(indexed[k], e) <=> \E o \in History : o.call = k /\ Of(o, e)
  <2>1. ASSUME Mentions(indexed[k], e) PROVE \E o \in History : o.call = k /\ Of(o, e)
    <3>1. PICK r \in RelationsOfBlock(indexed[k]) : e \in {r.source, r.target}
      BY <2>1 DEF Mentions
    <3>2. PICK o \in History : o.call = k /\ o.rel = r
      BY OccurrenceAt
    <3>. QED
      BY <3>1, <3>2 DEF Of
  <2>2. ASSUME NEW o \in History, o.call = k, Of(o, e) PROVE Mentions(indexed[k], e)
    <3>1. o.rel \in RelationsOfBlock(indexed[k])
      BY <2>2, OccurrenceAt
    <3>. QED
      BY <2>2, <3>1 DEF Mentions, Of
  <2>. QED
    BY <2>1, <2>2
<1>6. ASSUME NEW e \in DOMAIN index.profiles \ {AccountEntity(NoAccount)}
      PROVE  LET seen == {k \in DOMAIN indexed : Mentions(indexed[k], e)}
             IN  /\ index.profiles[e].first_seen = indexed[Min(seen)]
                 /\ index.profiles[e].last_seen = Max({indexed[k] : k \in seen})
  <2>1. PICK f, b : f = index.profiles[e].first_seen /\ b = index.profiles[e].last_seen
    OBVIOUS
  <2>2. FirstOf(f, History, e) /\ LastOf(b, History, e)
    BY <1>1, <2>1 DEF Recorded
  <2>3. PICK seen \in SUBSET Nat : seen = {k \in DOMAIN indexed : Mentions(indexed[k], e)}
    BY <1>2
  <2>4. \A k : k \in seen <=> k \in DOMAIN indexed /\ \E o \in History : o.call = k /\ Of(o, e)
    BY <1>5, <2>3
  <2>5. f = indexed[Min(seen)]
    <3>1. PICK o \in History : Of(o, e) /\ o.block = f /\ \A q \in History : Of(q, e) => o.call <= q.call
      BY <2>2 DEF FirstOf
    <3>2. o.call \in seen /\ \A k \in seen : o.call <= k
      BY <2>4, <3>1, OccurrenceCall
    <3>3. Min(seen) = o.call
      BY <3>2, MinIs
    <3>. QED
      BY <3>1, <3>3, OccurrenceCall
  <2>6. PICK S \in SUBSET Nat : S = {indexed[k] : k \in seen}
    <3>1. \A k \in seen : indexed[k] \in Nat
      BY <1>1, <2>3
    <3>2. {indexed[k] : k \in seen} \in SUBSET Nat
      BY <3>1
    <3>. QED
      BY <3>2
  <2>7. b \in S
    <3>1. PICK o \in History : Of(o, e) /\ o.block = b
      BY <2>2 DEF LastOf
    <3>2. o.call \in seen /\ indexed[o.call] = b
      BY <2>4, <3>1, OccurrenceCall
    <3>. QED
      BY <2>6, <3>2
  <2>8. ASSUME NEW n \in S PROVE n <= b
    <3>1. PICK k \in seen : n = indexed[k]
      BY <2>6
    <3>2. PICK o \in History : o.call = k /\ Of(o, e)
      BY <2>4
    <3>3. o.block = n
      BY <3>1, <3>2, OccurrenceCall
    <3>4. \E q \in History : Of(q, e) /\ q.rel.type # "account_owns_table" /\ q.block = n
      <4>1. e # AccountEntity(NoAccount)
        OBVIOUS
      <4>. QED
        BY <3>2, <3>3, <4>1, Witnessed
    <3>. QED
      BY <2>2, <3>4 DEF LastOf
  <2>9. Max(S) = b
    BY <2>7, <2>8, MaxIs
  <2>. QED
    BY <2>1, <2>3, <2>5, <2>6, <2>9
<1>. QED
  BY <1>3, <1>4, <1>6 DEF HistoryExact

-----------------------------------------------------------------------------
(* The answers.                                                            *)

\* The transactions of the blocks that were handed over that name a table.
Trail(t) == {entry \in AuditTrail(t) : entry[1] \in ToSet(indexed)}

LEMMA TrailIs ==
  ASSUME IndexInv, NEW t
  PROVE  /\ \A n, i : <<n, i>> \in Trail(t) <=>
              n \in ToSet(indexed) /\ i \in DOMAIN BlockAt(n) /\ BlockAt(n)[i].table = t
         /\ \A entry \in Trail(t) : entry = <<entry[1], entry[2]>>
<1>1. \A n \in ToSet(indexed) : n \in Numbers(0)
  BY HandedOver
<1>2. \A entry : entry \in AuditTrail(t) <=>
        \E n \in Numbers(0) : \E i \in DOMAIN BlockAt(n) : BlockAt(n)[i].table = t /\ entry = <<n, i>>
  BY DEF AuditTrail, Entries
<1>3. ASSUME NEW n, NEW i
      PROVE  <<n, i>> \in Trail(t) <=>
               n \in ToSet(indexed) /\ i \in DOMAIN BlockAt(n) /\ BlockAt(n)[i].table = t
  <2>1. <<n, i>> \in AuditTrail(t) <=> n \in Numbers(0) /\ i \in DOMAIN BlockAt(n) /\ BlockAt(n)[i].table = t
    BY <1>2
  <2>. QED
    BY <1>1, <2>1 DEF Trail
<1>4. \A entry \in Trail(t) : entry = <<entry[1], entry[2]>>
  BY <1>2 DEF Trail
<1>. QED
  BY <1>3, <1>4

\* What a relation of a type says.
LEMMA SayTypes ==
  ASSUME IndexInv, NEW r
  PROVE  /\ r \in DOMAIN index.relations /\ r.type = "tx_touches_table" <=>
              \E n \in ToSet(indexed) : \E i \in DOMAIN BlockAt(n) :
                BlockAt(n)[i].table # NoTable /\ r = TouchesTable(BlockAt(n)[i], n, i)
         /\ r \in DOMAIN index.relations /\ r.type = "account_submits_tx" <=>
              \E n \in ToSet(indexed) : \E i \in DOMAIN BlockAt(n) :
                BlockAt(n)[i].account # NoAccount /\ r = SubmitsTx(BlockAt(n)[i], n, i)
         /\ r \in DOMAIN index.relations /\ r.type = "account_owns_table" <=>
              \E n \in ToSet(indexed) : \E i \in DOMAIN BlockAt(n) :
                /\ BlockAt(n)[i].creates /\ BlockAt(n)[i].table # NoTable
                /\ r = OwnsTable(BlockAt(n)[i], n, i)
         /\ r \in DOMAIN index.relations /\ r.type = "table_touches_block" <=>
              \E n \in ToSet(indexed) : \E i \in DOMAIN BlockAt(n) :
                BlockAt(n)[i].table # NoTable /\ r = TouchesBlock(BlockAt(n)[i], n, i)
<1>1. ASSUME NEW tx, NEW n, NEW i
      PROVE  /\ TouchesTable(tx, n, i).type = "tx_touches_table"
             /\ SubmitsTx(tx, n, i).type = "account_submits_tx"
             /\ ContainsTx(tx, n, i).type = "block_contains_tx"
             /\ OwnsTable(tx, n, i).type = "account_owns_table"
             /\ TouchesBlock(tx, n, i).type = "table_touches_block"
  BY DEF TouchesTable, SubmitsTx, ContainsTx, OwnsTable, TouchesBlock, Relation
<1>2. r \in DOMAIN index.relations /\ r.type = "tx_touches_table" <=>
        \E n \in ToSet(indexed) : \E i \in DOMAIN BlockAt(n) :
          BlockAt(n)[i].table # NoTable /\ r = TouchesTable(BlockAt(n)[i], n, i)
  BY <1>1, Say
<1>3. r \in DOMAIN index.relations /\ r.type = "account_submits_tx" <=>
        \E n \in ToSet(indexed) : \E i \in DOMAIN BlockAt(n) :
          BlockAt(n)[i].account # NoAccount /\ r = SubmitsTx(BlockAt(n)[i], n, i)
  BY <1>1, Say
<1>4. r \in DOMAIN index.relations /\ r.type = "account_owns_table" <=>
        \E n \in ToSet(indexed) : \E i \in DOMAIN BlockAt(n) :
          BlockAt(n)[i].creates /\ BlockAt(n)[i].table # NoTable /\ r = OwnsTable(BlockAt(n)[i], n, i)
  BY <1>1, Say
<1>5. r \in DOMAIN index.relations /\ r.type = "table_touches_block" <=>
        \E n \in ToSet(indexed) : \E i \in DOMAIN BlockAt(n) :
          BlockAt(n)[i].table # NoTable /\ r = TouchesBlock(BlockAt(n)[i], n, i)
  BY <1>1, Say
<1>. QED
  BY <1>2, <1>3, <1>4, <1>5

\* The reverse index loses no relation.
LEMMA IncomingIs ==
  ASSUME IndexInv, NEW e, NEW type, NEW r
  PROVE  r \in IncomingOf(e, type) <=> r \in DOMAIN index.relations /\ r.target = e /\ r.type = type
<1>1. Incoming(index, e) = {q.source : q \in To(DOMAIN index.relations, e)}
  BY DEF IndexInv, Graph
<1>2. ASSUME r \in DOMAIN index.relations, r.target = e PROVE r.source \in Incoming(index, e)
  BY <1>1, <1>2 DEF To
<1>. QED
  BY <1>2 DEF IncomingOf, Outgoing

LEMMA BlocksModifiedIs ==
  ASSUME IndexInv, NEW t \in Tables
  PROVE  BlocksModified(t) = {entry[1] : entry \in Trail(t)}
<1>1. ASSUME NEW n \in BlocksModified(t) PROVE n \in {entry[1] : entry \in Trail(t)}
  <2>1. PICK r \in DOMAIN index.relations :
          r.source = TableEntity(t) /\ r.type = "table_touches_block" /\ n = r.target[2]
    BY <1>1 DEF BlocksModified, Outgoing
  <2>2. PICK m \in ToSet(indexed) : \E i \in DOMAIN BlockAt(m) : r = TouchesBlock(BlockAt(m)[i], m, i)
    BY <2>1, SayTypes
  <2>3. PICK i \in DOMAIN BlockAt(m) : r = TouchesBlock(BlockAt(m)[i], m, i)
    BY <2>2
  <2>4. BlockAt(m)[i].table = t /\ m = n
    BY <2>1, <2>3 DEF TouchesBlock, Relation, TableEntity, BlockEntity
  <2>5. <<m, i>> \in Trail(t)
    BY <2>4, TrailIs
  <2>. QED
    BY <2>4, <2>5
<1>2. ASSUME NEW entry \in Trail(t) PROVE entry[1] \in BlocksModified(t)
  <2>1. PICK n, i : entry = <<n, i>>
    BY TrailIs
  <2>2. n \in ToSet(indexed) /\ i \in DOMAIN BlockAt(n) /\ BlockAt(n)[i].table = t
    BY <2>1, TrailIs
  <2>3. PICK r : r = TouchesBlock(BlockAt(n)[i], n, i)
    OBVIOUS
  <2>4. r \in DOMAIN index.relations /\ r.type = "table_touches_block"
    BY <2>2, <2>3, SayTypes, ViewedChainAssumption
  <2>5. r.source = TableEntity(t) /\ r.target[2] = n
    BY <2>2, <2>3 DEF TouchesBlock, Relation, BlockEntity
  <2>. QED
    BY <2>1, <2>4, <2>5 DEF BlocksModified, Outgoing
<1>. QED
  BY <1>1, <1>2

LEMMA TransactionsOfIs ==
  ASSUME IndexInv, NEW t \in Tables
  PROVE  TransactionsOf(t) = {TxEntity(entry[1], entry[2]) : entry \in Trail(t)}
<1>1. ASSUME NEW x \in TransactionsOf(t) PROVE x \in {TxEntity(entry[1], entry[2]) : entry \in Trail(t)}
  <2>1. PICK r \in IncomingOf(TableEntity(t), "tx_touches_table") : x = r.source
    BY <1>1 DEF TransactionsOf
  <2>2. r \in DOMAIN index.relations /\ r.target = TableEntity(t) /\ r.type = "tx_touches_table"
    BY <2>1, IncomingIs
  <2>3. PICK n \in ToSet(indexed) : \E i \in DOMAIN BlockAt(n) : r = TouchesTable(BlockAt(n)[i], n, i)
    BY <2>2, SayTypes
  <2>4. PICK i \in DOMAIN BlockAt(n) : r = TouchesTable(BlockAt(n)[i], n, i)
    BY <2>3
  <2>5. BlockAt(n)[i].table = t /\ x = TxEntity(n, i)
    BY <2>1, <2>2, <2>4 DEF TouchesTable, Relation, TableEntity
  <2>6. <<n, i>> \in Trail(t)
    BY <2>5, TrailIs
  <2>. QED
    BY <2>5, <2>6
<1>2. ASSUME NEW entry \in Trail(t) PROVE TxEntity(entry[1], entry[2]) \in TransactionsOf(t)
  <2>1. PICK n, i : entry = <<n, i>>
    BY TrailIs
  <2>2. n \in ToSet(indexed) /\ i \in DOMAIN BlockAt(n) /\ BlockAt(n)[i].table = t
    BY <2>1, TrailIs
  <2>3. PICK r : r = TouchesTable(BlockAt(n)[i], n, i)
    OBVIOUS
  <2>4. r \in DOMAIN index.relations /\ r.type = "tx_touches_table"
    BY <2>2, <2>3, SayTypes, ViewedChainAssumption
  <2>5. r.target = TableEntity(t) /\ r.source = TxEntity(n, i)
    BY <2>2, <2>3 DEF TouchesTable, Relation
  <2>6. r \in IncomingOf(TableEntity(t), "tx_touches_table")
    BY <2>4, <2>5, IncomingIs
  <2>. QED
    BY <2>1, <2>5, <2>6 DEF TransactionsOf
<1>. QED
  BY <1>1, <1>2

LEMMA OwnersAre ==
  ASSUME IndexInv, NEW t \in Tables
  PROVE  Owners(t) = {BlockAt(e[1])[e[2]].account : e \in {f \in Trail(t) : BlockAt(f[1])[f[2]].creates}}
<1> DEFINE Creators == {BlockAt(e[1])[e[2]].account : e \in {f \in Trail(t) : BlockAt(f[1])[f[2]].creates}}
<1>1. ASSUME NEW a \in Owners(t) PROVE a \in Creators
  <2>1. PICK r \in IncomingOf(TableEntity(t), "account_owns_table") : a = r.source[2]
    BY <1>1 DEF Owners
  <2>2. r \in DOMAIN index.relations /\ r.target = TableEntity(t) /\ r.type = "account_owns_table"
    BY <2>1, IncomingIs
  <2>3. PICK n \in ToSet(indexed) : \E i \in DOMAIN BlockAt(n) :
          BlockAt(n)[i].creates /\ r = OwnsTable(BlockAt(n)[i], n, i)
    BY <2>2, SayTypes
  <2>4. PICK i \in DOMAIN BlockAt(n) : BlockAt(n)[i].creates /\ r = OwnsTable(BlockAt(n)[i], n, i)
    BY <2>3
  <2>5. BlockAt(n)[i].table = t /\ a = BlockAt(n)[i].account
    BY <2>1, <2>2, <2>4 DEF OwnsTable, Relation, TableEntity, AccountEntity
  <2>6. <<n, i>> \in Trail(t)
    BY <2>5, TrailIs
  <2>. QED
    BY <2>4, <2>5, <2>6
<1>2. ASSUME NEW a \in Creators PROVE a \in Owners(t)
  <2>0. PICK entry \in Trail(t) : BlockAt(entry[1])[entry[2]].creates /\ a = BlockAt(entry[1])[entry[2]].account
    BY <1>2
  <2>1. PICK n, i : entry = <<n, i>>
    BY TrailIs
  <2>2. /\ n \in ToSet(indexed) /\ i \in DOMAIN BlockAt(n) /\ BlockAt(n)[i].table = t
        /\ BlockAt(n)[i].creates /\ a = BlockAt(n)[i].account
    BY <2>0, <2>1, TrailIs
  <2>3. PICK r : r = OwnsTable(BlockAt(n)[i], n, i)
    OBVIOUS
  <2>4. r \in DOMAIN index.relations /\ r.type = "account_owns_table"
    BY <2>2, <2>3, SayTypes, ViewedChainAssumption
  <2>5. r.target = TableEntity(t) /\ r.source[2] = a
    BY <2>2, <2>3 DEF OwnsTable, Relation, AccountEntity
  <2>6. r \in IncomingOf(TableEntity(t), "account_owns_table")
    BY <2>4, <2>5, IncomingIs
  <2>. QED
    BY <2>5, <2>6 DEF Owners
<1>. QED
  BY <1>1, <1>2

LEMMA SubmittersAre ==
  ASSUME IndexInv, NEW t \in Tables, 1..Len(chain) \subseteq ToSet(indexed)
  PROVE  SubmittersOf(t) = Writers(t) \ {NoAccount}
<1>0. \A entry : entry \in AuditTrail(t) <=>
        \E n \in Numbers(0) : \E i \in DOMAIN BlockAt(n) : BlockAt(n)[i].table = t /\ entry = <<n, i>>
  BY DEF AuditTrail, Entries
<1>1. ASSUME NEW a \in SubmittersOf(t) PROVE a \in Writers(t) \ {NoAccount}
  <2>1. PICK x \in TransactionsOf(t) : \E r \in IncomingOf(x, "account_submits_tx") : a = r.source[2]
    BY <1>1 DEF SubmittersOf
  <2>2. PICK r \in IncomingOf(x, "account_submits_tx") : a = r.source[2]
    BY <2>1
  <2>3. r \in DOMAIN index.relations /\ r.target = x /\ r.type = "account_submits_tx"
    BY <2>2, IncomingIs
  <2>4. PICK m \in ToSet(indexed) : \E j \in DOMAIN BlockAt(m) :
          BlockAt(m)[j].account # NoAccount /\ r = SubmitsTx(BlockAt(m)[j], m, j)
    BY <2>3, SayTypes
  <2>5. PICK j \in DOMAIN BlockAt(m) : BlockAt(m)[j].account # NoAccount /\ r = SubmitsTx(BlockAt(m)[j], m, j)
    BY <2>4
  <2>6. PICK entry \in Trail(t) : x = TxEntity(entry[1], entry[2])
    BY TransactionsOfIs
  <2>7. PICK n, i : entry = <<n, i>>
    BY TrailIs
  <2>8. n = m /\ i = j /\ a = BlockAt(m)[j].account
    BY <2>2, <2>3, <2>5, <2>6, <2>7 DEF SubmitsTx, Relation, TxEntity, AccountEntity
  <2>9. entry \in AuditTrail(t)
    BY DEF Trail
  <2>. QED
    BY <2>5, <2>7, <2>8, <2>9 DEF Writers
<1>2. ASSUME NEW a \in Writers(t), a # NoAccount PROVE a \in SubmittersOf(t)
  <2>1. PICK entry \in AuditTrail(t) : a = BlockAt(entry[1])[entry[2]].account
    BY DEF Writers
  <2>2. PICK n \in Numbers(0) : \E i \in DOMAIN BlockAt(n) : BlockAt(n)[i].table = t /\ entry = <<n, i>>
    BY <1>0
  <2>3. PICK i \in DOMAIN BlockAt(n) : BlockAt(n)[i].table = t /\ entry = <<n, i>>
    BY <2>2
  <2>4. n # 0
    BY <2>3 DEF BlockAt
  <2>5. n \in ToSet(indexed)
    <3>1. chain \in Seq(Seq(Transaction)) /\ n \in 0..Len(chain)
      BY DEF Numbers, IndexInv
    <3>. QED
      BY <2>4, <3>1
  <2>6. TxEntity(n, i) \in TransactionsOf(t)
    <3>1. <<n, i>> \in Trail(t)
      BY <2>3, <2>5, TrailIs
    <3>. QED
      BY <3>1, TransactionsOfIs
  <2>7. PICK r : r = SubmitsTx(BlockAt(n)[i], n, i)
    OBVIOUS
  <2>8. BlockAt(n)[i].account = a
    BY <2>1, <2>3
  <2>9. r \in DOMAIN index.relations /\ r.type = "account_submits_tx"
    BY <1>2, <2>5, <2>7, <2>8, SayTypes
  <2>10. r.target = TxEntity(n, i) /\ r.source[2] = a
    BY <2>7, <2>8 DEF SubmitsTx, Relation, AccountEntity
  <2>11. r \in IncomingOf(TxEntity(n, i), "account_submits_tx")
    BY <2>9, <2>10, IncomingIs
  <2>. QED
    BY <2>6, <2>10, <2>11 DEF SubmittersOf
<1>3. ASSUME NEW a \in SubmittersOf(t) PROVE a \in Writers(t) /\ a # NoAccount
  BY <1>1
<1>. QED
  BY <1>2, <1>3

LEMMA IndexAudit == IndexInv => IndexIsAudit
<1> SUFFICES ASSUME IndexInv, NEW t \in Tables
             PROVE  LET trail == {entry \in AuditTrail(t) : entry[1] \in ToSet(indexed)}
                    IN  /\ BlocksModified(t) = {entry[1] : entry \in trail}
                        /\ TransactionsOf(t) = {TxEntity(entry[1], entry[2]) : entry \in trail}
                        /\ Owners(t) = {BlockAt(e[1])[e[2]].account :
                                          e \in {f \in trail : BlockAt(f[1])[f[2]].creates}}
                        /\ 1..Len(chain) \subseteq ToSet(indexed) => SubmittersOf(t) = Writers(t) \ {NoAccount}
  BY DEF IndexIsAudit
<1>1. {entry \in AuditTrail(t) : entry[1] \in ToSet(indexed)} = Trail(t)
  BY DEF Trail
<1>2. BlocksModified(t) = {entry[1] : entry \in Trail(t)}
  BY BlocksModifiedIs
<1>3. TransactionsOf(t) = {TxEntity(entry[1], entry[2]) : entry \in Trail(t)}
  BY TransactionsOfIs
<1>4. Owners(t) = {BlockAt(e[1])[e[2]].account : e \in {f \in Trail(t) : BlockAt(f[1])[f[2]].creates}}
  BY OwnersAre
<1>5. 1..Len(chain) \subseteq ToSet(indexed) => SubmittersOf(t) = Writers(t) \ {NoAccount}
  BY SubmittersAre
<1>. QED
  BY <1>1, <1>2, <1>3, <1>4, <1>5

\* What leads from a table to another leads through an entity that no relation of the
\* second kind ends in.
LEMMA RelatedAreNone == IndexInv => \A t \in Tables : RelatedTables(t) = {}
<1> SUFFICES ASSUME IndexInv, NEW t \in Tables, NEW other \in RelatedTables(t) PROVE FALSE
  OBVIOUS
<1>1. PICK n \in BlocksModified(t) :
        \E contains \in Outgoing(BlockEntity(n), "block_contains_tx") :
          \E r \in IncomingOf(contains.target, "tx_touches_table") : other = r.source
  BY DEF RelatedTables
<1>2. PICK contains \in Outgoing(BlockEntity(n), "block_contains_tx") :
        \E r \in IncomingOf(contains.target, "tx_touches_table") : other = r.source
  BY <1>1
<1>3. PICK r \in IncomingOf(contains.target, "tx_touches_table") : other = r.source
  BY <1>2
<1>4. contains \in DOMAIN index.relations /\ contains.type = "block_contains_tx"
  BY DEF Outgoing
<1>5. PICK m, i, tx : contains = ContainsTx(tx, m, i)
  <2>1. PICK m \in ToSet(indexed) : \E i \in DOMAIN BlockAt(m) :
          \/ contains = TouchesTable(BlockAt(m)[i], m, i)
          \/ contains = SubmitsTx(BlockAt(m)[i], m, i)
          \/ contains = ContainsTx(BlockAt(m)[i], m, i)
          \/ contains = OwnsTable(BlockAt(m)[i], m, i)
          \/ contains = TouchesBlock(BlockAt(m)[i], m, i)
    BY <1>4, Say
  <2>. QED
    BY <1>4, <2>1 DEF TouchesTable, SubmitsTx, OwnsTable, TouchesBlock, Relation
<1>6. contains.target[1] = "tx"
  BY <1>5 DEF ContainsTx, Relation, TxEntity
<1>7. r.target = contains.target /\ r \in DOMAIN index.relations /\ r.type = "tx_touches_table"
  BY <1>3, IncomingIs
<1>8. PICK k, j, touched : r = TouchesTable(touched, k, j)
  BY <1>7, SayTypes
<1>9. r.target[1] = "table"
  BY <1>8 DEF TouchesTable, Relation, TableEntity
<1>. QED
  BY <1>6, <1>7, <1>9

-----------------------------------------------------------------------------
\* The index answers as the scans of the chain do, for the blocks it was given
\* (relation_index.py:305-381, handlers.py:338-354, routes.py:125-296).
THEOREM IndexAnswersAsScans == Spec => []IndexIsAudit
BY IndexIsKept, IndexAudit, PTL

\* The degrees in the profiles and the reverse index are those of the relations,
\* however often blocks were processed (relation_index.py:251-281).
THEOREM DegreesAreExact == Spec => []DegreesExact
BY IndexIsKept, IndexDegrees, PTL

\* Weights, block numbers and the times of a profile are those of the calls, whatever
\* their order (relation_index.py:252-256, 300-302).
THEOREM HistoryIsExact == Spec => []HistoryExact
BY IndexIsKept, IndexHistory, PTL

\* get_table_relationships finds no related table, of any table, ever
\* (relation_index.py:383-392).
THEOREM RelatedTablesAreNeverFound == Spec => [](\A t \in Tables : RelatedTables(t) = {})
BY IndexIsKept, RelatedAreNone, PTL
=============================================================================
