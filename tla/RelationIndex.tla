---------------------------- MODULE RelationIndex ----------------------------
(***************************************************************************)
(* The association graph over accounts, transactions, tables and blocks    *)
(* (relation_index.py).  process_block may be called with any block of the *)
(* chain, in any order and more than once, as a catch-up beside the        *)
(* notification of new blocks would; src/ has no caller.                   *)
(*                                                                         *)
(* An entity is a tuple that starts with its kind.  Relations are kept by  *)
(* source, target and type, which is what _add_relation looks for.         *)
(***************************************************************************)
EXTENDS ViewedChain

CONSTANT MaxIndexed   \* bound: calls of process_block

ASSUME RelationIndexAssumption == MaxIndexed \in Nat

VARIABLES
  index,          \* relations, incoming and profiles of the RelationIndex
  indexed         \* history: the block numbers process_block was called with

vars == <<chain, index, indexed>>

TableEntity(t) == <<"table", t>>
BlockEntity(n) == <<"block", n>>
TxEntity(n, i) == <<"tx", n, i>>
AccountEntity(a) == <<"account", a>>

EmptyIndex == [relations |-> <<>>, incoming |-> <<>>, profiles |-> <<>>]

-----------------------------------------------------------------------------
Relation(source, target, type) == [source |-> source, target |-> target, type |-> type]

\* What process_block adds for the i-th transaction of block n, in this order.
RelationsOfTx(tx, n, i) ==
  LET names == tx.table # NoTable
      When(condition, relation) == IF condition THEN <<relation>> ELSE <<>>
  IN  When(names, Relation(TxEntity(n, i), TableEntity(tx.table), "tx_touches_table"))
   \o When(tx.account # NoAccount,
           Relation(AccountEntity(tx.account), TxEntity(n, i), "account_submits_tx"))
   \o <<Relation(BlockEntity(n), TxEntity(n, i), "block_contains_tx")>>
   \o When(tx.creates /\ names,
           Relation(AccountEntity(tx.account), TableEntity(tx.table), "account_owns_table"))
   \o When(names, Relation(TableEntity(tx.table), BlockEntity(n), "table_touches_block"))

Larger(x, y) == IF x >= y THEN x ELSE y

NewProfile(n) ==
  [relation_count |-> 0, incoming_count |-> 0, first_seen |-> n, last_seen |-> 0, touched |-> {}]

\* d[key] = value.
With(d, key, value) == [k \in DOMAIN d \cup {key} |-> IF k = key THEN value ELSE d[k]]

\* _get_or_create_profile, for one more relation at the other end of which is such a kind.
Seen(profiles, entity, n, kind) ==
  LET old == IF entity \in DOMAIN profiles THEN profiles[entity] ELSE NewProfile(n)
  IN  [old EXCEPT !.last_seen = Larger(@, n), !.touched = @ \cup {kind}]

ProfiledBoth(profiles, r, n) ==
  LET source == Seen(profiles, r.source, n, r.target[1])
      half == With(profiles, r.source, [source EXCEPT !.relation_count = @ + 1])
      target == Seen(half, r.target, n, r.source[1])
  IN  With(half, r.target, [target EXCEPT !.incoming_count = @ + 1])

Incoming(idx, entity) == IF entity \in DOMAIN idx.incoming THEN idx.incoming[entity] ELSE {}

\* Mutant of Reinforced: a relation that is there counts again.
ReinforcedAndCounted(idx, r, n) ==
  [idx EXCEPT !.relations[r].weight = @ + 1, !.relations[r].block = Larger(@, n),
              !.profiles = ProfiledBoth(@, r, n)]

\* Mutant of Reinforced: the last block replaces the latest one.
ReinforcedByLast(idx, r, n) ==
  [idx EXCEPT !.relations[r].weight = @ + 1, !.relations[r].block = n]

\* _add_relation of a relation that exists.
Reinforced(idx, r, n) ==
  [idx EXCEPT !.relations[r].weight = @ + 1, !.relations[r].block = Larger(@, n)]

\* _add_relation of a new one.
Established(idx, r, n) ==
  [relations |-> With(idx.relations, r, [weight |-> 1, block |-> n]),
   incoming  |-> With(idx.incoming, r.target, Incoming(idx, r.target) \cup {r.source}),
   profiles  |-> ProfiledBoth(idx.profiles, r, n)]

\* Mutant of AddRelation: the dedup does not look at the target.
AddRelationOfType(idx, r, n) ==
  IF r \in DOMAIN idx.relations
  THEN Reinforced(idx, r, n)
  ELSE IF \E old \in DOMAIN idx.relations : old.source = r.source /\ old.type = r.type
       THEN idx
       ELSE Established(idx, r, n)

AddRelation(idx, r, n) ==
  IF r \in DOMAIN idx.relations THEN Reinforced(idx, r, n) ELSE Established(idx, r, n)

AddTx(idx, tx, n, i) ==
  FoldLeft(LAMBDA acc, r : AddRelation(acc, r, n), idx, RelationsOfTx(tx, n, i))

Processed(idx, block, n) ==
  FoldLeft(LAMBDA acc, i : AddTx(acc, block[i], n, i), idx, [i \in DOMAIN block |-> i])

Init == chain = <<>> /\ index = EmptyIndex /\ indexed = <<>>

Grow(block) == AppendBlock(block) /\ UNCHANGED <<index, indexed>>

\* process_block.
ProcessBlock(n) ==
  /\ Len(indexed) < MaxIndexed
  /\ index' = Processed(index, BlockAt(n), n)
  /\ indexed' = Append(indexed, n)
  /\ UNCHANGED chain

Next ==
  \/ \E block \in Block : Grow(block)
  \/ \E n \in Numbers(0) : ProcessBlock(n)

Spec == Init /\ [][Next]_vars

-----------------------------------------------------------------------------
\* get_neighbors in both directions; the incoming one goes through the reverse index.
Outgoing(entity, type) == {r \in DOMAIN index.relations : r.source = entity /\ r.type = type}

IncomingOf(entity, type) ==
  UNION {{r \in Outgoing(source, type) : r.target = entity} : source \in Incoming(index, entity)}

\* get_table_relationships.
Owners(t) == {r.source[2] : r \in IncomingOf(TableEntity(t), "account_owns_table")}

BlocksModified(t) == {r.target[2] : r \in Outgoing(TableEntity(t), "table_touches_block")}

TransactionsOf(t) == {r.source : r \in IncomingOf(TableEntity(t), "tx_touches_table")}

SubmittersOf(t) ==
  {r.source[2] : r \in UNION {IncomingOf(tx, "account_submits_tx") : tx \in TransactionsOf(t)}}

RelatedTables(t) ==
  {r.source : r \in
     UNION {IncomingOf(contains.target, "tx_touches_table") :
              contains \in UNION {Outgoing(BlockEntity(n), "block_contains_tx") : n \in BlocksModified(t)}}}
  \ {TableEntity(t)}

-----------------------------------------------------------------------------
\* What a block says, once, of the entities it is about.
Says(n, i, r) == r \in ToSet(RelationsOfTx(BlockAt(n)[i], n, i))

RelationsOfBlock(n) == UNION {ToSet(RelationsOfTx(BlockAt(n)[i], n, i)) : i \in DOMAIN BlockAt(n)}

Mentions(n, entity) == \E r \in RelationsOfBlock(n) : entity \in {r.source, r.target}

\* By call of process_block and transaction, how often a relation was given.
Given(r) ==
  UNION {{<<k, i>> : i \in {j \in DOMAIN BlockAt(indexed[k]) : Says(indexed[k], j, r)}} :
           k \in DOMAIN indexed}

\* The index answers as the scans of the chain do, for the blocks it was given: which
\* blocks and transactions changed a table, who created it, and, once every block was
\* given, who submitted them (relation_index.py:305-381, handlers.py:338-354,
\* routes.py:125-296).
IndexIsAudit ==
  \A t \in Tables :
    LET trail == {entry \in AuditTrail(t) : entry[1] \in ToSet(indexed)}
    IN  /\ BlocksModified(t) = {entry[1] : entry \in trail}
        /\ TransactionsOf(t) = {TxEntity(entry[1], entry[2]) : entry \in trail}
        /\ Owners(t) = {BlockAt(e[1])[e[2]].account : e \in {f \in trail : BlockAt(f[1])[f[2]].creates}}
        /\ 1..Len(chain) \subseteq ToSet(indexed) => SubmittersOf(t) = Writers(t) \ {NoAccount}

\* The degrees in the profiles and the reverse index are those of the relations that
\* are there, however often blocks were processed (relation_index.py:251-281).
DegreesExact ==
  LET entities == UNION {{r.source, r.target} : r \in DOMAIN index.relations}
  IN  /\ DOMAIN index.profiles = entities
      /\ \A e \in entities :
           LET out == {r \in DOMAIN index.relations : r.source = e}
               in  == {r \in DOMAIN index.relations : r.target = e}
           IN  /\ index.profiles[e].relation_count = Cardinality(out)
               /\ index.profiles[e].incoming_count = Cardinality(in)
               /\ index.profiles[e].touched = {r.target[1] : r \in out} \cup {r.source[1] : r \in in}
               /\ Incoming(index, e) = {r.source : r \in in}

\* Weights and block numbers depend on which blocks were processed and how often, not
\* on the order: a weight counts the transactions that said so, the block of a
\* relation and last_seen are the latest (relation_index.py:252-256, 300-302).  The
\* entity of the empty account is left out: a second table it creates does not move
\* last_seen, since its only relation exists.
HistoryExact ==
  /\ \A r \in DOMAIN index.relations :
       /\ index.relations[r].weight = Cardinality(Given(r))
       /\ index.relations[r].block = Max({n \in ToSet(indexed) : r \in RelationsOfBlock(n)})
  /\ \A e \in DOMAIN index.profiles \ {AccountEntity(NoAccount)} :
       LET seen == {k \in DOMAIN indexed : Mentions(indexed[k], e)}
       IN  /\ index.profiles[e].first_seen = indexed[Min(seen)]
           /\ index.profiles[e].last_seen = Max({indexed[k] : k \in seen})

\* "Co-occurring tables (tables modified in the same blocks)", relation_index.py:383.
RelatedTablesFound ==
  \A t \in Tables : \A n \in BlocksModified(t) :
    \A other \in Tables \ {t} : n \in BlocksModified(other) => TableEntity(other) \in RelatedTables(t)
=============================================================================
