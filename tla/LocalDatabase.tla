---------------------------- MODULE LocalDatabase ----------------------------
(***************************************************************************)
(* The node's SQLite database as the replayed transactions see it          *)
(* (storage/database.py): a function from every table name to the columns  *)
(* and rows of the table, or to NoTable.                                   *)
(*                                                                         *)
(* A row is the value its INSERT carried; WHERE clauses, constraints other *)
(* than the existence of tables and columns, and types of values are left  *)
(* out.  What SQLite refuses is an exception, and leaves the data alone.   *)
(***************************************************************************)
EXTENDS Integers, Sequences, FiniteSets, SequencesExt

CONSTANTS Tables, Names, Types, Values, NoTable

Column == [name : Names, type : Types]

Contents == [columns : Seq(Column), rows : Seq(Values)]

Dml == [kind : {"INSERT", "UPDATE", "DELETE"}, table : Tables, column : Names, value : Values]

Ddl == [kind : {"CREATE"}, table : Tables, columns : Seq(Column)]
  \cup [kind : {"ADD", "MODIFY"}, table : Tables, column : Column]
  \cup [kind : {"DROP_COLUMN"}, table : Tables, name : Names]
  \cup [kind : {"DROP_TABLE"}, table : Tables]

\* Transactions as sql/converter.py builds them: one statement, or a batch of them.
\* A batch may hold DDL: to_transaction_batch takes whatever the validator lets pass.
Transaction == Dml \cup Ddl \cup [kind : {"BATCH"}, statements : Seq(Dml \cup Ddl)]

ASSUME DatabaseAssumption == NoTable \notin Contents \cup Seq(Column)

EmptyDatabase == [t \in Tables |-> NoTable]

NamesOf(columns) == {columns[i].name : i \in 1..Len(columns)}

\* The elements of a sequence that are in a set, in their order: a fold, which can be
\* reasoned about as SelectSeq cannot.
Selection(s, S) == FoldLeft(LAMBDA kept, e : IF e \in S THEN Append(kept, e) ELSE kept, <<>>, s)

Without(columns, name) == Selection(columns, {c \in ToSet(columns) : c.name # name})

-----------------------------------------------------------------------------
IsDml(s) == s.kind \in {"INSERT", "UPDATE", "DELETE"}

\* What SQLite refuses.  It has no ALTER TABLE ... MODIFY; a table keeps at least one
\* column.  (A DROP_TABLE transaction is executed with IF EXISTS: the same outcome.)
Fails(db, s) ==
  \/ s.kind = "MODIFY"
  \/ /\ s.kind = "CREATE"
     /\ db[s.table] # NoTable \/ Cardinality(NamesOf(s.columns)) # Len(s.columns)
  \/ s.kind # "CREATE" /\ db[s.table] = NoTable
  \/ s.kind = "ADD" /\ s.column.name \in NamesOf(db[s.table].columns)
  \/ /\ s.kind = "DROP_COLUMN"
     /\ s.name \notin NamesOf(db[s.table].columns) \/ Len(db[s.table].columns) = 1
  \/ s.kind \in {"INSERT", "UPDATE"} /\ s.column \notin NamesOf(db[s.table].columns)

\* What a statement that SQLite accepts makes of the database.
Effect(db, s) ==
  CASE s.kind = "CREATE"      -> [db EXCEPT ![s.table] = [columns |-> s.columns, rows |-> <<>>]]
    [] s.kind = "ADD"         -> [db EXCEPT ![s.table].columns = Append(@, s.column)]
    [] s.kind = "DROP_COLUMN" -> [db EXCEPT ![s.table].columns = Without(@, s.name)]
    [] s.kind = "DROP_TABLE"  -> [db EXCEPT ![s.table] = NoTable]
    [] s.kind = "INSERT"      -> [db EXCEPT ![s.table].rows = Append(@, s.value)]
    [] s.kind = "UPDATE"      -> [db EXCEPT ![s.table].rows = [i \in 1..Len(@) |-> s.value]]
    [] s.kind = "DELETE"      -> [db EXCEPT ![s.table].rows = <<>>]

\* _replay_batch on one connection.  The sqlite3 driver begins a transaction before
\* the first DML statement and not before DDL, which commits by itself until then:
\* a failing statement takes back what followed the BEGIN (kept), and ends the batch.
Continued(run, s) ==
  IF run.failed THEN run
  ELSE LET begun == run.begun \/ IsDml(s)
       IN  IF Fails(run.db, s)
           THEN [run EXCEPT !.failed = TRUE, !.db = IF begun THEN run.kept ELSE @]
           ELSE [failed |-> FALSE, begun |-> begun, db |-> Effect(run.db, s),
                 kept |-> IF begun THEN run.kept ELSE Effect(run.db, s)]

Begun(db) == [failed |-> FALSE, begun |-> FALSE, db |-> db, kept |-> db]

Attempt(db, statements) == FoldLeft(Continued, Begun(db), statements)

Batch(db, statements) == Attempt(db, statements).db

\* What a transaction makes of the database.
Executed(db, tx) ==
  IF tx.kind = "BATCH" THEN Batch(db, tx.statements)
  ELSE IF Fails(db, tx) THEN db ELSE Effect(db, tx)

\* The database after executing a sequence of transactions one after the other.
Replayed(txs) == FoldLeft(Executed, EmptyDatabase, txs)
=============================================================================
