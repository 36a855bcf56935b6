----------------------------- MODULE MCTableSync -----------------------------
(***************************************************************************)
(* TableSync with pools of transactions on one table, each chosen for what *)
(* a run asks.                                                             *)
(***************************************************************************)
EXTENDS TableSyncRefinement

CONSTANTS t, a, b, int, text, x, y

ColA == [name |-> a, type |-> int]
ColB == [name |-> b, type |-> int]

Create  == [kind |-> "CREATE", table |-> t, columns |-> <<ColA>>]
Twice   == [kind |-> "CREATE", table |-> t, columns |-> <<ColA, ColA>>]
Drop    == [kind |-> "DROP_TABLE", table |-> t]
AddB    == [kind |-> "ADD", table |-> t, column |-> ColB]
DropA   == [kind |-> "DROP_COLUMN", table |-> t, name |-> a]
Retype  == [kind |-> "MODIFY", table |-> t, column |-> [name |-> a, type |-> text]]
InsertX == [kind |-> "INSERT", table |-> t, column |-> a, value |-> x]
UpdateY == [kind |-> "UPDATE", table |-> t, column |-> b, value |-> y]
Delete  == [kind |-> "DELETE", table |-> t, column |-> a, value |-> x]
InsertThenUpdate == [kind |-> "BATCH", statements |-> <<InsertX, UpdateY>>]

CreateAlone == [kind |-> "BATCH", statements |-> <<Create>>]
DropThenInsert == [kind |-> "BATCH", statements |-> <<Drop, InsertX>>]

AnyStatement   == {Create, Drop, AddB, DropA, Retype, InsertX, UpdateY, Delete, InsertThenUpdate}
SomeStatements == AnyStatement \ {UpdateY, Delete}
TableStatements == {Create, Drop, AddB}
RowStatements  == {Create, InsertX}
CreateAndDrop  == {Create, Drop}
CreateAndAdd   == {Create, AddB}
CreateAgain    == {Create, Twice}
CreateInBatch  == {CreateAlone, AddB}
DropInBatch    == {Create, DropThenInsert}
CreateAndRetype == {Create, Retype}
=============================================================================
