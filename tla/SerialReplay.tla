----------------------------- MODULE SerialReplay -----------------------------
(***************************************************************************)
(* What table synchronisation promises (docs/system_design.md:48 and 60):  *)
(* the chain is a log of transactions, and the database executes each of   *)
(* them once, one at a time, in log order.  There is no registry, no       *)
(* worker and no state file here.                                          *)
(***************************************************************************)
EXTENDS LocalDatabase

VARIABLES log, applied, db

replayVars == <<log, applied, db>>

Init == log = <<>> /\ applied = 0 /\ db = EmptyDatabase

Extend ==
  /\ log' \in Seq(Transaction) /\ IsPrefix(log, log')
  /\ UNCHANGED <<applied, db>>

ApplyNext ==
  /\ applied < Len(log)
  /\ applied' = applied + 1
  /\ db' = Executed(db, log[applied + 1])
  /\ UNCHANGED log

Next == Extend \/ ApplyNext

Spec == Init /\ [][Next]_replayVars
=============================================================================
