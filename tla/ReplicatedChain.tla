--------------------------- MODULE ReplicatedChain ---------------------------
(***************************************************************************)
(* What the consensus promises, without blocks, votes or messages: one log *)
(* of batches of transactions, each transaction in at most one batch, and  *)
(* copies of that log that grow one batch at a time and never differ from  *)
(* it (docs/system_design.md:48, 313).                                     *)
(***************************************************************************)
EXTENDS Naturals, Sequences

CONSTANTS Copies, Txs

VARIABLES log, copy

chainVars == <<log, copy>>

Logged == UNION {log[i] : i \in 1..Len(log)}

Init ==
  /\ log = <<>>
  /\ copy = [n \in Copies |-> <<>>]

\* A batch of transactions that are not in the log yet becomes final.
Extend ==
  /\ \E batch \in (SUBSET (Txs \ Logged)) \ {{}} : log' = Append(log, batch)
  /\ UNCHANGED copy

\* A node copies the batch it is missing next.
CopyNext(n) ==
  /\ Len(copy[n]) < Len(log)
  /\ copy' = [copy EXCEPT ![n] = Append(@, log[Len(@) + 1])]
  /\ UNCHANGED log

Next == Extend \/ \E n \in Copies : CopyNext(n)

Spec == Init /\ [][Next]_chainVars
=============================================================================
