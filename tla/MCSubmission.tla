---------------------------- MODULE MCSubmission ----------------------------
(***************************************************************************)
(* Submission with two accounts of which one is named like the other with  *)
(* a digit behind it.  Numbers are written as strokes, so that no. 1 of    *)
(* "u1" and no. 2 of "u" read the same; in decimal it takes no. 2 of "u1"  *)
(* and no. 12 of "u".                                                      *)
(***************************************************************************)
EXTENDS Submission, MCTableSync

Texts == [u |-> <<"u1", "u11">>, u1 |-> <<"u11">>]

Numbers == [u |-> 2, u1 |-> 1]

Requests == {Create, AddB, InsertThenUpdate}
=============================================================================
