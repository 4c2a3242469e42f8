---------------------------- MODULE MCOrderReader ----------------------------
(* An instance of OrderReader for TLC.                                       *)
EXTENDS OrderReader

CONSTANTS O1, O2, Gone, Odd

Entry(o, v) == [id |-> o, valid |-> v]

\* Two pages; the first order shows up on both, one entry does not convert, and
\* the orders Gone and Odd, the latter at an unknown station, are at most in
\* the database.
TwoPages == <<<<Entry(O1, TRUE), Entry(O2, FALSE)>>, <<Entry(O2, TRUE), Entry(O1, TRUE)>>>>
=============================================================================
