-------------------------- MODULE MCHistoryReader ---------------------------
(* Instances of HistoryReader for TLC. *)
EXTENDS HistoryReader

\* No record (or a document that does not parse), one that converts, one that
\* does not followed by one that does, and two that convert.
MixedBodies == {<<>>, <<"valid">>, <<"invalid", "valid">>, <<"valid", "valid">>}
ShortBodies == {<<>>, <<"valid">>}
=============================================================================
