--------------------------- MODULE MCOrderArchive ---------------------------
(* An instance of OrderArchive and ViewAnalysis for TLC.                     *)
EXTENDS ViewAnalysis, TLC

Q(p, v) == [price |-> p, volume |-> v]
MCQuotes == {Q(1, 0), Q(1, 1), Q(2, 1), Q(1, 2)}

Entry(page, outcome, orders) == [page |-> page, outcome |-> outcome, orders |-> orders]
Page(n, orders) == Entry(n, "orders", orders)

\* Every page of three orders; two pages side by side, with a gap, overlapping,
\* in the wrong order, twice the same; entries that are skipped, that do not
\* parse, or at which reading ends.
Alone == {<<Page(0, l)>> : l \in Lists}
Low == 1 :> Q(1, 1)
High == 3 :> Q(2, 1)
Both == Low @@ High
Second == 2 :> Q(1, 2)
MCTarballs ==
  Alone \cup
  {<<Page(0, Low), Page(1, High)>>, <<Page(1, High), Page(0, Low @@ Second)>>,
   <<Page(0, Both), Page(1, Second)>>, <<Page(0, Second), Page(1, Both)>>,
   <<Page(0, Low), Page(0, High)>>,
   <<Entry(NotJson, "orders", <<>>), Page(1, Low)>>,
   <<Entry(0, "unparsable", <<>>), Page(1, High)>>,
   <<Page(0, High), Entry(1, "unconvertible", <<>>), Page(0, Low)>>}
=============================================================================
