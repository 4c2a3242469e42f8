------------------------------ MODULE OrderLog ------------------------------
(***************************************************************************)
(* What the order archive promises: a reader is shown one view of the      *)
(* market per file, each the one before with, page by page, the orders in  *)
(* the page's range of ids replaced by the page.  Orders in no page's      *)
(* range stay.                                                             *)
(***************************************************************************)
EXTENDS Integers

CONSTANTS Ids,      \* order ids, ordered
          Quotes    \* what a page says of an order: its price and volume

VARIABLES shown,    \* what a reader sees: a function of ids
          building  \* the view of the file that is being archived

vars == <<shown, building>>

\* A page of orders: sorted by id, so a function of its ids; never empty.
Pages == UNION {[S -> Quotes] : S \in (SUBSET Ids) \ {{}}}

\* The ids from the first to the last of a page.
Covers(page, i) == \E f, l \in DOMAIN page : f <= i /\ i <= l

\* The orders of a view, with those a page covers replaced by the page.
Replaced(view, page) ==
  [i \in {j \in DOMAIN view : ~Covers(page, j)} \cup DOMAIN page |->
     IF i \in DOMAIN page THEN page[i] ELSE view[i]]

Init == shown = <<>> /\ building = <<>>

AddPage == \E page \in Pages :
  building' = Replaced(building, page) /\ UNCHANGED shown

Show == shown' = building /\ UNCHANGED building

Next == AddPage \/ Show

Spec == Init /\ [][Next]_vars
=============================================================================
