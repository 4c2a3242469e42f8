---------------------------- MODULE ViewAnalysis ----------------------------
(***************************************************************************)
(* TritaniumBuyAnalysis (src/apps/pricing/main.cpp) on the views that      *)
(* OrderArchive's reader shows: what was sold and offered between one view *)
(* and the next, for the sell orders of one type at one station.           *)
(***************************************************************************)
EXTENDS OrderArchive

CONSTANTS Watched,  \* the ids of the sell orders of that type at that station
          None,     \* no row was printed for the view
          Aborted,  \* the assertion that there are orders failed
          VolumeModulus  \* volumes are counted modulo: 2^32

ASSUME VolumeModulusIsNumber == VolumeModulus \in Nat
ASSUME VolumesFit == \A q \in Quotes : q.volume < VolumeModulus

VARIABLES last,     \* last_orders
          row       \* what the step printed for the view: volumes, and the
                    \* number and lowest price of orders

analysisVars == <<last, row>>

\* The live orders of a view that are watched, sorted by id: a function of ids.
View(w) ==
  [i \in {o.id : o \in Live(w)} \cap Watched |->
     LET o == CHOOSE p \in Live(w) : p.id = i
     IN  [price |-> o.price, volume |-> o.volume]]

Ascending(S) ==
  CHOOSE s \in [1..Cardinality(S) -> S] : \A j, k \in DOMAIN s : j < k => s[j] < s[k]

Volume(view) ==
  LET ids == Ascending(DOMAIN view)
      sum[k \in 0..Len(ids)] == IF k = 0 THEN 0 ELSE sum[k - 1] + view[ids[k]].volume
  IN  sum[Len(ids)]

\* The difference of two volumes, as unsigned as they are: it is widened only
\* when it is added to what was sold.
Minus(x, y) == IF y <= x THEN x - y ELSE x - y + VolumeModulus

\* Slip: the loop for both lists alone.
MergedCommon(a, b, as, bs) ==
  LET sums[p \in (1..Len(as) + 1) \X (1..Len(bs) + 1)] ==
        LET i == p[1]
            j == p[2]
        IN  IF i > Len(as) \/ j > Len(bs) THEN [sold |-> 0, newCount |-> 0, newSum |-> 0]
            ELSE IF as[i] < bs[j]
            THEN [sums[<<i + 1, j>>] EXCEPT !.sold = @ + a[as[i]].volume]
            ELSE IF bs[j] < as[i]
            THEN [sums[<<i, j + 1>>] EXCEPT !.newCount = @ + 1, !.newSum = @ + b[bs[j]].volume]
            ELSE [sums[<<i + 1, j + 1>>] EXCEPT
                    !.sold = @ + Minus(a[as[i]].volume, b[bs[j]].volume)]
  IN  sums

\* Two views side by side, their ids in the lists as and bs, from any two places
\* of the lists on: an order of both was sold by the difference, one of the
\* earlier alone was sold whole, one of the later alone is new.
MergedFrom(a, b, as, bs) ==
  LET sums[p \in (1..Len(as) + 1) \X (1..Len(bs) + 1)] ==
        LET i == p[1]
            j == p[2]
        IN  IF i > Len(as) /\ j > Len(bs) THEN [sold |-> 0, newCount |-> 0, newSum |-> 0]
            ELSE IF j > Len(bs) \/ (i <= Len(as) /\ as[i] < bs[j])
            THEN [sums[<<i + 1, j>>] EXCEPT !.sold = @ + a[as[i]].volume]
            ELSE IF i > Len(as) \/ bs[j] < as[i]
            THEN [sums[<<i, j + 1>>] EXCEPT !.newCount = @ + 1, !.newSum = @ + b[bs[j]].volume]
            ELSE [sums[<<i + 1, j + 1>>] EXCEPT
                    !.sold = @ + Minus(a[as[i]].volume, b[bs[j]].volume)]
  IN  sums

Merged(a, b) == MergedFrom(a, b, Ascending(DOMAIN a), Ascending(DOMAIN b))[<<1, 1>>]

\* step(): nothing for views that are not half an hour apart.
Step(a, b, apart) ==
  IF ~apart THEN None
  ELSE IF DOMAIN b = {} THEN Aborted
  ELSE [merged |-> Merged(a, b), total |-> Volume(b),
        minSell |-> Least({a[i].price : i \in DOMAIN a})]

\* stepAndUpdate(): there is nothing to compare until orders have been seen.
StepAndUpdate == \E apart \in BOOLEAN :
  /\ row' = IF DOMAIN last # {} THEN Step(last, View(slots'), apart) ELSE None
  /\ last' = View(slots')

AnalysisInit == Init /\ last = Empty /\ row = None

AnalysisNext ==
  /\ row # Aborted
  /\ \/ Close /\ StepAndUpdate
     \/ (Open \/ BeginPage \/ NewOrder \/ KeptOrder \/ GoneOrder) /\ row' = None /\ UNCHANGED last

AnalysisSpec == AnalysisInit /\ [][AnalysisNext]_<<vars, analysisVars>>

---------------------------------------------------------------------------
\* Orders of two views whose volume rose from one to the other.
Risen(a, b) == {i \in DOMAIN a \cap DOMAIN b : a[i].volume < b[i].volume}

\* The table accounts for every volume of the reader's views but misstates the
\* orders that grew: what the previous view of the file offered, plus the new
\* orders, less what was sold, is what is offered now if no order grew, and
\* what was sold is printed 2^32 too high for each that did.  Views too far
\* apart are not compared.
VolumeAccounted ==
  [][row' \notin {None, Aborted} =>
       row'.total = Volume(View(slots)) + row'.merged.newSum - row'.merged.sold
                    + VolumeModulus * Cardinality(Risen(View(slots), View(slots')))
    ]_<<vars, analysisVars>>
=============================================================================
