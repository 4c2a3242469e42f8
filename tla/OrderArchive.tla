---------------------------- MODULE OrderArchive ----------------------------
(***************************************************************************)
(* The archive of market views (src/apps/pricing): JsonWriter turns a      *)
(* directory of snapshots into one file of changes, OrderReader plays the  *)
(* file back, and the writer compares the two after every view.            *)
(*                                                                         *)
(* A list of orders is sorted by id, so it is a function of ids.  Of an    *)
(* order only what a view may change is kept: price and volume.  The file  *)
(* is the effect its records have on a reader's slots (written); a reader  *)
(* that plays a view gets there if it can tell how many pages it has.      *)
(***************************************************************************)
EXTENDS Integers, Sequences, FiniteSets

CONSTANTS Ids,         \* order ids
          Quotes,      \* [price, volume] of an order
          Tarballs,    \* the snapshots a file may hold: sequences of entries
          MaxViews,    \* bound: files in the source directory
          MaxCount,    \* highest count of pages an int8 holds: 127
          SelfCheck    \* check() after every record, as in the code; FALSE is
                       \* the codec alone

\* An entry of a tarball: its page number (NotJson if it is no .json file), what
\* reading it gives and, if that is "orders", its orders.
NotJson == -1
Outcomes == {"orders", "unparsable", "unconvertible"}
Lists == UNION {[S -> Quotes] : S \in SUBSET Ids}
Entries == [page : Nat \cup {NotJson}, outcome : Outcomes, orders : Lists]

Covers(page, i) == \E f, l \in DOMAIN page : f <= i /\ i <= l

ASSUME IdsAreNumbers == Ids \subseteq Nat /\ IsFiniteSet(Ids)
ASSUME QuotesAreNumbers == \A q \in Quotes : q \in [price : Int, volume : Nat]
ASSUME SelfCheckIsBoolean == SelfCheck \in BOOLEAN
\* No file has more pages than its count can hold.
ASSUME PagesFit == \A t \in Tarballs : \A k \in DOMAIN t :
  t[k] \in Entries /\ t[k].page < MaxCount
ASSUME TarballsAreSequences == Tarballs \subseteq Seq(Entries)
ASSUME MaxCountIsNumber == MaxCount \in Nat

VARIABLES views,    \* files written
          phase,    \* "idle" between files, "view" in one, "failed" if it threw
          docs,     \* pages of the file not yet begun: a function of page numbers
          pages,    \* the pages of the file, as counted when it was opened
          active,   \* active_orders_
          cur,      \* ids from current to current_stop: of the page, not compared
          old,      \* from last to r2: orders of the view before, not compared
          index,    \* index_: of a live order, where readers keep it
          free,     \* free_list_
          size,     \* active_orders2_.size()
          written,  \* a reader's slots when it has played all that is written
          slots     \* the slots of reader_, which has played whole views

vars == <<views, phase, docs, pages, active, cur, old, index, free, size, written, slots>>

Empty == <<>>
Least(S) == CHOOSE i \in S : \A j \in S : i <= j

---------------------------------------------------------------------------
(* Reading a snapshot: json_writer_util.cpp                                *)

\* The entries read before one throws, the skipped ones left out.
EntriesRead(t) ==
  {k \in DOMAIN t : t[k].page # NotJson /\ \A j \in 1..k : t[j].outcome # "unconvertible"}

LastEntry(t, p) ==
  CHOOSE k \in EntriesRead(t) : t[k].page = p /\ \A j \in EntriesRead(t) : t[j].page = p => j <= k

\* Orders of volume 0 are no orders, an unparsable page is an empty one.
filterOrders(entry) ==
  {i \in DOMAIN entry.orders : entry.outcome = "orders" /\ entry.orders[i].volume # 0}

\* The pages by number, later entries over earlier ones, without empty pages.
readOrders(t) ==
  LET entry(p) == t[LastEntry(t, p)]
      numbers == {t[k].page : k \in EntriesRead(t)}
  IN  [p \in {q \in numbers : filterOrders(entry(q)) # {}} |->
         [i \in filterOrders(entry(p)) |-> entry(p).orders[i]]]

---------------------------------------------------------------------------
(* Records, as written and as played                                       *)

Order(i, q) == [id |-> i, price |-> q.price, volume |-> q.volume]

\* write_order, read_step: the whole order goes where the index says.
\* A reader has 600000 places and checks no index; SlotsAccounted says how many
\* a file needs.
Put(w, k, o) == [j \in DOMAIN w \cup {k} |-> IF j = k THEN o ELSE w[j]]

\* write_diff, read_step: price and volume only.
Change(w, k, price, volume) ==
  [w EXCEPT ![k].price = price, ![k].volume = volume]

\* The orders of a reader, once the deleted ones are removed.
Live(w) == {w[k] : k \in {j \in DOMAIN w : w[j].volume # 0}}
Listed(list) == {Order(i, list[i]) : i \in DOMAIN list}
Sorted(S) ==
  CHOOSE s \in [1..Cardinality(S) -> S] :
    /\ \A o \in S : \E k \in DOMAIN s : s[k] = o
    /\ \A j, k \in DOMAIN s : j < k => s[j].id <= s[k].id

---------------------------------------------------------------------------
Init ==
  /\ views = 0 /\ phase = "idle"
  /\ docs = Empty /\ pages = 0
  /\ active = Empty /\ cur = {} /\ old = Empty
  /\ index = Empty /\ free = <<>> /\ size = 0
  /\ written = Empty /\ slots = Empty

\* extract2: the next file by name, its pages, the head of its view.
Open ==
  /\ phase = "idle" /\ views < MaxViews
  /\ \E t \in Tarballs :
       /\ docs' = readOrders(t)
       /\ pages' = Cardinality(DOMAIN readOrders(t))
  /\ phase' = "view"
  /\ UNCHANGED <<views, active, cur, old, index, free, size, written, slots>>

Compared == cur = {} /\ DOMAIN old = {}

\* Slip: what follows the page in the view before is not kept.
BeginPageCutting ==
  /\ phase = "view" /\ Compared /\ DOMAIN docs # {}
  /\ LET n == Least(DOMAIN docs)
         page == docs[n]
         behind == {i \in DOMAIN active : \E f \in DOMAIN page : f <= i}
     IN  /\ docs' = [p \in DOMAIN docs \ {n} |-> docs[p]]
         /\ active' = [i \in (DOMAIN active \ behind) \cup DOMAIN page |->
                         IF i \in DOMAIN page THEN page[i] ELSE active[i]]
         /\ cur' = DOMAIN page
         /\ old' = [i \in behind |-> active[i]]
  /\ UNCHANGED <<views, phase, pages, index, free, size, written, slots>>

\* A page replaces the orders between its first and its last id.
BeginPage ==
  /\ phase = "view" /\ Compared /\ DOMAIN docs # {}
  /\ LET n == Least(DOMAIN docs)
         page == docs[n]
         inside == {i \in DOMAIN active : Covers(page, i)}
     IN  /\ docs' = [p \in DOMAIN docs \ {n} |-> docs[p]]
         /\ active' = [i \in (DOMAIN active \ inside) \cup DOMAIN page |->
                         IF i \in DOMAIN page THEN page[i] ELSE active[i]]
         /\ cur' = DOMAIN page
         /\ old' = [i \in inside |-> active[i]]
  /\ UNCHANGED <<views, phase, pages, index, free, size, written, slots>>

\* finalize(): each throw stands after the if it was meant for.
FinalizeThrows == TRUE

\* check() plays the record and finalizes; what the reader then holds is lost
\* with the writer.  The record that ends the common loop, and it alone, is not
\* checked.
InLoop == cur # {} /\ DOMAIN old # {}
AfterRecord(throws) ==
  phase' = IF throws \/ (SelfCheck /\ FinalizeThrows /\ ~(InLoop /\ (cur' = {} \/ DOMAIN old' = {})))
           THEN "failed" ELSE "view"

\* Slip: indices of deleted orders are never used again.
NewOrderAppending ==
  /\ phase = "view" /\ cur # {}
  /\ LET i == Least(cur) IN
       /\ \A j \in DOMAIN old : i < j
       /\ index' = [j \in DOMAIN index \cup {i} |-> IF j = i THEN size + 1 ELSE index[j]]
       /\ size' = size + 1
       /\ written' = Put(written, size + 1, Order(i, active[i]))
       /\ cur' = cur \ {i}
       /\ UNCHANGED <<old, free>>
       /\ AfterRecord(i \in DOMAIN index)
  /\ UNCHANGED <<views, docs, pages, active, slots>>

\* The next order of the page is new.
NewOrder ==
  /\ phase = "view" /\ cur # {}
  /\ LET i == Least(cur)
         k == IF free = <<>> THEN size + 1 ELSE Head(free)
     IN  /\ \A j \in DOMAIN old : i < j
         /\ index' = [j \in DOMAIN index \cup {i} |-> IF j = i THEN k ELSE index[j]]
         /\ free' = IF free = <<>> THEN free ELSE Tail(free)
         /\ size' = IF free = <<>> THEN size + 1 ELSE size
         /\ written' = Put(written, k, Order(i, active[i]))
         /\ cur' = cur \ {i}
         /\ UNCHANGED old
         /\ AfterRecord(i \in DOMAIN index)
  /\ UNCHANGED <<views, docs, pages, active, slots>>

\* Slip: a change of volume alone is not written.
KeptOrderPriceOnly ==
  /\ phase = "view" /\ InLoop /\ Least(cur) = Least(DOMAIN old)
  /\ LET i == Least(cur) IN
       /\ written' = IF active[i].price # old[i].price
                     THEN Change(written, index[i], active[i].price, active[i].volume)
                     ELSE written
       /\ cur' = cur \ {i}
       /\ old' = [j \in DOMAIN old \ {i} |-> old[j]]
       /\ AfterRecord(i \notin DOMAIN index)
  /\ UNCHANGED <<views, docs, pages, active, index, free, size, slots>>

\* The next order of the page was in the view before.
KeptOrder ==
  /\ phase = "view" /\ InLoop /\ Least(cur) = Least(DOMAIN old)
  /\ LET i == Least(cur) IN
       /\ written' = IF active[i].price # old[i].price \/ active[i].volume # old[i].volume
                     THEN Change(written, index[i], active[i].price, active[i].volume)
                     ELSE written
       /\ cur' = cur \ {i}
       /\ old' = [j \in DOMAIN old \ {i} |-> old[j]]
       /\ AfterRecord(i \notin DOMAIN index)
  /\ UNCHANGED <<views, docs, pages, active, index, free, size, slots>>

\* The next order of the view before is not in the page.
GoneOrder ==
  /\ phase = "view" /\ DOMAIN old # {}
  /\ LET i == Least(DOMAIN old) IN
       /\ \A j \in cur : i < j
       /\ written' = Change(written, index[i], old[i].price, 0)
       /\ free' = Append(free, index[i])
       /\ index' = [j \in DOMAIN index \ {i} |-> index[j]]
       /\ old' = [j \in DOMAIN old \ {i} |-> old[j]]
       /\ UNCHANGED cur
       /\ AfterRecord(i \notin DOMAIN index)
  /\ UNCHANGED <<views, docs, pages, active, size, slots>>

\* The page count as the reader gets it back from a signed byte.
AsInt8(n) == IF n <= MaxCount THEN n ELSE n - 2 * (MaxCount + 1)

\* The view is complete: the reader steps over it, and what it shows is
\* compared with the active orders, as far as both go.
Close ==
  /\ phase = "view" /\ Compared /\ DOMAIN docs = {}
  /\ slots' = IF AsInt8(pages) = pages THEN written ELSE slots
  /\ LET read == Sorted(Live(slots'))
         expected == Sorted(Listed(active))
     IN  phase' = IF \E k \in DOMAIN read \cap DOMAIN expected : read[k] # expected[k]
                  THEN "failed" ELSE "idle"
  /\ views' = views + 1
  /\ UNCHANGED <<docs, pages, active, cur, old, index, free, size, written>>

Next == Open \/ BeginPage \/ NewOrder \/ KeptOrder \/ GoneOrder \/ Close

Spec == Init /\ [][Next]_vars

---------------------------------------------------------------------------
(* Properties                                                              *)

\* Between files a reader's orders are the active ones, every order in one slot:
\* what the writer compares at json_writer.cpp:425, sizes included.  But for
\* check() it never throws, neither that it is inconsistent nor a mismatch.
ReadsBack ==
  /\ phase = "failed" => SelfCheck
  /\ phase = "idle" =>
       /\ Live(slots) = Listed(active)
       /\ \A j, k \in DOMAIN slots :
            slots[j].volume # 0 /\ slots[k].volume # 0 /\ slots[j].id = slots[k].id => j = k

\* Every slot is either a live order's or on the free list, once, and there
\* are never more slots than orders that were live at once could need.
SlotsAccounted ==
  /\ size = Cardinality(DOMAIN index) + Len(free)
  /\ {index[i] : i \in DOMAIN index} \cup {free[k] : k \in DOMAIN free} = 1..size
  /\ size <= Cardinality(Ids)

\* The reader's orders as a function of ids.
Shown == [i \in {o.id : o \in Live(slots)} |->
            LET o == CHOOSE p \in Live(slots) : p.id = i
            IN  [price |-> o.price, volume |-> o.volume]]
Log == INSTANCE OrderLog WITH shown <- Shown, building <- active
\* The archive shows a reader what a log of whole views would: after a file,
\* the view before with each page's range of ids replaced by the page.
ImplementsLog == Log!Spec

\* What the lists are: pages not begun and active orders are of live orders,
\* what is left to compare is of the page and of the view before.
LiveLists == {l \in Lists : \A i \in DOMAIN l : l[i].volume # 0}
ListsOK ==
  /\ phase \in {"idle", "view", "failed"}
  /\ DOMAIN docs \subseteq Nat
  /\ \A p \in DOMAIN docs : docs[p] \in LiveLists /\ DOMAIN docs[p] # {}
  /\ pages \in 0..MaxCount
  /\ active \in LiveLists /\ old \in LiveLists
  /\ cur \subseteq DOMAIN active
  /\ DOMAIN old \cap DOMAIN active \subseteq cur
  /\ phase = "idle" => Compared /\ DOMAIN docs = {}

\* An order has an index while readers keep it, indices are never shared, and
\* those of no order wait on the free list.
IndexOK ==
  /\ DOMAIN index = (DOMAIN active \ cur) \cup DOMAIN old
  /\ size \in Nat
  /\ index \in [DOMAIN index -> 1..size]
  /\ free \in Seq(1..size)
  /\ \A i, j \in DOMAIN index : index[i] = index[j] => i = j
  /\ \A i, j \in DOMAIN free : free[i] = free[j] => i = j
  /\ \A i \in DOMAIN index, j \in DOMAIN free : index[i] # free[j]
  /\ \A k \in 1..size :
       (\E i \in DOMAIN index : index[i] = k) \/ (\E j \in DOMAIN free : free[j] = k)

SizeOK ==
  /\ size = Cardinality(DOMAIN index) + Len(free)
  /\ size <= Cardinality(Ids)

\* A reader that has played all records has in every order's slot what was
\* compared last, and nothing alive anywhere else.
Expected(i) == Order(i, IF i \in DOMAIN old THEN old[i] ELSE active[i])
WrittenOK ==
  /\ written \in [1..size -> [id : Ids, price : Int, volume : Nat]]
  /\ \A i \in DOMAIN index : written[index[i]] = Expected(i)
  /\ \A j \in DOMAIN free : written[free[j]].volume = 0

ReaderOK == (phase = "idle" => slots = written) /\ (phase = "failed" => SelfCheck)

IInv == ListsOK /\ IndexOK /\ SizeOK /\ WrittenOK /\ ReaderOK

\* json_reader.h:41 says of finalize() that it applies changes to
\* active_orders; check() calls it after a record (json_writer.cpp:46) and
\* throws if what was read is not what was written.  So check() throws only if
\* the orders written so far do not read back.
ChecksOnlyMismatches ==
  phase = "failed" =>
    \E i \in DOMAIN index : i \in DOMAIN active \ (cur \cup DOMAIN old) /\
      Order(i, active[i]) \notin Live(written)

=============================================================================
