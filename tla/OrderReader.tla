----------------------------- MODULE OrderReader -----------------------------
(***************************************************************************)
(* apps/order_reader.cpp: main and OrderHandler3 replace the active orders *)
(* of one region by those the server lists, page by page.                  *)
(*                                                                         *)
(*   main thread     marks every order of the region inactive, downloads   *)
(*                   the pages, posts one query per order to the database  *)
(*                   thread, waits until all are released and runs the     *)
(*                   destructors of OrderHandler3's members.               *)
(*   database thread executes the queries in FIFO order, each in three     *)
(*                   statements that commit on their own, releases the     *)
(*                   semaphore and reports the progress.                   *)
(*                                                                         *)
(* The process may be killed at any moment; the database survives, and the *)
(* program is started again.                                               *)
(***************************************************************************)
EXTENDS Integers, Sequences

CONSTANTS
  Orders,     \* order ids of the region
  Unlocated,  \* orders at stations the tables of stations do not know
  Listing,    \* the server's pages: sequences of entries [id, valid]; an order
              \* may be listed twice when pages shift during the download
  MaxRuns     \* bound: how often the program is started

ASSUME ListingAssumption ==
  /\ Listing \in Seq(Seq([id : Orders, valid : BOOLEAN]))
  /\ Len(Listing) > 0
ASSUME UnlocatedAssumption == Unlocated \subseteq Orders
ASSUME RunsAssumption == MaxRuns \in Nat \ {0}

VARIABLES
  mainPc,      \* what the main thread does next
  page,        \* index of the page in `stream`, 0 before the first
  todo,        \* entries of the page not yet handled
  handlers,    \* singleOrderHandlers: the order of every query posted
  semaphore,
  dbPc,        \* what the database thread does next
  dbNext,      \* index in handlers of the query it is at
  dbStopped,   \* io_service::stop() was called
  steps,       \* member `step` of every query run: statements that succeeded
  destroyed,   \* members of OrderHandler3 whose lifetime has ended
  sigCaught,
  cleared,     \* this run has marked the region inactive (history)
  complete,    \* this run has seen the last page (history)
  runs,        \* how often the program was started
  active,      \* table orders: ids with active = 1
  known,       \* table orders: all ids
  sides,       \* ids with a row in buy_orders or sell_orders
  views        \* ids with a row in order_views

mainVars == <<mainPc, page, todo, handlers, destroyed, cleared, complete>>
dbVars == <<dbPc, dbNext, dbStopped, steps>>
tables == <<active, known, sides, views>>
vars == <<mainVars, dbVars, tables, semaphore, sigCaught, runs>>

Members == {"handlers", "semaphore", "statements", "writer"}

TypeOK ==
  /\ mainPc \in {"deactivate", "first", "parse", "post", "next", "wait", "unwind",
                 "stop", "join", "done"}
  /\ page \in 0 .. Len(Listing)
  /\ todo \in Seq([id : Orders, valid : BOOLEAN])
  /\ handlers \in Seq(Orders)
  /\ semaphore \in Nat
  /\ dbPc \in {"idle", "side", "view", "finalize", "report", "exited"}
  /\ dbNext \in Nat \ {0}
  /\ dbStopped \in BOOLEAN
  /\ steps \in Seq(0 .. 3)
  /\ destroyed \subseteq Members
  /\ sigCaught \in BOOLEAN /\ cleared \in BOOLEAN /\ complete \in BOOLEAN
  /\ runs \in 1 .. MaxRuns
  /\ active \subseteq known /\ known \subseteq Orders
  /\ sides \subseteq Orders /\ views \subseteq Orders

Init ==
  /\ mainPc = "deactivate" /\ page = 0 /\ todo = <<>> /\ handlers = <<>>
  /\ destroyed = {} /\ cleared = FALSE /\ complete = FALSE
  /\ dbPc = "idle" /\ dbNext = 1 /\ dbStopped = FALSE /\ steps = <<>>
  /\ semaphore = 0 /\ sigCaught = FALSE /\ runs = 1
  /\ \E stored \in SUBSET Orders :
       /\ active = stored /\ known = stored
       /\ sides = stored /\ views = stored

-----------------------------------------------------------------------------
(* The main thread. *)

MainGoes(label) ==
  /\ mainPc' = label
  /\ UNCHANGED <<page, todo, handlers, destroyed, cleared, complete>>

\* update orders set active = 0 where station in (stations of the region): an
\* order at a station the tables do not list is not reached.
Deactivate ==
  /\ mainPc = "deactivate"
  /\ \/ /\ active' = active \cap Unlocated
        /\ cleared' = TRUE
        /\ mainPc' = "first"
        /\ UNCHANGED <<page, todo, handlers, destroyed, complete>>
     \/ MainGoes("unwind") /\ UNCHANGED active    \* step throws
  /\ UNCHANGED <<dbVars, known, sides, views, semaphore, sigCaught, runs>>

\* The first simpleGet is outside of updateOrders' try block.
FetchFirst ==
  /\ mainPc = "first"
  /\ \/ /\ page' = 1
        /\ mainPc' = "parse"
        /\ UNCHANGED <<todo, handlers, destroyed, cleared, complete>>
     \/ MainGoes("unwind")
  /\ UNCHANGED <<dbVars, tables, semaphore, sigCaught, runs>>

\* Slip: the loop over the page starts at its second entry.
ParseFromSecond ==
  /\ mainPc = "parse"
  /\ \/ /\ todo' = Tail(Listing[page])
        /\ mainPc' = "post"
        /\ UNCHANGED <<page, handlers, destroyed, cleared, complete>>
     \/ MainGoes("wait")
  /\ UNCHANGED <<dbVars, tables, semaphore, sigCaught, runs>>

\* stream >> root; a Json::Exception ends the loop.
Parse ==
  /\ mainPc = "parse"
  /\ \/ /\ todo' = Listing[page]
        /\ mainPc' = "post"
        /\ UNCHANGED <<page, handlers, destroyed, cleared, complete>>
     \/ MainGoes("wait")
  /\ UNCHANGED <<dbVars, tables, semaphore, sigCaught, runs>>

\* One round of the loop over orders: an entry that converts is posted.
PostOrder ==
  /\ mainPc = "post"
  /\ todo # <<>>
  /\ \/ Head(todo).valid /\ handlers' = Append(handlers, Head(todo).id)
     \/ ~Head(todo).valid /\ UNCHANGED handlers
  /\ todo' = Tail(todo)
  /\ UNCHANGED <<mainPc, page, destroyed, cleared, complete, dbVars, tables,
                 semaphore, sigCaught, runs>>

\* The page is done; without a next one the stream stays empty.
LastPage ==
  /\ mainPc = "post"
  /\ todo = <<>>
  /\ page = Len(Listing)
  /\ complete' = TRUE
  /\ mainPc' = "wait"
  /\ UNCHANGED <<page, todo, handlers, destroyed, cleared, dbVars, tables,
                 semaphore, sigCaught, runs>>

\* simpleGet of the next page, then while (!stream.str().empty() && !sig_caught).
\* HttpException is caught in updateOrders, what Poco throws is caught in main.
FetchNext ==
  /\ mainPc = "post"
  /\ todo = <<>>
  /\ page < Len(Listing)
  /\ \/ /\ page' = page + 1
        /\ mainPc' = IF sigCaught THEN "wait" ELSE "parse"
        /\ UNCHANGED <<todo, handlers, destroyed, cleared, complete>>
     \/ MainGoes("wait")       \* an empty answer, or an HttpException
     \/ MainGoes("unwind")     \* any other exception
  /\ UNCHANGED <<dbVars, tables, semaphore, sigCaught, runs>>

\* semaphore.waitFor(n == singleOrderHandlers.size())
AwaitQueries ==
  /\ mainPc = "wait"
  /\ semaphore = Len(handlers)
  /\ MainGoes("unwind")
  /\ UNCHANGED <<dbVars, tables, semaphore, sigCaught, runs>>

\* Slip: the destructor relies on updateOrders to have waited.
UnwindAtOnce ==
  /\ mainPc = "unwind"
  /\ destroyed' = destroyed \cup {"handlers", "semaphore", "statements"}
  /\ mainPc' = "stop"
  /\ UNCHANGED <<page, todo, handlers, cleared, complete, dbVars, tables,
                 semaphore, sigCaught, runs>>

\* Slip: the destructor acquires one less than there are queries.
UnwindShort ==
  /\ mainPc = "unwind"
  /\ semaphore >= Len(handlers) - 1
  /\ destroyed' = destroyed \cup {"handlers", "semaphore", "statements"}
  /\ mainPc' = "stop"
  /\ UNCHANGED <<page, todo, handlers, cleared, complete, dbVars, tables,
                 semaphore, sigCaught, runs>>

\* ~OrderHandler3 acquires what the queries release; then its members die in
\* reverse order of declaration, the writer last.
Unwind ==
  /\ mainPc = "unwind"
  /\ semaphore >= Len(handlers)
  /\ semaphore' = semaphore - Len(handlers)
  /\ destroyed' = destroyed \cup {"handlers", "semaphore", "statements"}
  /\ mainPc' = "stop"
  /\ UNCHANGED <<page, todo, handlers, cleared, complete, dbVars, tables,
                 sigCaught, runs>>

StopWriter ==
  /\ mainPc = "stop"
  /\ dbStopped' = TRUE
  /\ MainGoes("join")
  /\ UNCHANGED <<dbPc, dbNext, steps, tables, semaphore, sigCaught, runs>>

JoinWriter ==
  /\ mainPc = "join"
  /\ dbPc = "exited"
  /\ destroyed' = destroyed \cup {"writer"}
  /\ mainPc' = "done"
  /\ UNCHANGED <<page, todo, handlers, cleared, complete, dbVars, tables,
                 semaphore, sigCaught, runs>>

Main ==
  \/ Deactivate \/ FetchFirst \/ Parse \/ PostOrder \/ LastPage \/ FetchNext
  \/ AwaitQueries \/ Unwind \/ StopWriter \/ JoinWriter

\* sigint_handler
Interrupt ==
  /\ ~sigCaught
  /\ sigCaught' = TRUE
  /\ UNCHANGED <<mainVars, dbVars, tables, semaphore, runs>>

-----------------------------------------------------------------------------
(* The database thread: SingleOrderHandler::run in its three statements.  A  *)
(* Resetter leaves each statement reset, whatever it throws.                 *)

Order == handlers[dbNext]

\* Slip: the view is written first.
InsOrderLast ==
  /\ dbPc = "idle"
  /\ ~dbStopped
  /\ dbNext <= Len(handlers)
  /\ \/ /\ views' = views \cup {Order}
        /\ steps' = Append(steps, 1)
        /\ dbPc' = "side"
     \/ /\ steps' = Append(steps, 0)
        /\ dbPc' = "finalize"
        /\ UNCHANGED views
  /\ UNCHANGED <<mainVars, dbNext, dbStopped, active, known, sides, semaphore,
                 sigCaught, runs>>

\* Slip: insert or ignore, which leaves an inactive row as it is.
InsOrderIgnore ==
  /\ dbPc = "idle"
  /\ ~dbStopped
  /\ dbNext <= Len(handlers)
  /\ active' = active \cup ({Order} \ known)
  /\ known' = known \cup {Order}
  /\ steps' = Append(steps, 1)
  /\ dbPc' = "side"
  /\ UNCHANGED <<mainVars, dbNext, dbStopped, sides, views, semaphore, sigCaught,
                 runs>>

\* insert or replace into orders(..., active) values(..., 1)
InsOrder ==
  /\ dbPc = "idle"
  /\ ~dbStopped
  /\ dbNext <= Len(handlers)
  /\ \/ /\ active' = active \cup {Order}
        /\ known' = known \cup {Order}
        /\ steps' = Append(steps, 1)
        /\ dbPc' = "side"
     \/ /\ steps' = Append(steps, 0)
        /\ dbPc' = "finalize"
        /\ UNCHANGED <<active, known>>
  /\ UNCHANGED <<mainVars, dbNext, dbStopped, sides, views, semaphore, sigCaught,
                 runs>>

\* insert or ignore into buy_orders or sell_orders
InsSide ==
  /\ dbPc = "side"
  /\ \/ /\ sides' = sides \cup {Order}
        /\ steps' = [steps EXCEPT ![dbNext] = 2]
        /\ dbPc' = "view"
     \/ /\ dbPc' = "finalize"
        /\ UNCHANGED <<sides, steps>>
  /\ UNCHANGED <<mainVars, dbNext, dbStopped, active, known, views, semaphore,
                 sigCaught, runs>>

\* insert or replace into order_views
InsOrderView ==
  /\ dbPc = "view"
  /\ \/ /\ views' = views \cup {Order}
        /\ steps' = [steps EXCEPT ![dbNext] = 3]
     \/ UNCHANGED <<views, steps>>
  /\ dbPc' = "finalize"
  /\ UNCHANGED <<mainVars, dbNext, dbStopped, active, known, sides, semaphore,
                 sigCaught, runs>>

\* Slip: onSqlError() forgets to finalize.
ReleaseOneIfStored ==
  /\ dbPc = "finalize"
  /\ semaphore' = semaphore + IF steps[dbNext] = 3 THEN 1 ELSE 0
  /\ dbPc' = "report"
  /\ UNCHANGED <<mainVars, dbNext, dbStopped, steps, tables, sigCaught, runs>>

\* finalize(), reached by run() and by onSqlError() alike: semaphore.release()
ReleaseOne ==
  /\ dbPc = "finalize"
  /\ semaphore' = semaphore + 1
  /\ dbPc' = "report"
  /\ UNCHANGED <<mainVars, dbNext, dbStopped, steps, tables, sigCaught, runs>>

\* The rest of finalize(): semaphore.get(), singleOrderHandlers.size(), print.
ReportProgress ==
  /\ dbPc = "report"
  /\ dbNext' = dbNext + 1
  /\ dbPc' = "idle"
  /\ UNCHANGED <<mainVars, dbStopped, steps, tables, semaphore, sigCaught, runs>>

WriterExit ==
  /\ dbPc = "idle"
  /\ dbStopped
  /\ dbPc' = "exited"
  /\ UNCHANGED <<mainVars, dbNext, dbStopped, steps, tables, semaphore, sigCaught,
                 runs>>

Writer ==
  InsOrder \/ InsSide \/ InsOrderView \/ ReleaseOne \/ ReportProgress \/ WriterExit

-----------------------------------------------------------------------------
\* The process is killed, or has returned, and is started again.
Restart ==
  /\ runs < MaxRuns
  /\ runs' = runs + 1
  /\ mainPc' = "deactivate" /\ page' = 0 /\ todo' = <<>> /\ handlers' = <<>>
  /\ destroyed' = {} /\ cleared' = FALSE /\ complete' = FALSE
  /\ dbPc' = "idle" /\ dbNext' = 1 /\ dbStopped' = FALSE /\ steps' = <<>>
  /\ semaphore' = 0 /\ sigCaught' = FALSE
  /\ UNCHANGED tables

Next == Main \/ Interrupt \/ Writer \/ Restart

\* Both threads are preemptive; a download ends by Poco's time-out.
Fairness == WF_vars(Main) /\ WF_vars(Writer)

Spec == Init /\ [][Next]_vars /\ Fairness
-----------------------------------------------------------------------------
(* Properties. *)

Left == mainPc \in {"stop", "join", "done"}

\* What ~OrderHandler3 protects: once members are gone the database thread runs
\* no query any more.  All it may still do is to report the last release, and
\* that report reads the destroyed semaphore and handlers.
OnlyTheLastReportIsLate ==
  destroyed # {} => \/ dbPc \in {"idle", "exited"} /\ dbNext > Len(handlers)
                    \/ dbPc = "report" /\ dbNext = Len(handlers)

\* Every posted query has run when main leaves, on every exception path.
NothingDropped == Left => Len(steps) = Len(handlers)

\* An order is active exactly if this run stored it: no order survives from an
\* earlier run, killed or not, and none that was stored is lost; but an order at
\* an unknown station stays active for ever.
Stored == {handlers[i] : i \in {j \in DOMAIN steps : steps[j] >= 1}}
ActiveIsStored ==
  cleared => Stored \subseteq active /\ active \subseteq Stored \cup Unlocated

ValidIds(entries) == {entries[i].id : i \in {j \in DOMAIN entries : entries[j].valid}}
ValidUpTo(last) == UNION {ValidIds(Listing[p]) : p \in 1 .. last}
Accepted == ValidUpTo(Len(Listing))

\* A run that saw all pages and failed nowhere leaves exactly the listed orders
\* active, whatever state earlier runs were killed in.
SnapshotIsListing ==
  mainPc = "done" /\ complete /\ (\A i \in DOMAIN steps : steps[i] = 3) =>
    active \ Unlocated = Accepted \ Unlocated

\* A price seen belongs to an order on record: the three statements of a query
\* commit one by one, but in an order that leaves no dangling view.
ViewsHaveOrders == views \subseteq known \cap sides

\* The program returns, however it was interrupted.
Terminates == <>[](mainPc = "done")
-----------------------------------------------------------------------------
(* The inductive invariant. *)

\* Queries the database thread has released the semaphore for.
Released == IF dbPc = "report" THEN dbNext ELSE dbNext - 1

\* Where the database thread is in the list of queries, and what the member
\* `step` of the query it is at says.
WriterInv ==
  /\ dbNext - 1 <= Len(handlers)
  /\ dbPc \notin {"idle", "exited"} => dbNext <= Len(handlers)
  /\ Len(steps) = IF dbPc \in {"idle", "exited"} THEN dbNext - 1 ELSE dbNext
  /\ dbPc = "side" => steps[dbNext] = 1
  /\ dbPc = "view" => steps[dbNext] = 2

\* What ~OrderHandler3 has taken out of the semaphore: one per query.
Acquired == IF Left THEN Len(handlers) ELSE 0

CountInv ==
  /\ semaphore + Acquired = Released
  /\ Left => Len(handlers) <= Released

\* Where the main thread is: there is a page to parse, and the destructors run
\* in their order.
MainInv ==
  /\ mainPc \in {"parse", "post"} => page >= 1
  /\ destroyed # {} => Left
  /\ dbStopped => mainPc \in {"join", "done"}
  /\ dbPc = "exited" => dbStopped
  /\ mainPc = "deactivate" => handlers = <<>> /\ ~cleared

\* The rows the query at hand has written so far.
RowsInv ==
  /\ dbPc \in {"side", "view"} => Order \in known
  /\ dbPc = "view" => Order \in sides

\* What every reachable state satisfies: the queries' places, the count of
\* releases, the tear-down, and the rows they imply.
IInv ==
  /\ TypeOK /\ WriterInv /\ CountInv /\ MainInv /\ RowsInv
  /\ ActiveIsStored /\ ViewsHaveOrders

\* The queries posted are those of the pages so far, but for what is still to do
\* of the last one, and a run that is complete has cleared the region before.
PostedIds == {handlers[i] : i \in DOMAIN handlers}
PagesInv ==
  /\ complete \/ mainPc \in {"first", "parse", "post"} => cleared
  /\ mainPc \in {"deactivate", "first", "parse", "post"} => ~complete
  /\ mainPc \in {"deactivate", "first"} => handlers = <<>>
  /\ mainPc = "parse" => PostedIds = ValidUpTo(page - 1)
  /\ mainPc = "post" => PostedIds \cup ValidIds(todo) = ValidUpTo(page)
  /\ complete => PostedIds = Accepted
=============================================================================
