# Formal models of EveIndustryPlanner

TLA+ models of this repository: its concurrent readers and servers, its archive
codec, and the planner with the data it plans from. With them the TLC
configurations that check them on small instances, and TLAPS proofs of the properties that
matter most, for every value of the constants.

    tlc -config history_rows.cfg MCHistoryReader      # every .cfg names its module below
    tlapm HistoryReaderProofs.tla

Paths below are relative to the repository's root (`src/` in PROJECT.json).

## 1. The system

The repository is a set of programs around two SQLite databases: programs that
fill them (the readers and the recorder), a planner that chooses what to build
from them, a small account server, and a compressed archive of order snapshots.

| Component | State it keeps | Operations | Interaction | Hard behaviour | What makes it correct |
|---|---|---|---|---|---|
| history reader `apps/history_reader.cpp` | requests and their queries, two prepared statements, two kinds of counting semaphores, `sig_caught` | `saveHistories`, `handleResponse`, `onHttpError`, `HistoryQuery::run`, `UpdateQuery::run`, destructors | main posts requests to 15 workers, workers post queries to one database thread by reference, releases flow back | tear-down under SIGINT, failures on each path, waits for an exact count | nothing used after its destructor, no query dropped, a type is marked fresh only after its rows, every wait ends |
| order reader `apps/order_reader.cpp` | the page, one query per order, the tables of orders | `updateOrders`, `SingleOrderHandler::run`, `finalize`, `~OrderHandler3` | main downloads and posts, the database thread executes and counts | exceptions that skip the wait, a kill between pages, three statements that commit alone | active orders are those listed, nothing dropped, no dangling rows |
| semaphore `libs/Semaphore` | a count, a mutex, one condition variable | `release`, `acquire`, `acquireAndDo`, `waitFor`, `setTo`, `when`, `ifThenSetTo`, `waitAndDo`, `waitAndSetTo`, `get` | under every other component | one condition variable for different conditions, `acquire` that notifies nobody | atomic calls, no missed wake-up |
| database runner `libs/QueryRunner` | an `io_service` queue and its thread | `withConnection`, `postQuery`, stop and join | queries posted by reference | `stop()` drops what is queued | queued queries are waited for first |
| HTTP runner `libs/HTTPSRequestHandler` | a queue, a session and a thread per worker, the round-robin index | `postRequest`, redirects, stop and join | calls `handleResponse` or `onHttpError` | as above, exceptions out of a response handler | each request is answered once |
| sqlite wrapper `libs/sqlite-util` | a statement is ready or stepped | `bind`, `step`, `reset`, `Resetter`, `Transaction` | used by all | `reset` skipped after an error, a rollback that throws in a destructor | a failed step does not disturb later ones (it does in the history reader) |
| relay recorder `emdr_db/main2.cpp` | two circular buffers, tables `orders` and `last_update`, `sigint` | receive, collect, `updateMaxIskHaulData`, commit, rollback | receiver and database thread share a buffer under a mutex | overflow, retry after failure, late messages, SIGINT against a blocking `recv` | order and uniqueness of messages, tables hold the latest rowset |
| account server `apps/server.cpp`, `www/` | the table `accounts`, two prepared statements, a semaphore per request | `AccountAdder`, `AccountLister`, `DefaultHandler`, `sigint_handler`, shutdown | a request's thread waits on a semaphore of its own stack for one of two database threads; other programs share the file | lifetime of that stack, exceptions outside the `try`, locks held from one `step` to the next, SIGINT at each point of `main` | answered once, own id reported, listings linearizable, ends after SIGINT |
| order archive codec `apps/pricing` | the active orders, an index of slots, a free list | write a snapshot as changes, play it back, check | a directory of tarballs in, one file out; `OrderReader` plays it | pages that meet or overlap, slots that are reused, a count of one byte, `check()` after each record | playing back gives the view that was written |
| archive analysis `apps/pricing/main.cpp` | the view before | compare two views | iterates over a reader | orders that come, go and change; views far apart; unsigned volumes | every volume is accounted for |
| planner `apps/main/src/planner.cpp` | columns, rows, a solution | `addJob`, `ensureResource`, `solve` | fed by the workspace, solved by soplex | duplicate names, row ranges, an infeasible program | a plan can be carried out |
| workspace `apps/main/src/workspace.cpp` | three cache files, the loaded data | load or write a cache, compare, feed the planner | disk, all the loaders | killed while writing, caches older than their sources | what is loaded belongs together |
| industry resources `libs/industry_resources` | types, products, inventions, copies, resources | build and filter jobs | made by the workspace, read by the planner | technology levels, moved requirements, tables that must agree | each job takes and gives what the blueprint says, and only if the character can |
| market data, assets, names, groups, skills | maps of rows of files and tables | load, look up | read by all jobs | unnamed types, keys that are doubles, skills below zero | rows are found or ignored, not mistaken |
| access token `libs/access_token` | none | four requests | posts requests of its own stack | returns before they are handled | no program calls it |
| finalizer, outdated types, settings, price and station readers, scripts, unused code | static data or none | SQL queries and readers | | | |

PROJECT.json lists every component with its state of modelling, and under
`hazards` what in this code a test would hardly reach, at its line.

## 2. Modules

| Module | Models | Composition |
|---|---|---|
| `HistoryReader` | `history_reader.cpp` with the workers of `HTTPSRequestHandler.cpp` and the thread of `QueryRunner.cpp` | implements `HistoryBatch`; semaphore calls are single steps, justified by `Semaphore` |
| `HistoryBatch` | what the history reader promises, without threads | abstract |
| `Semaphore` | `Semaphore.cpp`, mutex and condition variable step by step | implements `AtomicSemaphore` |
| `AtomicSemaphore` | a counter whose calls are atomic and, if blocking, return once their condition stays true, unless an `acquire` made it true unannounced | abstract |
| `OrderReader` | `main` and `OrderHandler3` of `order_reader.cpp` with the database thread | |
| `EmdrRecorder` | `main` of `emdr_db/main2.cpp` | |
| `AccountServer` | `apps/server.cpp` with `QueryRunner.cpp` | implements `AccountService` |
| `AccountService` | a table whose additions and listings take effect one at a time | abstract |
| `OrderArchive` | `JsonWriter` and the `OrderReader` it checks itself with | implements `OrderLog` |
| `OrderLog` | an archive as a log of whole views | abstract |
| `ViewAnalysis` | `TritaniumBuyAnalysis` of `apps/pricing/main.cpp` | extends `OrderArchive`: a step of the analysis for every view a reader shows |
| `Industry` | the jobs, as operators of the loaded files: `libs/industry_resources`, `market_data`, `assets`, `skills` | |
| `Workspace` | the program `apps/main`: constructor, caches, feeding, linear program, report | extends `Industry`, whose operators its actions call |
| `FiniteSums` | facts about `SumFunction`, proved by induction on finite sets | used by `WorkspaceProofs` |
| `HistoryReaderProofs`, `SemaphoreProofs`, `OrderReaderProofs`, `EmdrRecorderProofs`, `AccountServerProofs`, `OrderArchiveProofs`, `WorkspaceProofs` | theorems and proofs | each extends its component |
| `MC...` | values of the constants for TLC | each extends its component |

A definition whose comment begins with "Slip:" is a plausible wrong version of
the operation that follows it. It is not part of any specification; it shows that
some property would notice such a bug.

### HistoryReader

A request is a number; `httpQueue[h]` is the queue of a worker's `io_service`,
`nextHandler` the group's round-robin index. `dbLog` is every query ever posted
and `dbNext` the one the database thread is at, so that the queue is the rest of
the log and order properties can speak of the past. `results` and `stmt` record
what SQLite did: `HistoryQuery::run` resets its statement only after a
successful step, and a statement that is not reset refuses every later bind.
`reaped` and `destroyed` are the objects whose destructor has run.

Main: `PostRequest`, `CheckFinished` (the predicate of `waitFor`, which also
reads `sig_caught`), the sleep, then the destructors in the order C++ runs them:
`StopHandler`/`JoinHandler` per worker, `ReapRequest` (acquires one release per
query and one more), `DestroyMembers`, `StopWriter`, `JoinWriter`. A worker:
`TakeRequest`, `HttpError` or `HttpResponse`, one `PostInsert` per record,
`PostUpdate` and `AwaitUpdate`, `ReleaseOne`, `ReportProgress`. The database
thread: `RunInsert`/`RunUpdate` with the outcomes ok, bind error, step error,
misuse, then `ReleaseLock`. `onHttpError` and `onSqlError` only print and call
`finalize()`, so they join the successful path there.

A download with its redirects is one step that succeeds or fails. Record
contents are "valid" or "invalid" by whether they convert.

### Semaphore

A thread is outside, waiting for the mutex, inside, about to sleep, asleep, in
the callback of `acquireAndDo`, notifying or leaving. `Test` and `Fun` stand for
the predicates and functions callers pass. `acquire` and `acquireAndDo` lower the
count and notify nobody (`Semaphore.cpp:27-41`), so a thread that waits for an
exact or a low count sleeps on when they make its condition true. `overlooked` is
the set of the threads to which that has happened since the last notification.
`NoMissedWakeup` says that nobody else sleeps on a true condition, and that those
who wait for a large count, as `acquire` itself does, are never overlooked.
`AtomicSemaphore` makes the same exception: it promises the return of a call whose
condition stays true *unless the call was overlooked and nothing has been
announced since*. Without the exception the refinement is false: a release of 2
and an acquire of 1 past a thread in `waitAndSetTo` that waits for 1 leave it
asleep at 1 for good, and the runs reach that state.

### OrderReader

The entries of the server's pages are `[id, valid]`. `handlers` is the vector of
queries, `steps` their member `step`; the tables are the sets `active`, `known`,
`sides` and `views` of order ids. `Deactivate` marks all orders at known stations
of the region inactive; `FetchFirst`, `Parse`, `PostOrder`, `FetchNext` and
`LastPage` are `updateOrders` with each exception where it is thrown and caught;
`AwaitQueries` is its wait and `Unwind` the destructor's. `InsOrder`, `InsSide`,
`InsOrderView`, `ReleaseOne` and `ReportProgress` are the database thread.
`Restart` is a kill, at any moment, and a new start on the tables left behind.

The model assumes that jsoncpp's `operator>>` leaves the stream usable for the
next page (it copies the stream's buffer); if it left the end-of-file bit set,
the next download would appear empty, which is one branch of `FetchNext`.

### EmdrRecorder

A message is a sequence of rowsets; entries of the two circular buffers carry
the number of their arrival. `Collect` moves the buffer under the mutex and
begins the transaction, `NextMessage` and `ApplyRowset` are the nested loops over
messages and rowsets, `Commit` ends it and clears the local buffer. `draft` is
what the open transaction sees of the tables. `FailOnBadRow` (a row that violates
a check constraint), `FailForOnce` (a locked database) and `FailInDestructor`
(SQLite rolled back by itself, so the rollback step throws in `~Transaction` and
the process terminates) are the error paths. `last_update` is read by region
only: the row compared is any row of the region, which SQL leaves open.

`sigint` is a plain `bool` shared by two threads. Both loops call functions the
compiler cannot see through, so the model lets each see the other's write; the
unlocked read of `messageBuffer.size()` is printed only and left out.

### AccountServer

A request has a handler (`handlerPc[r]`) on a thread of Poco's pool and, on that
thread's stack, a `semaphore[r]`. `asked[r]` is its path and the name in its
form, `None` if there is none; `replies[r]` is what was sent. `Accept` is the
factory, `Decline` the two answers that need no database, `Post` the
`postQuery` of the other two handlers and `Return` their `acquire`.

`QueryRunnerGroup` is made with one runner, so each statement has one queue and
one thread: "adder" with the insert, "lister" with the select. A closure stays at
the head of `queue[k]` until `reset(stmt)` after it. `Bind`, `Insert`,
`SendCreated` are the adder's `try` block up to the answer, `FailToInsert` its
`catch`; `Fetch` is one turn of the lister's loop, `SendListed` and `FailToList`
the end of it. `Release` is the last statement of either closure; from then on
the handler's stack may be gone, while `Reset` still has the statement that was
bound to the handler's string (`bound`).

The listing's `root` is filled row by row, and while it is the select holds
SQLite's shared lock: no insert and no other program commits meanwhile. A
statement that meets the lock fails with `SQLITE_BUSY`, the code sets no busy
time-out.

`schema` is the table the file has. `create_data.sql` makes one whose accounts
have a `type` that must not be null ("created"); "fitting" has just the columns
the two statements name. No file of the repository makes the latter, but only
with it can the server add anything, so `accounts_service` takes both. The columns
of a row are `accounts`, its description, and `column1`, what `select *` has
second: the type in the first table, the description in the other. `Fetch` delivers
`column1`, as `column<std::string>(stmt, 1)` does.

`main` is `InstallHandler`, `Lock`, `Sleep`, `Wake`, `StopAll`, then `Exit` or
`GiveUp`. The wait is not one step as in the other models, because `Interrupt`
runs on main's own thread and `release` takes the mutex that main holds while it
tests the count: then main is "stuck". SIGINT before `std::signal` kills. Poco's
pool waits ten seconds for its threads and then goes on (`GiveUp`). The factory,
and with it the runners, is kept by every connection that still has a request, so
`Stop` needs `InFlight = {}`.

A client that reads its answer is a request in state "returned": the socket is
flushed when the handler returns, or when the server closes it.

### OrderArchive, OrderLog and ViewAnalysis

A list of orders is sorted by id, so it is a function of ids; of an order price
and volume are kept, the two fields a record can change (the others are fixed
for an id). `Open` reads the next tarball (`readOrders`: the last entry of a page
number wins, orders without volume are no orders, an entry that does not parse is
empty and one that does not convert ends the reading). `BeginPage` puts a page in
the place of the ids it covers; then `NewOrder`, `KeptOrder` and `GoneOrder`
are the merge of the page with what it replaced, and `Close` ends the file.

`index` and `free` are `index_` and `free_list_`; `written` is what a reader has
in its slots when it has played every record, `slots` what it has when it only
plays whole views whose page count it understands (`AsInt8`). `SelfCheck` TRUE is
the code, which calls `check()` after each record; FALSE is the codec alone.

`ViewAnalysis` steps with each `Close`: `Merged` is the loop over two views side
by side (`MergedFrom`: what it sums from any two places of the lists on), `apart`
whether their times are half an hour apart. Volumes are unsigned 32-bit numbers
(order.h:41) that are subtracted before they are added to a `long long`
(main.cpp:168): `Minus` is that difference, modulo `VolumeModulus`.

Not kept: `active_orders2_`, which is indexed one past its end and never read; the
bytes of a record and the 8 GB they are written to without a bound; the type,
station and other fields of an order. An integer "price" of a snapshot fails
`IsDouble` and is an entry that does not convert, with which the rest of the
tarball is lost.

### Industry and Workspace

`ws` is the workspace after its constructor, a record of what the files hold, and
every operator of `Industry` takes it. `Products`, `Inventions` and `Copies` are
the lists `processBlueprints` fills and `Jobs::filter` thins out, in the order of
`blueprints.yaml`. A list is a function of positions: what is left of one keeps its
positions (`RestrictValues`), and lists are put `Together` side by side, as the
order of the jobs means nothing to the planner. `ManufacturingJobs`, `InventionJobs`, `CopyJobs`, `MarketJobs`
and `PlanetaryJobs` build the jobs, and a job is `Thrown` where the code throws
while it builds one. The columns of the linear program are a function of the jobs'
names, which `addJob` refuses to take twice. A resource is named by its kind and its type; `Stock` is how
much of it there is to begin with. Percentages are integers and runs of a copy are
counted in `Run`-ths, so that each coefficient of the linear program is one.
`Inexact` is the set of percentages p for which `0.01 * double(p)` is not the
literal the tables have.

`Workspace` has the program counter of the constructor. `ReadTypeIds` or
`LoadYaml`, `OpenNames`, `OpenGroups`, `CloseGroups`, `CloseNames` and
`CompareTypeIds` are `loadTypeIds`: two streams that are opened in one order and
closed in the other, a file being `Partial` in between. `LoadFiles` is the look-up
of skills, assets and owned copies by name, of the skills the character has and of
the `FixedSkills` the code itself names (skills.cpp:42-94; `Names::getTypeId`
throws for a name that is not there), `ReadMarket` to `CompareMarket` the
cache of the orders, `AddPlanetary` to `AddCopy` `feedPlanner`, one step per kind
of job, and `Solve`, `Choose` and `Report` the planner. `Kill` ends the program at
any step; then `DeleteCache` and `UpdateSources` may change the files.

`workspace.cpp:198` returns before `feedPlanner`, so that the program at this
commit loads everything and plans nothing. `FeedsPlanner` is TRUE for the program
without that line, and the runs take it.

soplex is external: `Choose` adds a unit of any job for which everything it takes
is there, so `Report` sees every whole plan of up to `MaxUnits` units that can be
built up in some order. Fractions of a job and plans that borrow from themselves
(a cycle of jobs) are left out.

## 3. Runs

| Run | Question | Bounds and why they are enough |
|---|---|---|
| `history_rows` | tear-down, the log of queries, what a failed step costs | 2 types, 2 workers, answers of 0 to 2 records with bad ones before good ones. Two of each give every overlap: a worker stopped while the other works, a query of one request behind a failed one of another |
| `history_batch` | refinement of `HistoryBatch`, wake-ups, every run ends | 3 types on 2 workers: one worker has a queue when it is stopped, and the round robin wraps |
| `semaphore_calls` | wake-ups, atomicity of every call, and that it returns | 3 threads with one call each of eleven, and a second one of `acquire(1)` and `setTo(1)`: any three callers with different conditions, two sleepers and one that releases, and a sleeper that an acquire after a release overlooks, while the second calls of the others take the count away and bring it back |
| `orders_region` | active orders, dangling rows, tear-down, termination | 2 pages that list an order twice and an entry that does not convert; an order no longer listed, one at an unknown station; every subset of orders in the tables at first; 2 starts |
| `recorder_tables` | place and order of messages, contents of the tables, delivery and termination | 4 messages through buffers of 2, so that either buffer overflows and a message may be pushed out of the second by those of the first; 5 contents: two states of one market, two rowsets in one message, a bad row, no orders; 1 passing failure |
| `recorder_goes_back` | does a rowset that is "too old" never replace a newer one? It does: see Findings | 3 messages |
| `accounts_service` | lifetime of stacks, dropped closures, exceptions, ids, what a listing has; refinement of `AccountService`; every handler returns, SIGINT ends the process | 2 requests of any kind: an addition during a listing, the reverse, and one queued behind another; 2 names, a table of at most 2 rows that another program may fill too, both schemas, 2 SIGINTs (one while main holds the mutex, one after `stopAll`). The safety properties are proved for any number of requests |
| `accounts_conflict` | does an addition that is answered "already exists" exist? It need not: see Findings | 2 requests, the table of `create_data.sql` |
| `archive_views` | reading back, slots, refinement of `OrderLog`, the volumes of the analysis | up to 4 files of 3 ids; every page of three orders of four quotes, and pages that are side by side, apart, overlapping, in the wrong order or twice the same, entries skipped or unreadable. Four files are enough to free a slot, reuse it, change the order in it and free it again; a page count of 2 stands for 127, and a modulus of 4 for 2^32: the volumes are 0, 1 and 2, and one rises from 1 to 2 |
| `archive_check` | does `check()` throw only if the archive does not read back? No: see Findings | 2 files |
| `industry_plan` | agreement of caches, causes of failure, and what the jobs and the plan promise | 10 sets of files, one per situation: T1 ships, T2 probes by invention (also with owned runs), T3 hulls from relics, planets, and five the program gives up on or cannot plan for, at once or after an update. 1 kill at any step, any cache deleted, 2 versions of the sources; plans of up to 6 units (copy, invent, buy, produce and sell need 5) |
| `industry_owned` | does every owned run count? No: see Findings | no kill, no plan: the rows are enough |

`CHECK_DEADLOCK FALSE` stands where the system may stop: threads need not call
the semaphore again, and the programs end (`HistoryReader` has an explicit
`Terminated` step instead); a half-built plan of `Workspace` may have no
completion that satisfies the equations.

### What the properties say

- `NoUseAfterDestroy`, `NoQueryDropped`: the order of destruction alone keeps the
  references alive that workers and the database thread hold.
- `MarkedAfterInserts`: `last_history_update` is written after all inserts of its
  type ran. It does not say that they succeeded: failed inserts and a document
  that does not parse are followed by the update all the same.
- `StepErrorLosesTheRest`: the exact cost of the missing reset. After one failed
  step every later query of that statement is lost, and no others.
- `WaitsNeverOvershoot`: the waits compare with `==`, so a count past the value
  would hang the worker.
- `NoLostWakeup`, `Terminates`: main returns when all types are finalized or after
  SIGINT, and although SIGINT notifies nobody, the next release lets main see it.
  That each type is finalized exactly once on every path is part of
  `ImplementsBatch`.
- `ImplementsBatch`, `ImplementsAtomic`: the refinements, liveness included for
  the semaphore.
- `OnlyTheLastReportIsLate`: after `~OrderHandler3` no query runs; but `finalize()`
  reads `semaphore` and `singleOrderHandlers` after the release that lets the
  destructor go on, so the report of the last query may read destroyed members.
  The property states exactly this and no more.
- `ActiveIsStored`, `SnapshotIsListing`, `ViewsHaveOrders`: what the tables hold
  after any failure or kill, and after a complete run. Orders at stations that the
  tables do not list stay active for ever.
- `EachInOnePlace`, `InOrderOfArrival`, `LostToOverflowOnly`: messages are neither
  lost, doubled nor overtaken when transactions fail and are tried again.
- `MarketIsLatest`: deleting by region and by the stations a rowset mentions
  removes all the rowset replaces. Orders at unknown stations are removed only when
  a later rowset mentions their station.
- `Delivered`: a bad message holds back all others until overflow pushes it out;
  nothing else does.
- `Terminates` of the recorder: SIGINT may come between the test of `sigint` and
  `recv`, so the program may wait for one more message; for nothing else.

- `StackIsLive`: a closure uses request, response and semaphore of a handler that
  still waits, on every path, and the insert is never stepped with the string of a
  handler that has returned, although the binding outlives it until the next bind.
- `NothingDropped`, `NeverTerminates`: `stop()` drops queued closures and `bind`
  stands outside the `try`; neither ever matters, because a runner outlives the
  connections and the reset follows each closure.
- `CreatedIsStored`: the id is asked of the connection, not of the table, so that
  additions of others in between do no harm.
- `ReadYourWrites`, `Linearizable`: `script.js` asks for the listing when it has the
  answer to an addition, and gets it on another connection. The linearization point
  of an addition is its commit, of a listing its last row: it is safe only because
  the shared lock is held from the first row to the last. They say which rows a
  listing has, in either table; what it shows of a row is the second column,
  `column1` of the service too, which is the description in "fitting" and the type
  in "created" (see Findings). The service may refuse any addition, so that a
  wrong "already exists" is left to `accounts_conflict`.
- `Answered`, `Ends`: no client waits for ever; SIGINT ends the process or finds
  main holding the mutex, and nothing else stops it.

- `ReadsBack`, `SlotsAccounted`, `ImplementsLog`: between files a reader has the
  writer's orders, each in one slot, no slot is leaked or given twice, and a file
  shows the view before with each page's range of ids replaced by the page. They
  hold as long as no file has more pages than an `int8_t` counts (`PagesFit`),
  which the code does not check. The model's slots have no limit; a reader has
  600000 (json_reader.cpp:81) and writes where the index says. `SlotsAccounted` is
  what keeps it inside: slots are reused, so there are never more than orders
  (`size <= Cardinality(Ids)`), and the limit is an assumption about the market.
- `VolumeAccounted`: what a view offered, plus what is new, less what was sold, is
  what the next one offers, in whatever order the two lists end, as long as no
  order of both views grew. For each order that did, the table says that 2^32 more
  was sold than was: no line of the repository says what it should say, so this is
  stated as the exact extent of the wrap and not as a finding.
- `NamesMatchGroups`: names and groups are of one `typeIDs.yaml`, because both are
  written if either is missing and the names stay cut off until the last stream is
  closed.
- `FailureHasCause`: the program gives up only on data it is not written for, a
  cache cut off by a kill, or a stale one. `Sound` spells out what the data must
  satisfy, among it that no product is made by two blueprints, that every
  material has an adjusted price, and that `typeIDs.yaml` names what the user has (of
  the owned blueprints only the copies are looked up) and the skills
  `loadSkillLevels` asks for by name: one that a new version renames ends the
  program, which the case `renamed` does.
- `SkillsSuffice`: the exact extent of the skill filters, which do not see the
  second and further outcomes of an invention.
- `InventedIsUsable`: the efficiencies inventions yield and those jobs take are two
  tables (`stuff.cpp:61` and `:73`); an invention outside of the other could never
  be planned, since a resource of which there is nothing is used up exactly.
- `PlanIsCovered`: the rows of the linear program, read back in terms of the files:
  copies, goods, laboratory time and money, as long as no product has two makers: a
  column is then not told which blueprint it is of.
- `NothingIsAPlan`: the program is infeasible for one reason only.

### Findings

`archive_check`: the three throws of `OrderReader::finalize`
(`apps/pricing/json_reader.cpp:224-237`) stand under an `if` without braces whose
body is the line that prints, so they are unconditional. `check()` calls it after
nearly each record; the writer ends at the first order of the first file.

`industry_owned`: `assets.cpp:86` computes the key of an owned copy as
`0.01 * double(100 - te)`, the jobs look it up by the literals of `Stuff::bpes`.
For 94 and 95 the two doubles differ, so runs of time efficiency 6 or material
efficiency 5 (what Augmentation and Process decryptors give) are never found.

Seen while modelling, in the models as the code has it: `skills.cpp:59` leaves less
than no processors to a character whose command-centre skill is below 2, which
makes the whole program infeasible, whatever the settings say of planets
(`planetaryInteraction` is read and not used); one product without a price ends
manufacturing (`products.cpp:186`) where every other job skips it; market orders
for relics are skipped as blueprints (`market_data.cpp:129`), so that relics must be
owned; the comment at `assets.cpp:83` has the sign of quantities the wrong way
round: copies are the rows with -2. The account listing sends column 1 of
`select * from accounts` as the description (`apps/server.cpp:34,40`), and the page
shows it under the heading "Name" (`www/index.html:5`): in the table of
`create_data.sql` column 1 is `type`, so that it shows types.

`accounts_conflict`: every exception of the insert is answered "already exists"
(`apps/server.cpp:102`). In the table of `create_data.sql:5` the insert violates
`type ... not null`, so that no account can ever be added and each attempt is
told that it exists, also to an empty table. A busy file gets the same answer.

`recorder_goes_back`: the comment at `emdr_db/main2.cpp:673` calls a rowset "too
old" when `last_update` is not older. The table is keyed by region and type
(`create_last_update.sql:5`) and was filled with the latest time of each
(`script.sql:19`), but the query at line 666 asks for the region only. A late
rowset of one type is then compared with another type's time, taken, and the
newer orders are deleted. `MarketIsLatest` is therefore about the rowset taken
last, not the newest. The other direction (a newer rowset skipped because another
type is fresher) follows from the same line.

### Fairness

`HistoryReader`, `OrderReader`: weak fairness of each thread. They are preemptive,
a download ends by an answer or by Poco's time-out, a query by its result; SIGINT,
failures and kills owe nothing. `Semaphore`: weak fairness of a thread inside the
mutex and strong fairness of taking it, because `std::mutex` is not fair: a thread
gets it if it is free again and again. Nobody has to call anything and no
spurious wake-up has to come. `EmdrRecorder`: weak fairness of both threads; the
relay owes no message. `AccountServer`: weak fairness of main, of each handler once
it has a request, and of each database thread; clients, signals and other programs
owe nothing, and Poco's ten seconds may pass at any time or never. `AtomicSemaphore` states as fairness what callers may rely
on, overlooked calls excepted; it is checked, not assumed, of `Semaphore`, for three
threads with one call of every kind and a second one that undoes or repeats an
exception. That calls return is not proved, and of more threads not checked.

## 4. Proofs

All hold for every value of the constants under the ASSUMEs of the modules: sizes
are natural numbers, at least one worker, answers are sequences of records,
`Calls` are records of the interface, the listing has a page, the recorder's
messages list orders of the rowset's type and, where the tables know the station,
of its region (the game's data, not this code, guarantees that); the accounts
there at first have different descriptions; no archived file has more pages than
its count holds. `Workspace` assumes of the data its types alone (`TypedWorld`:
lists are finite, amounts, prices and levels are numbers, no blueprint is listed
twice and invents nothing twice), which is what the parsers and the unsigned types
of the code give; whether materials, names and prices fit each other is left open,
and is what `FailureHasCause` is about. No theorem needs to bound the kills, the
updates or the units of a plan.

| Theorem | States |
|---|---|
| `HistoryReaderProofs`: `Invariance`, `TypeCorrect`, `DestroySafe`, `DropSafe`, `MarkSafe`, `OvershootSafe`, `StepErrorCost`, `SleepSafe`, `PipelineImplementsBatch` | `IInv`, `TypeOK`, `NoUseAfterDestroy`, `NoQueryDropped`, `MarkedAfterInserts`, `WaitsNeverOvershoot`, `StepErrorLosesTheRest`, `NoLostWakeup`, `ImplementsBatch` |
| `SemaphoreProofs`: `SemaphoreTypes`, `SemaphoreExcludes`, `SemaphoreWakes`, `SemaphoreRefines` | `TypeOK`, `MutualExclusion`, `NoMissedWakeup`, and the step refinement of `AtomicSemaphore` |
| `OrderReaderProofs`: `OrderInvariance`, `OrderTearDown`, `OrderNothingDropped`, `OrderActiveIsStored`, `OrderViewsHaveOrders`, `OrderSnapshotIsListing` | `IInv`, `OnlyTheLastReportIsLate`, `NothingDropped`, `ActiveIsStored`, `ViewsHaveOrders`, `SnapshotIsListing` |
| `EmdrRecorderProofs`: `RecorderTables`, `PlacesSafe`, `OrderSafe`, `OverflowSafe` | `MarketIsLatest`, `EachInOnePlace`, `InOrderOfArrival`, `LostToOverflowOnly` |
| `AccountServerProofs`: `AccountInvariance`, `AccountStacks`, `AccountEndings`, `AccountNeverTerminates`, `AccountCreated`, `AccountReads`, `AccountLinearizable` | `IInv`, `StackIsLive`, `NothingDropped`, `NeverTerminates`, `CreatedIsStored`, `ReadYourWrites`, `Linearizable` |
| `OrderArchiveProofs`: `ArchiveInvariant`, `ArchiveReadsBack`, `ArchiveKeepsSlots`, `ArchiveImplementsLog`, `AnalysisAccountsForVolume` | `IInv`, `ReadsBack`, `SlotsAccounted`, `ImplementsLog`, `VolumeAccounted` |
| `WorkspaceProofs`: `CachesAgree`, `NamesAndGroups`, `Inductive`, `SomethingToPlan`, `JobsSkilled`, `InventedUsable`, `PlanCovered`, `FailureCaused` | the caches' invariant, `NamesMatchGroups`, `WorkspaceInv`, `NothingIsAPlan`, `SkillsSuffice`, `InventedIsUsable`, `PlanIsCovered`, `FailureHasCause` |

**History reader.** None of the properties is inductive: that no request is used
after its destructor rests on main having joined all workers before (`MainInv`),
on a request being in one place only (`PlacesInv`), and on every outstanding
query having a worker that waits for it (`WaitInv`), which needs what the log
contains of a request by where the request is (`LogInv`). The waits do not
overshoot because `queries[r]` is the number of inserts of `r` in the log and
`lock[r]` the number of its queries the writer has released (`CountInv`); the
second set is part of the first, and cardinalities follow. One lemma per action
and part, then the theorems by PTL. Two invariants are proved beside it: by
`StatementInv` a statement is left stepped by a failed step alone, which is what a
failed step costs; by `FinishedInv` main's semaphore is the number of requests
finalized, each by one worker, so main cannot sleep through the last release. For
`ImplementsBatch` a query run is a row stored or a mark, a release of main's
semaphore a finished type, and main's leave is allowed as all are finished.

**Semaphore.** Exclusion is inductive with the types; the wake-up invariant is
by case on who holds the mutex: only a holder changes the count, and it notifies
before it leaves, unless it lowers; what lowering makes true of a sleeper puts it
into `overlooked`, and lowering makes no condition of the form "at least n" true.
Only blocking calls sleep (`SleepersBlock`). The refinement maps a thread's place
to idle, called or performed and leaves `overlooked` as it is; every step is an
atomic step or a stutter.

**Order reader.** `CountInv` ties the semaphore to the database thread's place
(`semaphore` plus what the destructor acquired is the number of queries
released), `WriterInv` the length of `steps` to it. Past `Unwind` all queries are
therefore released, which gives the tear-down and `NothingDropped`; `RowsInv`
says which rows the query at hand has written, which gives the tables. `PagesInv`
follows the pages: the queries posted are those of the pages before, but for
what is still to do of the last, and with `ActiveIsStored` a complete run without
failures has stored the listing.

**Recorder.** `TablesInv` says that the committed tables and the draft of the open
transaction are both the latest. The lemma `AppliedIsLatest` is the heart: an
order that a rowset does not list and the delete does not reach is of another
type or region, because a listed station belongs to the rowset's region or to
none. `MessagesInv` is about the buffers: both are in order, the local one before
the other and after all that was committed. Numbers grow at least as fast as
positions (`Spaced`), so what falls out of a full buffer at the front is `Capacity`
behind the message received last.

**Account server.** `StackIsLive` is about the closure at work, but a closure comes
to work from the queue: `OwedInv` says of every closure that has not released that
its handler waits, with a count of zero, for the runner it is queued at,
`PendingInv` that it is unanswered, and `OnceInv` that it is queued once, so that
the release of one does not let another's handler go. `StopInv` follows because a
handler that waits is in flight. `ListerInv` says that `root` is a beginning of the
table's second column, which is as long as the table, which with the table's growth gives `ReadYourWrites`. For `Linearizable` the
mapping counts an addition as answered from its commit on (`answered`), and each
step is a step of the service or a stutter. The specification of the service has
no fairness, so this refinement is proved in full.

**Order archive.** `IndexOK` says who has an index at any moment of the merge: the
active orders but those still to be compared, and those of the view before still to
be compared; indices are injective and disjoint from the free list, and together
they are all slots. `WrittenOK` says what a reader has in an order's slot: the old
order until the merge has passed it, the new one after. At the end of a file
nothing is left to compare, and `ReadsBack` is the conjunction of the two. For
`ImplementsLog` a page and a file are steps of the log, all records stutters.

`VolumeAccounted` is about the analysis, which goes on beside the archive: `ViewsOK`
adds to `IInv` that `last_orders` is what the reader shows and that its slots hold
orders. What is left is that `Merged` balances. A cell of its table accounts for the
volumes of both lists from its place on (`Balanced`), if the cells after it do
(`MergeStep`, with a case for each way the loop goes on); the first cell follows by
induction on how far a cell is from the last. What the unsigned differences add is
counted beside it (`Wraps`): from any two places on, the modulus once for every order
of both lists whose volume rose (`WrapsCounted`, which needs the lists to be ascending
and to have every order, `AscendingList`).
A recursive function is the choice of one that satisfies its equation, so the proof
first has to show that there is one (`TableExists`, `VolumesExist`).

**Workspace.** `Written` follows the two streams from the first opened to the last
closed; `OnDisk` says that two readable caches agree. `NamesMatchGroups` alone is
not inductive, as `ReadTypeIds` takes what an earlier run, killed anywhere, left.

The other properties rest on `WorkspaceInv`. `LoadedInv` says of which versions the
names and the market in memory and on disk are, by where the program is; it is what
gives the orders their types after they went through a cache. `ColumnsInv` says that
the columns are jobs of the lists fed so far and that each of these lists is there
in full: `addJob` throws for a name it has, so a list that is accepted has as many
names as jobs (`NamesCounted`). `PlanInv` says that a reported plan satisfies the
rows, that the limits and the money hold while it is built, and that the program is
infeasible where it is called so. What is left is then about the lists, which are
functions of the data: the lemmas named `...Form` give the jobs of each list,
`...Typed` their amounts.

- `SomethingToPlan`: the plan of no units satisfies every row whose stock is not
  negative, and the stocks are sums and products of natural numbers but for the
  power of the command centres.
- `JobsSkilled`: a job that uses a blueprint comes from the row of a product, whose
  blueprint is the same as no two have one id (`NodesById`), and only rows whose
  skills are there are kept.
- `InventedUsable`: the efficiency of every decryptor is a row of `bpes`, what is
  invented is not T1 and so is produced with all rows of it, and all lists are in.
- `PlanCovered`: a row bounds the sum, over the columns used, of what each takes
  less what it makes. `Covered` turns such a row into a bound on the units of some
  columns by those of others, once it is known for every single column what it takes
  at least and makes at most; that is read off the job's form (`ColumnMakes`,
  `MakesItem`). The sums are taken over functions of the columns, and are added,
  compared and exchanged by the lemmas of `FiniteSums`; money is a sum over the
  orders, of sums over the columns.
- `FailureCaused`: `SoundWs` is what soundness of the files gives once they are
  loaded by current caches. From it follows for every list that no job is `Thrown`
  and no two jobs have one name (`ListsClean`), and for the lists of different
  steps that their names do not meet (`StepsApart`: the first word of the name, and
  for the two kinds of invention the kind of the blueprint). `OnlyFed` says that no
  column comes from a list still to be fed; so no job is ever refused.

The library's induction theorems take an operator, which the provers cannot
instantiate. `FiniteSums` does without: the kind of sets for which a claim holds is
a set of sets (`FiniteSetInduction`), and that there is a smallest set outside of
it follows from the library's `WFMin`, which is first-order. `CountedUp` is the same for numbers,
and what `OrderArchiveProofs` shows of recursive functions with.

Left to TLC: liveness and everything under fairness (`Terminates`, `Delivered`,
`Answered`, `Ends`, the liveness of `ImplementsAtomic`), which the prover does not
treat. Every other property that a passing run checks is a theorem. The inductive invariants themselves (`IInv` of three
components, `WorkspaceInv`, the types) are proved and not run again.

## 5. What is left

1. `getAccessToken`, `OrderHandler` and `OrderHandler2`: concurrent code of the
   repository that no program calls. Their hazards are those of `HistoryReader` and
   `OrderReader`: requests and queries that are posted by reference.
2. The redirects of `HTTPSRequestHandler.cpp`, one by one, with the cookies.
3. `outdatedHistories` composed with `HistoryReader`, so that a restart asks for the
   types the run before did not mark.

## 6. Not modelled

The solver and the average of prices (numerics), libarchive, file system, YAML
and date parsing (I/O and formats), the downloads of prices, types and stations,
the Python scripts, and code no program reaches: `getAccessToken`, `OrderHandler`,
`OrderHandler2`, the class `emdr_db` and the trade search `maxIskHaul` of the
recorder, `getLine.cpp`, the `Finalizer`, and what lies in `backup` and
`apps/pricing/unused`. The start of the recorder, whose pragma
loops test an uninitialized variable, and the inside of a SQLite commit are left
out: a commit is atomic in the models, although `journal_mode=MEMORY` does not
promise that of a process killed inside one. HTTP itself, Poco's sockets and the
script of the page are not part of `AccountServer`, nor is the construction of the
server, which ends the process if it fails. `singleOrderHandlers` is reserved
for a million entries, to which the database thread holds references; the models
stay far below and do not model its growth.
