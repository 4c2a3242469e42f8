---------------------------- MODULE HistoryReader ----------------------------
(***************************************************************************)
(* apps/history_reader.cpp: the HistoryHandler pipeline that refreshes the *)
(* price history of every outdated type.                                   *)
(*                                                                         *)
(*   main thread     posts one HistoryRequest per type to a round-robin    *)
(*                   group of HTTP workers, sleeps on a semaphore until    *)
(*                   all are finalized or SIGINT was seen, and then runs   *)
(*                   the destructors of HistoryHandler's members.          *)
(*   HTTP worker h   takes requests from its own FIFO; it posts one insert *)
(*                   per record of the answer to the database thread,      *)
(*                   waits for them, posts an update of                    *)
(*                   last_history_update, waits for it, and releases the   *)
(*                   semaphore main sleeps on.                             *)
(*   database thread runs the posted queries in FIFO order on two prepared *)
(*                   statements and releases the request's own lock.       *)
(*                                                                         *)
(* Semaphore operations are single steps here: each runs under the         *)
(* semaphore's mutex.  A wait whose condition depends on the counter alone *)
(* is a guard; main's wait also reads sig_caught, which nobody signals, so *)
(* its sleep is explicit.                                                  *)
(***************************************************************************)
EXTENDS Integers, Sequences, FiniteSets

CONSTANTS
  NReq,       (* number of outdated types, one HistoryRequest each          *)
  NHandlers,  (* HTTP workers of the group; 15 in the program               *)
  Bodies      (* answers of the server, record by record: a "valid" record  *)
              (* converts into a HistoryQuery; a document that does not     *)
              (* parse is <<>>, its items are cleared                       *)

Records == {"valid", "invalid"}

ASSUME SizesAssumption == NReq \in Nat /\ NHandlers \in Nat \ {0}
ASSUME BodiesAssumption == Bodies \subseteq Seq(Records)

Requests == 1 .. NReq
Handlers == 0 .. NHandlers - 1
None == 0                                   \* a worker's "no request"
Jobs == [req : Requests, kind : {"insert", "update"}]
Outcomes == {"ok", "bindError", "stepError", "misuse"}

VARIABLES
  mainPc,        \* what the main thread does next
  posted,        \* requests 1 .. posted have been handed to the group
  nextHandler,   \* HTTPSRequestHandlerGroup::impl::next
  httpQueue,     \* io_service queue of every worker
  httpStopped,   \* workers whose io_service::stop() was called
  httpPc,        \* what the worker does next
  cur,           \* the request the worker is running
  items,         \* records of the answer the request has still to convert
  queries,       \* queries.size() of every request
  lock,          \* counter of the request's own semaphore
  dbLog,         \* every query ever posted to the writer, in order
  dbNext,        \* index in dbLog of the query the writer is at
  dbPc,          \* what the database thread does next
  dbStopped,     \* io_service::stop() was called on the writer
  results,       \* outcome of every query the writer has executed, in order
  stmt,          \* sqlite state of the two prepared statements
  semaphore,     \* counter main waits on
  finalized,     \* how often each request has released it (history)
  sigCaught,     \* the SIGINT flag
  joining,       \* the worker main is stopping
  reaped,        \* requests whose lifetime has ended
  destroyed      \* members of HistoryHandler whose lifetime has ended

mainVars == <<mainPc, posted, nextHandler, joining, reaped, destroyed>>
httpVars == <<httpQueue, httpStopped, httpPc, cur, items>>
dbVars   == <<dbNext, dbPc, dbStopped, results, stmt>>
vars == <<mainVars, httpVars, dbVars, queries, lock, dbLog, semaphore,
          finalized, sigCaught>>

Members == {"semaphore", "statements", "writer"}  \* shared members that die

MainTypeOK ==
  /\ mainPc \in {"post", "check", "asleep", "stop", "join", "reap",
                 "stopWriter", "joinWriter", "done"}
  /\ posted \in 0 .. NReq
  /\ nextHandler \in Handlers
  /\ joining \in 0 .. NHandlers
  /\ reaped \subseteq Requests
  /\ destroyed \subseteq Members

HttpTypeOK ==
  /\ httpQueue \in [Handlers -> Seq(Requests)]
  /\ httpStopped \subseteq Handlers
  /\ httpPc \in [Handlers -> {"idle", "request", "parse", "awaitUpdate",
                              "finalize", "report", "exited"}]
  /\ cur \in [Handlers -> Requests \cup {None}]
  /\ items \in [Requests -> Seq(Records)]
  /\ queries \in [Requests -> Nat]

WriterTypeOK ==
  /\ dbLog \in Seq(Jobs)
  /\ dbNext \in Nat \ {0}
  /\ dbPc \in {"idle", "release", "exited"}
  /\ dbStopped \in BOOLEAN
  /\ results \in Seq(Outcomes)
  /\ stmt \in [{"insert", "update"} -> {"ready", "stepped"}]

SharedTypeOK ==
  /\ lock \in [Requests -> Nat]
  /\ semaphore \in Nat
  /\ finalized \in [Requests -> Nat]
  /\ sigCaught \in BOOLEAN

TypeOK == MainTypeOK /\ HttpTypeOK /\ WriterTypeOK /\ SharedTypeOK

Init ==
  /\ mainPc = "post"
  /\ posted = 0
  /\ nextHandler = 0
  /\ httpQueue = [h \in Handlers |-> <<>>]
  /\ httpStopped = {}
  /\ httpPc = [h \in Handlers |-> "idle"]
  /\ cur = [h \in Handlers |-> None]
  /\ items = [r \in Requests |-> <<>>]
  /\ queries = [r \in Requests |-> 0]
  /\ lock = [r \in Requests |-> 0]
  /\ dbLog = <<>>
  /\ dbNext = 1
  /\ dbPc = "idle"
  /\ dbStopped = FALSE
  /\ results = <<>>
  /\ stmt = [s \in {"insert", "update"} |-> "ready"]
  /\ semaphore = 0
  /\ finalized = [r \in Requests |-> 0]
  /\ sigCaught = FALSE
  /\ joining = 0
  /\ reaped = {}
  /\ destroyed = {}

-----------------------------------------------------------------------------
(* The main thread: saveHistories, then ~HistoryHandler. *)

\* for (auto p : types) { requests.emplace_back(...); postRequest(...); }
PostRequest ==
  /\ mainPc = "post"
  /\ posted < NReq
  /\ httpQueue' = [httpQueue EXCEPT ![nextHandler] = Append(@, posted + 1)]
  /\ nextHandler' = (nextHandler + 1) % NHandlers
  /\ posted' = posted + 1
  /\ UNCHANGED <<mainPc, joining, reaped, destroyed, httpStopped, httpPc, cur,
                 items, dbVars, queries, lock, dbLog, semaphore, finalized, sigCaught>>

\* One evaluation of waitFor's predicate: leave, or release the mutex and sleep.
CheckFinished ==
  /\ mainPc \in {"post", "check"}
  /\ posted = NReq
  /\ mainPc' = IF sigCaught \/ semaphore >= NReq THEN "stop" ELSE "asleep"
  /\ UNCHANGED <<posted, nextHandler, joining, reaped, destroyed, httpVars, dbVars,
                 queries, lock, dbLog, semaphore, finalized, sigCaught>>

\* A condition variable may wake its waiter without a notification.
SpuriousWakeup ==
  /\ mainPc = "asleep"
  /\ mainPc' = "check"
  /\ UNCHANGED <<posted, nextHandler, joining, reaped, destroyed, httpVars, dbVars,
                 queries, lock, dbLog, semaphore, finalized, sigCaught>>

\* ~HTTPSRequestHandlerGroup destroys the workers one after the other:
\* ioService.stop() drops what is queued, thread.join() waits for what runs.
StopHandler ==
  /\ mainPc = "stop"
  /\ httpStopped' = httpStopped \cup {joining}
  /\ mainPc' = "join"
  /\ UNCHANGED <<posted, nextHandler, joining, reaped, destroyed, httpQueue,
                 httpPc, cur, items, dbVars, queries, lock, dbLog, semaphore,
                 finalized, sigCaught>>

\* Slip: the worker's thread is not joined.
JoinHandlerDetached ==
  /\ mainPc = "join"
  /\ joining' = joining + 1
  /\ mainPc' = IF joining + 1 = NHandlers THEN "reap" ELSE "stop"
  /\ UNCHANGED <<posted, nextHandler, reaped, destroyed, httpVars, dbVars,
                 queries, lock, dbLog, semaphore, finalized, sigCaught>>

JoinHandler ==
  /\ mainPc = "join"
  /\ httpPc[joining] = "exited"
  /\ joining' = joining + 1
  /\ mainPc' = IF joining + 1 = NHandlers THEN "reap" ELSE "stop"
  /\ UNCHANGED <<posted, nextHandler, reaped, destroyed, httpVars, dbVars,
                 queries, lock, dbLog, semaphore, finalized, sigCaught>>

\* ~HistoryRequest: a request that posted inserts acquires size() + 1.
ReapRequest(r) ==
  /\ mainPc = "reap"
  /\ r \notin reaped
  /\ \A q \in Requests : q < r => q \in reaped
  /\ \/ /\ queries[r] = 0
        /\ UNCHANGED lock
     \/ /\ queries[r] > 0
        /\ lock[r] >= queries[r] + 1
        /\ lock' = [lock EXCEPT ![r] = @ - (queries[r] + 1)]
  /\ reaped' = reaped \cup {r}
  /\ UNCHANGED <<mainPc, posted, nextHandler, joining, destroyed,
                 httpVars, dbVars, queries, dbLog, semaphore, finalized,
                 sigCaught>>

\* The semaphore and the statements were declared after the writer.
DestroyMembers ==
  /\ mainPc = "reap"
  /\ Requests \subseteq reaped
  /\ destroyed' = destroyed \cup {"semaphore", "statements"}
  /\ mainPc' = "stopWriter"
  /\ UNCHANGED <<posted, nextHandler, joining, reaped, httpVars, dbVars,
                 queries, lock, dbLog, semaphore, finalized, sigCaught>>

StopWriter ==
  /\ mainPc = "stopWriter"
  /\ dbStopped' = TRUE
  /\ mainPc' = "joinWriter"
  /\ UNCHANGED <<posted, nextHandler, joining, reaped, destroyed, httpVars,
                 dbNext, dbPc, results, stmt, queries, lock, dbLog, semaphore,
                 finalized, sigCaught>>

JoinWriter ==
  /\ mainPc = "joinWriter"
  /\ dbPc = "exited"
  /\ destroyed' = destroyed \cup {"writer"}
  /\ mainPc' = "done"
  /\ UNCHANGED <<posted, nextHandler, joining, reaped, httpVars, dbVars,
                 queries, lock, dbLog, semaphore, finalized, sigCaught>>

Main ==
  \/ PostRequest \/ CheckFinished \/ StopHandler \/ JoinHandler
  \/ (\E r \in Requests : ReapRequest(r))
  \/ DestroyMembers \/ StopWriter \/ JoinWriter

\* sigint_handler: the flag is set, nobody is notified.
Interrupt ==
  /\ ~sigCaught
  /\ sigCaught' = TRUE
  /\ UNCHANGED <<mainVars, httpVars, dbVars, queries, lock, dbLog, semaphore,
                 finalized>>

-----------------------------------------------------------------------------
(* An HTTP worker. *)

TakeRequest(h) ==
  /\ httpPc[h] = "idle"
  /\ h \notin httpStopped
  /\ httpQueue[h] # <<>>
  /\ cur' = [cur EXCEPT ![h] = Head(httpQueue[h])]
  /\ httpQueue' = [httpQueue EXCEPT ![h] = Tail(@)]
  /\ httpPc' = [httpPc EXCEPT ![h] = "request"]
  /\ UNCHANGED <<mainVars, httpStopped, items, dbVars, queries, lock, dbLog,
                 semaphore, finalized, sigCaught>>

\* No answer, a redirect that leads nowhere, or a status outside 2xx.
HttpError(h) ==
  /\ httpPc[h] = "request"
  /\ httpPc' = [httpPc EXCEPT ![h] = "finalize"]
  /\ UNCHANGED <<mainVars, httpQueue, httpStopped, cur, items, dbVars, queries,
                 lock, dbLog, semaphore, finalized, sigCaught>>

\* handleResponse reads and parses the answer.
HttpResponse(h) ==
  /\ httpPc[h] = "request"
  /\ \E body \in Bodies : items' = [items EXCEPT ![cur[h]] = body]
  /\ httpPc' = [httpPc EXCEPT ![h] = "parse"]
  /\ UNCHANGED <<mainVars, httpQueue, httpStopped, cur, dbVars, queries, lock,
                 dbLog, semaphore, finalized, sigCaught>>

\* One round of the loop over items: a record that converts is posted.
PostInsert(h) ==
  /\ httpPc[h] = "parse"
  /\ items[cur[h]] # <<>>
  /\ \/ /\ Head(items[cur[h]]) = "valid"
        /\ queries' = [queries EXCEPT ![cur[h]] = @ + 1]
        /\ dbLog' = Append(dbLog, [req |-> cur[h], kind |-> "insert"])
     \/ /\ Head(items[cur[h]]) # "valid"
        /\ UNCHANGED <<queries, dbLog>>
  /\ items' = [items EXCEPT ![cur[h]] = Tail(@)]
  /\ UNCHANGED <<mainVars, httpQueue, httpStopped, httpPc, cur, dbVars, lock,
                 semaphore, finalized, sigCaught>>

\* Slip: the update is posted before the loop over the items is done.
PostUpdateEarly(h) ==
  /\ httpPc[h] = "parse"
  /\ lock[cur[h]] = queries[cur[h]]
  /\ dbLog' = Append(dbLog, [req |-> cur[h], kind |-> "update"])
  /\ httpPc' = [httpPc EXCEPT ![h] = "awaitUpdate"]
  /\ UNCHANGED <<mainVars, httpQueue, httpStopped, cur, items, dbVars, queries,
                 lock, semaphore, finalized, sigCaught>>

\* Slip: nobody waits for the update.
PostUpdateUnawaited(h) ==
  /\ httpPc[h] = "parse"
  /\ items[cur[h]] = <<>>
  /\ lock[cur[h]] = queries[cur[h]]
  /\ dbLog' = Append(dbLog, [req |-> cur[h], kind |-> "update"])
  /\ httpPc' = [httpPc EXCEPT ![h] = "finalize"]
  /\ UNCHANGED <<mainVars, httpQueue, httpStopped, cur, items, dbVars, queries,
                 lock, semaphore, finalized, sigCaught>>

\* lock.waitFor(n == queries.size()), then the update is posted: always.
PostUpdate(h) ==
  /\ httpPc[h] = "parse"
  /\ items[cur[h]] = <<>>
  /\ lock[cur[h]] = queries[cur[h]]
  /\ dbLog' = Append(dbLog, [req |-> cur[h], kind |-> "update"])
  /\ httpPc' = [httpPc EXCEPT ![h] = "awaitUpdate"]
  /\ UNCHANGED <<mainVars, httpQueue, httpStopped, cur, items, dbVars, queries,
                 lock, semaphore, finalized, sigCaught>>

\* Slip: the second wait compares with size() again.
AwaitUpdateShort(h) ==
  /\ httpPc[h] = "awaitUpdate"
  /\ lock[cur[h]] >= queries[cur[h]]
  /\ httpPc' = [httpPc EXCEPT ![h] = "finalize"]
  /\ UNCHANGED <<mainVars, httpQueue, httpStopped, cur, items, dbVars, queries,
                 lock, dbLog, semaphore, finalized, sigCaught>>

\* lock.waitFor(n == queries.size() + 1)
AwaitUpdate(h) ==
  /\ httpPc[h] = "awaitUpdate"
  /\ lock[cur[h]] = queries[cur[h]] + 1
  /\ httpPc' = [httpPc EXCEPT ![h] = "finalize"]
  /\ UNCHANGED <<mainVars, httpQueue, httpStopped, cur, items, dbVars, queries,
                 lock, dbLog, semaphore, finalized, sigCaught>>

\* Slip: release() does not notify.
ReleaseOneSilent(h) ==
  /\ httpPc[h] = "finalize"
  /\ semaphore' = semaphore + 1
  /\ finalized' = [finalized EXCEPT ![cur[h]] = @ + 1]
  /\ httpPc' = [httpPc EXCEPT ![h] = "report"]
  /\ UNCHANGED <<mainVars, httpQueue, httpStopped, cur, items, dbVars, queries,
                 lock, dbLog, sigCaught>>

\* semaphore.release(): count and notify under the mutex.
ReleaseOne(h) ==
  /\ httpPc[h] = "finalize"
  /\ semaphore' = semaphore + 1
  /\ mainPc' = IF mainPc = "asleep" THEN "check" ELSE mainPc
  /\ finalized' = [finalized EXCEPT ![cur[h]] = @ + 1]
  /\ httpPc' = [httpPc EXCEPT ![h] = "report"]
  /\ UNCHANGED <<posted, nextHandler, joining, reaped, destroyed, httpQueue,
                 httpStopped, cur, items, dbVars, queries, lock, dbLog,
                 sigCaught>>

\* The rest of finalize(): semaphore.get() without the mutex, and the print.
ReportProgress(h) ==
  /\ httpPc[h] = "report"
  /\ httpPc' = [httpPc EXCEPT ![h] = "idle"]
  /\ cur' = [cur EXCEPT ![h] = None]
  /\ UNCHANGED <<mainVars, httpQueue, httpStopped, items, dbVars, queries,
                 lock, dbLog, semaphore, finalized, sigCaught>>

HandlerExit(h) ==
  /\ httpPc[h] = "idle"
  /\ h \in httpStopped
  /\ httpPc' = [httpPc EXCEPT ![h] = "exited"]
  /\ UNCHANGED <<mainVars, httpQueue, httpStopped, cur, items, dbVars, queries,
                 lock, dbLog, semaphore, finalized, sigCaught>>

Handler(h) ==
  \/ TakeRequest(h) \/ HttpError(h) \/ HttpResponse(h) \/ PostInsert(h)
  \/ PostUpdate(h) \/ AwaitUpdate(h) \/ ReleaseOne(h) \/ ReportProgress(h)
  \/ HandlerExit(h)

-----------------------------------------------------------------------------
(* The database thread. *)

Job == dbLog[dbNext]

\* Binding a statement that was stepped and not reset is SQLITE_MISUSE.
CanBind(kind) == stmt[kind] = "ready"

Executed(outcome) ==
  /\ results' = Append(results, outcome)
  /\ dbPc' = "release"
  /\ UNCHANGED <<mainVars, httpVars, dbNext, dbStopped, queries, lock, dbLog,
                 semaphore, finalized, sigCaught>>

JobReady(kind) ==
  /\ dbPc = "idle"
  /\ ~dbStopped
  /\ dbNext <= Len(dbLog)
  /\ Job.kind = kind

\* Slip, or rather the repair: the statement is reset on every path.
RunInsertResetting ==
  /\ JobReady("insert")
  /\ \E outcome \in {"ok", "bindError", "stepError"} : Executed(outcome)
  /\ UNCHANGED stmt

\* HistoryQuery::run: bind, step, reset.  There is no Resetter, so a step that
\* throws skips the reset.
RunInsert ==
  /\ JobReady("insert")
  /\ \/ CanBind("insert") /\ Executed("ok") /\ UNCHANGED stmt
     \/ CanBind("insert") /\ Executed("bindError") /\ UNCHANGED stmt
     \/ /\ CanBind("insert") /\ Executed("stepError")
        /\ stmt' = [stmt EXCEPT !["insert"] = "stepped"]
     \/ ~CanBind("insert") /\ Executed("misuse") /\ UNCHANGED stmt

\* UpdateQuery::run: the one bound value is a type id, binding it cannot fail.
RunUpdate ==
  /\ JobReady("update")
  /\ \/ CanBind("update") /\ Executed("ok") /\ UNCHANGED stmt
     \/ /\ CanBind("update") /\ Executed("stepError")
        /\ stmt' = [stmt EXCEPT !["update"] = "stepped"]
     \/ ~CanBind("update") /\ Executed("misuse") /\ UNCHANGED stmt

\* Slip: run() finalizes before it fails and onSqlError() finalizes again.
ReleaseLockTwice ==
  /\ dbPc = "release"
  /\ lock' = [lock EXCEPT ![Job.req] =
                 @ + IF results[dbNext] = "ok" THEN 1 ELSE 2]
  /\ dbNext' = dbNext + 1
  /\ dbPc' = "idle"
  /\ UNCHANGED <<mainVars, httpVars, dbStopped, results, stmt, queries, dbLog,
                 semaphore, finalized, sigCaught>>

\* finalize() of the query, reached by run() and by onSqlError() alike.
ReleaseLock ==
  /\ dbPc = "release"
  /\ lock' = [lock EXCEPT ![Job.req] = @ + 1]
  /\ dbNext' = dbNext + 1
  /\ dbPc' = "idle"
  /\ UNCHANGED <<mainVars, httpVars, dbStopped, results, stmt, queries, dbLog,
                 semaphore, finalized, sigCaught>>

WriterExit ==
  /\ dbPc = "idle"
  /\ dbStopped
  /\ dbPc' = "exited"
  /\ UNCHANGED <<mainVars, httpVars, dbNext, dbStopped, results, stmt, queries,
                 lock, dbLog, semaphore, finalized, sigCaught>>

Writer == RunInsert \/ RunUpdate \/ ReleaseLock \/ WriterExit

-----------------------------------------------------------------------------
\* main() returns; nothing is left to run.
Terminated == mainPc = "done" /\ UNCHANGED vars

Next ==
  \/ Main \/ SpuriousWakeup \/ Interrupt
  \/ (\E h \in Handlers : Handler(h))
  \/ Writer
  \/ Terminated

(***************************************************************************)
(* Every thread keeps running: the threads are preemptive, an HTTP request *)
(* ends by an answer or by Poco's time-out, and a query by its result.     *)
(***************************************************************************)
Fairness ==
  /\ WF_vars(Main)
  /\ \A h \in Handlers : WF_vars(Handler(h))
  /\ WF_vars(Writer)

Spec == Init /\ [][Next]_vars /\ Fairness
-----------------------------------------------------------------------------
(* Properties. *)

Pending(r) == {i \in dbNext .. Len(dbLog) : dbLog[i].req = r}

\* A worker is between taking a request and having reported it.
Busy(h) == httpPc[h] \notin {"idle", "exited"}

\* No thread touches an object whose destructor has run: a busy worker uses its
\* request, the writer and main's semaphore, a posted query its request (the
\* lock and the query itself live there) and the statements.
NoUseAfterDestroy ==
  /\ \A h \in Handlers :
       Busy(h) => cur[h] \notin reaped /\ destroyed \cap Members = {}
  /\ \A i \in dbNext .. Len(dbLog) :
       dbLog[i].req \notin reaped /\ "statements" \notin destroyed

\* ioService.stop() on the writer drops no query: whatever a worker posted was
\* executed and released before the members are torn down, SIGINT or not.
NoQueryDropped ==
  mainPc \in {"reap", "stopWriter", "joinWriter", "done"} => dbNext > Len(dbLog)

\* The update of last_history_update is the last query of its type: when it
\* runs, every record of the answer was converted and every insert executed,
\* so a crash at any moment leaves no type marked whose inserts are to come.
MarkedAfterInserts ==
  \A i \in DOMAIN results : dbLog[i].kind = "update" =>
    /\ items[dbLog[i].req] = <<>>
    /\ \A j \in DOMAIN dbLog : dbLog[j].req = dbLog[i].req => j <= i

\* main never sleeps through the last release.
NoLostWakeup == mainPc = "asleep" => semaphore < NReq

\* handleResponse waits for the lock to EQUAL a count, so a counter that ran
\* past it would never be noticed: it does not run past it.
WaitsNeverOvershoot ==
  \A h \in Handlers :
    /\ httpPc[h] = "parse" => lock[cur[h]] <= queries[cur[h]]
    /\ httpPc[h] = "awaitUpdate" => lock[cur[h]] <= queries[cur[h]] + 1

\* What one failed step costs: run() skips sqlite::reset, so exactly the queries
\* of the same statement after the failed one are lost to SQLITE_MISUSE, all
\* of them, and no others.
StepErrorLosesTheRest ==
  \A j \in DOMAIN results :
    results[j] = "misuse" <=>
      \E i \in 1 .. j - 1 : dbLog[i].kind = dbLog[j].kind /\ results[i] = "stepError"

\* The program ends: no wait is for ever, with or without SIGINT.
Terminates == <>(mainPc = "done")

-----------------------------------------------------------------------------
(* The pipeline implements HistoryBatch. *)

RowsOf(r) == {i \in DOMAIN results :
                dbLog[i] = [req |-> r, kind |-> "insert"] /\ results[i] = "ok"}

Marked == {r \in Requests : \E i \in DOMAIN results :
             dbLog[i] = [req |-> r, kind |-> "update"] /\ results[i] = "ok"}

Phase(r) == IF finalized[r] > 0 THEN "finished"
            ELSE IF \E h \in Handlers : cur[h] = r THEN "active" ELSE "waiting"

Stage == IF mainPc \in {"post", "check", "asleep"} THEN "running"
         ELSE IF mainPc = "done" THEN "closed" ELSE "closing"

Batch == INSTANCE HistoryBatch WITH
  Types <- Requests,
  phase <- [r \in Requests |-> Phase(r)],
  rows <- [r \in Requests |-> Cardinality(RowsOf(r))],
  marked <- Marked,
  interrupted <- sigCaught,
  stage <- Stage

\* Seen from outside, workers, queues and locks are invisible.
ImplementsBatch == Batch!Spec
-----------------------------------------------------------------------------
(* The inductive invariant behind the safety properties. *)

\* A request waits in at most one place of one queue, or one worker runs it.
PlacesInv ==
  /\ \A h \in Handlers : \A i \in DOMAIN httpQueue[h] : httpQueue[h][i] <= posted
  /\ \A g, h \in Handlers : \A i \in DOMAIN httpQueue[g], j \in DOMAIN httpQueue[h] :
       httpQueue[g][i] = httpQueue[h][j] => g = h /\ i = j
  /\ \A g, h \in Handlers : cur[g] # None /\ cur[g] = cur[h] => g = h
  /\ \A g, h \in Handlers : \A i \in DOMAIN httpQueue[h] : cur[g] # httpQueue[h][i]
  /\ \A h \in Handlers : cur[h] <= posted
  /\ \A h \in Handlers : Busy(h) <=> cur[h] # None

\* main is past the workers' destructors.
TearDown == mainPc \in {"reap", "stopWriter", "joinWriter", "done"}

\* What main has destroyed so far, and that the workers had exited before.
MainInv ==
  /\ \A h \in Handlers : h < joining => httpPc[h] = "exited"
  /\ IF TearDown THEN joining = NHandlers ELSE joining < NHandlers
  /\ reaped # {} => TearDown
  /\ destroyed # {} => mainPc \in {"stopWriter", "joinWriter", "done"}
  /\ dbStopped <=> mainPc \in {"joinWriter", "done"}
  /\ dbPc = "exited" => dbStopped

\* The writer is at the query after the last one it released.
WriterInv ==
  /\ dbNext <= Len(dbLog) + 1
  /\ dbPc = "release" => dbNext <= Len(dbLog)
  /\ Len(results) = IF dbPc = "release" THEN dbNext ELSE dbNext - 1

\* What the log holds of a request, by where the request is.
LogInv ==
  /\ \A i \in DOMAIN dbLog : dbLog[i].req <= posted
  /\ \A i \in DOMAIN dbLog, h \in Handlers :
       /\ \A k \in DOMAIN httpQueue[h] : dbLog[i].req # httpQueue[h][k]
       /\ httpPc[h] = "request" => dbLog[i].req # cur[h]
       /\ httpPc[h] = "parse" /\ dbLog[i].req = cur[h] => dbLog[i].kind = "insert"
  /\ \A h \in Handlers : httpPc[h] = "awaitUpdate" =>
       \E i \in DOMAIN dbLog : dbLog[i] = [req |-> cur[h], kind |-> "update"]
  /\ \A i \in DOMAIN dbLog : dbLog[i].kind = "update" =>
       /\ items[dbLog[i].req] = <<>>
       /\ \A j \in DOMAIN dbLog : dbLog[j].req = dbLog[i].req => j <= i

\* A query is outstanding only while a worker waits for it.
WaitInv ==
  \A i \in dbNext .. Len(dbLog) :
    \E h \in Handlers : httpPc[h] \in {"parse", "awaitUpdate"} /\ cur[h] = dbLog[i].req

Inserts(r) == {i \in 1 .. Len(dbLog) : dbLog[i] = [req |-> r, kind |-> "insert"]}
Released(r) == {i \in 1 .. dbNext - 1 : dbLog[i].req = r}

\* queries counts the inserts in the log, the lock what the writer released.
CountInv ==
  \A r \in Requests :
    /\ queries[r] = Cardinality(Inserts(r))
    /\ r \notin reaped => lock[r] = Cardinality(Released(r))

\* A request is finalized once, by the worker that then reports it, and main's
\* semaphore counts the requests that are.
Finalized == {r \in Requests : finalized[r] > 0}
FinishedInv ==
  /\ \A r \in Requests : finalized[r] \in {0, 1}
  /\ \A r \in Finalized : r <= posted
  /\ \A h \in Handlers : \A i \in DOMAIN httpQueue[h] : httpQueue[h][i] \notin Finalized
  /\ \A h \in Handlers : Busy(h) => (cur[h] \in Finalized <=> httpPc[h] = "report")
  /\ semaphore = Cardinality(Finalized)

\* A statement is left stepped by a failed step and by nothing else, for ever.
StatementInv ==
  \A kind \in {"insert", "update"} : stmt[kind] = "stepped" <=>
    \E i \in DOMAIN results : dbLog[i].kind = kind /\ results[i] = "stepError"

IInv ==
  /\ PlacesInv
  /\ MainInv
  /\ WriterInv
  /\ LogInv
  /\ WaitInv
  /\ CountInv
=============================================================================
