---------------------------- MODULE AccountServer ----------------------------
(***************************************************************************)
(* apps/server.cpp: an HTTP server that adds accounts to a table and lists *)
(* them, on libs/QueryRunner.                                              *)
(*                                                                         *)
(*   handler threads   one per request (Poco's pool).  The handler posts a *)
(*                     closure to a QueryRunner and waits on a semaphore;  *)
(*                     the closure refers to the request, the response and *)
(*                     the semaphore on the handler's stack.               *)
(*   database threads  one for the insert, one for the select, each with a *)
(*                     connection and one prepared statement of its own.   *)
(*   main              waits for SIGINT, stops the server and returns; the *)
(*                     runners go with the last connection that needs      *)
(*                     them.                                               *)
(*                                                                         *)
(* The select holds SQLite's shared lock from its first row to its last;   *)
(* a write that meets a reader, or any statement that meets another        *)
(* process in the file, fails with SQLITE_BUSY.                            *)
(***************************************************************************)
EXTENDS Integers, Sequences

CONSTANTS
  Requests,
  Names,
  Types,        \* of accounts, as text
  None,
  Schemas,      \* what made the table: "created" is create_data.sql, whose
                \* accounts have a column type that must not be null;
                \* "fitting" has just the columns the statements name
  Initial,      \* descriptions in the table at the start
  MaxAccounts,  \* bound: accounts other processes let the table grow to
  MaxSignals    \* bound: SIGINTs

ASSUME NamesAssumption == None \notin Names
ASSUME TypesAssumption == Types # {}
ASSUME SchemasAssumption == Schemas \subseteq {"created", "fitting"} /\ Schemas # {}
ASSUME InitialAssumption ==
  /\ Initial \in Seq(Names)
  /\ \A i, j \in DOMAIN Initial : Initial[i] = Initial[j] => i = j
ASSUME BoundsAssumption == MaxAccounts \in Nat /\ MaxSignals \in Nat

VARIABLES
  mainPc,       \* what main does next
  interrupted,  \* count of the semaphore main waits on
  signals,      \* SIGINTs so far
  schema,       \* of the table in the file
  accounts,     \* descriptions in the order of their ids
  column1,      \* second column of each row: in "created" its type
  handlerPc,    \* of each request: where its handler is
  asked,        \* what each request asks for
  replies,      \* what the closure or the handler sent
  semaphore,    \* count of the semaphore on the handler's stack
  queue,        \* of each runner: requests whose closures are posted
  dbPc,         \* of each runner: where its thread is
  used,         \* the insert was stepped and not reset yet
  bound,        \* the request whose string the insert is bound to
  rowId,        \* last_insert_rowid of the insert's connection
  root,         \* rows the select has delivered
  known         \* of each request: ids whose addition the client had
                \* confirmed when it was accepted (history)

file == <<schema, accounts, column1>>
runners == <<queue, dbPc, used, bound, rowId, root>>
vars == <<mainPc, interrupted, signals, file, handlerPc, asked, replies,
          semaphore, runners, known>>

\* A client cannot tell an insert that is committed from one that is answered.
answered ==
  [r \in Requests |->
     IF dbPc["adder"] = "rowid" /\ r = Head(queue["adder"])
     THEN [code |-> "created", id |-> rowId, rows |-> <<>>]
     ELSE replies[r]]
Service == INSTANCE AccountService WITH answers <- answered

Runners == {"adder", "lister"}
RunnerOf(r) == IF asked[r].path = "/addAccount" THEN "adder" ELSE "lister"
NeedsDatabase(r) ==
  \/ asked[r].path = "/listAccounts"
  \/ asked[r].path = "/addAccount" /\ asked[r].name # None
Current(k) == Head(queue[k])
Working(k) == dbPc[k] \in {"bind", "step", "rowid", "release"}
InFlight == {r \in Requests : handlerPc[r] \in {"accepted", "waiting"}}
Alive == mainPc \notin {"killed", "terminated", "exited"}

Init ==
  /\ mainPc = "starting" /\ interrupted = 0 /\ signals = 0
  /\ schema \in Schemas /\ accounts = Initial
  /\ IF schema = "fitting" THEN column1 = Initial ELSE column1 \in [DOMAIN Initial -> Types]
  /\ handlerPc = [r \in Requests |-> "none"]
  /\ asked = [r \in Requests |-> Service!Nothing]
  /\ replies = [r \in Requests |-> Service!Pending]
  /\ semaphore = [r \in Requests |-> 0]
  /\ queue = [k \in Runners |-> <<>>]
  /\ dbPc = [k \in Runners |-> "idle"]
  /\ used = FALSE /\ bound = None /\ rowId = 0 /\ root = <<>>
  /\ known = [r \in Requests |-> {}]

-----------------------------------------------------------------------------
(* A handler. *)

Confirmed == {replies[r].id : r \in {q \in Requests :
                 handlerPc[q] = "returned" /\ replies[q].code = "created"}}

\* createRequestHandler: a thread of the pool has a request.
Accept(r) ==
  /\ mainPc # "stopped"
  /\ handlerPc[r] = "none"
  /\ handlerPc' = [handlerPc EXCEPT ![r] = "accepted"]
  /\ \E q \in Service!Questions : asked' = [asked EXCEPT ![r] = q]
  /\ known' = [known EXCEPT ![r] = Confirmed]
  /\ UNCHANGED <<mainPc, interrupted, signals, file, replies, semaphore, runners>>

\* DefaultHandler, and AccountAdder for a form without a name.
Decline(r) ==
  /\ handlerPc[r] = "accepted"
  /\ \/ /\ asked[r].path = "other"
        /\ replies' = [replies EXCEPT ![r] = Service!Answer("not_found", 0, <<>>)]
     \/ /\ asked[r].path = "/addAccount" /\ asked[r].name = None
        /\ replies' = [replies EXCEPT ![r] = Service!Answer("bad_request", 0, <<>>)]
  /\ handlerPc' = [handlerPc EXCEPT ![r] = "returned"]
  /\ UNCHANGED <<mainPc, interrupted, signals, file, asked, semaphore, runners, known>>

\* Slip: the handler of a listing does not wait for its closure.
PostAndForget(r) ==
  /\ handlerPc[r] = "accepted"
  /\ NeedsDatabase(r)
  /\ queue' = [queue EXCEPT ![RunnerOf(r)] = Append(@, r)]
  /\ handlerPc' = [handlerPc EXCEPT ![r] = IF RunnerOf(r) = "lister" THEN "returned"
                                           ELSE "waiting"]
  /\ UNCHANGED <<mainPc, interrupted, signals, file, asked, replies, semaphore,
                 dbPc, used, bound, rowId, root, known>>

\* postQuery, on the way into semaphore.acquire.
Post(r) ==
  /\ handlerPc[r] = "accepted"
  /\ NeedsDatabase(r)
  /\ queue' = [queue EXCEPT ![RunnerOf(r)] = Append(@, r)]
  /\ handlerPc' = [handlerPc EXCEPT ![r] = "waiting"]
  /\ UNCHANGED <<mainPc, interrupted, signals, file, asked, replies, semaphore,
                 dbPc, used, bound, rowId, root, known>>

\* semaphore.acquire returns, and with it the handler: its stack is gone.
Return(r) ==
  /\ handlerPc[r] = "waiting"
  /\ semaphore[r] >= 1
  /\ semaphore' = [semaphore EXCEPT ![r] = @ - 1]
  /\ handlerPc' = [handlerPc EXCEPT ![r] = "returned"]
  /\ UNCHANGED <<mainPc, interrupted, signals, file, asked, replies, runners, known>>

-----------------------------------------------------------------------------
(* A runner's thread: f(db, stmt), then reset(stmt). *)

Take(k) ==
  /\ dbPc[k] = "idle"
  /\ queue[k] # <<>>
  /\ dbPc' = [dbPc EXCEPT ![k] = IF k = "adder" THEN "bind" ELSE "step"]
  /\ UNCHANGED <<mainPc, interrupted, signals, file, handlerPc, asked, replies,
                 semaphore, queue, used, bound, rowId, root, known>>

\* bind throws if the statement was not reset, outside of the try block and
\* so out of the thread.
Bind ==
  /\ dbPc["adder"] = "bind"
  /\ IF used THEN mainPc' = "terminated" /\ UNCHANGED <<bound, dbPc>>
     ELSE /\ bound' = Current("adder")
          /\ dbPc' = [dbPc EXCEPT !["adder"] = "step"]
          /\ UNCHANGED mainPc
  /\ UNCHANGED <<interrupted, signals, file, handlerPc, asked, replies,
                 semaphore, queue, used, rowId, root, known>>

Reading == dbPc["lister"] = "step" /\ root # <<>>

\* The insert, committed by itself.
Insert ==
  /\ dbPc["adder"] = "step"
  /\ schema = "fitting" /\ ~Reading
  /\ ~Service!Holds(accounts, asked[bound].name)
  /\ accounts' = Append(accounts, asked[bound].name)
  /\ column1' = Append(column1, asked[bound].name)
  /\ rowId' = Len(accounts) + 1
  /\ used' = TRUE
  /\ dbPc' = [dbPc EXCEPT !["adder"] = "rowid"]
  /\ UNCHANGED <<mainPc, interrupted, signals, schema, handlerPc, asked, replies,
                 semaphore, queue, bound, root, known>>

\* Slip: the id is that of the table's last row.
SendLastId ==
  /\ dbPc["adder"] = "rowid"
  /\ replies' = [replies EXCEPT ![Current("adder")] = Service!Created(Len(accounts))]
  /\ dbPc' = [dbPc EXCEPT !["adder"] = "release"]
  /\ UNCHANGED <<mainPc, interrupted, signals, file, handlerPc, asked, semaphore,
                 queue, used, bound, rowId, root, known>>

\* last_insert_rowid and the answer with it.
SendCreated ==
  /\ dbPc["adder"] = "rowid"
  /\ replies' = [replies EXCEPT ![Current("adder")] = Service!Created(rowId)]
  /\ dbPc' = [dbPc EXCEPT !["adder"] = "release"]
  /\ UNCHANGED <<mainPc, interrupted, signals, file, handlerPc, asked, semaphore,
                 queue, used, bound, rowId, root, known>>

\* Slip: the catch block forgets to release.
FailToInsertSilently ==
  /\ dbPc["adder"] = "step"
  /\ replies' = [replies EXCEPT ![Current("adder")] = Service!Answer("conflict", 0, <<>>)]
  /\ used' = TRUE
  /\ dbPc' = [dbPc EXCEPT !["adder"] = "reset"]
  /\ UNCHANGED <<mainPc, interrupted, signals, file, handlerPc, asked, semaphore,
                 queue, bound, rowId, root, known>>

\* Slip: the row is in the table although the statement failed.
FailAfterInsert ==
  /\ dbPc["adder"] = "step"
  /\ accounts' = Append(accounts, asked[bound].name)
  /\ column1' = Append(column1, asked[bound].name)
  /\ replies' = [replies EXCEPT ![Current("adder")] = Service!Answer("conflict", 0, <<>>)]
  /\ used' = TRUE
  /\ dbPc' = [dbPc EXCEPT !["adder"] = "release"]
  /\ UNCHANGED <<mainPc, interrupted, signals, schema, handlerPc, asked, semaphore,
                 queue, bound, rowId, root, known>>

\* step throws: the name is taken, the type is missing, the lister is reading
\* or another process has the file.
FailToInsert ==
  /\ dbPc["adder"] = "step"
  /\ replies' = [replies EXCEPT ![Current("adder")] = Service!Answer("conflict", 0, <<>>)]
  /\ used' = TRUE
  /\ dbPc' = [dbPc EXCEPT !["adder"] = "release"]
  /\ UNCHANGED <<mainPc, interrupted, signals, file, handlerPc, asked, semaphore,
                 queue, bound, rowId, root, known>>

\* One turn of the lister's loop: column 1 of "select *" is sent as the
\* description.
Fetch ==
  /\ dbPc["lister"] = "step"
  /\ Len(root) < Len(accounts)
  /\ root' = Append(root, column1[Len(root) + 1])
  /\ UNCHANGED <<mainPc, interrupted, signals, file, handlerPc, asked, replies,
                 semaphore, queue, dbPc, used, bound, rowId, known>>

\* Slip: the loop stops before the last row.
SendListedEarly ==
  /\ dbPc["lister"] = "step"
  /\ Len(root) + 1 >= Len(accounts)
  /\ replies' = [replies EXCEPT ![Current("lister")] = Service!Listed(root)]
  /\ dbPc' = [dbPc EXCEPT !["lister"] = "release"]
  /\ UNCHANGED <<mainPc, interrupted, signals, file, handlerPc, asked, semaphore,
                 queue, used, bound, rowId, root, known>>

\* SQLITE_DONE ends the loop; the answer has the rows.
SendListed ==
  /\ dbPc["lister"] = "step"
  /\ Len(root) = Len(accounts)
  /\ replies' = [replies EXCEPT ![Current("lister")] = Service!Listed(root)]
  /\ dbPc' = [dbPc EXCEPT !["lister"] = "release"]
  /\ UNCHANGED <<mainPc, interrupted, signals, file, handlerPc, asked, semaphore,
                 queue, used, bound, rowId, root, known>>

\* step throws: another process has the file, or it cannot be read.
FailToList ==
  /\ dbPc["lister"] = "step"
  /\ replies' = [replies EXCEPT ![Current("lister")] = Service!Answer("error", 0, <<>>)]
  /\ dbPc' = [dbPc EXCEPT !["lister"] = "release"]
  /\ UNCHANGED <<mainPc, interrupted, signals, file, handlerPc, asked, semaphore,
                 queue, used, bound, rowId, root, known>>

\* The closure's last statement.
Release(k) ==
  /\ dbPc[k] = "release"
  /\ semaphore' = [semaphore EXCEPT ![Current(k)] = @ + 1]
  /\ dbPc' = [dbPc EXCEPT ![k] = "reset"]
  /\ UNCHANGED <<mainPc, interrupted, signals, file, handlerPc, asked, replies,
                 queue, used, bound, rowId, root, known>>

\* Slip: the adder's statement is not reset.
ResetLister(k) ==
  /\ dbPc[k] = "reset"
  /\ dbPc' = [dbPc EXCEPT ![k] = "idle"]
  /\ queue' = [queue EXCEPT ![k] = Tail(@)]
  /\ root' = IF k = "lister" THEN <<>> ELSE root
  /\ UNCHANGED <<mainPc, interrupted, signals, file, handlerPc, asked, replies,
                 semaphore, used, bound, rowId, known>>

\* sqlite::reset, after the handler may have returned.
Reset(k) ==
  /\ dbPc[k] = "reset"
  /\ dbPc' = [dbPc EXCEPT ![k] = "idle"]
  /\ queue' = [queue EXCEPT ![k] = Tail(@)]
  /\ IF k = "adder" THEN used' = FALSE /\ UNCHANGED root
     ELSE root' = <<>> /\ UNCHANGED used
  /\ UNCHANGED <<mainPc, interrupted, signals, file, handlerPc, asked, replies,
                 semaphore, bound, rowId, known>>

\* Slip: ~QueryRunner when main is done, whoever still waits.
StopAtOnce(k) ==
  /\ mainPc = "stopped"
  /\ dbPc[k] = "idle"
  /\ dbPc' = [dbPc EXCEPT ![k] = "joined"]
  /\ UNCHANGED <<mainPc, interrupted, signals, file, handlerPc, asked, replies,
                 semaphore, queue, used, bound, rowId, root, known>>

\* ~QueryRunner::impl stops the io_service, which drops what is queued, and
\* joins the thread once it is done with what it was at.
Stop(k) ==
  /\ mainPc = "stopped" /\ InFlight = {}
  /\ dbPc[k] = "idle"
  /\ dbPc' = [dbPc EXCEPT ![k] = "joined"]
  /\ UNCHANGED <<mainPc, interrupted, signals, file, handlerPc, asked, replies,
                 semaphore, queue, used, bound, rowId, root, known>>

-----------------------------------------------------------------------------
(* main, SIGINT and other processes. *)

MainStep(from, to) ==
  /\ mainPc = from /\ mainPc' = to
  /\ UNCHANGED <<interrupted, signals, file, handlerPc, asked, replies,
                 semaphore, runners, known>>

\* std::signal, after the server has started.
InstallHandler == MainStep("starting", "acquire")
\* interrupted.acquire locks the mutex ...
Lock == MainStep("acquire", "locked")
\* Slip: ... sleeps without looking at the count ...
SleepAtOnce == MainStep("locked", "asleep")
\* ... sleeps until the count is positive, which is tested under the lock ...
Sleep == interrupted < 1 /\ MainStep("locked", "asleep")
Wake == interrupted >= 1 /\ MainStep("asleep", "locked")
\* ... and takes one; then stopAll.
StopAll ==
  /\ mainPc = "locked" /\ interrupted >= 1
  /\ interrupted' = interrupted - 1
  /\ mainPc' = "stopped"
  /\ UNCHANGED <<signals, file, handlerPc, asked, replies, semaphore, runners, known>>

\* The process ends when the handlers have returned and the runners are gone.
Exit == (\A k \in Runners : dbPc[k] = "joined") /\ MainStep("stopped", "exited")
\* The pool is waited for ten seconds, not for ever.
GiveUp == InFlight # {} /\ MainStep("stopped", "exited")

\* SIGINT on main's thread: without a handler it kills the process; the
\* handler needs the mutex main holds while it tests the count.
Interrupt ==
  /\ signals < MaxSignals /\ mainPc # "stuck"
  /\ signals' = signals + 1
  /\ CASE mainPc = "starting" -> mainPc' = "killed" /\ UNCHANGED interrupted
       [] mainPc = "locked" -> mainPc' = "stuck" /\ UNCHANGED interrupted
       [] OTHER ->
            interrupted' = interrupted + 1 /\ UNCHANGED mainPc
  /\ UNCHANGED <<file, handlerPc, asked, replies, semaphore, runners, known>>

\* Another program adds an account, with a type if the table has one.
OtherProcessAdds ==
  /\ Len(accounts) < MaxAccounts /\ ~Reading
  /\ \E name \in Names, type \in Types :
       /\ ~Service!Holds(accounts, name)
       /\ accounts' = Append(accounts, name)
       /\ column1' = Append(column1, IF schema = "fitting" THEN name ELSE type)
  /\ UNCHANGED <<mainPc, interrupted, signals, schema, handlerPc, asked, replies,
                 semaphore, runners, known>>

Handler(r) == Alive /\ (Decline(r) \/ Post(r) \/ Return(r))
Adder == Bind \/ Insert \/ FailToInsert \/ SendCreated
Lister == Fetch \/ SendListed \/ FailToList
Runner(k) ==
  /\ Alive
  /\ \/ Take(k) \/ Release(k) \/ Reset(k) \/ Stop(k)
     \/ (k = "adder" /\ Adder)
     \/ (k = "lister" /\ Lister)
Main == InstallHandler \/ Lock \/ Sleep \/ Wake \/ StopAll \/ Exit

Next ==
  \/ \E r \in Requests : (Alive /\ Accept(r)) \/ Handler(r)
  \/ \E k \in Runners : Runner(k)
  \/ Main
  \/ GiveUp
  \/ Alive /\ (Interrupt \/ OtherProcessAdds)

Spec == Init /\ [][Next]_vars
\* Threads that can go on do; requests, signals and other programs need not.
FairSpec ==
  /\ Spec
  /\ WF_vars(Main)
  /\ \A r \in Requests : WF_vars(Handler(r))
  /\ \A k \in Runners : WF_vars(Runner(k))

-----------------------------------------------------------------------------
(* Safety *)

TypeOK ==
  /\ mainPc \in {"starting", "acquire", "locked", "asleep", "stuck", "stopped",
                 "killed", "terminated", "exited"}
  /\ interrupted \in 0 .. MaxSignals /\ signals \in 0 .. MaxSignals
  /\ schema \in Schemas /\ accounts \in Seq(Names)
  /\ column1 \in Seq(Names \cup Types)
  /\ handlerPc \in [Requests -> {"none", "accepted", "waiting", "returned"}]
  /\ asked \in [Requests -> Service!Questions \cup {Service!Nothing}]
  /\ replies \in [Requests -> Service!Answers]
  /\ semaphore \in [Requests -> 0 .. 1]
  /\ queue \in [Runners -> Seq(Requests)]
  /\ dbPc \in [Runners -> {"idle", "bind", "step", "rowid", "release", "reset", "joined"}]
  /\ used \in BOOLEAN /\ bound \in Requests \cup {None} /\ rowId \in Nat
  /\ root \in Seq(Names \cup Types)
  /\ known \in [Requests -> SUBSET Nat]

\* A closure works on the stack of a handler that waits for it, and the insert
\* is stepped while the string it is bound to is on that stack: the binding is
\* SQLITE_STATIC, and one request's string is gone before the next is bound.
StackIsLive ==
  /\ \A k \in Runners : Working(k) =>
       handlerPc[Current(k)] = "waiting" /\ semaphore[Current(k)] = 0
  /\ dbPc["adder"] = "step" => bound = Current("adder")

\* ~QueryRunner never drops a closure that a handler waits for.
NothingDropped == \A k \in Runners : dbPc[k] = "joined" => queue[k] = <<>>

\* bind is outside of the closure's try block: what it throws would end the
\* process.  It never meets a statement that was not reset.
NeverTerminates == mainPc # "terminated"

\* Who is told that an account was added is told its id, whatever other
\* programs add in between.
CreatedIsStored ==
  \A r \in Requests : replies[r].code = "created" =>
    /\ replies[r].id \in DOMAIN accounts
    /\ accounts[replies[r].id] = asked[r].name

\* script.js lists the accounts when it has the answer to an addition: the
\* listing has all accounts whose addition was confirmed before it was asked for.
ReadYourWrites ==
  \A r \in Requests : replies[r].code = "ok" => known[r] \subseteq DOMAIN replies[r].rows

\* Additions and listings take effect at once, in between question and answer.
\* What a listing sends as descriptions is the second column of the table.
Linearizable == Service!Spec

\* "already exists" is what the client of a refused addition reads
\* (server.cpp:102).
ConflictMeansExists ==
  \A r \in Requests : replies[r].code = "conflict" =>
    Service!Holds(accounts, asked[r].name)

-----------------------------------------------------------------------------
(* The inductive invariant *)

\* Places in a runner's queue of closures that have not released yet.
Unreleased(k) ==
  IF dbPc[k] = "reset" THEN 2 .. Len(queue[k]) ELSE 1 .. Len(queue[k])

BusyInv ==
  \A k \in Runners :
    /\ dbPc[k] \notin {"idle", "joined"} => queue[k] # <<>>
    /\ k = "lister" => dbPc[k] \notin {"bind", "rowid"}

\* The handler of a closure that has not released waits for it.
Owed(k, r) ==
  handlerPc[r] = "waiting" /\ semaphore[r] = 0 /\ RunnerOf(r) = k /\ NeedsDatabase(r)
OwedInv == \A k \in Runners : \A i \in Unreleased(k) : Owed(k, queue[k][i])

PendingInv ==
  \A k \in Runners : \A i \in Unreleased(k) :
    i > 1 \/ dbPc[k] # "release" => replies[queue[k][i]] = Service!Pending

OnceInv ==
  \A k \in Runners : \A i, j \in Unreleased(k) : queue[k][i] = queue[k][j] => i = j

HandlerInv ==
  \A r \in Requests :
    /\ handlerPc[r] = "none" <=> asked[r] = Service!Nothing
    /\ handlerPc[r] \in {"none", "accepted"} => semaphore[r] = 0 /\ replies[r] = Service!Pending

AdderInv ==
  /\ used => dbPc["adder"] \in {"rowid", "release", "reset"}
  /\ dbPc["adder"] = "step" => bound = Current("adder")
  /\ dbPc["adder"] = "rowid" => /\ rowId \in DOMAIN accounts
                               /\ accounts[rowId] = asked[Current("adder")].name

ListerInv ==
  /\ Len(column1) = Len(accounts)
  /\ schema = "fitting" => column1 = accounts
  /\ Len(root) <= Len(accounts) /\ \A i \in DOMAIN root : root[i] = column1[i]

StopInv ==
  \A k \in Runners : dbPc[k] = "joined" =>
    InFlight = {} /\ mainPc \in {"stopped", "exited"} /\ queue[k] = <<>>

KnownInv == \A r \in Requests : known[r] \subseteq DOMAIN accounts

IInv ==
  /\ TypeOK /\ interrupted <= signals /\ NeverTerminates
  /\ BusyInv /\ OwedInv /\ PendingInv /\ OnceInv /\ HandlerInv /\ AdderInv /\ ListerInv /\ StopInv /\ KnownInv
  /\ CreatedIsStored /\ ReadYourWrites

-----------------------------------------------------------------------------
(* Liveness, of FairSpec *)

\* Every handler returns, unless the process ends before.
Answered ==
  \A r \in Requests : handlerPc[r] = "accepted" ~> handlerPc[r] = "returned" \/ ~Alive

\* SIGINT ends the process, unless it interrupts main while that holds the
\* mutex the signal handler needs.
Ends == signals > 0 ~> ~Alive \/ mainPc = "stuck"
=============================================================================
