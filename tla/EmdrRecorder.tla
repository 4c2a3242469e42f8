---------------------------- MODULE EmdrRecorder ----------------------------
(***************************************************************************)
(* emdr_db/main2.cpp: main records the orders a market data relay          *)
(* publishes.                                                              *)
(*                                                                         *)
(*   receiver         takes one message after the other off the socket and *)
(*                    pushes it into a circular buffer.                    *)
(*   database thread  once a second moves the buffer to a buffer of its    *)
(*                    own and applies all messages in one transaction; if  *)
(*                    that fails it keeps them and tries again.            *)
(*                                                                         *)
(* A message is a sequence of rowsets.  A rowset lists the orders of one   *)
(* region and type at one time and replaces what the tables hold of them,  *)
(* unless last_update has it that the rowset is too old.                   *)
(*                                                                         *)
(* The statement that deletes outdated orders is prepared but never run,   *)
(* so no action removes an order because of its age.                       *)
(***************************************************************************)
EXTENDS Integers, Sequences

CONSTANTS
  Regions, Types, Stations, Orders,
  NoRegion,    \* of a station that neither staStations nor regions lists
  RegionOf,    \* the tables: region of every station
  StationOf, TypeOf,  \* of every order
  Messages,    \* what the relay may publish: sequences of rowsets
  Capacity,    \* of both circular buffers (1000)
  MaxReceived, \* bound: messages published
  MaxFailures  \* bound: statements that fail for a passing reason

Rowsets == [region : Regions, type : Types, time : Nat \ {0},
            orders : SUBSET Orders, bad : BOOLEAN]

\* An uploader lists the orders of a region's market; where the tables know an
\* order's station they agree on the region.
ASSUME TablesAssumption ==
  /\ NoRegion \notin Regions
  /\ RegionOf \in [Stations -> Regions \cup {NoRegion}]
  /\ StationOf \in [Orders -> Stations]
  /\ TypeOf \in [Orders -> Types]
Listings == {s \in Rowsets : \A o \in s.orders :
                 /\ TypeOf[o] = s.type
                 /\ RegionOf[StationOf[o]] \in {s.region, NoRegion}}
ASSUME MessagesAssumption == Messages \subseteq Seq(Listings)
ASSUME BoundsAssumption ==
  Capacity \in Nat \ {0} /\ MaxReceived \in Nat /\ MaxFailures \in Nat

VARIABLES
  recvPc,      \* what the receiver does next
  buffer,      \* messageBuffer: messages with their number
  dbPc,        \* what the database thread does next
  local,       \* localMessageBuffer
  todo,        \* messages of the transaction still to apply
  rowsets,     \* rowsets of the message at hand still to apply
  market,      \* table orders: time of the rowset that stored it, 0 if absent
  lastUpdate,  \* table last_update by region and type, 0 if absent
  draft,       \* both tables as the open transaction sees them
  sigint,
  failures,
  received,    \* number of the last message that was pushed (history)
  committed,   \* numbers of the messages a transaction has committed (history)
  overwritten, \* numbers of the messages that fell out of a full buffer (history)
  taken        \* last rowset committed for a region and type (history)

tables == <<market, lastUpdate, taken>>
vars == <<recvPc, buffer, dbPc, local, todo, rowsets, tables, draft, sigint,
          failures, received, committed, overwritten>>

NoRowset == [time |-> 0, orders |-> {}]
Entries == [number : 1 .. MaxReceived, rowsets : Messages]
Numbers(entries) == {entries[i].number : i \in DOMAIN entries}

Init ==
  /\ recvPc = "check" /\ dbPc = "check"
  /\ buffer = <<>> /\ local = <<>> /\ todo = <<>> /\ rowsets = <<>>
  /\ market = [o \in Orders |-> 0]
  /\ lastUpdate = [r \in Regions |-> [t \in Types |-> 0]]
  /\ taken = [r \in Regions |-> [t \in Types |-> NoRowset]]
  /\ draft = [market |-> market, lastUpdate |-> lastUpdate, taken |-> taken]
  /\ sigint = FALSE /\ failures = 0 /\ received = 0
  /\ committed = {} /\ overwritten = {}

\* A full boost::circular_buffer overwrites its oldest elements.
LastOf(entries) ==
  IF Len(entries) <= Capacity THEN entries
  ELSE SubSeq(entries, 1 + Len(entries) - Capacity, Len(entries))
Dropped(entries) == Numbers(entries) \ Numbers(LastOf(entries))

-----------------------------------------------------------------------------
(* The receiver: main's loop. *)

\* while (!sigint): what follows is a blocking socket.recv.
CheckSigint ==
  /\ recvPc = "check"
  /\ recvPc' = IF sigint THEN "join" ELSE "recv"
  /\ UNCHANGED <<buffer, dbPc, local, todo, rowsets, tables, draft, sigint,
                 failures, received, committed, overwritten>>

\* Slip: a message is pushed on the side of the oldest.
ReceiveInFront ==
  /\ recvPc = "recv"
  /\ received < MaxReceived
  /\ \E m \in Messages :
       LET queue == <<[number |-> received + 1, rowsets |-> m]>> \o buffer
       IN  /\ buffer' = LastOf(queue)
           /\ overwritten' = overwritten \cup Dropped(queue)
  /\ received' = received + 1
  /\ recvPc' = "check"
  /\ UNCHANGED <<dbPc, local, todo, rowsets, tables, draft, sigint, failures,
                 committed>>

\* socket.recv, then handleMessageString pushes a message of orders.
Receive ==
  /\ recvPc = "recv"
  /\ received < MaxReceived
  /\ \E m \in Messages :
       LET queue == Append(buffer, [number |-> received + 1, rowsets |-> m])
       IN  /\ buffer' = LastOf(queue)
           /\ overwritten' = overwritten \cup Dropped(queue)
  /\ received' = received + 1
  /\ recvPc' = "check"
  /\ UNCHANGED <<dbPc, local, todo, rowsets, tables, draft, sigint, failures,
                 committed>>

\* A message of history, or one that does not decompress or parse.
ReceiveOther ==
  /\ recvPc = "recv"
  /\ recvPc' = "check"
  /\ UNCHANGED <<buffer, dbPc, local, todo, rowsets, tables, draft, sigint,
                 failures, received, committed, overwritten>>

\* maxIskHaulThread.join()
Join ==
  /\ recvPc = "join"
  /\ dbPc = "exited"
  /\ recvPc' = "done"
  /\ UNCHANGED <<buffer, dbPc, local, todo, rowsets, tables, draft, sigint,
                 failures, received, committed, overwritten>>

\* The signal sets sigint.  It makes a blocking recv return with EINTR if it is
\* delivered to the receiver and recv has begun to block; if not, recv still
\* waits for the next message.
Interrupt ==
  /\ ~sigint
  /\ sigint' = TRUE
  /\ \/ UNCHANGED recvPc
     \/ recvPc = "recv" /\ recvPc' = "check"
  /\ UNCHANGED <<buffer, dbPc, local, todo, rowsets, tables, draft, failures,
                 received, committed, overwritten>>

-----------------------------------------------------------------------------
(* The database thread. *)

\* Slip: the loop runs for ever.
SleepOrExitNever ==
  /\ dbPc = "check"
  /\ dbPc' = "asleep"
  /\ UNCHANGED <<recvPc, buffer, local, todo, rowsets, tables, draft, sigint,
                 failures, received, committed, overwritten>>

\* while (!sigint), then one second of sleep.
SleepOrExit ==
  /\ dbPc = "check"
  /\ dbPc' = IF sigint THEN "exited" ELSE "asleep"
  /\ UNCHANGED <<recvPc, buffer, local, todo, rowsets, tables, draft, sigint,
                 failures, received, committed, overwritten>>

\* Slip: what a failed transaction has left behind is overwritten.
CollectReplacing ==
  /\ dbPc = "asleep"
  /\ local' = buffer
  /\ buffer' = <<>>
  /\ overwritten' = overwritten \cup Numbers(local)
  /\ draft' = [market |-> market, lastUpdate |-> lastUpdate, taken |-> taken]
  /\ todo' = [i \in DOMAIN local' |-> local'[i].rowsets]
  /\ dbPc' = "apply"
  /\ UNCHANGED <<recvPc, rowsets, tables, sigint, failures, received,
                 committed>>

\* Under the mutex the buffer is moved to the end of the local one; then begin.
Collect ==
  /\ dbPc = "asleep"
  /\ local' = LastOf(local \o buffer)
  /\ buffer' = <<>>
  /\ overwritten' = overwritten \cup Dropped(local \o buffer)
  /\ draft' = [market |-> market, lastUpdate |-> lastUpdate, taken |-> taken]
  /\ todo' = [i \in DOMAIN local' |-> local'[i].rowsets]
  /\ dbPc' = "apply"
  /\ UNCHANGED <<recvPc, rowsets, tables, sigint, failures, received,
                 committed>>

\* select lastupdate from last_update where regionid = ...: the first row of the
\* region, of whatever type.  The rowset is too old if that row is not older.
TooOld(rowset) ==
  \E t \in Types :
    /\ draft.lastUpdate[rowset.region][t] # 0
    /\ draft.lastUpdate[rowset.region][t] >= rowset.time
SeenBefore(rowset) == \E t \in Types : draft.lastUpdate[rowset.region][t] # 0
Newer(rowset) ==
  \/ ~SeenBefore(rowset)
  \/ \E t \in Types : draft.lastUpdate[rowset.region][t] \in 1 .. rowset.time - 1

\* Slip: only the orders at the stations of the rowset are deleted.
DeletedIfMentioned(rowset) ==
  {o \in Orders : /\ TypeOf[o] = rowset.type
                  /\ StationOf[o] \in {StationOf[p] : p \in rowset.orders}}

\* delete from orders where typeID = ... and stationID is one of the region or
\* one the rowset lists.
Deleted(rowset) ==
  {o \in Orders : /\ TypeOf[o] = rowset.type
                  /\ \/ RegionOf[StationOf[o]] = rowset.region
                     \/ StationOf[o] \in {StationOf[p] : p \in rowset.orders}}

\* The tables after the rowset has replaced what they held of its orders.
Applied(rowset) ==
  [market |-> [o \in Orders |->
                 IF o \in rowset.orders THEN rowset.time
                 ELSE IF o \in Deleted(rowset) THEN 0 ELSE draft.market[o]],
   lastUpdate |-> [draft.lastUpdate EXCEPT ![rowset.region][rowset.type] = rowset.time],
   taken |-> [draft.taken EXCEPT ![rowset.region][rowset.type] =
                [time |-> rowset.time, orders |-> rowset.orders]]]

\* for (const auto& m : localMessageBuffer)
NextMessage ==
  /\ dbPc = "apply"
  /\ rowsets = <<>> /\ todo # <<>>
  /\ rowsets' = Head(todo)
  /\ todo' = Tail(todo)
  /\ UNCHANGED <<recvPc, buffer, dbPc, local, tables, draft, sigint, failures,
                 received, committed, overwritten>>

\* updateMaxIskHaulData, one rowset: an empty one and one too old are skipped.
ApplyRowset ==
  /\ dbPc = "apply"
  /\ rowsets # <<>>
  /\ \/ /\ Head(rowsets).orders = {} \/ TooOld(Head(rowsets))
        /\ UNCHANGED draft
     \/ /\ Head(rowsets).orders # {} /\ Newer(Head(rowsets)) /\ ~Head(rowsets).bad
        /\ draft' = Applied(Head(rowsets))
  /\ rowsets' = Tail(rowsets)
  /\ UNCHANGED <<recvPc, buffer, dbPc, local, todo, tables, sigint, failures,
                 received, committed, overwritten>>

\* Slip: the exception is caught outside of the loop.
RollbackLeaving ==
  /\ draft' = [market |-> market, lastUpdate |-> lastUpdate, taken |-> taken]
  /\ todo' = <<>> /\ rowsets' = <<>>
  /\ dbPc' = "exited"
  /\ UNCHANGED <<recvPc, buffer, local, tables, sigint, received, committed,
                 overwritten>>

\* ~Transaction rolls back; the exception is caught and the messages stay in
\* the local buffer.
Rollback ==
  /\ draft' = [market |-> market, lastUpdate |-> lastUpdate, taken |-> taken]
  /\ todo' = <<>> /\ rowsets' = <<>>
  /\ dbPc' = "check"
  /\ UNCHANGED <<recvPc, buffer, local, tables, sigint, received, committed,
                 overwritten>>

\* A row that violates a check constraint of the table: so it will next time.
FailOnBadRow ==
  /\ dbPc = "apply"
  /\ rowsets # <<>>
  /\ Head(rowsets).orders # {} /\ Newer(Head(rowsets)) /\ Head(rowsets).bad
  /\ Rollback
  /\ UNCHANGED failures

\* Any statement may fail for a reason that passes, a locked database.
FailForOnce ==
  /\ dbPc = "apply"
  /\ failures < MaxFailures
  /\ failures' = failures + 1
  /\ Rollback

\* Some errors, as a full disk, make SQLite roll back by itself.  Then the step
\* of rollback throws in ~Transaction, and the process ends.
FailInDestructor ==
  /\ dbPc = "apply"
  /\ failures < MaxFailures
  /\ failures' = failures + 1
  /\ dbPc' = "terminated" /\ recvPc' = "terminated"
  /\ UNCHANGED <<buffer, local, todo, rowsets, tables, draft, sigint, received,
                 committed, overwritten>>

\* Slip: the local buffer is not cleared.
CommitKeeping ==
  /\ dbPc = "apply"
  /\ todo = <<>> /\ rowsets = <<>>
  /\ market' = draft.market /\ lastUpdate' = draft.lastUpdate /\ taken' = draft.taken
  /\ committed' = committed \cup Numbers(local)
  /\ dbPc' = "check"
  /\ UNCHANGED <<recvPc, buffer, local, todo, rowsets, draft, sigint, failures,
                 received, overwritten>>

\* transaction.commit(); localMessageBuffer.clear()
Commit ==
  /\ dbPc = "apply"
  /\ todo = <<>> /\ rowsets = <<>>
  /\ market' = draft.market /\ lastUpdate' = draft.lastUpdate /\ taken' = draft.taken
  /\ committed' = committed \cup Numbers(local)
  /\ local' = <<>>
  /\ dbPc' = "check"
  /\ UNCHANGED <<recvPc, buffer, todo, rowsets, draft, sigint, failures,
                 received, overwritten>>

Database ==
  \/ SleepOrExit \/ Collect \/ NextMessage \/ ApplyRowset \/ FailOnBadRow
  \/ FailForOnce \/ FailInDestructor \/ Commit

Receiver == CheckSigint \/ Join

Next == Receiver \/ Receive \/ ReceiveOther \/ Interrupt \/ Database

\* Both threads are scheduled; the relay owes no message.
Fairness == WF_vars(Receiver) /\ WF_vars(Database)

Spec == Init /\ [][Next]_vars /\ Fairness
-----------------------------------------------------------------------------
(* Properties. *)

\* Every message received is in exactly one place: committed by one transaction,
\* overwritten, or in one of the two buffers, whatever transactions failed.
EachInOnePlace ==
  /\ committed \cup overwritten \cup Numbers(buffer) \cup Numbers(local) = 1 .. received
  /\ committed \cap overwritten = {}
  /\ (committed \cup overwritten) \cap (Numbers(buffer) \cup Numbers(local)) = {}
  /\ Numbers(buffer) \cap Numbers(local) = {}

\* Messages take effect in the order of their arrival, across the two buffers and
\* across transactions that were tried again.
InOrderOfArrival ==
  LET pending == local \o buffer
  IN  /\ \A i, j \in DOMAIN pending : i < j => pending[i].number < pending[j].number
      /\ \A n \in committed : \A i \in DOMAIN pending : n < pending[i].number

\* A message is lost only to an overflow: at least Capacity later ones have come,
\* although two buffers of that size feed one another.
LostToOverflowOnly == \A n \in overwritten : received >= n + Capacity

\* The tables hold, of every region and type, exactly the orders of the rowset
\* that was taken last, as far as they know the orders' stations, and its time.
LatestOf(stored, times, last) ==
  \A r \in Regions, t \in Types :
    /\ times[r][t] = last[r][t].time
    /\ \A o \in Orders :
         TypeOf[o] = t /\ RegionOf[StationOf[o]] = r =>
           stored[o] = IF o \in last[r][t].orders THEN last[r][t].time ELSE 0
MarketIsLatest == LatestOf(market, lastUpdate, taken)

\* A message the constraints of the tables may refuse is in the way.
HeldBack ==
  \E i \in DOMAIN local : \E j \in DOMAIN local[i].rowsets : local[i].rowsets[j].bad

\* Every message is settled in the end, unless a bad one holds it back for good
\* or the program ends: a failure of the moment is retried.
Delivered ==
  \A n \in 1 .. MaxReceived :
    [](received >= n => <>( \/ n \in committed \cup overwritten
                           \/ sigint \/ dbPc = "terminated"
                           \/ []HeldBack ))

\* After SIGINT the program ends, or all it waits for is a message from the
\* relay: the signal can come between the test of sigint and the blocking recv.
Terminates ==
  <>sigint => <>[](\/ recvPc \in {"done", "terminated"}
                   \/ recvPc = "recv" /\ dbPc = "exited")

\* A rowset older than the one last taken for its region and type is "too old"
\* (the comment in updateMaxIskHaulData) and does not replace it.
LastUpdateNeverGoesBack ==
  [][\A r \in Regions, t \in Types : lastUpdate'[r][t] >= lastUpdate[r][t]]_vars
-----------------------------------------------------------------------------
(* The inductive invariant of the tables. *)

\* What every reachable state satisfies: only messages of the relay are on their
\* way, and the open transaction sees tables that are the latest, too.
TablesInv ==
  /\ received \in 0 .. MaxReceived
  /\ buffer \in Seq(Entries) /\ local \in Seq(Entries)
  /\ todo \in Seq(Messages) /\ rowsets \in Seq(Listings)
  /\ market \in [Orders -> Nat]
  /\ lastUpdate \in [Regions -> [Types -> Nat]]
  /\ taken \in [Regions -> [Types -> [time : Nat, orders : SUBSET Orders]]]
  /\ draft \in [market : [Orders -> Nat], lastUpdate : [Regions -> [Types -> Nat]],
                taken : [Regions -> [Types -> [time : Nat, orders : SUBSET Orders]]]]
  /\ MarketIsLatest
  /\ LatestOf(draft.market, draft.lastUpdate, draft.taken)

\* Numbers grow at least as fast as positions.
Spaced(entries) ==
  \A i, j \in DOMAIN entries : i <= j => entries[j].number >= entries[i].number + (j - i)

\* Both buffers are in order, the local one before the other and after all that
\* was committed: what falls out at the front is Capacity behind the last.
MessagesInv ==
  /\ Spaced(local) /\ Spaced(buffer)
  /\ \A n \in Numbers(local), m \in Numbers(buffer) : n < m
  /\ \A n \in committed, m \in Numbers(local) \cup Numbers(buffer) : n < m
  /\ EachInOnePlace
  /\ LostToOverflowOnly
=============================================================================
