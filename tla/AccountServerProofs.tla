------------------------- MODULE AccountServerProofs -------------------------
(***************************************************************************)
(* Machine-checked proofs about AccountServer, for any number of requests  *)
(* and signals, every table and both schemas: the inductive invariant, one *)
(* lemma per action, the safety theorems, and the implementation of        *)
(* AccountService, one lemma per kind of step.                             *)
(***************************************************************************)
EXTENDS AccountServer, TLAPS

\* A request asks for something once it is accepted.
LEMMA QuestionType ==
  /\ Service!Nothing \notin Service!Questions
BY DEF Service!Nothing, Service!Questions, Service!Question

\* What a closure sends is an answer.
LEMMA AnswerType ==
  ASSUME NEW c \in {"pending", "created", "ok", "bad_request", "not_found", "conflict", "error"},
         NEW i \in Nat, NEW rows \in Seq(Names \cup Types)
  PROVE  Service!Answer(c, i, rows) \in Service!Answers
BY DEF Service!Answer, Service!Answers

\* A runner at work is at the first request of its queue.
LEMMA CurrentType ==
  ASSUME TypeOK, BusyInv, NEW k \in Runners, dbPc[k] \notin {"idle", "joined"}
  PROVE  /\ Current(k) \in Requests /\ Current(k) = queue[k][1]
         /\ Len(queue[k]) \in Nat /\ Len(queue[k]) >= 1
BY DEF TypeOK, BusyInv, Current

\* The closure at work has not released: its handler waits for it.
LEMMA CurrentOwed ==
  ASSUME IInv, NEW k \in Runners, dbPc[k] \notin {"idle", "joined", "reset"}
  PROVE  /\ Owed(k, Current(k))
         /\ dbPc[k] # "release" => replies[Current(k)] = Service!Pending
<1>1. 1 \in Unreleased(k) /\ Current(k) = queue[k][1]
  BY CurrentType DEF IInv, Unreleased
<1> QED
  BY <1>1 DEF IInv, OwedInv, PendingInv

-----------------------------------------------------------------------------
\* The handlers' steps preserve the invariant.
LEMMA AcceptInv ==
  ASSUME IInv, NEW r \in Requests, Alive, Accept(r)
  PROVE  IInv'
<1>0. PICK q \in Service!Questions : asked' = [asked EXCEPT ![r] = q]
  BY DEF Accept
<1>00. q # Service!Nothing
  BY QuestionType
<1>1. TypeOK'
  <2>1. asked' \in [Requests -> Service!Questions \cup {Service!Nothing}]
    BY <1>0 DEF IInv, TypeOK
  <2>2. Confirmed \subseteq Nat
    BY DEF IInv, TypeOK, Confirmed, Service!Answers
  <2>3. known' \in [Requests -> SUBSET Nat]
    BY <2>2 DEF IInv, TypeOK, Accept
  <2>4. handlerPc' \in [Requests -> {"none", "accepted", "waiting", "returned"}]
    BY DEF IInv, TypeOK, Accept
  <2> QED
    BY <2>1, <2>3, <2>4 DEF IInv, TypeOK, Accept, file, runners
<1>2. OwedInv'
  BY DEF IInv, runners, Accept, OwedInv, Owed, Unreleased, RunnerOf, NeedsDatabase
<1>3. HandlerInv'
  BY <1>0, <1>00 DEF IInv, TypeOK, Accept, HandlerInv
<1>4. AdderInv'
  <2>1. ASSUME dbPc["adder"] = "rowid" PROVE asked'[Current("adder")] = asked[Current("adder")]
    <3>1. Current("adder") \in Requests /\ handlerPc[Current("adder")] = "waiting"
      BY <2>1, CurrentType, CurrentOwed DEF IInv, Owed, Runners
    <3> QED
      BY <3>1, <1>0 DEF Accept, IInv, TypeOK
  <2> QED
    BY <2>1 DEF IInv, AdderInv, Accept, Current, file, runners
<1>5. StopInv'
  BY DEF IInv, StopInv, Accept, Alive, file, runners
<1>6. KnownInv'
  <2>1. Confirmed \subseteq DOMAIN accounts
    BY DEF IInv, CreatedIsStored, Confirmed
  <2> QED
    BY <2>1 DEF IInv, TypeOK, KnownInv, Accept, file
<1>7. CreatedIsStored'
  <2>1. replies[r].code = "pending"
    BY DEF IInv, HandlerInv, Accept, Service!Pending, Service!Answer
  <2> QED
    BY <2>1, <1>0 DEF IInv, TypeOK, CreatedIsStored, Accept, file
<1>8. ReadYourWrites'
  <2>1. replies[r].code = "pending"
    BY DEF IInv, HandlerInv, Accept, Service!Pending, Service!Answer
  <2> QED
    BY <2>1 DEF IInv, TypeOK, ReadYourWrites, Accept
<1>9. (interrupted <= signals /\ NeverTerminates /\ BusyInv /\ PendingInv /\ OnceInv
      /\ ListerInv)'
  BY DEF IInv, file, runners, Accept, NeverTerminates, BusyInv, PendingInv, OnceInv, Unreleased,
    ListerInv
<1> QED
  BY <1>1, <1>2, <1>3, <1>4, <1>5, <1>6, <1>7, <1>8, <1>9 DEF IInv

LEMMA DeclineInv ==
  ASSUME IInv, NEW r \in Requests, Decline(r)
  PROVE  IInv'
<1>0. PICK a \in Service!Answers : /\ replies' = [replies EXCEPT ![r] = a]
                                    /\ a.code \notin {"created", "ok"}
  <2>1. <<>> \in Seq(Names \cup Types)
    OBVIOUS
  <2>2. ASSUME NEW c \in {"not_found", "bad_request"},
               replies' = [replies EXCEPT ![r] = Service!Answer(c, 0, <<>>)]
        PROVE  \E a \in Service!Answers : /\ replies' = [replies EXCEPT ![r] = a]
                                          /\ a.code \notin {"created", "ok"}
    <3>1. Service!Answer(c, 0, <<>>) \in Service!Answers
      BY <2>1, AnswerType
    <3>2. Service!Answer(c, 0, <<>>).code = c
      BY DEF Service!Answer
    <3> QED
      BY <2>2, <3>1, <3>2
  <2> QED
    BY <2>2 DEF Decline
<1>1. TypeOK'
  <2>1. replies' \in [Requests -> Service!Answers]
    BY <1>0 DEF IInv, TypeOK
  <2> QED
    BY <2>1 DEF IInv, TypeOK, Decline, file, runners
<1>2. OwedInv'
  BY DEF IInv, runners, Decline, OwedInv, Owed, Unreleased, RunnerOf, NeedsDatabase
<1>3. PendingInv'
  <2>1. \A k \in Runners : \A i \in Unreleased(k) : queue[k][i] # r
    BY DEF IInv, OwedInv, Owed, Decline
  <2> QED
    BY <2>1, <1>0 DEF IInv, TypeOK, PendingInv, Unreleased, Decline, runners
<1>4. HandlerInv'
  BY DEF IInv, TypeOK, Decline, HandlerInv
<1>5. StopInv'
  BY DEF IInv, runners, Decline, StopInv, InFlight
<1>6. CreatedIsStored'
  BY <1>0 DEF IInv, TypeOK, CreatedIsStored, Decline, file
<1>7. ReadYourWrites'
  BY <1>0 DEF IInv, TypeOK, ReadYourWrites, Decline
<1>8. (interrupted <= signals /\ NeverTerminates /\ BusyInv /\ OnceInv /\ AdderInv
      /\ ListerInv /\ KnownInv)'
  BY DEF IInv, file, runners, Decline, NeverTerminates, AdderInv, BusyInv, OnceInv, Unreleased,
    Current, ListerInv, KnownInv
<1> QED
  BY <1>1, <1>2, <1>3, <1>4, <1>5, <1>6, <1>7, <1>8 DEF IInv

LEMMA PostInv ==
  ASSUME IInv, NEW r \in Requests, Post(r)
  PROVE  IInv'
<1>0. /\ RunnerOf(r) \in Runners /\ queue[RunnerOf(r)] \in Seq(Requests)
      /\ \A k \in Runners \ {RunnerOf(r)} : queue'[k] = queue[k]
      /\ queue'[RunnerOf(r)] = Append(queue[RunnerOf(r)], r)
      /\ Len(queue'[RunnerOf(r)]) = Len(queue[RunnerOf(r)]) + 1
      /\ \A i \in 1 .. Len(queue[RunnerOf(r)]) : queue'[RunnerOf(r)][i] = queue[RunnerOf(r)][i]
      /\ queue'[RunnerOf(r)][Len(queue[RunnerOf(r)]) + 1] = r
  BY DEF IInv, TypeOK, Post, RunnerOf, Runners
<1>1. TypeOK'
  <2>1. queue' \in [Runners -> Seq(Requests)]
    BY <1>0 DEF IInv, TypeOK, Post
  <2> QED
    BY <2>1 DEF IInv, TypeOK, Post, file
<1>2. BusyInv'
  <2>1. ASSUME NEW k \in Runners, queue[k] # <<>> PROVE queue'[k] # <<>>
    BY <2>1, <1>0
  <2> QED
    BY <2>1 DEF IInv, BusyInv, Post
<1>3. OwedInv'
  <2> SUFFICES ASSUME NEW k \in Runners, NEW i \in Unreleased(k)' PROVE Owed(k, queue[k][i])'
    BY DEF OwedInv
  <2>1. CASE k = RunnerOf(r) /\ i = Len(queue[k]) + 1
    <3>1. queue'[k][i] = r
      BY <2>1, <1>0
    <3>2. handlerPc'[r] = "waiting" /\ semaphore'[r] = 0
      BY DEF IInv, TypeOK, HandlerInv, Post
    <3> QED
      BY <3>1, <3>2, <2>1 DEF Owed, Post, RunnerOf, NeedsDatabase
  <2>2. CASE ~(k = RunnerOf(r) /\ i = Len(queue[k]) + 1)
    <3>1. i \in Unreleased(k) /\ queue'[k][i] = queue[k][i]
      BY <2>2, <1>0 DEF Unreleased, Post
    <3>2. Owed(k, queue[k][i]) /\ queue[k][i] # r
      BY <3>1 DEF IInv, OwedInv, Owed, Post
    <3>3. queue[k][i] \in Requests
      BY <3>1 DEF Unreleased, IInv, TypeOK
    <3> QED
      BY <3>1, <3>2, <3>3 DEF IInv, TypeOK, Owed, Post, RunnerOf, NeedsDatabase
  <2> QED
    BY <2>1, <2>2
<1>4. PendingInv'
  <2> SUFFICES ASSUME NEW k \in Runners, NEW i \in Unreleased(k)', i > 1 \/ dbPc[k] # "release"
               PROVE  replies[queue'[k][i]] = Service!Pending
    BY DEF PendingInv, Post
  <2>1. CASE k = RunnerOf(r) /\ i = Len(queue[k]) + 1
    <3>1. queue'[k][i] = r
      BY <2>1, <1>0
    <3> QED
      BY <3>1 DEF IInv, HandlerInv, Post
  <2>2. CASE ~(k = RunnerOf(r) /\ i = Len(queue[k]) + 1)
    <3>1. i \in Unreleased(k) /\ queue'[k][i] = queue[k][i]
      BY <2>2, <1>0 DEF Unreleased, Post
    <3> QED
      BY <3>1 DEF IInv, PendingInv
  <2> QED
    BY <2>1, <2>2
<1>5. OnceInv'
  <2> SUFFICES ASSUME NEW k \in Runners, NEW i \in Unreleased(k)', NEW j \in Unreleased(k)',
                      queue'[k][i] = queue'[k][j], i # j
               PROVE  FALSE
    BY DEF OnceInv
  <2>1. ASSUME NEW n \in Unreleased(k)', ~(k = RunnerOf(r) /\ n = Len(queue[k]) + 1)
        PROVE  n \in Unreleased(k) /\ queue'[k][n] = queue[k][n] /\ queue[k][n] # r
    <3>1. n \in Unreleased(k) /\ queue'[k][n] = queue[k][n]
      BY <2>1, <1>0 DEF Unreleased, Post
    <3> QED
      BY <3>1 DEF IInv, OwedInv, Owed, Post
  <2>2. ASSUME k = RunnerOf(r) PROVE queue'[k][Len(queue[k]) + 1] = r
    BY <2>2, <1>0
  <2> QED
    BY <2>1, <2>2 DEF IInv, OnceInv
<1>6. HandlerInv'
  BY DEF IInv, Post, HandlerInv
<1>7. AdderInv'
  <2>1. ASSUME dbPc["adder"] \in {"step", "rowid"}
        PROVE  Current("adder")' = Current("adder")
    <3>1. Len(queue["adder"]) >= 1 /\ Current("adder") = queue["adder"][1]
      BY <2>1, CurrentType DEF IInv, Runners
    <3>2. Len(queue'["adder"]) >= 1 /\ queue'["adder"][1] = queue["adder"][1]
      BY <3>1, <1>0 DEF Runners
    <3> QED
      BY <3>1, <3>2, <2>1, <1>0 DEF Current, Runners, IInv, TypeOK
  <2> QED
    BY <2>1 DEF IInv, AdderInv, Post, file
<1>8. StopInv'
  BY DEF IInv, Post, StopInv, InFlight
<1>9. (interrupted <= signals /\ NeverTerminates /\ ListerInv /\ KnownInv /\ CreatedIsStored
      /\ ReadYourWrites)'
  BY DEF IInv, file, Post, NeverTerminates, ListerInv, KnownInv, CreatedIsStored, ReadYourWrites
<1> QED
  BY <1>1, <1>2, <1>3, <1>4, <1>5, <1>6, <1>7, <1>8, <1>9 DEF IInv

LEMMA ReturnInv ==
  ASSUME IInv, NEW r \in Requests, Return(r)
  PROVE  IInv'
<1>1. TypeOK'
  BY DEF IInv, TypeOK, file, runners, Return
<1>2. OwedInv'
  BY BoundsAssumption DEF IInv, runners, Return, OwedInv, Owed, Unreleased, RunnerOf,
    NeedsDatabase
<1>3. HandlerInv'
  BY DEF IInv, Return, HandlerInv
<1>4. StopInv'
  BY DEF IInv, runners, Return, StopInv, InFlight
<1>5. (interrupted <= signals /\ NeverTerminates /\ BusyInv /\ PendingInv /\ OnceInv
      /\ AdderInv /\ ListerInv /\ KnownInv /\ CreatedIsStored /\ ReadYourWrites)'
  BY DEF IInv, file, runners, Return, NeverTerminates, AdderInv, BusyInv, PendingInv, OnceInv,
    Unreleased, Current, ListerInv, KnownInv, CreatedIsStored, ReadYourWrites
<1> QED
  BY <1>1, <1>2, <1>3, <1>4, <1>5 DEF IInv

-----------------------------------------------------------------------------
\* So do the steps of the database threads.
LEMMA TakeInv ==
  ASSUME IInv, NEW k \in Runners, Take(k)
  PROVE  IInv'
<1>1. TypeOK'
  BY DEF IInv, TypeOK, file, Take
<1>2. BusyInv'
  BY DEF IInv, Take, BusyInv
<1>3. OwedInv'
  BY DEF IInv, Take, OwedInv, Owed, Unreleased, RunnerOf, NeedsDatabase
<1>4. PendingInv'
  BY DEF IInv, Take, PendingInv, Unreleased
<1>5. OnceInv'
  BY DEF IInv, Take, OnceInv, Unreleased
<1>6. AdderInv'
  BY DEF IInv, file, Take, AdderInv, Current
<1>7. StopInv'
  BY DEF IInv, Take, StopInv, InFlight
<1>8. (interrupted <= signals /\ NeverTerminates /\ HandlerInv /\ ListerInv /\ KnownInv
      /\ CreatedIsStored /\ ReadYourWrites)'
  BY DEF IInv, file, Take, NeverTerminates, HandlerInv, ListerInv, KnownInv, CreatedIsStored,
    ReadYourWrites
<1> QED
  BY <1>1, <1>2, <1>3, <1>4, <1>5, <1>6, <1>7, <1>8 DEF IInv

LEMMA BindInv ==
  ASSUME IInv, Bind
  PROVE  IInv'
<1>0. /\ Current("adder") \in Requests /\ Current("adder") = queue["adder"][1]
      /\ Len(queue["adder"]) \in Nat /\ Len(queue["adder"]) >= 1
  BY CurrentType DEF IInv, Runners, Bind
<1>00. /\ Owed("adder", Current("adder"))
       /\ dbPc["adder"] # "release" => replies[Current("adder")] = Service!Pending
  BY CurrentOwed DEF Runners, Bind
<1>1. TypeOK'
  BY <1>0 DEF IInv, TypeOK, file, Bind
<1>2. (interrupted <= signals /\ NeverTerminates)'
  BY DEF IInv, Bind, NeverTerminates, AdderInv
<1>3. BusyInv'
  BY DEF IInv, TypeOK, Bind, BusyInv
<1>4. OwedInv'
  BY DEF IInv, TypeOK, Bind, OwedInv, Owed, Unreleased, RunnerOf, NeedsDatabase
<1>5. PendingInv'
  BY DEF IInv, TypeOK, Bind, PendingInv, Unreleased
<1>6. OnceInv'
  BY DEF IInv, TypeOK, Runners, Bind, OnceInv, Unreleased
<1>7. AdderInv'
  BY DEF IInv, TypeOK, Bind, AdderInv, Current
<1>8. StopInv'
  BY DEF IInv, TypeOK, AdderInv, StopInv, InFlight, Bind, file
<1>9. (HandlerInv /\ ListerInv /\ KnownInv /\ CreatedIsStored /\ ReadYourWrites)'
  BY DEF IInv, file, Bind, HandlerInv, ListerInv, KnownInv, CreatedIsStored, ReadYourWrites
<1> QED
  BY <1>1, <1>2, <1>3, <1>4, <1>5, <1>6, <1>7, <1>8, <1>9 DEF IInv

LEMMA InsertInv ==
  ASSUME IInv, Insert
  PROVE  IInv'
<1>0. /\ Current("adder") \in Requests /\ Current("adder") = queue["adder"][1]
      /\ Len(queue["adder"]) \in Nat /\ Len(queue["adder"]) >= 1
  BY CurrentType DEF IInv, Runners, Insert
<1>00. /\ Owed("adder", Current("adder"))
       /\ dbPc["adder"] # "release" => replies[Current("adder")] = Service!Pending
  BY CurrentOwed DEF Runners, Insert
<1>1. TypeOK'
  <2>1. asked[bound].name \in Names
    BY <1>0, <1>00 DEF IInv, AdderInv, Insert, Owed, NeedsDatabase, RunnerOf, TypeOK,
      Service!Questions, Service!Question, Service!Nothing
  <2>2. accounts' \in Seq(Names) /\ rowId' \in Nat
    BY <2>1 DEF IInv, TypeOK, Insert
  <2>3. column1' \in Seq(Names \cup Types)
    BY <2>1 DEF IInv, TypeOK, Insert
  <2> QED
    BY <2>2, <2>3 DEF IInv, TypeOK, Insert, Runners
<1>2. BusyInv'
  BY DEF IInv, Insert, BusyInv
<1>3. OwedInv'
  BY DEF IInv, Insert, OwedInv, Owed, Unreleased, RunnerOf, NeedsDatabase
<1>4. PendingInv'
  BY DEF IInv, Insert, PendingInv, Unreleased
<1>5. OnceInv'
  BY DEF IInv, Insert, OnceInv, Unreleased
<1>6. AdderInv'
  BY DEF IInv, TypeOK, Runners, Insert, AdderInv, Current
<1>7. ListerInv'
  BY DEF IInv, TypeOK, Insert, ListerInv
<1>8. StopInv'
  BY DEF IInv, Insert, StopInv, InFlight
<1>9. KnownInv'
  BY DEF IInv, Insert, KnownInv
<1>10. CreatedIsStored'
  BY DEF IInv, Insert, CreatedIsStored
<1>11. (interrupted <= signals /\ NeverTerminates /\ HandlerInv /\ ReadYourWrites)'
  BY DEF IInv, Insert, NeverTerminates, HandlerInv, ReadYourWrites
<1> QED
  BY <1>1, <1>2, <1>3, <1>4, <1>5, <1>6, <1>7, <1>8, <1>9, <1>10, <1>11 DEF IInv

LEMMA SendCreatedInv ==
  ASSUME IInv, SendCreated
  PROVE  IInv'
<1>0. /\ Current("adder") \in Requests /\ Current("adder") = queue["adder"][1]
      /\ Len(queue["adder"]) \in Nat /\ Len(queue["adder"]) >= 1
  BY CurrentType DEF IInv, Runners, SendCreated
<1>00. /\ Owed("adder", Current("adder"))
       /\ dbPc["adder"] # "release" => replies[Current("adder")] = Service!Pending
  BY CurrentOwed DEF Runners, SendCreated
<1>1. TypeOK'
  BY <1>0 DEF IInv, TypeOK, file, Runners, SendCreated, Service!Answers, Service!Answer,
    Service!Created
<1>2. BusyInv'
  BY DEF IInv, SendCreated, BusyInv
<1>3. OwedInv'
  BY DEF IInv, SendCreated, OwedInv, Owed, Unreleased, RunnerOf, NeedsDatabase
<1>4. PendingInv'
  BY <1>0 DEF IInv, TypeOK, Runners, SendCreated, OwedInv, Owed, PendingInv, OnceInv, Unreleased
<1>5. OnceInv'
  BY DEF IInv, SendCreated, OnceInv, Unreleased
<1>6. HandlerInv'
  BY <1>00 DEF IInv, SendCreated, HandlerInv, Owed
<1>7. AdderInv'
  BY DEF IInv, file, SendCreated, AdderInv, Current
<1>8. StopInv'
  BY DEF IInv, SendCreated, StopInv, InFlight
<1>9. CreatedIsStored'
  <2>1. replies'[Current("adder")].id = rowId /\ rowId \in DOMAIN accounts
        /\ accounts[rowId] = asked[Current("adder")].name
    BY <1>0 DEF IInv, TypeOK, AdderInv, SendCreated, Service!Created, Service!Answer
  <2> QED
    BY <1>0, <2>1 DEF IInv, TypeOK, CreatedIsStored, SendCreated, file
<1>10. ReadYourWrites'
  BY DEF IInv, SendCreated, ReadYourWrites, Service!Answer, Service!Created
<1>11. (interrupted <= signals /\ NeverTerminates /\ ListerInv /\ KnownInv)'
  BY DEF IInv, file, SendCreated, NeverTerminates, ListerInv, KnownInv
<1> QED
  BY <1>1, <1>2, <1>3, <1>4, <1>5, <1>6, <1>7, <1>8, <1>9, <1>10, <1>11 DEF IInv

LEMMA FailToInsertInv ==
  ASSUME IInv, FailToInsert
  PROVE  IInv'
<1>0. /\ Current("adder") \in Requests /\ Current("adder") = queue["adder"][1]
      /\ Len(queue["adder"]) \in Nat /\ Len(queue["adder"]) >= 1
  BY CurrentType DEF IInv, Runners, FailToInsert
<1>00. /\ Owed("adder", Current("adder"))
       /\ dbPc["adder"] # "release" => replies[Current("adder")] = Service!Pending
  BY CurrentOwed DEF Runners, FailToInsert
<1>1. TypeOK'
  <2>1. Service!Answer("conflict", 0, <<>>) \in Service!Answers
    BY DEF Service!Answers, Service!Answer
  <2>2. replies' \in [Requests -> Service!Answers]
    BY <1>0, <2>1 DEF IInv, TypeOK, FailToInsert
  <2> QED
    BY <2>2 DEF IInv, TypeOK, file, Runners, FailToInsert
<1>2. BusyInv'
  BY DEF IInv, FailToInsert, BusyInv
<1>3. OwedInv'
  BY DEF IInv, FailToInsert, OwedInv, Owed, Unreleased, RunnerOf, NeedsDatabase
<1>4. PendingInv'
  BY <1>0 DEF IInv, TypeOK, Runners, FailToInsert, OwedInv, Owed, PendingInv, OnceInv, Unreleased
<1>5. OnceInv'
  BY DEF IInv, FailToInsert, OnceInv, Unreleased
<1>6. HandlerInv'
  BY <1>00 DEF IInv, FailToInsert, HandlerInv, Owed
<1>7. AdderInv'
  BY DEF IInv, TypeOK, Runners, FailToInsert, AdderInv
<1>8. StopInv'
  BY DEF IInv, FailToInsert, StopInv, InFlight
<1>9. CreatedIsStored'
  BY DEF IInv, file, FailToInsert, CreatedIsStored, Service!Answer
<1>10. ReadYourWrites'
  BY DEF IInv, FailToInsert, ReadYourWrites, Service!Answer
<1>11. (interrupted <= signals /\ NeverTerminates /\ ListerInv /\ KnownInv)'
  BY DEF IInv, file, FailToInsert, NeverTerminates, ListerInv, KnownInv
<1> QED
  BY <1>1, <1>2, <1>3, <1>4, <1>5, <1>6, <1>7, <1>8, <1>9, <1>10, <1>11 DEF IInv

LEMMA FetchInv ==
  ASSUME IInv, Fetch
  PROVE  IInv'
<1>0. /\ Current("lister") \in Requests /\ Current("lister") = queue["lister"][1]
      /\ Len(queue["lister"]) \in Nat /\ Len(queue["lister"]) >= 1
  BY CurrentType DEF IInv, Runners, Fetch
<1>00. /\ Owed("lister", Current("lister"))
       /\ dbPc["lister"] # "release" => replies[Current("lister")] = Service!Pending
  BY CurrentOwed DEF Runners, Fetch
<1>1. TypeOK'
  <2>1. column1[Len(root) + 1] \in Names \cup Types
    BY DEF IInv, TypeOK, ListerInv, Fetch
  <2>2. root' \in Seq(Names \cup Types)
    BY <2>1 DEF IInv, TypeOK, Fetch
  <2> QED
    BY <2>2 DEF IInv, TypeOK, Fetch, file
<1>2. ListerInv'
  BY DEF IInv, TypeOK, file, Fetch, ListerInv
<1>3. (interrupted <= signals /\ NeverTerminates /\ BusyInv /\ OwedInv /\ PendingInv
      /\ OnceInv /\ HandlerInv /\ AdderInv /\ StopInv /\ KnownInv /\ CreatedIsStored /\ ReadYourWrites)'
  BY DEF IInv, file, Fetch, NeverTerminates, AdderInv, BusyInv, OwedInv, Owed, Unreleased,
    RunnerOf, NeedsDatabase, PendingInv, OnceInv, HandlerInv, Current, StopInv, InFlight,
    KnownInv, CreatedIsStored, ReadYourWrites
<1> QED
  BY <1>1, <1>2, <1>3 DEF IInv

LEMMA SendListedInv ==
  ASSUME IInv, SendListed
  PROVE  IInv'
<1>0. /\ Current("lister") \in Requests /\ Current("lister") = queue["lister"][1]
      /\ Len(queue["lister"]) \in Nat /\ Len(queue["lister"]) >= 1
  BY CurrentType DEF IInv, Runners, SendListed
<1>00. /\ Owed("lister", Current("lister"))
       /\ dbPc["lister"] # "release" => replies[Current("lister")] = Service!Pending
  BY CurrentOwed DEF Runners, SendListed
<1>1. TypeOK'
  BY DEF IInv, TypeOK, file, SendListed, Service!Answers, Service!Answer, Service!Listed
<1>2. BusyInv'
  BY DEF IInv, SendListed, BusyInv
<1>3. OwedInv'
  BY DEF IInv, SendListed, OwedInv, Owed, Unreleased, RunnerOf, NeedsDatabase
<1>4. PendingInv'
  BY <1>0 DEF IInv, TypeOK, Runners, SendListed, OwedInv, Owed, PendingInv, OnceInv, Unreleased
<1>5. OnceInv'
  BY DEF IInv, SendListed, OnceInv, Unreleased
<1>6. HandlerInv'
  BY <1>00 DEF IInv, SendListed, HandlerInv, Owed
<1>7. AdderInv'
  BY DEF IInv, file, SendListed, AdderInv, Current
<1>8. StopInv'
  BY DEF IInv, SendListed, StopInv, InFlight
<1>9. CreatedIsStored'
  BY DEF IInv, file, SendListed, CreatedIsStored, Service!Answer, Service!Listed
<1>10. ReadYourWrites'
  <2>1. DOMAIN root = DOMAIN accounts
    BY DEF IInv, TypeOK, ListerInv, SendListed
  <2>2. replies'[Current("lister")].rows = root
    BY <1>0 DEF IInv, TypeOK, SendListed, Service!Listed, Service!Answer
  <2> QED
    BY <1>0, <2>1, <2>2 DEF IInv, TypeOK, KnownInv, ReadYourWrites, SendListed
<1>11. (interrupted <= signals /\ NeverTerminates /\ ListerInv /\ KnownInv)'
  BY DEF IInv, file, SendListed, NeverTerminates, ListerInv, KnownInv
<1> QED
  BY <1>1, <1>2, <1>3, <1>4, <1>5, <1>6, <1>7, <1>8, <1>9, <1>10, <1>11 DEF IInv

LEMMA FailToListInv ==
  ASSUME IInv, FailToList
  PROVE  IInv'
<1>0. /\ Current("lister") \in Requests /\ Current("lister") = queue["lister"][1]
      /\ Len(queue["lister"]) \in Nat /\ Len(queue["lister"]) >= 1
  BY CurrentType DEF IInv, Runners, FailToList
<1>00. /\ Owed("lister", Current("lister"))
       /\ dbPc["lister"] # "release" => replies[Current("lister")] = Service!Pending
  BY CurrentOwed DEF Runners, FailToList
<1>1. TypeOK'
  <2>1. Service!Answer("error", 0, <<>>) \in Service!Answers
    BY DEF Service!Answers, Service!Answer
  <2>2. replies' \in [Requests -> Service!Answers]
    BY <1>0, <2>1 DEF IInv, TypeOK, FailToList
  <2> QED
    BY <2>2 DEF IInv, TypeOK, file, Runners, FailToList
<1>2. BusyInv'
  BY DEF IInv, FailToList, BusyInv
<1>3. OwedInv'
  BY DEF IInv, FailToList, OwedInv, Owed, Unreleased, RunnerOf, NeedsDatabase
<1>4. PendingInv'
  BY <1>0 DEF IInv, TypeOK, Runners, FailToList, OwedInv, Owed, PendingInv, OnceInv, Unreleased
<1>5. OnceInv'
  BY DEF IInv, FailToList, OnceInv, Unreleased
<1>6. HandlerInv'
  BY <1>00 DEF IInv, FailToList, HandlerInv, Owed
<1>7. AdderInv'
  BY DEF IInv, file, FailToList, AdderInv, Current
<1>8. StopInv'
  BY DEF IInv, FailToList, StopInv, InFlight
<1>9. CreatedIsStored'
  BY DEF IInv, file, FailToList, CreatedIsStored, Service!Answer
<1>10. ReadYourWrites'
  BY DEF IInv, FailToList, ReadYourWrites, Service!Answer
<1>11. (interrupted <= signals /\ NeverTerminates /\ ListerInv /\ KnownInv)'
  BY DEF IInv, file, FailToList, NeverTerminates, ListerInv, KnownInv
<1> QED
  BY <1>1, <1>2, <1>3, <1>4, <1>5, <1>6, <1>7, <1>8, <1>9, <1>10, <1>11 DEF IInv

LEMMA ReleaseInv ==
  ASSUME IInv, NEW k \in Runners, Release(k)
  PROVE  IInv'
<1>0. /\ Current(k) \in Requests /\ Current(k) = queue[k][1]
      /\ Len(queue[k]) \in Nat /\ Len(queue[k]) >= 1
  BY CurrentType DEF IInv, Runners, Release
<1>00. /\ Owed(k, Current(k))
       /\ dbPc[k] # "release" => replies[Current(k)] = Service!Pending
  BY CurrentOwed DEF Runners, Release
<1>1. TypeOK'
  <2>1. semaphore' \in [Requests -> 0 .. 1]
    BY <1>0, <1>00 DEF IInv, TypeOK, Release, Owed
  <2> QED
    BY <2>1 DEF IInv, TypeOK, Release, file, Runners
<1>2. BusyInv'
  BY DEF IInv, Release, BusyInv
<1>3. OwedInv'
  <2> SUFFICES ASSUME NEW l \in Runners, NEW i \in Unreleased(l)' PROVE Owed(l, queue[l][i])'
    BY DEF OwedInv
  <2>1. i \in Unreleased(l) /\ (l = k => i # 1) /\ queue' = queue
    BY DEF Unreleased, Release, IInv, TypeOK
  <2>2. Owed(l, queue[l][i])
    BY <2>1 DEF IInv, OwedInv
  <2>3. queue[l][i] # Current(k)
    <3>1. 1 \in Unreleased(k)
      BY <1>0 DEF Unreleased, Release
    <3> QED
      BY <3>1, <2>1, <2>2, <1>0, <1>00 DEF IInv, OnceInv, Owed
  <2>4. queue[l][i] \in Requests
    BY <2>1 DEF Unreleased, IInv, TypeOK
  <2> QED
    BY <2>1, <2>2, <2>3, <2>4 DEF IInv, TypeOK, Owed, Release, RunnerOf, NeedsDatabase
<1>4. PendingInv'
  BY DEF IInv, Release, PendingInv, Unreleased
<1>5. OnceInv'
  BY DEF IInv, Release, OnceInv, Unreleased
<1>6. HandlerInv'
  BY <1>00 DEF IInv, Release, HandlerInv, Owed
<1>7. AdderInv'
  BY DEF IInv, file, Release, AdderInv, Current
<1>8. StopInv'
  BY DEF IInv, Release, StopInv, InFlight
<1>9. (interrupted <= signals /\ NeverTerminates /\ ListerInv /\ KnownInv /\ CreatedIsStored
      /\ ReadYourWrites)'
  BY DEF IInv, file, Release, NeverTerminates, ListerInv, KnownInv, CreatedIsStored,
    ReadYourWrites
<1> QED
  BY <1>1, <1>2, <1>3, <1>4, <1>5, <1>6, <1>7, <1>8, <1>9 DEF IInv

LEMMA ResetInv ==
  ASSUME IInv, NEW k \in Runners, Reset(k)
  PROVE  IInv'
<1>0. /\ Current(k) \in Requests /\ Current(k) = queue[k][1]
      /\ Len(queue[k]) \in Nat /\ Len(queue[k]) >= 1
  BY CurrentType DEF IInv, Runners, Reset
<1>1. TypeOK'
  <2>1. queue' \in [Runners -> Seq(Requests)]
    BY <1>0 DEF IInv, TypeOK, Reset
  <2>2. root' \in {root, <<>>}
    BY DEF Reset
  <2>3. root' \in Seq(Names \cup Types)
    <3>1. root \in Seq(Names \cup Types)
      BY DEF IInv, TypeOK
    <3>2. <<>> \in Seq(Names \cup Types)
      OBVIOUS
    <3> QED
      BY <2>2, <3>1, <3>2
  <2>4. used' = used \/ used' = FALSE
    BY DEF Reset
  <2>5. used' \in BOOLEAN
    BY <2>4 DEF IInv, TypeOK
  <2> QED
    BY <2>1, <2>3, <2>5 DEF IInv, TypeOK, Reset, file, Runners
<1>2. BusyInv'
  BY DEF IInv, TypeOK, Reset, BusyInv
<1>3. OwedInv'
  BY BoundsAssumption DEF IInv, TypeOK, Reset, OwedInv, Owed, Unreleased, RunnerOf, NeedsDatabase
<1>4. PendingInv'
  BY DEF IInv, TypeOK, Reset, PendingInv, Unreleased
<1>5. OnceInv'
  BY DEF IInv, TypeOK, Reset, OnceInv, Unreleased
<1>6. AdderInv'
  BY DEF IInv, file, Reset, AdderInv, Current
<1>7. ListerInv'
  BY DEF IInv, file, Reset, ListerInv
<1>8. StopInv'
  BY DEF IInv, Reset, StopInv, InFlight
<1>9. (interrupted <= signals /\ NeverTerminates /\ HandlerInv /\ KnownInv /\ CreatedIsStored
      /\ ReadYourWrites)'
  BY DEF IInv, file, Reset, NeverTerminates, HandlerInv, KnownInv, CreatedIsStored, ReadYourWrites
<1> QED
  BY <1>1, <1>2, <1>3, <1>4, <1>5, <1>6, <1>7, <1>8, <1>9 DEF IInv

LEMMA StopRunnerInv ==
  ASSUME IInv, NEW k \in Runners, Stop(k)
  PROVE  IInv'
<1>1. TypeOK'
  BY DEF IInv, TypeOK, file, Stop
<1>2. BusyInv'
  BY DEF IInv, Stop, BusyInv
<1>3. OwedInv'
  BY DEF IInv, Stop, OwedInv, Owed, Unreleased, RunnerOf, NeedsDatabase
<1>4. PendingInv'
  BY DEF IInv, Stop, PendingInv, Unreleased
<1>5. OnceInv'
  BY DEF IInv, Stop, OnceInv, Unreleased
<1>6. AdderInv'
  BY DEF IInv, file, Stop, AdderInv, Current
<1>7. StopInv'
  <2>1. queue[k] = <<>>
    <3> SUFFICES ASSUME queue[k] # <<>> PROVE FALSE
      OBVIOUS
    <3>1. 1 \in Unreleased(k) /\ queue[k][1] \in Requests
      BY DEF Unreleased, Stop, IInv, TypeOK
    <3> QED
      BY <3>1 DEF IInv, OwedInv, Owed, Stop, InFlight
  <2> QED
    BY <2>1 DEF IInv, TypeOK, StopInv, Stop, InFlight, file
<1>8. (interrupted <= signals /\ NeverTerminates /\ HandlerInv /\ ListerInv /\ KnownInv
      /\ CreatedIsStored /\ ReadYourWrites)'
  BY DEF IInv, file, Stop, NeverTerminates, HandlerInv, ListerInv, KnownInv, CreatedIsStored,
    ReadYourWrites
<1> QED
  BY <1>1, <1>2, <1>3, <1>4, <1>5, <1>6, <1>7, <1>8 DEF IInv

-----------------------------------------------------------------------------
\* So do those of main, signals and other programs.
LEMMA MainInv ==
  ASSUME IInv, InstallHandler \/ Lock \/ Sleep \/ Wake \/ Exit \/ GiveUp
  PROVE  IInv'
<1>0. UNCHANGED <<interrupted, signals, file, handlerPc, asked, replies, semaphore,
                 runners, known>>
  BY DEF MainStep, InstallHandler, Lock, Sleep, Wake, Exit, GiveUp
<1>1. TypeOK'
  BY DEF IInv, TypeOK, file, runners, MainStep, InstallHandler, Lock, Sleep, Wake, Exit, GiveUp
<1>2. (interrupted <= signals /\ NeverTerminates)'
  BY DEF IInv, MainStep, InstallHandler, Lock, Sleep, Wake, Exit, GiveUp, NeverTerminates
<1>3. StopInv'
  BY DEF IInv, runners, MainStep, InstallHandler, Lock, Sleep, Wake, Exit, GiveUp, StopInv,
    InFlight
<1>4. (BusyInv /\ OwedInv /\ PendingInv /\ OnceInv /\ HandlerInv
      /\ AdderInv /\ ListerInv /\ KnownInv /\ CreatedIsStored /\ ReadYourWrites)'
  BY <1>0 DEF IInv, file, runners, BusyInv, OwedInv, Owed, Unreleased, RunnerOf, NeedsDatabase,
    PendingInv, OnceInv, HandlerInv, AdderInv, Current, ListerInv, KnownInv, CreatedIsStored,
    ReadYourWrites
<1> QED
  BY <1>1, <1>2, <1>3, <1>4 DEF IInv

LEMMA StopAllInv ==
  ASSUME IInv, StopAll
  PROVE  IInv'
<1>1. TypeOK'
  BY BoundsAssumption DEF IInv, TypeOK, file, runners, StopAll
<1>2. (interrupted <= signals /\ NeverTerminates)'
  BY DEF IInv, TypeOK, StopAll, NeverTerminates
<1>3. StopInv'
  BY DEF IInv, runners, StopAll, StopInv
<1>4. (BusyInv /\ OwedInv /\ PendingInv /\ OnceInv /\ HandlerInv
      /\ AdderInv /\ ListerInv /\ KnownInv /\ CreatedIsStored /\ ReadYourWrites)'
  BY DEF IInv, file, runners, StopAll, BusyInv, OwedInv, Owed, Unreleased, RunnerOf,
    NeedsDatabase, PendingInv, OnceInv, HandlerInv, AdderInv, Current, ListerInv, KnownInv,
    CreatedIsStored, ReadYourWrites
<1> QED
  BY <1>1, <1>2, <1>3, <1>4 DEF IInv

LEMMA InterruptInv ==
  ASSUME IInv, Interrupt
  PROVE  IInv'
<1>1. TypeOK'
  <2>1. interrupted' \in {interrupted, interrupted + 1} /\ mainPc' \in {"killed", "stuck", mainPc}
    BY DEF Interrupt
  <2>2. interrupted' \in 0 .. MaxSignals /\ signals' \in 0 .. MaxSignals
    BY <2>1, BoundsAssumption DEF IInv, TypeOK, Interrupt
  <2> QED
    BY <2>1, <2>2 DEF IInv, TypeOK, Interrupt, file, runners
<1>2. (interrupted <= signals /\ NeverTerminates)'
  BY DEF IInv, TypeOK, Interrupt, NeverTerminates
<1>3. StopInv'
  BY DEF IInv, runners, Interrupt, StopInv, InFlight
<1>4. (BusyInv /\ OwedInv /\ PendingInv /\ OnceInv /\ HandlerInv
      /\ AdderInv /\ ListerInv /\ KnownInv /\ CreatedIsStored /\ ReadYourWrites)'
  BY DEF IInv, file, runners, Interrupt, BusyInv, OwedInv, Owed, Unreleased, RunnerOf,
    NeedsDatabase, PendingInv, OnceInv, HandlerInv, AdderInv, Current, ListerInv, KnownInv,
    CreatedIsStored, ReadYourWrites
<1> QED
  BY <1>1, <1>2, <1>3, <1>4 DEF IInv

LEMMA OtherInv ==
  ASSUME IInv, OtherProcessAdds
  PROVE  IInv'
<1>0. PICK name \in Names, text \in Names \cup Types :
         /\ accounts' = Append(accounts, name) /\ column1' = Append(column1, text)
         /\ schema = "fitting" => text = name
  BY DEF OtherProcessAdds
<1>1. TypeOK'
  BY <1>0 DEF IInv, TypeOK, runners, OtherProcessAdds
<1>2. AdderInv'
  BY DEF IInv, runners, OtherProcessAdds, AdderInv, Current
<1>3. ListerInv'
  BY <1>0 DEF IInv, TypeOK, runners, OtherProcessAdds, ListerInv
<1>4. KnownInv'
  BY DEF IInv, OtherProcessAdds, KnownInv
<1>5. CreatedIsStored'
  BY DEF IInv, OtherProcessAdds, CreatedIsStored
<1>6. (interrupted <= signals /\ NeverTerminates /\ BusyInv /\ OwedInv /\ PendingInv
      /\ OnceInv /\ HandlerInv /\ StopInv /\ ReadYourWrites)'
  BY DEF IInv, runners, OtherProcessAdds, NeverTerminates, BusyInv, OwedInv, Owed, Unreleased,
    RunnerOf, NeedsDatabase, PendingInv, OnceInv, HandlerInv, StopInv, InFlight, ReadYourWrites
<1> QED
  BY <1>1, <1>2, <1>3, <1>4, <1>5, <1>6 DEF IInv

\* Functions on 1 .. n are sequences.
LEMMA IsASeq ==
  ASSUME NEW S, NEW n \in Nat, NEW f \in [1 .. n -> S]
  PROVE  f \in Seq(S)
OBVIOUS

LEMMA InitInv == Init => IInv
<1> SUFFICES ASSUME Init PROVE IInv
  OBVIOUS
<1>1. Service!Pending \in Service!Answers /\ Service!Pending.code = "pending"
      /\ Service!Pending.rows = <<>>
  BY DEF Service!Pending, Service!Answer, Service!Answers
<1>2. replies = [r \in Requests |-> Service!Pending]
      /\ asked = [r \in Requests |-> Service!Nothing]
      /\ known = [r \in Requests |-> {}]
  BY DEF Init
<1>3. TypeOK
  <2>1. /\ replies \in [Requests -> Service!Answers]
        /\ asked \in [Requests -> Service!Questions \cup {Service!Nothing}]
        /\ known \in [Requests -> SUBSET Nat]
    BY <1>1, <1>2
  <2>2. /\ handlerPc \in [Requests -> {"none", "accepted", "waiting", "returned"}]
        /\ semaphore \in [Requests -> 0 .. 1]
        /\ dbPc \in [Runners -> {"idle", "bind", "step", "rowid", "release", "reset", "joined"}]
    BY DEF Init
  <2>3. queue \in [Runners -> Seq(Requests)]
    BY DEF Init
  <2>4. used \in BOOLEAN /\ bound \in Requests \cup {None} /\ rowId \in Nat /\ schema \in Schemas
    BY DEF Init
  <2>5. /\ root \in Seq(Names \cup Types) /\ accounts \in Seq(Names)
        /\ column1 \in Seq(Names \cup Types)
    <3>1. Initial \in Seq(Names) /\ DOMAIN Initial = 1 .. Len(Initial) /\ Len(Initial) \in Nat
      BY InitialAssumption
    <3>2. column1 \in [1 .. Len(Initial) -> Names \cup Types]
      BY <3>1 DEF Init
    <3> QED
      <4>1. column1 \in Seq(Names \cup Types)
        BY <3>1, <3>2, IsASeq
      <4> QED
        BY <3>1, <4>1 DEF Init
  <2>6. interrupted \in 0 .. MaxSignals /\ signals \in 0 .. MaxSignals
    BY BoundsAssumption DEF Init
  <2>7. mainPc = "starting"
    BY DEF Init
  <2> QED
    BY <2>1, <2>2, <2>3, <2>4, <2>5, <2>6, <2>7 DEF TypeOK
<1>4. BusyInv /\ OwedInv /\ PendingInv /\ OnceInv /\ StopInv
  BY DEF Init, BusyInv, OwedInv, PendingInv, OnceInv, StopInv, Unreleased, Runners
<1>5. HandlerInv
  BY DEF Init, HandlerInv
<1>6. Len(column1) = Len(accounts) /\ (schema = "fitting" => column1 = accounts)
  <2>1. DOMAIN Initial = 1 .. Len(Initial) /\ Len(Initial) \in Nat
    BY InitialAssumption
  <2>2. DOMAIN column1 = DOMAIN Initial
    BY DEF Init
  <2>3. Len(column1) = Len(Initial)
    BY <1>3, <2>1, <2>2 DEF TypeOK
  <2> QED
    BY <2>3 DEF Init
<1>7. AdderInv /\ ListerInv /\ NeverTerminates /\ interrupted <= signals
  BY <1>6, InitialAssumption DEF Init, AdderInv, ListerInv, NeverTerminates, Runners
<1>8. KnownInv /\ CreatedIsStored /\ ReadYourWrites
  BY <1>1, <1>2 DEF KnownInv, CreatedIsStored, ReadYourWrites
<1> QED
  BY <1>3, <1>4, <1>5, <1>7, <1>8 DEF IInv

LEMMA NextInv ==
  ASSUME IInv, [Next]_vars
  PROVE  IInv'
<1>1. ASSUME NEW r \in Requests, Alive, Accept(r)
      PROVE  IInv'
  BY <1>1, AcceptInv
<1>2. ASSUME NEW r \in Requests, Handler(r)
      PROVE  IInv'
  BY <1>2, DeclineInv, PostInv, ReturnInv DEF Handler
<1>3. ASSUME NEW k \in Runners, Runner(k)
      PROVE  IInv'
  <2>1. CASE Adder
    BY <2>1, BindInv, InsertInv, FailToInsertInv, SendCreatedInv DEF Adder
  <2>2. CASE Lister
    BY <2>2, FetchInv, SendListedInv, FailToListInv DEF Lister
  <2> QED
    BY <1>3, <2>1, <2>2, TakeInv, ReleaseInv, ResetInv, StopRunnerInv DEF Runner
<1>4. CASE Main \/ GiveUp
  BY <1>4, MainInv, StopAllInv DEF Main
<1>5. CASE Interrupt \/ OtherProcessAdds
  BY <1>5, InterruptInv, OtherInv
<1>6. CASE UNCHANGED vars
  BY <1>6 DEF vars, file, runners, IInv, TypeOK, NeverTerminates, BusyInv, OwedInv, Owed,
    PendingInv, OnceInv, HandlerInv, AdderInv, ListerInv, StopInv, KnownInv,
    CreatedIsStored, ReadYourWrites, Unreleased, RunnerOf, NeedsDatabase, Current, InFlight
<1> QED
  BY <1>1, <1>2, <1>3, <1>4, <1>5, <1>6 DEF Next

\* For every number of requests, whatever fails, and whatever other programs
\* add: the inductive invariant holds.
THEOREM AccountInvariance == Spec => []IInv
BY InitInv, NextInv, PTL DEF Spec

\* A closure never touches the stack of a handler that has returned.
THEOREM AccountStacks == Spec => []StackIsLive
<1>1. IInv => StackIsLive
  <2> SUFFICES ASSUME IInv PROVE StackIsLive
    OBVIOUS
  <2>1. \A k \in Runners : Working(k) => handlerPc[Current(k)] = "waiting" /\ semaphore[Current(k)] = 0
    BY CurrentOwed DEF Working, Owed
  <2> QED
    BY <2>1 DEF StackIsLive, IInv, AdderInv
<1> QED
  BY <1>1, AccountInvariance, PTL

\* No closure that a handler waits for is dropped with its runner.
THEOREM AccountEndings == Spec => []NothingDropped
<1>1. IInv => NothingDropped
  BY DEF IInv, StopInv, NothingDropped
<1> QED
  BY <1>1, AccountInvariance, PTL

\* bind throws outside of the closure's try block, which would end the process: it
\* never meets a statement that was not reset.
THEOREM AccountNeverTerminates == Spec => []NeverTerminates
<1>1. IInv => NeverTerminates
  BY DEF IInv, StopInv, NothingDropped
<1> QED
  BY <1>1, AccountInvariance, PTL

\* Confirmed additions are stored under the id they were confirmed with.
THEOREM AccountCreated == Spec => []CreatedIsStored
<1>1. IInv => CreatedIsStored
  BY DEF IInv
<1> QED
  BY <1>1, AccountInvariance, PTL

\* Listings have what was confirmed before they were asked for.
THEOREM AccountReads == Spec => []ReadYourWrites
<1>1. IInv => ReadYourWrites
  BY DEF IInv
<1> QED
  BY <1>1, AccountInvariance, PTL

-----------------------------------------------------------------------------
(* The server implements the service. *)

LEMMA AnsweredIs ==
  ASSUME replies \in [Requests -> Service!Answers]
  PROVE  /\ dbPc["adder"] # "rowid" => answered = replies
         /\ dbPc["adder"] = "rowid" =>
              answered = [replies EXCEPT ![Current("adder")] = Service!Created(rowId)]
BY DEF answered, Current, Service!Created, Service!Answer

\* While no insert is committed or about to be answered, what is answered is what
\* was sent.
LEMMA AnsweredSame ==
  ASSUME IInv, IInv', replies' = replies,
         dbPc["adder"] # "rowid", dbPc'["adder"] # "rowid"
  PROVE  answered' = answered
<1>1. replies \in [Requests -> Service!Answers] /\ replies' \in [Requests -> Service!Answers]
  BY DEF IInv, TypeOK
<1>2. answered = replies
  BY <1>1, AnsweredIs
<1>3. answered' = replies'
  BY <1>1 DEF answered
<1> QED
  BY <1>2, <1>3

\* Nor does it change when the head of the adder's queue, its row id and the
\* replies do not.
LEMMA AnsweredKept ==
  ASSUME IInv, replies' = replies, rowId' = rowId, dbPc'["adder"] = dbPc["adder"],
         dbPc["adder"] = "rowid" => Current("adder")' = Current("adder")
  PROVE  answered' = answered
BY DEF answered, Current

\* A refusal of a request that is not answered yet.
LEMMA Refused ==
  ASSUME IInv, IInv', NEW r \in Requests,
         dbPc["adder"] = "rowid" => r # Current("adder") /\ Current("adder")' = Current("adder"),
         rowId' = rowId, dbPc'["adder"] = "rowid" <=> dbPc["adder"] = "rowid",
         asked[r] # Service!Nothing, replies[r] = Service!Pending,
         NEW a \in Service!Refusals, replies' = [replies EXCEPT ![r] = a],
         UNCHANGED <<accounts, column1, asked>>
  PROVE  Service!Refuse(r)
<1>1. replies \in [Requests -> Service!Answers] /\ replies' \in [Requests -> Service!Answers]
  BY DEF IInv, TypeOK
<1>2. answered' = [answered EXCEPT ![r] = a] /\ answered[r] = Service!Pending
  <2>1. CASE dbPc["adder"] # "rowid"
    <3>1. answered = replies
      BY <2>1, <1>1, AnsweredIs
    <3>2. answered' = replies'
      BY <2>1, <1>1 DEF answered
    <3> QED
      BY <3>1, <3>2
  <2>2. CASE dbPc["adder"] = "rowid"
    <3>1. answered \in [Requests -> Service!Answers \cup {Service!Created(rowId)}]
          /\ answered[r] = replies[r]
      BY <2>2, <1>1 DEF answered, Current, Service!Created, Service!Answer
    <3>2. \A q \in Requests : answered'[q] = IF q = r THEN a ELSE answered[q]
      BY <2>2, <1>1 DEF answered, Current
    <3>3. answered' = [q \in Requests |-> answered'[q]]
      BY DEF answered
    <3> QED
      BY <3>1, <3>2, <3>3
  <2> QED
    BY <2>1, <2>2
<1> QED
  BY <1>2 DEF Service!Refuse, Service!Unanswered

\* The request an adder or a lister is at has been asked for.
LEMMA CurrentAsked ==
  ASSUME IInv, NEW k \in Runners, dbPc[k] \in {"step", "rowid"}
  PROVE  /\ Current(k) \in Requests /\ asked[Current(k)] # Service!Nothing
         /\ RunnerOf(Current(k)) = k /\ NeedsDatabase(Current(k))
         /\ replies[Current(k)] = Service!Pending
<1>1. Current(k) \in Requests
  BY CurrentType DEF IInv
<1>2. Owed(k, Current(k)) /\ replies[Current(k)] = Service!Pending
  BY CurrentOwed
<1> QED
  BY <1>1, <1>2 DEF IInv, HandlerInv, Owed

\* Each step of the server is one of the service, or none.
LEMMA AcceptAsks ==
  ASSUME IInv, NEW r \in Requests, Accept(r)
  PROVE  Service!Ask(r)
<1>1. asked[r] = Service!Nothing
  BY DEF Accept, IInv, HandlerInv
<1>2. answered' = answered
  BY AnsweredKept DEF Accept, runners, Current
<1> QED
  BY <1>1, <1>2 DEF Accept, Service!Ask, file

LEMMA DeclineRefuses ==
  ASSUME IInv, IInv', NEW r \in Requests, Decline(r)
  PROVE  Service!Refuse(r)
<1>1. PICK a \in Service!Refusals : replies' = [replies EXCEPT ![r] = a]
  BY DEF Decline, Service!Refusals
<1>2. asked[r] # Service!Nothing /\ replies[r] = Service!Pending
  BY DEF Decline, IInv, HandlerInv
<1>3. dbPc["adder"] = "rowid" => r # Current("adder")
  BY CurrentOwed DEF Decline, Owed, Runners
<1> QED
  BY <1>1, <1>2, <1>3, Refused DEF Decline, file, runners, Current

LEMMA FailRefuses ==
  ASSUME IInv, IInv', FailToInsert \/ FailToList
  PROVE  \E r \in Requests : Service!Refuse(r)
<1>1. CASE FailToInsert
  <2>1. PICK a \in Service!Refusals : replies' = [replies EXCEPT ![Current("adder")] = a]
    BY <1>1 DEF FailToInsert, Service!Refusals
  <2>2. /\ Current("adder") \in Requests /\ asked[Current("adder")] # Service!Nothing
        /\ replies[Current("adder")] = Service!Pending
    BY <1>1, CurrentAsked DEF FailToInsert, Runners
  <2>3. dbPc["adder"] # "rowid" /\ dbPc'["adder"] # "rowid"
    BY <1>1 DEF FailToInsert, IInv, TypeOK, Runners
  <2>4. rowId' = rowId /\ UNCHANGED <<accounts, column1, asked>>
    BY <1>1 DEF FailToInsert, file
  <2> QED
    BY <2>1, <2>2, <2>3, <2>4, Refused
<1>2. CASE FailToList
  <2>1. PICK a \in Service!Refusals : replies' = [replies EXCEPT ![Current("lister")] = a]
    BY <1>2 DEF FailToList, Service!Refusals
  <2>2. /\ Current("lister") \in Requests /\ asked[Current("lister")] # Service!Nothing
        /\ replies[Current("lister")] = Service!Pending /\ RunnerOf(Current("lister")) = "lister"
    BY <1>2, CurrentAsked DEF FailToList, Runners
  <2>3. dbPc["adder"] = "rowid" =>
          Current("lister") # Current("adder") /\ Current("adder")' = Current("adder")
    BY <1>2, <2>2, CurrentAsked DEF FailToList, Runners, Current
  <2>4. /\ rowId' = rowId /\ UNCHANGED <<accounts, column1, asked>>
        /\ dbPc'["adder"] = "rowid" <=> dbPc["adder"] = "rowid"
    BY <1>2 DEF FailToList, file, IInv, TypeOK, Runners
  <2> QED
    BY <2>1, <2>2, <2>3, <2>4, Refused
<1> QED
  BY <1>1, <1>2

LEMMA InsertAdds ==
  ASSUME IInv, IInv', Insert
  PROVE  \E r \in Requests : Service!AddAccount(r)
<1> DEFINE r == Current("adder")
<1>1. /\ r \in Requests /\ asked[r] # Service!Nothing /\ RunnerOf(r) = "adder"
      /\ NeedsDatabase(r) /\ replies[r] = Service!Pending
  BY CurrentAsked DEF Insert, Runners
<1>2. asked[r].path = "/addAccount" /\ asked[r].name # None
  BY <1>1 DEF RunnerOf, NeedsDatabase
<1>3. replies \in [Requests -> Service!Answers] /\ replies' = replies
  BY DEF IInv, TypeOK, Insert
<1>4. answered = replies
  BY <1>3, AnsweredIs DEF Insert
<1>5. dbPc'["adder"] = "rowid" /\ Current("adder")' = r /\ rowId' = Len(accounts) + 1
  BY DEF Insert, IInv, TypeOK, Current, Runners
<1>6. answered' = [replies EXCEPT ![r] = Service!Created(Len(accounts) + 1)]
  BY <1>3, <1>5 DEF answered, Current, Service!Created, Service!Answer
<1>7. bound = r
  BY DEF IInv, AdderInv, Insert
<1>8. Service!AddAccount(r)
  BY <1>1, <1>2, <1>4, <1>6, <1>7 DEF Insert, Service!AddAccount, Service!Unanswered
<1> QED
  BY <1>1, <1>8

LEMMA SendListedLists ==
  ASSUME IInv, IInv', SendListed
  PROVE  \E r \in Requests : Service!ListAccounts(r)
<1> DEFINE r == Current("lister")
<1>1. /\ r \in Requests /\ asked[r] # Service!Nothing /\ RunnerOf(r) = "lister"
      /\ NeedsDatabase(r) /\ replies[r] = Service!Pending
  BY CurrentAsked DEF SendListed, Runners
<1>2. asked[r].path = "/listAccounts"
  BY <1>1 DEF RunnerOf, NeedsDatabase
<1>3. root = column1
  <2>1. /\ root \in Seq(Names \cup Types) /\ column1 \in Seq(Names \cup Types)
        /\ Len(root) = Len(column1)
    BY DEF SendListed, IInv, TypeOK, ListerInv
  <2>2. DOMAIN root = DOMAIN column1 /\ \A i \in DOMAIN root : root[i] = column1[i]
    BY <2>1 DEF IInv, ListerInv
  <2>3. root = [i \in DOMAIN root |-> root[i]] /\ column1 = [i \in DOMAIN column1 |-> column1[i]]
    BY <2>1
  <2> QED
    BY <2>2, <2>3
<1>4. /\ replies \in [Requests -> Service!Answers] /\ replies' \in [Requests -> Service!Answers]
      /\ replies' = [replies EXCEPT ![r] = Service!Listed(column1)]
  BY <1>3 DEF IInv, TypeOK, SendListed
<1>5. /\ dbPc'["adder"] = dbPc["adder"] /\ rowId' = rowId
      /\ Current("adder")' = Current("adder") /\ UNCHANGED <<accounts, column1, asked>>
  BY DEF SendListed, IInv, TypeOK, Runners, Current, file
<1>6. dbPc["adder"] = "rowid" => r # Current("adder")
  BY <1>1, CurrentAsked DEF Runners
<1>7. answered' = [answered EXCEPT ![r] = Service!Listed(column1)]
      /\ answered[r] = Service!Pending
  <2>1. answered[r] = replies[r]
    BY <1>1, <1>6 DEF answered, Current
  <2>2. \A q \in Requests : answered'[q] = IF q = r THEN Service!Listed(column1) ELSE answered[q]
    BY <1>1, <1>4, <1>5, <1>6 DEF answered, Current
  <2>3. answered' = [q \in Requests |-> answered'[q]] /\ answered = [q \in Requests |-> answered[q]]
    BY DEF answered
  <2> QED
    BY <2>1, <2>2, <2>3, <1>1
<1>8. Service!ListAccounts(r)
  BY <1>1, <1>2, <1>5, <1>7 DEF Service!ListAccounts, Service!Unanswered
<1> QED
  BY <1>1, <1>8

\* The answer with the row id is on its way: the service has given it already.
LEMMA SendCreatedStutters ==
  ASSUME IInv, IInv', SendCreated
  PROVE  answered' = answered
<1>1. /\ replies \in [Requests -> Service!Answers] /\ replies' \in [Requests -> Service!Answers]
      /\ replies' = [replies EXCEPT ![Current("adder")] = Service!Created(rowId)]
  BY DEF IInv, TypeOK, SendCreated
<1>2. dbPc["adder"] = "rowid" /\ dbPc'["adder"] # "rowid"
  BY DEF SendCreated, IInv, TypeOK, Runners
<1>3. answered = [replies EXCEPT ![Current("adder")] = Service!Created(rowId)]
  BY <1>1, <1>2, AnsweredIs
<1>4. answered' = replies'
  BY <1>1, <1>2 DEF answered
<1> QED
  BY <1>1, <1>3, <1>4

LEMMA PostStutters ==
  ASSUME IInv, IInv', NEW r \in Requests, Post(r)
  PROVE  answered' = answered
<1>1. dbPc["adder"] = "rowid" => Current("adder")' = Current("adder")
  <2> SUFFICES ASSUME dbPc["adder"] = "rowid" PROVE Current("adder")' = Current("adder")
    OBVIOUS
  <2>1. Len(queue["adder"]) >= 1 /\ queue["adder"] \in Seq(Requests)
    BY CurrentType DEF IInv, TypeOK, Runners
  <2>2. queue'["adder"] \in {queue["adder"], Append(queue["adder"], r)}
    BY DEF Post, IInv, TypeOK, Runners
  <2>3. Head(Append(queue["adder"], r)) = Head(queue["adder"])
    BY <2>1
  <2> QED
    BY <2>2, <2>3 DEF Current
<1> QED
  BY <1>1, AnsweredKept DEF Post

LEMMA RunnerStutters ==
  ASSUME IInv, IInv', NEW k \in Runners, Take(k) \/ Release(k) \/ Reset(k) \/ Stop(k) \/ Bind \/ Fetch
  PROVE  answered' = answered
<1>1. replies' = replies /\ rowId' = rowId
  BY DEF Take, Release, Reset, Stop, Bind, Fetch
<1>2. CASE dbPc'["adder"] = dbPc["adder"] /\ queue'["adder"] = queue["adder"]
  BY <1>1, <1>2, AnsweredKept DEF Current
<1>3. CASE ~(dbPc'["adder"] = dbPc["adder"] /\ queue'["adder"] = queue["adder"])
  <2>1. dbPc["adder"] # "rowid" /\ dbPc'["adder"] # "rowid"
    BY <1>3 DEF Take, Release, Reset, Stop, Bind, Fetch, IInv, TypeOK, Runners
  <2> QED
    BY <2>1, <1>1, AnsweredSame
<1> QED
  BY <1>2, <1>3

LEMMA ServiceInit == Init => Service!Init
<1> SUFFICES ASSUME Init PROVE Service!Init
  OBVIOUS
<1>1. answered = [r \in Requests |-> Service!Pending]
  BY DEF Init, answered, Runners
<1> QED
  BY <1>1, InitialAssumption DEF Init, Service!Init

LEMMA ServiceNext ==
  ASSUME IInv, IInv', [Next]_vars
  PROVE  [Service!Next]_Service!vars
<1>1. ASSUME NEW r \in Requests, Accept(r) \/ Decline(r)
      PROVE  Service!Next
  BY <1>1, AcceptAsks, DeclineRefuses DEF Service!Next
<1>2. ASSUME NEW r \in Requests, Post(r) \/ Return(r)
      PROVE  UNCHANGED Service!vars
  <2>1. CASE Post(r)
    BY <2>1, PostStutters DEF Post, Service!vars, file
  <2>2. CASE Return(r)
    BY <2>2, AnsweredKept DEF Return, Service!vars, file, runners, Current
  <2> QED
    BY <1>2, <2>1, <2>2
<1>3. CASE Insert \/ FailToInsert \/ FailToList \/ SendListed
  BY <1>3, InsertAdds, FailRefuses, SendListedLists DEF Service!Next
<1>4. CASE SendCreated
  BY <1>4, SendCreatedStutters DEF SendCreated, Service!vars, file
<1>5. ASSUME NEW k \in Runners, Take(k) \/ Release(k) \/ Reset(k) \/ Stop(k) \/ Bind \/ Fetch
      PROVE  UNCHANGED Service!vars
  BY <1>5, RunnerStutters DEF Take, Release, Reset, Stop, Bind, Fetch, Service!vars, file
<1>6. CASE Main \/ GiveUp \/ Interrupt
  <2>1. UNCHANGED <<file, asked, replies, runners>>
    BY <1>6 DEF Main, GiveUp, Interrupt, MainStep, InstallHandler, Lock, Sleep, Wake, StopAll, Exit
  <2> QED
    BY <2>1, AnsweredKept DEF Service!vars, file, runners, Current
<1>7. CASE OtherProcessAdds
  <2>1. answered' = answered
    BY <1>7, AnsweredKept DEF OtherProcessAdds, runners, Current
  <2> QED
    BY <1>7, <2>1 DEF OtherProcessAdds, Service!OtherProcessAdds, Service!Next
<1>8. CASE UNCHANGED vars
  BY <1>8, AnsweredKept DEF vars, Service!vars, file, runners, Current
<1> QED
  BY <1>1, <1>2, <1>3, <1>4, <1>5, <1>6, <1>7, <1>8
  DEF Next, Handler, Runner, Adder, Lister, Runners

\* The server implements AccountService: additions and listings take effect one
\* at a time, between question and answer; a listing sends the second column of
\* the whole table, whichever of the two tables the file has.
THEOREM AccountLinearizable == Spec => Linearizable
<1>1. IInv /\ IInv' /\ [Next]_vars => [Service!Next]_Service!vars
  BY ServiceNext
<1> QED
  BY <1>1, ServiceInit, AccountInvariance, PTL DEF Spec, Linearizable, Service!Spec
=============================================================================
