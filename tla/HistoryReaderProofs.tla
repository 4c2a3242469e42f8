------------------------- MODULE HistoryReaderProofs -------------------------
(***************************************************************************)
(* Machine-checked proofs about HistoryReader, for every number of types   *)
(* and workers and every set of answers.                                   *)
(***************************************************************************)
EXTENDS HistoryReader, FiniteSetTheorems, TLAPS

-----------------------------------------------------------------------------
(* Type correctness. *)

\* Round robin stays inside the group.
LEMMA NextHandlerType ==
  ASSUME NEW n \in Handlers
  PROVE  (n + 1) % NHandlers \in Handlers
BY SizesAssumption DEF Handlers

LEMMA TypeInit == Init => TypeOK
<1> SUFFICES ASSUME Init PROVE TypeOK
  OBVIOUS
<1>1. MainTypeOK
  BY SizesAssumption DEF Init, MainTypeOK, Handlers
<1>2. HttpTypeOK
  BY DEF Init, HttpTypeOK
<1>3. WriterTypeOK
  <2>1. dbLog \in Seq(Jobs) /\ results \in Seq(Outcomes) /\ dbNext \in Nat \ {0}
    BY DEF Init
  <2> QED
    BY <2>1, Zenon DEF Init, WriterTypeOK
<1>4. SharedTypeOK
  BY DEF Init, SharedTypeOK
<1> QED
  BY <1>1, <1>2, <1>3, <1>4 DEF TypeOK

LEMMA TypeMain ==
  TypeOK /\ MainInv /\ (Main \/ SpuriousWakeup \/ Interrupt) => TypeOK'
<1> SUFFICES ASSUME TypeOK, MainInv, Main \/ SpuriousWakeup \/ Interrupt
             PROVE  TypeOK'
  OBVIOUS
<1> USE DEF TypeOK
<1>1. CASE PostRequest
  <2>1. posted + 1 \in Requests /\ posted + 1 \in 0 .. NReq
    BY <1>1, SizesAssumption DEF PostRequest, MainTypeOK, Requests
  <2>2. httpQueue' \in [Handlers -> Seq(Requests)]
    BY <1>1, <2>1 DEF PostRequest, MainTypeOK, HttpTypeOK
  <2>3. MainTypeOK'
    BY <1>1, <2>1, NextHandlerType DEF PostRequest, MainTypeOK
  <2>4. HttpTypeOK'
    BY <1>1, <2>2 DEF PostRequest, HttpTypeOK
  <2>5. WriterTypeOK' /\ SharedTypeOK'
    BY <1>1 DEF PostRequest, WriterTypeOK, SharedTypeOK, dbVars
  <2> QED
    BY <2>3, <2>4, <2>5
<1>2. CASE CheckFinished \/ SpuriousWakeup
  BY <1>2 DEF CheckFinished, SpuriousWakeup, MainTypeOK, HttpTypeOK,
              WriterTypeOK, SharedTypeOK, dbVars, httpVars
<1>3. CASE StopHandler
  <2>1. joining \in Handlers
    BY <1>3, SizesAssumption DEF StopHandler, MainTypeOK, MainInv, TearDown, Handlers
  <2> QED
    BY <1>3, <2>1 DEF StopHandler, MainTypeOK, HttpTypeOK, WriterTypeOK,
                      SharedTypeOK, dbVars
<1>4. CASE JoinHandler
  <2>1. joining + 1 \in 0 .. NHandlers
    BY <1>4, SizesAssumption DEF JoinHandler, MainTypeOK, MainInv, TearDown
  <2> QED
    BY <1>4, <2>1 DEF JoinHandler, MainTypeOK, HttpTypeOK, WriterTypeOK,
                      SharedTypeOK, dbVars, httpVars
<1>5. ASSUME NEW r \in Requests, ReapRequest(r)
      PROVE  TypeOK'
  <2>1. lock' \in [Requests -> Nat]
    <3>1. CASE UNCHANGED lock
      BY <3>1 DEF SharedTypeOK
    <3>2. CASE /\ lock[r] >= queries[r] + 1
               /\ lock' = [lock EXCEPT ![r] = @ - (queries[r] + 1)]
      <4>1. lock[r] \in Nat /\ queries[r] \in Nat
        BY DEF SharedTypeOK, HttpTypeOK
      <4>2. lock[r] - (queries[r] + 1) \in Nat
        BY <3>2, <4>1
      <4> QED
        BY <3>2, <4>2 DEF SharedTypeOK
    <3> QED
      BY <1>5, <3>1, <3>2 DEF ReapRequest
  <2> QED
    BY <1>5, <2>1 DEF ReapRequest, MainTypeOK, HttpTypeOK, WriterTypeOK,
                      SharedTypeOK, dbVars, httpVars
<1>6. CASE DestroyMembers \/ StopWriter \/ JoinWriter
  BY <1>6 DEF DestroyMembers, StopWriter, JoinWriter, Members, MainTypeOK,
              HttpTypeOK, WriterTypeOK, SharedTypeOK, dbVars, httpVars
<1>7. CASE Interrupt
  BY <1>7 DEF Interrupt, MainTypeOK, HttpTypeOK, WriterTypeOK, SharedTypeOK,
              dbVars, httpVars, mainVars
<1> QED
  BY <1>1, <1>2, <1>3, <1>4, <1>5, <1>6, <1>7 DEF Main

\* A busy worker has a request.
LEMMA BusyHasRequest ==
  ASSUME TypeOK, PlacesInv, NEW h \in Handlers, Busy(h)
  PROVE  cur[h] \in Requests
BY DEF TypeOK, HttpTypeOK, PlacesInv

LEMMA TypeHandler ==
  ASSUME TypeOK, PlacesInv, NEW h \in Handlers, Handler(h)
  PROVE  TypeOK'
<1> USE DEF TypeOK
<1>1. CASE TakeRequest(h)
  <2>1. /\ httpQueue' \in [Handlers -> Seq(Requests)]
        /\ cur' \in [Handlers -> Requests \cup {None}]
    BY <1>1 DEF TakeRequest, HttpTypeOK
  <2> QED
    BY <1>1, <2>1 DEF TakeRequest, MainTypeOK, HttpTypeOK, WriterTypeOK,
                      SharedTypeOK, mainVars, dbVars
<1>2. CASE HttpError(h) \/ AwaitUpdate(h) \/ HandlerExit(h)
  BY <1>2 DEF HttpError, AwaitUpdate, HandlerExit, MainTypeOK, HttpTypeOK,
              WriterTypeOK, SharedTypeOK, mainVars, dbVars
<1>3. CASE HttpResponse(h)
  <2>1. items' \in [Requests -> Seq(Records)]
    BY <1>3, BodiesAssumption DEF HttpResponse, HttpTypeOK
  <2> QED
    BY <1>3, <2>1 DEF HttpResponse, MainTypeOK, HttpTypeOK, WriterTypeOK,
                      SharedTypeOK, mainVars, dbVars
<1>4. CASE PostInsert(h)
  <2>1. cur[h] \in Requests
    BY <1>4, BusyHasRequest DEF PostInsert, Busy
  <2>2. items' \in [Requests -> Seq(Records)]
    BY <1>4, <2>1 DEF PostInsert, HttpTypeOK
  <2>3. dbLog' \in Seq(Jobs)
    <3>1. dbLog \in Seq(Jobs) /\ [req |-> cur[h], kind |-> "insert"] \in Jobs
      BY <2>1 DEF WriterTypeOK, Jobs
    <3> QED
      BY <1>4, <3>1 DEF PostInsert
  <2>4. queries' \in [Requests -> Nat]
    BY <1>4 DEF PostInsert, HttpTypeOK
  <2> QED
    BY <1>4, <2>2, <2>3, <2>4 DEF PostInsert, MainTypeOK, HttpTypeOK,
                      WriterTypeOK, SharedTypeOK, mainVars, dbVars
<1>5. CASE PostUpdate(h)
  <2>1. cur[h] \in Requests
    BY <1>5, BusyHasRequest DEF PostUpdate, Busy
  <2>2. dbLog' \in Seq(Jobs)
    BY <1>5, <2>1 DEF PostUpdate, WriterTypeOK, Jobs
  <2> QED
    BY <1>5, <2>2 DEF PostUpdate, MainTypeOK, HttpTypeOK, WriterTypeOK,
                      SharedTypeOK, mainVars, dbVars
<1>6. CASE ReleaseOne(h)
  <2>1. finalized' \in [Requests -> Nat]
    <3>1. cur[h] \in Requests
      BY <1>6, BusyHasRequest DEF ReleaseOne, Busy
    <3>2. finalized[cur[h]] + 1 \in Nat
      BY <3>1 DEF SharedTypeOK
    <3> QED
      BY <1>6, <3>2 DEF ReleaseOne, SharedTypeOK
  <2>2. MainTypeOK' /\ HttpTypeOK'
    BY <1>6 DEF ReleaseOne, MainTypeOK, HttpTypeOK
  <2> QED
    BY <1>6, <2>1, <2>2 DEF ReleaseOne, WriterTypeOK, SharedTypeOK, dbVars
<1>7. CASE ReportProgress(h)
  BY <1>7 DEF ReportProgress, MainTypeOK, HttpTypeOK, WriterTypeOK,
              SharedTypeOK, mainVars, dbVars
<1> QED
  BY <1>1, <1>2, <1>3, <1>4, <1>5, <1>6, <1>7 DEF Handler

LEMMA TypeWriter ==
  ASSUME TypeOK, Writer
  PROVE  TypeOK'
<1> USE DEF TypeOK
<1>1. CASE RunInsert \/ RunUpdate
  <2>1. results' \in Seq(Outcomes)
    <3>1. PICK o \in Outcomes : Executed(o)
      BY <1>1 DEF RunInsert, RunUpdate, Outcomes
    <3> QED
      BY <3>1 DEF Executed, WriterTypeOK
  <2>2. stmt' \in [{"insert", "update"} -> {"ready", "stepped"}]
    BY <1>1 DEF RunInsert, RunUpdate, WriterTypeOK
  <2> QED
    BY <1>1, <2>1, <2>2 DEF RunInsert, RunUpdate, Executed, MainTypeOK,
              HttpTypeOK, WriterTypeOK, SharedTypeOK, mainVars, httpVars
<1>2. CASE ReleaseLock \/ WriterExit
  <2>1. lock' \in [Requests -> Nat]
    BY <1>2 DEF ReleaseLock, WriterExit, SharedTypeOK
  <2>2. WriterTypeOK'
    BY <1>2 DEF ReleaseLock, WriterExit, WriterTypeOK
  <2> QED
    BY <1>2, <2>1, <2>2 DEF ReleaseLock, WriterExit, MainTypeOK, HttpTypeOK,
              SharedTypeOK, mainVars, httpVars
<1> QED
  BY <1>1, <1>2 DEF Writer

LEMMA TypeStutter ==
  ASSUME TypeOK, UNCHANGED vars
  PROVE  TypeOK'
BY DEF TypeOK, MainTypeOK, HttpTypeOK, WriterTypeOK, SharedTypeOK, vars, dbVars,
       httpVars, mainVars

-----------------------------------------------------------------------------
(* Every request is in one place. *)

LEMMA PlacesInit == Init => PlacesInv
BY SizesAssumption DEF Init, PlacesInv, Busy, None

\* Steps that move no request.
LEMMA PlacesFrame ==
  ASSUME PlacesInv, UNCHANGED <<httpQueue, posted, cur, httpPc>>
  PROVE  PlacesInv'
BY DEF PlacesInv, Busy

\* A worker that goes from one busy state to another, or from idle to exited.
LEMMA PlacesSamePhase ==
  ASSUME TypeOK, PlacesInv, NEW h \in Handlers, NEW pc,
         UNCHANGED <<httpQueue, posted, cur>>,
         httpPc' = [httpPc EXCEPT ![h] = pc],
         Busy(h) <=> pc \notin {"idle", "exited"}
  PROVE  PlacesInv'
<1>1. \A g \in Handlers : (Busy(g) <=> Busy(g)')
  BY DEF Busy, TypeOK, HttpTypeOK
<1> QED
  BY <1>1 DEF PlacesInv

LEMMA PlacesPost ==
  ASSUME TypeOK, PlacesInv, PostRequest
  PROVE  PlacesInv'
<1> DEFINE q == httpQueue[nextHandler]
<1>1. /\ nextHandler \in Handlers /\ posted \in Nat
      /\ posted' = posted + 1
      /\ httpQueue' = [httpQueue EXCEPT ![nextHandler] = Append(@, posted + 1)]
      /\ UNCHANGED <<cur, httpPc>>
  BY DEF PostRequest, TypeOK, MainTypeOK
<1>2. \A h \in Handlers : httpQueue[h] \in Seq(Requests)
  BY DEF TypeOK, HttpTypeOK
<1>3. \A h \in Handlers : \A i \in DOMAIN httpQueue'[h] :
        \/ /\ i \in DOMAIN httpQueue[h]
           /\ httpQueue'[h][i] = httpQueue[h][i]
           /\ httpQueue[h][i] <= posted
        \/ /\ h = nextHandler /\ i = Len(q) + 1
           /\ httpQueue'[h][i] = posted + 1
  BY <1>1, <1>2 DEF PlacesInv, TypeOK, HttpTypeOK
<1>4. \A h \in Handlers : \A i \in DOMAIN httpQueue[h] : httpQueue[h][i] \in Int
  BY <1>2, SizesAssumption DEF Requests
<1>5. \A h \in Handlers : cur[h] \in Int
  BY SizesAssumption DEF TypeOK, HttpTypeOK, Requests, None
<1>6. \A h \in Handlers : \A i \in DOMAIN httpQueue'[h] : httpQueue'[h][i] <= posted'
  BY <1>1, <1>3, <1>4
<1>7. \A g, h \in Handlers : \A i \in DOMAIN httpQueue'[g], j \in DOMAIN httpQueue'[h] :
        httpQueue'[g][i] = httpQueue'[h][j] => g = h /\ i = j
  <2> SUFFICES ASSUME NEW g \in Handlers, NEW h \in Handlers,
                      NEW i \in DOMAIN httpQueue'[g], NEW j \in DOMAIN httpQueue'[h],
                      httpQueue'[g][i] = httpQueue'[h][j]
               PROVE  g = h /\ i = j
    OBVIOUS
  <2> QED
    BY <1>1, <1>3, <1>4 DEF PlacesInv
<1>8. \A g, h \in Handlers : \A i \in DOMAIN httpQueue'[h] : cur'[g] # httpQueue'[h][i]
  BY <1>1, <1>3, <1>4, <1>5 DEF PlacesInv
<1>9. \A h \in Handlers : cur'[h] <= posted'
  BY <1>1, <1>5 DEF PlacesInv
<1> QED
  BY <1>1, <1>6, <1>7, <1>8, <1>9 DEF PlacesInv, Busy

LEMMA PlacesTake ==
  ASSUME TypeOK, PlacesInv, NEW h \in Handlers, TakeRequest(h)
  PROVE  PlacesInv'
<1> DEFINE q == httpQueue[h]
<1>1. /\ q \in Seq(Requests) /\ q # <<>>
      /\ cur' = [cur EXCEPT ![h] = q[1]]
      /\ httpQueue' = [httpQueue EXCEPT ![h] = Tail(q)]
      /\ httpPc' = [httpPc EXCEPT ![h] = "request"]
      /\ UNCHANGED posted
  BY DEF TakeRequest, TypeOK, HttpTypeOK, mainVars
<1>2. 1 \in DOMAIN q /\ q[1] \in Requests
  BY <1>1
<1>3. \A g \in Handlers : cur'[g] = IF g = h THEN q[1] ELSE cur[g]
  BY <1>1 DEF TypeOK, HttpTypeOK
<1>4. \A g \in Handlers \ {h} : httpQueue'[g] = httpQueue[g]
  BY <1>1 DEF TypeOK, HttpTypeOK
<1>5. httpQueue'[h] = Tail(q)
  BY <1>1 DEF TypeOK, HttpTypeOK
<1>6. \A i \in DOMAIN Tail(q) : i + 1 \in DOMAIN q /\ Tail(q)[i] = q[i + 1] /\ i \in Nat \ {0}
  BY <1>1
<1>7. \A g \in Handlers : \A i \in DOMAIN httpQueue'[g] :
        \E j \in DOMAIN httpQueue[g] :
          /\ httpQueue'[g][i] = httpQueue[g][j]
          /\ j = IF g = h THEN i + 1 ELSE i
          /\ g = h => j # 1
  <2> SUFFICES ASSUME NEW g \in Handlers, NEW i \in DOMAIN httpQueue'[g]
               PROVE  \E j \in DOMAIN httpQueue[g] :
                        /\ httpQueue'[g][i] = httpQueue[g][j]
                        /\ j = IF g = h THEN i + 1 ELSE i
                        /\ g = h => j # 1
    OBVIOUS
  <2>1. CASE g = h
    BY <2>1, <1>5, <1>6
  <2>2. CASE g # h
    BY <2>2, <1>4
  <2> QED
    BY <2>1, <2>2
<1>8. \A f, g \in Handlers : \A i \in DOMAIN httpQueue'[f], j \in DOMAIN httpQueue'[g] :
        httpQueue'[f][i] = httpQueue'[g][j] => f = g /\ i = j
  <2> SUFFICES ASSUME NEW f \in Handlers, NEW g \in Handlers,
                      NEW i \in DOMAIN httpQueue'[f], NEW j \in DOMAIN httpQueue'[g],
                      httpQueue'[f][i] = httpQueue'[g][j]
               PROVE  f = g /\ i = j
    OBVIOUS
  <2>1. CASE f = h /\ g = h
    BY <2>1, <1>2, <1>5, <1>6 DEF PlacesInv
  <2>2. CASE f = h /\ g # h
    BY <2>2, <1>4, <1>5, <1>6 DEF PlacesInv
  <2>3. CASE f # h /\ g = h
    BY <2>3, <1>4, <1>5, <1>6 DEF PlacesInv
  <2>4. CASE f # h /\ g # h
    BY <2>4, <1>4 DEF PlacesInv
  <2> QED
    BY <2>1, <2>2, <2>3, <2>4
<1>9. \A f, g \in Handlers : \A i \in DOMAIN httpQueue'[g] : cur'[f] # httpQueue'[g][i]
  BY <1>2, <1>3, <1>7 DEF PlacesInv
<1>10. \A g \in Handlers : \A i \in DOMAIN httpQueue'[g] : httpQueue'[g][i] <= posted'
  BY <1>1, <1>7 DEF PlacesInv
<1>11. \A f, g \in Handlers : cur'[f] # None /\ cur'[f] = cur'[g] => f = g
  BY <1>2, <1>3 DEF PlacesInv
<1>12. \A g \in Handlers : cur'[g] <= posted'
  BY <1>1, <1>2, <1>3 DEF PlacesInv
<1>13. \A g \in Handlers : (Busy(g) <=> cur[g] # None)' 
  BY <1>1, <1>2, <1>3 DEF PlacesInv, Busy, TypeOK, HttpTypeOK, Requests, None
<1> QED
  BY <1>8, <1>9, <1>10, <1>11, <1>12, <1>13 DEF PlacesInv

LEMMA PlacesReport ==
  ASSUME TypeOK, PlacesInv, NEW h \in Handlers, ReportProgress(h)
  PROVE  PlacesInv'
<1>1. /\ cur' = [cur EXCEPT ![h] = None]
      /\ httpPc' = [httpPc EXCEPT ![h] = "idle"]
      /\ UNCHANGED <<posted, httpQueue>>
  BY DEF ReportProgress, mainVars
<1>2. \A g \in Handlers : cur'[g] = IF g = h THEN None ELSE cur[g]
  BY <1>1 DEF TypeOK, HttpTypeOK
<1>3. \A g \in Handlers : (Busy(g) <=> cur[g] # None)'
  BY <1>1, <1>2 DEF PlacesInv, Busy, TypeOK, HttpTypeOK
<1>4. \A g \in Handlers : \A i \in DOMAIN httpQueue[g] : httpQueue[g][i] # None
  <2> SUFFICES ASSUME NEW g \in Handlers, NEW i \in DOMAIN httpQueue[g]
               PROVE  httpQueue[g][i] # None
    OBVIOUS
  <2>1. httpQueue[g] \in Seq(Requests)
    BY DEF TypeOK, HttpTypeOK
  <2>2. httpQueue[g][i] \in Requests
    BY <2>1
  <2> QED
    BY <2>2, SizesAssumption DEF Requests, None
<1>5. posted \in Nat
  BY DEF TypeOK, MainTypeOK
<1> QED
  BY <1>1, <1>2, <1>3, <1>4, <1>5 DEF PlacesInv, None

LEMMA PlacesStep ==
  ASSUME TypeOK, PlacesInv, [Next]_vars
  PROVE  PlacesInv'
<1>1. CASE Main \/ SpuriousWakeup \/ Interrupt
  <2>1. CASE PostRequest
    BY <2>1, PlacesPost
  <2>2. CASE ~PostRequest
    BY <1>1, <2>2, PlacesFrame DEF Main, CheckFinished, StopHandler, JoinHandler,
       ReapRequest, DestroyMembers, StopWriter, JoinWriter, SpuriousWakeup,
       Interrupt, httpVars, mainVars
  <2> QED
    BY <2>1, <2>2
<1>2. ASSUME NEW h \in Handlers, Handler(h)
      PROVE  PlacesInv'
  <2>1. CASE TakeRequest(h)
    BY <2>1, PlacesTake
  <2>2. CASE HttpError(h)
    BY <2>2, PlacesSamePhase DEF HttpError, Busy, mainVars
  <2>3. CASE HttpResponse(h)
    BY <2>3, PlacesSamePhase DEF HttpResponse, Busy, mainVars
  <2>4. CASE PostInsert(h)
    BY <2>4, PlacesFrame DEF PostInsert, mainVars
  <2>5. CASE PostUpdate(h)
    BY <2>5, PlacesSamePhase DEF PostUpdate, Busy, mainVars
  <2>6. CASE AwaitUpdate(h)
    BY <2>6, PlacesSamePhase DEF AwaitUpdate, Busy, mainVars
  <2>7. CASE ReleaseOne(h)
    BY <2>7, PlacesSamePhase DEF ReleaseOne, Busy
  <2>8. CASE ReportProgress(h)
    BY <2>8, PlacesReport
  <2>9. CASE HandlerExit(h)
    BY <2>9, PlacesSamePhase DEF HandlerExit, Busy, mainVars
  <2> QED
    BY <1>2, <2>1, <2>2, <2>3, <2>4, <2>5, <2>6, <2>7, <2>8, <2>9 DEF Handler
<1>3. CASE Writer
  BY <1>3, PlacesFrame DEF Writer, RunInsert, RunUpdate, Executed, ReleaseLock,
     WriterExit, httpVars, mainVars
<1>4. CASE UNCHANGED vars
  BY <1>4, PlacesFrame DEF vars, httpVars, mainVars
<1> QED
  BY <1>1, <1>2, <1>3, <1>4 DEF Next, Terminated

-----------------------------------------------------------------------------
(* The order of the destructors, and the writer's position. *)

LEMMA MainInit == Init => MainInv
BY SizesAssumption DEF Init, MainInv, TearDown, Handlers

LEMMA MainStep ==
  ASSUME TypeOK, MainInv, [Next]_vars
  PROVE  MainInv'
<1> USE SizesAssumption DEF TypeOK, MainTypeOK, HttpTypeOK, WriterTypeOK
<1>1. CASE PostRequest
  BY <1>1 DEF PostRequest, MainInv, TearDown, dbVars
<1>2. CASE CheckFinished \/ SpuriousWakeup
  BY <1>2 DEF CheckFinished, SpuriousWakeup, MainInv, TearDown, httpVars, dbVars
<1>3. CASE StopHandler
  BY <1>3 DEF StopHandler, MainInv, TearDown, dbVars
<1>4. CASE JoinHandler
  <2>1. /\ joining \in Handlers /\ httpPc[joining] = "exited"
        /\ joining' = joining + 1 /\ joining + 1 \in Int
        /\ mainPc' = IF joining + 1 = NHandlers THEN "reap" ELSE "stop"
        /\ UNCHANGED <<httpPc, reaped, destroyed, dbStopped, dbPc>>
        /\ mainPc = "join"
    BY <1>4 DEF JoinHandler, MainInv, TearDown, Handlers, httpVars, dbVars
  <2>2. \A h \in Handlers : h < joining + 1 => h < joining \/ h = joining
    BY <2>1 DEF Handlers
  <2>3. joining + 1 # NHandlers => joining + 1 < NHandlers
    BY <2>1 DEF Handlers
  <2> QED
    BY <2>1, <2>2, <2>3 DEF MainInv, TearDown
<1>5. ASSUME NEW r \in Requests, ReapRequest(r)
      PROVE  MainInv'
  BY <1>5 DEF ReapRequest, MainInv, TearDown, httpVars, dbVars
<1>6. CASE DestroyMembers
  BY <1>6 DEF DestroyMembers, MainInv, TearDown, httpVars, dbVars
<1>7. CASE StopWriter
  BY <1>7 DEF StopWriter, MainInv, TearDown, httpVars
<1>8. CASE JoinWriter
  BY <1>8 DEF JoinWriter, MainInv, TearDown, httpVars, dbVars
<1>9. CASE Interrupt
  BY <1>9 DEF Interrupt, MainInv, TearDown, mainVars, httpVars, dbVars
<1>10. ASSUME NEW h \in Handlers, Handler(h)
       PROVE  MainInv'
  <2>1. httpPc[h] # "exited" /\ (\A g \in Handlers \ {h} : httpPc'[g] = httpPc[g])
    BY <1>10 DEF Handler, TakeRequest, HttpError, HttpResponse, PostInsert,
       PostUpdate, AwaitUpdate, ReleaseOne, ReportProgress, HandlerExit
  <2>2. UNCHANGED <<joining, reaped, destroyed, dbStopped, dbPc>>
    BY <1>10 DEF Handler, TakeRequest, HttpError, HttpResponse, PostInsert,
       PostUpdate, AwaitUpdate, ReleaseOne, ReportProgress, HandlerExit,
       mainVars, dbVars
  <2>3. mainPc' = mainPc \/ (mainPc = "asleep" /\ mainPc' = "check")
    BY <1>10 DEF Handler, TakeRequest, HttpError, HttpResponse, PostInsert,
       PostUpdate, AwaitUpdate, ReleaseOne, ReportProgress, HandlerExit, mainVars
  <2>4. \A g \in Handlers : g < joining => httpPc'[g] = "exited"
    BY <2>1 DEF MainInv
  <2> QED
    BY <2>2, <2>3, <2>4 DEF MainInv, TearDown
<1>11. CASE Writer
  BY <1>11 DEF Writer, RunInsert, RunUpdate, Executed, ReleaseLock, WriterExit,
     MainInv, TearDown, mainVars, httpVars
<1>12. CASE UNCHANGED vars
  BY <1>12 DEF vars, MainInv, TearDown, mainVars, httpVars, dbVars
<1> QED
  BY <1>1, <1>2, <1>3, <1>4, <1>5, <1>6, <1>7, <1>8, <1>9, <1>10, <1>11, <1>12
     DEF Next, Main, Terminated

\* Once main tears the members down, every worker has exited.
LEMMA TearDownWorkers ==
  ASSUME TypeOK, MainInv, TearDown, NEW h \in Handlers
  PROVE  httpPc[h] = "exited"
BY SizesAssumption DEF MainInv, Handlers

LEMMA WriterInit == Init => WriterInv
BY DEF Init, WriterInv

\* The log only grows, at its end.
LEMMA LogGrows ==
  ASSUME TypeOK, PlacesInv, [Next]_vars
  PROVE  \/ dbLog' = dbLog
         \/ \E h \in Handlers, k \in {"insert", "update"} :
              /\ cur[h] \in Requests /\ httpPc[h] = "parse"
              /\ dbLog' = Append(dbLog, [req |-> cur[h], kind |-> k])
<1>1. CASE Main \/ SpuriousWakeup \/ Interrupt
  BY <1>1 DEF Main, PostRequest, CheckFinished, StopHandler, JoinHandler,
     ReapRequest, DestroyMembers, StopWriter, JoinWriter, SpuriousWakeup, Interrupt
<1>2. ASSUME NEW h \in Handlers, Handler(h), dbLog' # dbLog
      PROVE  \E k \in {"insert", "update"} :
               /\ cur[h] \in Requests /\ httpPc[h] = "parse"
               /\ dbLog' = Append(dbLog, [req |-> cur[h], kind |-> k])
  <2>1. PostInsert(h) \/ PostUpdate(h)
    BY <1>2 DEF Handler, TakeRequest, HttpError, HttpResponse, AwaitUpdate,
       ReleaseOne, ReportProgress, HandlerExit
  <2>2. cur[h] \in Requests
    BY <2>1, BusyHasRequest DEF PostInsert, PostUpdate, Busy
  <2> QED
    BY <1>2, <2>1, <2>2 DEF PostInsert, PostUpdate
<1>3. CASE Writer \/ UNCHANGED vars
  BY <1>3 DEF Writer, RunInsert, RunUpdate, Executed, ReleaseLock, WriterExit, vars
<1> QED
  BY <1>1, <1>2, <1>3 DEF Next, Terminated

LEMMA WriterStep ==
  ASSUME TypeOK, PlacesInv, WriterInv, [Next]_vars
  PROVE  WriterInv'
<1>1. /\ dbLog \in Seq(Jobs) /\ results \in Seq(Outcomes)
      /\ dbNext \in Nat \ {0} /\ dbPc \in {"idle", "release", "exited"}
  BY DEF TypeOK, WriterTypeOK
<1>2. CASE Writer
  <2>1. CASE RunInsert \/ RunUpdate
    <3>1. PICK o \in Outcomes : Executed(o)
      BY <2>1 DEF RunInsert, RunUpdate, Outcomes
    <3>2. dbPc = "idle" /\ dbNext <= Len(dbLog)
      BY <2>1 DEF RunInsert, RunUpdate, JobReady
    <3>3. Len(results') = Len(results) + 1
      BY <1>1, <3>1 DEF Executed
    <3> QED
      BY <1>1, <3>1, <3>2, <3>3 DEF Executed, WriterInv
  <2>2. CASE ReleaseLock
    <3>1. /\ dbPc = "release" /\ dbNext' = dbNext + 1 /\ dbPc' = "idle"
          /\ UNCHANGED <<results, dbLog>>
      BY <2>2 DEF ReleaseLock
    <3> QED
      BY <1>1, <3>1 DEF WriterInv
  <2>3. CASE WriterExit
    BY <1>1, <2>3 DEF WriterExit, WriterInv
  <2> QED
    BY <1>2, <2>1, <2>2, <2>3 DEF Writer
<1>3. CASE ~Writer
  <2>1. UNCHANGED <<dbNext, dbPc, results>>
    BY <1>3 DEF Next, Terminated, vars, Main, PostRequest, CheckFinished, StopHandler,
       JoinHandler, ReapRequest, DestroyMembers, StopWriter, JoinWriter,
       SpuriousWakeup, Interrupt, Handler, TakeRequest, HttpError, HttpResponse,
       PostInsert, PostUpdate, AwaitUpdate, ReleaseOne, ReportProgress,
       HandlerExit, dbVars
  <2>2. Len(dbLog') \in {Len(dbLog), Len(dbLog) + 1}
    <3>1. CASE dbLog' = dbLog
      BY <1>1, <3>1
    <3>2. CASE \E h \in Handlers, k \in {"insert", "update"} :
                 cur[h] \in Requests /\ dbLog' = Append(dbLog, [req |-> cur[h], kind |-> k])
      <4>1. PICK job \in Jobs : dbLog' = Append(dbLog, job)
        BY <3>2 DEF Jobs
      <4> QED
        BY <1>1, <4>1
    <3> QED
      BY <3>1, <3>2, LogGrows
  <2> QED
    BY <1>1, <2>1, <2>2 DEF WriterInv
<1> QED
  BY <1>2, <1>3

-----------------------------------------------------------------------------
(* What the log holds of a request. *)

\* Every entry of the log is a query of a request.
LEMMA LogEntry ==
  ASSUME TypeOK, NEW i \in DOMAIN dbLog
  PROVE  /\ dbLog[i] \in Jobs
         /\ dbLog[i].req \in Requests
         /\ dbLog[i].kind \in {"insert", "update"}
<1>1. dbLog[i] \in Jobs
  BY DEF TypeOK, WriterTypeOK
<1> QED
  BY <1>1 DEF Jobs

LEMMA LogInit == Init => LogInv
BY DEF Init, LogInv

\* Steps that neither post a query nor bring a worker into one of the states
\* LogInv speaks of.
LEMMA LogFrame ==
  ASSUME LogInv, UNCHANGED <<dbLog, items, posted, httpQueue>>,
         \A h \in Handlers : httpPc'[h] \in {"request", "parse", "awaitUpdate"} =>
           httpPc'[h] = httpPc[h] /\ cur'[h] = cur[h]
  PROVE  LogInv'
BY DEF LogInv

LEMMA LogPostRequest ==
  ASSUME TypeOK, LogInv, PostRequest
  PROVE  LogInv'
<1>1. /\ nextHandler \in Handlers /\ posted \in Nat
      /\ posted' = posted + 1
      /\ httpQueue' = [httpQueue EXCEPT ![nextHandler] = Append(@, posted + 1)]
      /\ UNCHANGED <<cur, httpPc, items, dbLog>>
  BY DEF PostRequest, TypeOK, MainTypeOK
<1>2. \A i \in DOMAIN dbLog : dbLog[i].req \in Int /\ dbLog[i].req <= posted
  BY SizesAssumption, LogEntry DEF LogInv, Requests
<1>3. \A h \in Handlers : httpQueue[h] \in Seq(Requests)
  BY DEF TypeOK, HttpTypeOK
<1>4. \A h \in Handlers : \A k \in DOMAIN httpQueue'[h] :
        \/ k \in DOMAIN httpQueue[h] /\ httpQueue'[h][k] = httpQueue[h][k]
        \/ httpQueue'[h][k] = posted + 1
  BY <1>1, <1>3 DEF TypeOK, HttpTypeOK
<1>5. \A i \in DOMAIN dbLog, h \in Handlers : \A k \in DOMAIN httpQueue'[h] :
        dbLog[i].req # httpQueue'[h][k]
  BY <1>1, <1>2, <1>4 DEF LogInv
<1>6. \A i \in DOMAIN dbLog : dbLog[i].req <= posted'
  BY <1>1, <1>2
<1> QED
  BY <1>1, <1>5, <1>6 DEF LogInv

LEMMA LogTake ==
  ASSUME TypeOK, LogInv, NEW h \in Handlers, TakeRequest(h)
  PROVE  LogInv'
<1> DEFINE q == httpQueue[h]
<1>1. /\ q \in Seq(Requests) /\ q # <<>>
      /\ cur' = [cur EXCEPT ![h] = q[1]]
      /\ httpQueue' = [httpQueue EXCEPT ![h] = Tail(q)]
      /\ httpPc' = [httpPc EXCEPT ![h] = "request"]
      /\ UNCHANGED <<posted, items, dbLog>>
  BY DEF TakeRequest, TypeOK, HttpTypeOK, mainVars
<1>2. \A g \in Handlers : cur'[g] = IF g = h THEN q[1] ELSE cur[g]
  BY <1>1 DEF TypeOK, HttpTypeOK
<1>3. \A g \in Handlers : httpPc'[g] = IF g = h THEN "request" ELSE httpPc[g]
  BY <1>1 DEF TypeOK, HttpTypeOK
<1>4. \A g \in Handlers : httpQueue'[g] = IF g = h THEN Tail(q) ELSE httpQueue[g]
  BY <1>1 DEF TypeOK, HttpTypeOK
<1>5. 1 \in DOMAIN q
  BY <1>1
<1>6. \A k \in DOMAIN Tail(q) : k + 1 \in DOMAIN q /\ Tail(q)[k] = q[k + 1]
  BY <1>1
<1>7. \A i \in DOMAIN dbLog, g \in Handlers : \A k \in DOMAIN httpQueue'[g] :
        dbLog[i].req # httpQueue'[g][k]
  <2> SUFFICES ASSUME NEW i \in DOMAIN dbLog, NEW g \in Handlers,
                      NEW k \in DOMAIN httpQueue'[g]
               PROVE  dbLog[i].req # httpQueue'[g][k]
    OBVIOUS
  <2>1. CASE g = h
    <3>1. k + 1 \in DOMAIN q /\ httpQueue'[g][k] = q[k + 1]
      BY <2>1, <1>4, <1>6
    <3>2. \A m \in DOMAIN httpQueue[h] : dbLog[i].req # httpQueue[h][m]
      BY DEF LogInv
    <3> QED
      BY <3>1, <3>2
  <2>2. CASE g # h
    BY <2>2, <1>4 DEF LogInv
  <2> QED
    BY <2>1, <2>2
<1>8. \A i \in DOMAIN dbLog : dbLog[i].req # q[1]
  BY <1>5 DEF LogInv
<1> QED
  BY <1>1, <1>2, <1>3, <1>7, <1>8 DEF LogInv

LEMMA LogResponse ==
  ASSUME TypeOK, PlacesInv, LogInv, NEW h \in Handlers, HttpResponse(h)
  PROVE  LogInv'
<1>1. PICK body \in Bodies : items' = [items EXCEPT ![cur[h]] = body]
  BY DEF HttpResponse
<1>2. httpPc[h] = "request" /\ UNCHANGED <<posted, httpQueue, cur, dbLog>>
  BY DEF HttpResponse, mainVars
<1>3. \A g \in Handlers : httpPc'[g] = IF g = h THEN "parse" ELSE httpPc[g]
  BY DEF HttpResponse, TypeOK, HttpTypeOK
<1>4. \A i \in DOMAIN dbLog : dbLog[i].req # cur[h] /\ dbLog[i].req \in Requests
  BY <1>2, LogEntry DEF LogInv
<1>5. \A i \in DOMAIN dbLog : items'[dbLog[i].req] = items[dbLog[i].req]
  BY <1>1, <1>4 DEF TypeOK, HttpTypeOK
<1> QED
  BY <1>2, <1>3, <1>4, <1>5 DEF LogInv

\* A query is appended by a worker that parses: no update of its request is in
\* the log yet.
LEMMA LogAppend ==
  ASSUME TypeOK, PlacesInv, LogInv, NEW h \in Handlers, httpPc[h] = "parse",
         NEW k \in {"insert", "update"},
         dbLog' = Append(dbLog, [req |-> cur[h], kind |-> k]),
         UNCHANGED <<posted, httpQueue, cur>>,
         items' = items \/ items' = [items EXCEPT ![cur[h]] = Tail(@)],
         k = "insert" => httpPc' = httpPc,
         k = "update" => /\ items' = items /\ items[cur[h]] = <<>>
                         /\ httpPc' = [httpPc EXCEPT ![h] = "awaitUpdate"]
  PROVE  LogInv'
<1> DEFINE r == cur[h]
           n == Len(dbLog) + 1
<1>1. r \in Requests /\ r <= posted
  BY BusyHasRequest DEF Busy, PlacesInv
<1>2. /\ dbLog \in Seq(Jobs) /\ [req |-> r, kind |-> k] \in Jobs
      /\ n \in Nat \ {0}
  BY <1>1 DEF TypeOK, WriterTypeOK, Jobs
<1>3. /\ DOMAIN dbLog' = DOMAIN dbLog \cup {n}
      /\ dbLog'[n] = [req |-> r, kind |-> k]
      /\ \A i \in DOMAIN dbLog : dbLog'[i] = dbLog[i] /\ i <= n /\ i # n
  BY <1>2
<1>4. \A i \in DOMAIN dbLog : dbLog[i].req = r => dbLog[i].kind = "insert"
  BY DEF LogInv
<1>5. \A g \in Handlers : httpPc'[g] \in {"request", "parse", "awaitUpdate"} =>
        \/ httpPc'[g] = httpPc[g]
        \/ g = h /\ k = "update" /\ httpPc'[g] = "awaitUpdate"
  BY DEF TypeOK, HttpTypeOK
<1>6. \A i \in DOMAIN dbLog' : dbLog'[i].req <= posted'
  BY <1>1, <1>3 DEF LogInv
<1>7. \A i \in DOMAIN dbLog', g \in Handlers :
        \A j \in DOMAIN httpQueue'[g] : dbLog'[i].req # httpQueue'[g][j]
  BY <1>3 DEF LogInv, PlacesInv
<1>8. \A i \in DOMAIN dbLog', g \in Handlers :
        httpPc'[g] = "request" => dbLog'[i].req # cur'[g]
  BY <1>1, <1>3, <1>5, SizesAssumption DEF LogInv, PlacesInv, Requests, None
<1>9. \A i \in DOMAIN dbLog', g \in Handlers :
        httpPc'[g] = "parse" /\ dbLog'[i].req = cur'[g] => dbLog'[i].kind = "insert"
  <2> SUFFICES ASSUME NEW i \in DOMAIN dbLog', NEW g \in Handlers,
                      httpPc'[g] = "parse", dbLog'[i].req = cur'[g]
               PROVE  dbLog'[i].kind = "insert"
    OBVIOUS
  <2>1. CASE i \in DOMAIN dbLog
    BY <2>1, <1>3, <1>5 DEF LogInv
  <2>2. CASE i = n
    <3>1. g = h
      BY <2>2, <1>1, <1>3, SizesAssumption DEF PlacesInv, Requests, None
    <3>2. k = "insert"
      BY <3>1 DEF TypeOK, HttpTypeOK
    <3> QED
      BY <2>2, <3>2, <1>3
  <2> QED
    BY <2>1, <2>2, <1>3
<1>10. \A g \in Handlers : httpPc'[g] = "awaitUpdate" =>
         \E i \in DOMAIN dbLog' : dbLog'[i] = [req |-> cur'[g], kind |-> "update"]
  <2> SUFFICES ASSUME NEW g \in Handlers, httpPc'[g] = "awaitUpdate"
               PROVE  \E i \in DOMAIN dbLog' : dbLog'[i] = [req |-> cur'[g], kind |-> "update"]
    OBVIOUS
  <2>1. CASE httpPc[g] = "awaitUpdate"
    BY <2>1, <1>3 DEF LogInv
  <2>2. CASE g = h /\ k = "update"
    BY <2>2, <1>3
  <2> QED
    BY <2>1, <2>2, <1>5
<1>11. \A i \in DOMAIN dbLog' : dbLog'[i].kind = "update" => items'[dbLog'[i].req] = <<>>
  <2> SUFFICES ASSUME NEW i \in DOMAIN dbLog', dbLog'[i].kind = "update"
               PROVE  items'[dbLog'[i].req] = <<>>
    OBVIOUS
  <2>1. CASE i \in DOMAIN dbLog
    <3>1. /\ dbLog[i].req # r /\ dbLog[i].req \in Requests
          /\ items[dbLog[i].req] = <<>>
      BY <2>1, <1>3, <1>4, LogEntry DEF LogInv
    <3> QED
      BY <2>1, <3>1, <1>3 DEF TypeOK, HttpTypeOK
  <2>2. CASE i = n
    BY <2>2, <1>3
  <2> QED
    BY <2>1, <2>2, <1>3
<1>12. \A i, j \in DOMAIN dbLog' :
         dbLog'[i].kind = "update" /\ dbLog'[j].req = dbLog'[i].req => j <= i
  <2> SUFFICES ASSUME NEW i \in DOMAIN dbLog', NEW j \in DOMAIN dbLog',
                      dbLog'[i].kind = "update", dbLog'[j].req = dbLog'[i].req
               PROVE  j <= i
    OBVIOUS
  <2>1. CASE i \in DOMAIN dbLog
    <3>1. dbLog[i].req # r
      BY <2>1, <1>3, <1>4
    <3>2. j \in DOMAIN dbLog
      BY <2>1, <3>1, <1>3
    <3> QED
      BY <2>1, <3>2, <1>3 DEF LogInv
  <2>2. CASE i = n
    BY <2>2, <1>2, <1>3
  <2> QED
    BY <2>1, <2>2, <1>3
<1> QED
  BY <1>6, <1>7, <1>8, <1>9, <1>10, <1>11, <1>12 DEF LogInv

LEMMA LogStep ==
  ASSUME TypeOK, PlacesInv, LogInv, [Next]_vars
  PROVE  LogInv'
<1>1. CASE PostRequest
  BY <1>1, LogPostRequest
<1>2. CASE (Main \/ SpuriousWakeup \/ Interrupt) /\ ~PostRequest
  BY <1>2, LogFrame DEF Main, CheckFinished, StopHandler, JoinHandler,
     ReapRequest, DestroyMembers, StopWriter, JoinWriter, SpuriousWakeup,
     Interrupt, mainVars, httpVars
<1>3. ASSUME NEW h \in Handlers, Handler(h)
      PROVE  LogInv'
  <2>1. CASE TakeRequest(h)
    BY <2>1, LogTake
  <2>2. CASE HttpResponse(h)
    BY <2>2, LogResponse
  <2>3. CASE PostInsert(h)
    <3>1. CASE UNCHANGED dbLog
      <4>1. \A i \in DOMAIN dbLog : dbLog[i].kind = "update" =>
              dbLog[i].req # cur[h] /\ dbLog[i].req \in Requests
        <5>1. httpPc[h] = "parse" /\ items[cur[h]] # <<>>
          BY <2>3 DEF PostInsert
        <5> QED
          BY <5>1, LogEntry DEF LogInv
      <4>2. \A i \in DOMAIN dbLog : dbLog[i].kind = "update" =>
              items'[dbLog[i].req] = items[dbLog[i].req]
        BY <2>3, <4>1 DEF PostInsert, TypeOK, HttpTypeOK
      <4> QED
        BY <2>3, <3>1, <4>2 DEF PostInsert, LogInv, mainVars
    <3>2. CASE dbLog' = Append(dbLog, [req |-> cur[h], kind |-> "insert"])
      BY <2>3, <3>2, LogAppend DEF PostInsert, mainVars
    <3> QED
      BY <2>3, <3>1, <3>2 DEF PostInsert
  <2>4. CASE PostUpdate(h)
    BY <2>4, LogAppend DEF PostUpdate, mainVars
  <2>5. CASE \/ HttpError(h) \/ AwaitUpdate(h) \/ ReleaseOne(h)
             \/ ReportProgress(h) \/ HandlerExit(h)
    <3>1. UNCHANGED <<dbLog, items, posted, httpQueue>>
      BY <2>5 DEF HttpError, AwaitUpdate, ReleaseOne, ReportProgress,
         HandlerExit, mainVars
    <3>2. \A g \in Handlers : httpPc'[g] \in {"request", "parse", "awaitUpdate"} =>
            httpPc'[g] = httpPc[g] /\ cur'[g] = cur[g]
      BY <2>5 DEF HttpError, AwaitUpdate, ReleaseOne, ReportProgress,
         HandlerExit, TypeOK, HttpTypeOK
    <3> QED
      BY <3>1, <3>2, LogFrame
  <2> QED
    BY <1>3, <2>1, <2>2, <2>3, <2>4, <2>5 DEF Handler
<1>4. CASE Writer
  BY <1>4, LogFrame DEF Writer, RunInsert, RunUpdate, Executed, ReleaseLock,
     WriterExit, mainVars, httpVars
<1>5. CASE UNCHANGED vars
  BY <1>5, LogFrame DEF vars, mainVars, httpVars
<1> QED
  BY <1>1, <1>2, <1>3, <1>4, <1>5 DEF Next, Terminated

-----------------------------------------------------------------------------
(* Counting: the log against the counters. *)

LEMMA WaitInit == Init => WaitInv
BY DEF Init, WaitInv

LEMMA CountInit == Init => CountInv
BY FS_EmptySet DEF Init, CountInv, Inserts, Released

\* Sets of positions in the log are finite.
LEMMA PositionsFinite ==
  ASSUME TypeOK, WriterInv, NEW r
  PROVE  /\ IsFiniteSet(1 .. Len(dbLog))
         /\ IsFiniteSet(Inserts(r)) /\ Cardinality(Inserts(r)) \in Nat
         /\ IsFiniteSet(Released(r)) /\ Cardinality(Released(r)) \in Nat
<1>1. Len(dbLog) \in Nat /\ dbNext \in Nat \ {0}
  BY DEF TypeOK, WriterTypeOK
<1>2. IsFiniteSet(1 .. Len(dbLog)) /\ IsFiniteSet(1 .. dbNext - 1)
  BY <1>1, FS_Interval
<1>3. Inserts(r) \in SUBSET (1 .. Len(dbLog)) /\ Released(r) \in SUBSET (1 .. dbNext - 1)
  BY DEF Inserts, Released
<1>4. IsFiniteSet(Inserts(r)) /\ IsFiniteSet(Released(r))
  BY <1>2, <1>3, FS_Subset
<1> QED
  BY <1>2, <1>4, FS_CardinalityType

\* When the lock shows one release more than there are inserts, the writer has
\* released every query of the request, the update included.
LEMMA AllReleased ==
  ASSUME TypeOK, PlacesInv, MainInv, WriterInv, LogInv, CountInv,
         NEW h \in Handlers, httpPc[h] = "awaitUpdate",
         lock[cur[h]] = queries[cur[h]] + 1
  PROVE  \A i \in DOMAIN dbLog : dbLog[i].req = cur[h] => i < dbNext
<1> DEFINE r == cur[h]
           All == {i \in 1 .. Len(dbLog) : dbLog[i].req = r}
<1>1. r \in Requests
  BY BusyHasRequest DEF Busy
<1>2. reaped = {}
  BY TearDownWorkers DEF MainInv
<1>3. /\ Len(dbLog) \in Nat /\ DOMAIN dbLog = 1 .. Len(dbLog)
      /\ dbNext \in Nat \ {0} /\ dbNext <= Len(dbLog) + 1
  BY DEF TypeOK, WriterTypeOK, WriterInv
<1>4. PICK u \in DOMAIN dbLog : dbLog[u] = [req |-> r, kind |-> "update"]
  BY DEF LogInv
<1>5. \A i \in DOMAIN dbLog :
        dbLog[i].kind = "update" /\ dbLog[i].req = r => i = u
  BY <1>3, <1>4 DEF LogInv
<1>6. \A i \in DOMAIN dbLog :
        dbLog[i].req = r /\ i # u => dbLog[i] = [req |-> r, kind |-> "insert"]
  <2> SUFFICES ASSUME NEW i \in DOMAIN dbLog, dbLog[i].req = r, i # u
               PROVE  dbLog[i] = [req |-> r, kind |-> "insert"]
    OBVIOUS
  <2>1. dbLog[i] \in Jobs /\ dbLog[i].kind = "insert"
    BY <1>5, LogEntry
  <2> QED
    BY <2>1 DEF Jobs
<1>7. All = Inserts(r) \cup {u} /\ u \notin Inserts(r)
  BY <1>3, <1>4, <1>6 DEF Inserts
<1>8. IsFiniteSet(All) /\ Cardinality(All) = Cardinality(Inserts(r)) + 1
  <2>1. IsFiniteSet(Inserts(r))
    BY PositionsFinite
  <2> HIDE DEF All
  <2> QED
    BY <1>7, <2>1, FS_AddElement
<1>9. Released(r) \in SUBSET All
  BY <1>3 DEF Released
<1>10. Cardinality(All) = Cardinality(Released(r))
  BY <1>1, <1>2, <1>8 DEF CountInv
<1>11. All = Released(r)
  BY <1>8, <1>9, <1>10, FS_Subset
<1> QED
  BY <1>3, <1>11 DEF Released

\* Steps that post no query, keep every waiting worker, and move the writer
\* forward or not at all.
LEMMA WaitFrame ==
  ASSUME TypeOK, WaitInv, dbLog' = dbLog, dbNext' \in {dbNext, dbNext + 1},
         \A h \in Handlers : httpPc[h] \in {"parse", "awaitUpdate"} =>
           httpPc'[h] = httpPc[h] /\ cur'[h] = cur[h]
  PROVE  WaitInv'
<1>1. dbNext \in Nat \ {0} /\ Len(dbLog) \in Nat
  BY DEF TypeOK, WriterTypeOK
<1>2. \A i \in dbNext' .. Len(dbLog) : i \in dbNext .. Len(dbLog)
  BY <1>1
<1> QED
  BY <1>2 DEF WaitInv

LEMMA WaitStep ==
  ASSUME TypeOK, PlacesInv, MainInv, WriterInv, LogInv, CountInv, WaitInv, [Next]_vars
  PROVE  WaitInv'
<1>0. /\ dbLog \in Seq(Jobs) /\ dbNext \in Nat \ {0} /\ dbNext <= Len(dbLog) + 1
      /\ \A h \in Handlers : cur[h] \in Requests \cup {None}
  BY DEF TypeOK, WriterTypeOK, HttpTypeOK, WriterInv
<1>1. CASE Main \/ SpuriousWakeup \/ Interrupt
  <2>1. UNCHANGED <<dbLog, dbNext, httpPc, cur>>
    BY <1>1 DEF Main, PostRequest, CheckFinished, StopHandler, JoinHandler,
       ReapRequest, DestroyMembers, StopWriter, JoinWriter, SpuriousWakeup,
       Interrupt, mainVars, httpVars, dbVars
  <2> QED
    BY <2>1, WaitFrame
<1>2. ASSUME NEW h \in Handlers, Handler(h)
      PROVE  WaitInv'
  <2>1. CASE PostInsert(h) \/ PostUpdate(h)
    <3>1. /\ httpPc[h] = "parse" /\ httpPc'[h] \in {"parse", "awaitUpdate"}
          /\ \A g \in Handlers \ {h} : httpPc'[g] = httpPc[g]
          /\ UNCHANGED <<cur, dbNext>>
      BY <2>1 DEF PostInsert, PostUpdate, TypeOK, HttpTypeOK, dbVars
    <3>2. cur[h] \in Requests
      BY <3>1, BusyHasRequest DEF Busy
    <3>3. \/ dbLog' = dbLog
          \/ \E job \in Jobs : job.req = cur[h] /\ dbLog' = Append(dbLog, job)
      BY <2>1, <3>2 DEF PostInsert, PostUpdate, Jobs
    <3>4. \A i \in dbNext .. Len(dbLog') :
            \/ i \in dbNext .. Len(dbLog) /\ dbLog'[i] = dbLog[i]
            \/ dbLog'[i].req = cur[h]
      <4>1. CASE dbLog' = dbLog
        BY <4>1
      <4>2. ASSUME NEW job \in Jobs, job.req = cur[h], dbLog' = Append(dbLog, job)
            PROVE  \A i \in dbNext .. Len(dbLog') :
                     \/ i \in dbNext .. Len(dbLog) /\ dbLog'[i] = dbLog[i]
                     \/ dbLog'[i].req = cur[h]
        BY <4>2, <1>0
      <4> QED
        BY <3>3, <4>1, <4>2
    <3> QED
      BY <3>1, <3>4 DEF WaitInv
  <2>2. CASE AwaitUpdate(h)
    <3>1. /\ httpPc[h] = "awaitUpdate" /\ lock[cur[h]] = queries[cur[h]] + 1
          /\ \A g \in Handlers \ {h} : httpPc'[g] = httpPc[g]
          /\ UNCHANGED <<cur, dbNext, dbLog>>
      BY <2>2 DEF AwaitUpdate, TypeOK, HttpTypeOK, dbVars
    <3>2. \A i \in dbNext .. Len(dbLog) : dbLog[i].req # cur[h]
      BY <1>0, <3>1, AllReleased
    <3> QED
      BY <3>1, <3>2 DEF WaitInv
  <2>3. CASE \/ TakeRequest(h) \/ HttpError(h) \/ HttpResponse(h)
             \/ ReleaseOne(h) \/ ReportProgress(h) \/ HandlerExit(h)
    <3>1. dbLog' = dbLog /\ dbNext' = dbNext
      BY <2>3 DEF TakeRequest, HttpError, HttpResponse, ReleaseOne,
         ReportProgress, HandlerExit, dbVars
    <3>2. \A g \in Handlers : httpPc[g] \in {"parse", "awaitUpdate"} =>
            httpPc'[g] = httpPc[g] /\ cur'[g] = cur[g]
      BY <2>3 DEF TakeRequest, HttpError, HttpResponse, ReleaseOne,
         ReportProgress, HandlerExit, TypeOK, HttpTypeOK
    <3> QED
      BY <3>1, <3>2, WaitFrame
  <2> QED
    BY <1>2, <2>1, <2>2, <2>3 DEF Handler
<1>3. CASE Writer
  <2>1. dbLog' = dbLog /\ dbNext' \in {dbNext, dbNext + 1} /\ UNCHANGED <<httpPc, cur>>
    BY <1>3 DEF Writer, RunInsert, RunUpdate, Executed, ReleaseLock, WriterExit, httpVars
  <2> QED
    BY <2>1, WaitFrame
<1>4. CASE UNCHANGED vars
  BY <1>4, WaitFrame DEF vars, httpVars, dbVars
<1> QED
  BY <1>1, <1>2, <1>3, <1>4 DEF Next, Terminated

\* Steps that touch none of the counted.
LEMMA CountFrame ==
  ASSUME CountInv, UNCHANGED <<dbLog, dbNext, queries, lock, reaped>>
  PROVE  CountInv'
BY DEF CountInv, Inserts, Released

\* A query is appended behind what the writer has released.
LEMMA CountAppend ==
  ASSUME TypeOK, WriterInv, CountInv, NEW q \in Requests,
         NEW k \in {"insert", "update"},
         dbLog' = Append(dbLog, [req |-> q, kind |-> k]),
         UNCHANGED <<dbNext, lock, reaped>>,
         queries' = IF k = "insert" THEN [queries EXCEPT ![q] = @ + 1] ELSE queries
  PROVE  CountInv'
<1> DEFINE n == Len(dbLog) + 1
<1>1. /\ dbLog \in Seq(Jobs) /\ [req |-> q, kind |-> k] \in Jobs
      /\ dbNext \in Nat \ {0} /\ dbNext <= n
  BY DEF TypeOK, WriterTypeOK, WriterInv, Jobs
<1>2. /\ Len(dbLog') = n /\ dbLog'[n] = [req |-> q, kind |-> k]
      /\ \A i \in 1 .. Len(dbLog) : dbLog'[i] = dbLog[i]
      /\ n \notin 1 .. Len(dbLog) /\ 1 .. n = (1 .. Len(dbLog)) \cup {n}
  BY <1>1
<1> SUFFICES ASSUME NEW r \in Requests
             PROVE  /\ queries'[r] = Cardinality(Inserts(r)')
                    /\ r \notin reaped => lock[r] = Cardinality(Released(r)')
  BY DEF CountInv
<1>3. Released(r)' = Released(r)
  <2>1. \A i \in 1 .. dbNext - 1 : dbLog'[i] = dbLog[i]
    BY <1>1, <1>2
  <2> QED
    BY <2>1 DEF Released
<1>4. Inserts(r)' = IF r = q /\ k = "insert" THEN Inserts(r) \cup {n} ELSE Inserts(r)
  BY <1>2 DEF Inserts
<1>5. n \notin Inserts(r)
  BY <1>2 DEF Inserts
<1>6. IsFiniteSet(Inserts(r)) /\ queries[r] = Cardinality(Inserts(r))
  BY PositionsFinite DEF CountInv
<1>7. Cardinality(Inserts(r) \cup {n}) = queries[r] + 1
  BY <1>5, <1>6, FS_AddElement
<1>8. queries'[r] = IF r = q /\ k = "insert" THEN queries[r] + 1 ELSE queries[r]
  BY DEF TypeOK, HttpTypeOK
<1> QED
  BY <1>3, <1>4, <1>6, <1>7, <1>8 DEF CountInv

LEMMA CountStep ==
  ASSUME TypeOK, PlacesInv, WriterInv, CountInv, [Next]_vars
  PROVE  CountInv'
<1>1. CASE /\ Main \/ SpuriousWakeup \/ Interrupt
           /\ ~(\E r \in Requests : ReapRequest(r))
  BY <1>1, CountFrame DEF Main, PostRequest, CheckFinished, StopHandler,
     JoinHandler, DestroyMembers, StopWriter, JoinWriter, SpuriousWakeup,
     Interrupt, mainVars, httpVars, dbVars
<1>2. ASSUME NEW q \in Requests, ReapRequest(q)
      PROVE  CountInv'
  <2>1. UNCHANGED <<dbLog, dbNext, queries>> /\ reaped' = reaped \cup {q}
    BY <1>2 DEF ReapRequest, dbVars
  <2>2. \A r \in Requests \ {q} : lock'[r] = lock[r]
    BY <1>2 DEF ReapRequest, TypeOK, SharedTypeOK
  <2> QED
    BY <2>1, <2>2 DEF CountInv, Inserts, Released
<1>3. ASSUME NEW h \in Handlers, Handler(h)
      PROVE  CountInv'
  <2>1. CASE PostInsert(h)
    <3>1. cur[h] \in Requests
      BY <2>1, BusyHasRequest DEF PostInsert, Busy
    <3>2. UNCHANGED <<dbNext, lock, reaped>>
      BY <2>1 DEF PostInsert, mainVars, dbVars
    <3> QED
      BY <2>1, <3>1, <3>2, CountAppend, CountFrame DEF PostInsert
  <2>2. CASE PostUpdate(h)
    <3>1. cur[h] \in Requests
      BY <2>2, BusyHasRequest DEF PostUpdate, Busy
    <3> QED
      BY <2>2, <3>1, CountAppend DEF PostUpdate, mainVars, dbVars
  <2>3. CASE ~PostInsert(h) /\ ~PostUpdate(h)
    BY <1>3, <2>3, CountFrame DEF Handler, TakeRequest, HttpError, HttpResponse,
       AwaitUpdate, ReleaseOne, ReportProgress, HandlerExit, mainVars, dbVars
  <2> QED
    BY <2>1, <2>2, <2>3
<1>4. CASE RunInsert \/ RunUpdate \/ WriterExit
  BY <1>4, CountFrame DEF RunInsert, RunUpdate, Executed, WriterExit, mainVars
<1>5. CASE ReleaseLock
  <2>1. /\ dbPc = "release" /\ dbNext' = dbNext + 1
        /\ lock' = [lock EXCEPT ![Job.req] = @ + 1]
        /\ UNCHANGED <<dbLog, queries, reaped>>
    BY <1>5 DEF ReleaseLock, mainVars
  <2>2. dbNext \in Nat \ {0} /\ dbNext \in DOMAIN dbLog
    BY <2>1 DEF TypeOK, WriterTypeOK, WriterInv
  <2>3. Job.req \in Requests
    BY <2>2, LogEntry DEF Job
  <2> SUFFICES ASSUME NEW r \in Requests
               PROVE  /\ queries[r] = Cardinality(Inserts(r)')
                      /\ r \notin reaped => lock'[r] = Cardinality(Released(r)')
    BY <2>1 DEF CountInv
  <2>4. Inserts(r)' = Inserts(r)
    BY <2>1 DEF Inserts
  <2>5. Released(r)' = IF r = Job.req THEN Released(r) \cup {dbNext} ELSE Released(r)
    <3>1. 1 .. dbNext' - 1 = (1 .. dbNext - 1) \cup {dbNext}
      BY <2>1, <2>2
    <3> QED
      BY <2>1, <3>1 DEF Released, Job
  <2>6. dbNext \notin Released(r)
    BY <2>2 DEF Released
  <2>7. Cardinality(Released(r) \cup {dbNext}) = Cardinality(Released(r)) + 1
    BY <2>6, PositionsFinite, FS_AddElement
  <2>8. lock'[r] = IF r = Job.req THEN lock[r] + 1 ELSE lock[r]
    BY <2>1 DEF TypeOK, SharedTypeOK
  <2> QED
    BY <2>4, <2>5, <2>7, <2>8 DEF CountInv
<1>6. CASE UNCHANGED vars
  BY <1>6, CountFrame DEF vars, mainVars, dbVars
<1> QED
  BY <1>1, <1>2, <1>3, <1>4, <1>5, <1>6 DEF Next, Main, Writer, Terminated

-----------------------------------------------------------------------------
(* What the invariant implies. *)

\* A busy worker, or a query outstanding, keeps main out of the tear-down.
LEMMA BusyKeepsMembers ==
  ASSUME TypeOK, MainInv, NEW h \in Handlers, Busy(h)
  PROVE  reaped = {} /\ destroyed = {}
BY TearDownWorkers DEF MainInv, TearDown, Busy

LEMMA DestroyLemma ==
  ASSUME TypeOK, MainInv, WaitInv
  PROVE  NoUseAfterDestroy
<1>1. \A h \in Handlers :
        Busy(h) => cur[h] \notin reaped /\ destroyed \cap Members = {}
  BY BusyKeepsMembers
<1>2. ASSUME NEW i \in dbNext .. Len(dbLog)
      PROVE  dbLog[i].req \notin reaped /\ "statements" \notin destroyed
  <2>1. PICK h \in Handlers : httpPc[h] \in {"parse", "awaitUpdate"}
    BY DEF WaitInv
  <2> QED
    BY <2>1, BusyKeepsMembers DEF Busy
<1> QED
  BY <1>1, <1>2 DEF NoUseAfterDestroy

LEMMA DropLemma ==
  ASSUME TypeOK, MainInv, WriterInv, WaitInv
  PROVE  NoQueryDropped
<1> SUFFICES ASSUME TearDown PROVE dbNext > Len(dbLog)
  BY DEF NoQueryDropped, TearDown
<1>1. \A h \in Handlers : httpPc[h] = "exited"
  BY TearDownWorkers
<1>2. dbNext .. Len(dbLog) = {}
  BY <1>1 DEF WaitInv
<1> QED
  BY <1>2 DEF TypeOK, WriterTypeOK

LEMMA MarkLemma ==
  ASSUME TypeOK, WriterInv, LogInv
  PROVE  MarkedAfterInserts
<1>1. /\ dbNext \in Nat \ {0} /\ Len(dbLog) \in Nat /\ Len(results) \in Nat
      /\ DOMAIN results = 1 .. Len(results) /\ DOMAIN dbLog = 1 .. Len(dbLog)
  BY DEF TypeOK, WriterTypeOK
<1>2. Len(results) <= Len(dbLog)
  BY <1>1 DEF WriterInv
<1>3. DOMAIN results \subseteq DOMAIN dbLog
  BY <1>1, <1>2
<1> QED
  BY <1>3 DEF MarkedAfterInserts, LogInv

LEMMA OvershootLemma ==
  ASSUME TypeOK, PlacesInv, MainInv, WriterInv, LogInv, CountInv
  PROVE  WaitsNeverOvershoot
<1> SUFFICES ASSUME NEW h \in Handlers, httpPc[h] \in {"parse", "awaitUpdate"}
             PROVE  lock[cur[h]] <= queries[cur[h]] + (IF httpPc[h] = "parse" THEN 0 ELSE 1)
  <2>1. \A g \in Handlers : Busy(g) => queries[cur[g]] \in Nat
    BY BusyHasRequest DEF TypeOK, HttpTypeOK
  <2> QED
    BY <2>1 DEF WaitsNeverOvershoot, Busy
<1> DEFINE r == cur[h]
<1>1. r \in Requests /\ reaped = {}
  BY BusyHasRequest, BusyKeepsMembers DEF Busy
<1>2. /\ queries[r] = Cardinality(Inserts(r)) /\ lock[r] = Cardinality(Released(r))
      /\ IsFiniteSet(Inserts(r)) /\ Cardinality(Inserts(r)) \in Nat
  BY <1>1, PositionsFinite DEF CountInv
<1>3. /\ dbNext \in Nat \ {0} /\ dbNext <= Len(dbLog) + 1
      /\ Len(dbLog) \in Nat /\ DOMAIN dbLog = 1 .. Len(dbLog)
  BY DEF TypeOK, WriterTypeOK, WriterInv
<1>4. Released(r) \subseteq DOMAIN dbLog
  BY <1>3 DEF Released
<1>5. \A i \in Released(r) :
        dbLog[i].kind = "insert" => dbLog[i] = [req |-> r, kind |-> "insert"]
  <2>1. \A i \in Released(r) : dbLog[i] \in Jobs /\ dbLog[i].req = r
    BY <1>4, LogEntry DEF Released
  <2> QED
    BY <2>1 DEF Jobs
<1>6. CASE httpPc[h] = "parse"
  <2>1. \A i \in Released(r) : dbLog[i].kind = "insert"
    BY <1>4, <1>6 DEF LogInv, Released
  <2>2. Released(r) \in SUBSET Inserts(r)
    BY <1>3, <1>4, <1>5, <2>1 DEF Inserts
  <2>3. lock[r] <= queries[r]
    BY <1>2, <2>2, FS_Subset
  <2> QED
    BY <1>2, <1>6, <2>3
<1>7. CASE httpPc[h] = "awaitUpdate"
  <2>1. PICK u \in DOMAIN dbLog : dbLog[u] = [req |-> r, kind |-> "update"]
    BY <1>7 DEF LogInv
  <2>2. \A i \in Released(r) : dbLog[i].kind = "insert" \/ i = u
    <3> SUFFICES ASSUME NEW i \in Released(r), dbLog[i].kind # "insert"
                 PROVE  i = u
      OBVIOUS
    <3>1. i \in DOMAIN dbLog /\ dbLog[i].kind = "update" /\ dbLog[i].req = r
      BY <1>4, LogEntry DEF Released
    <3> QED
      BY <1>3, <2>1, <3>1 DEF LogInv
  <2>3. Released(r) \in SUBSET (Inserts(r) \cup {u})
    BY <1>3, <1>4, <1>5, <2>2 DEF Inserts
  <2>4. /\ IsFiniteSet(Inserts(r) \cup {u})
        /\ Cardinality(Inserts(r) \cup {u}) <= queries[r] + 1
    <3> DEFINE S == Inserts(r)
    <3>1. IsFiniteSet(S) /\ Cardinality(S) \in Nat /\ queries[r] = Cardinality(S)
      BY <1>2
    <3>2. IsFiniteSet(S \cup {u})
      BY <3>1, FS_AddElement
    <3>3. Cardinality(S \cup {u}) = IF u \in S THEN Cardinality(S) ELSE Cardinality(S) + 1
      BY <3>1, FS_AddElement
    <3> HIDE DEF S, r
    <3>4. IsFiniteSet(S \cup {u}) /\ Cardinality(S \cup {u}) <= queries[r] + 1
      BY <3>1, <3>2, <3>3
    <3> QED
      BY <3>4 DEF S, r
  <2>5. Cardinality(Released(r)) <= Cardinality(Inserts(r) \cup {u})
    BY <2>3, <2>4, FS_Subset
  <2>6. Cardinality(Released(r)) \in Nat /\ Cardinality(Inserts(r) \cup {u}) \in Nat
    BY <2>4, PositionsFinite, FS_CardinalityType
  <2> QED
    BY <1>2, <1>7, <2>4, <2>5, <2>6
<1> QED
  BY <1>6, <1>7

-----------------------------------------------------------------------------
(* The statements, and main's sleep. *)

\* What a query leaves: its outcome at the log's position, the statement stepped
\* if and only if it was, or the step failed.
LEMMA QueryRuns ==
  ASSUME TypeOK, WriterInv, RunInsert \/ RunUpdate
  PROVE  \E o \in Outcomes :
           /\ dbNext \in DOMAIN dbLog /\ dbNext = Len(results) + 1
           /\ results' = Append(results, o) /\ dbLog' = dbLog
           /\ o = "misuse" <=> stmt[Job.kind] = "stepped"
           /\ stmt' = IF o = "stepError" THEN [stmt EXCEPT ![Job.kind] = "stepped"]
                      ELSE stmt
<1>1. PICK kind \in {"insert", "update"} : JobReady(kind) /\
        \/ CanBind(kind) /\ Executed("ok") /\ UNCHANGED stmt
        \/ CanBind(kind) /\ Executed("bindError") /\ UNCHANGED stmt
        \/ CanBind(kind) /\ Executed("stepError") /\ stmt' = [stmt EXCEPT ![kind] = "stepped"]
        \/ ~CanBind(kind) /\ Executed("misuse") /\ UNCHANGED stmt
  BY DEF RunInsert, RunUpdate
<1>2. Job.kind = kind /\ dbNext \in DOMAIN dbLog /\ dbNext = Len(results) + 1
  BY <1>1 DEF JobReady, WriterInv, TypeOK, WriterTypeOK
<1>3. stmt[kind] \in {"ready", "stepped"}
  BY DEF TypeOK, WriterTypeOK
<1>4. CASE CanBind(kind) /\ Executed("stepError") /\ stmt' = [stmt EXCEPT ![kind] = "stepped"]
  BY <1>2, <1>3, <1>4 DEF Executed, CanBind, Outcomes
<1>5. ASSUME NEW o \in {"ok", "bindError"}, CanBind(kind), Executed(o), UNCHANGED stmt
      PROVE  /\ o \in Outcomes /\ results' = Append(results, o) /\ dbLog' = dbLog
             /\ o = "misuse" <=> stmt[Job.kind] = "stepped"
             /\ stmt' = IF o = "stepError" THEN [stmt EXCEPT ![Job.kind] = "stepped"]
                        ELSE stmt
  BY <1>2, <1>5 DEF Executed, CanBind, Outcomes
<1>6. CASE ~CanBind(kind) /\ Executed("misuse") /\ UNCHANGED stmt
  BY <1>2, <1>3, <1>6 DEF Executed, CanBind, Outcomes
<1> QED
  BY <1>1, <1>2, <1>4, <1>5, <1>6

\* A step that runs no query changes neither statements nor outcomes.
LEMMA StatementFrame ==
  ASSUME [Next]_vars, ~(RunInsert \/ RunUpdate)
  PROVE  UNCHANGED <<stmt, results>>
BY DEF Next, Terminated, vars, Main, PostRequest, CheckFinished, StopHandler,
   JoinHandler, ReapRequest, DestroyMembers, StopWriter, JoinWriter,
   SpuriousWakeup, Interrupt, Handler, TakeRequest, HttpError, HttpResponse,
   PostInsert, PostUpdate, AwaitUpdate, ReleaseOne, ReportProgress, HandlerExit,
   Writer, ReleaseLock, WriterExit, dbVars

LEMMA StatementStep ==
  ASSUME TypeOK, PlacesInv, WriterInv, StatementInv, StepErrorLosesTheRest, [Next]_vars
  PROVE  StatementInv' /\ StepErrorLosesTheRest'
<1>1. /\ dbLog \in Seq(Jobs) /\ results \in Seq(Outcomes)
      /\ dbNext \in Nat \ {0} /\ stmt \in [{"insert", "update"} -> {"ready", "stepped"}]
      /\ DOMAIN results = 1 .. Len(results) /\ Len(results) \in Nat
      /\ DOMAIN dbLog = 1 .. Len(dbLog) /\ Len(dbLog) \in Nat
      /\ Len(results) <= Len(dbLog)
  BY DEF TypeOK, WriterTypeOK, WriterInv
<1>2. \A i \in DOMAIN dbLog : dbLog'[i] = dbLog[i]
  <2>1. dbLog' = dbLog \/ \E job \in Jobs : dbLog' = Append(dbLog, job)
    BY LogGrows DEF Jobs
  <2> QED
    BY <1>1, <2>1
<1>3. CASE RunInsert \/ RunUpdate
  <2>1. PICK o \in Outcomes :
          /\ dbNext \in DOMAIN dbLog /\ dbNext = Len(results) + 1
          /\ results' = Append(results, o)
          /\ dbLog' = dbLog
          /\ o = "misuse" <=> stmt[Job.kind] = "stepped"
          /\ stmt' = IF o = "stepError" THEN [stmt EXCEPT ![Job.kind] = "stepped"]
                     ELSE stmt
    BY <1>3, QueryRuns
  <2>2. Job = dbLog[dbNext] /\ Job.kind \in {"insert", "update"}
    BY <2>1, LogEntry DEF Job
  <2>3. /\ DOMAIN results' = 1 .. dbNext
        /\ \A i \in 1 .. dbNext - 1 : results'[i] = results[i]
        /\ results'[dbNext] = o
        /\ DOMAIN results = 1 .. dbNext - 1
    BY <1>1, <2>1
  <2>4. StatementInv'
    <3> SUFFICES ASSUME NEW kind \in {"insert", "update"}
                 PROVE  stmt'[kind] = "stepped" <=>
                          \E i \in 1 .. dbNext : dbLog[i].kind = kind /\ results'[i] = "stepError"
      BY <2>1, <2>3 DEF StatementInv
    <3>1. stmt'[kind] = "stepped" <=>
            stmt[kind] = "stepped" \/ (o = "stepError" /\ Job.kind = kind)
      BY <1>1, <2>1, <2>2
    <3>2. stmt[kind] = "stepped" <=>
            \E i \in 1 .. dbNext - 1 : dbLog[i].kind = kind /\ results[i] = "stepError"
      BY <2>3 DEF StatementInv
    <3>3. dbLog[dbNext].kind = Job.kind /\ dbNext \in 1 .. dbNext
          /\ 1 .. dbNext = (1 .. dbNext - 1) \cup {dbNext}
      BY <1>1, <2>2
    <3>4. (\E i \in 1 .. dbNext : dbLog[i].kind = kind /\ results'[i] = "stepError")
            <=> \/ \E i \in 1 .. dbNext - 1 :
                     dbLog[i].kind = kind /\ results[i] = "stepError"
                \/ o = "stepError" /\ Job.kind = kind
      BY <2>3, <3>3, Zenon
    <3> QED
      BY <3>1, <3>2, <3>4
  <2>5. StepErrorLosesTheRest'
    <3> SUFFICES ASSUME NEW j \in 1 .. dbNext
                 PROVE  results'[j] = "misuse" <=>
                          \E i \in 1 .. j - 1 :
                            dbLog[i].kind = dbLog[j].kind /\ results'[i] = "stepError"
      BY <2>1, <2>3 DEF StepErrorLosesTheRest
    <3>1. CASE j \in 1 .. dbNext - 1
      BY <1>1, <2>3, <3>1 DEF StepErrorLosesTheRest
    <3>2. CASE j = dbNext
      <4>1. stmt[Job.kind] = "stepped" <=>
              \E i \in 1 .. dbNext - 1 :
                dbLog[i].kind = Job.kind /\ results[i] = "stepError"
        BY <2>2, <2>3 DEF StatementInv
      <4> QED
        BY <2>1, <2>2, <2>3, <3>2, <4>1
    <3> QED
      BY <1>1, <3>1, <3>2
  <2> QED
    BY <2>4, <2>5
<1>4. CASE ~(RunInsert \/ RunUpdate)
  <2>1. stmt' = stmt /\ results' = results
    BY <1>4, StatementFrame
  <2>2. DOMAIN results \subseteq DOMAIN dbLog
    BY <1>1
  <2>3. StatementInv'
    BY <1>2, <2>1, <2>2 DEF StatementInv
  <2>4. StepErrorLosesTheRest'
    <3>1. \A j \in DOMAIN results : \A i \in 1 .. j - 1 : i \in DOMAIN dbLog
      BY <1>1
    <3> QED
      BY <1>2, <2>1, <2>2, <3>1 DEF StepErrorLosesTheRest
  <2> QED
    BY <2>3, <2>4
<1> QED
  BY <1>3, <1>4

\* Only a release raises the counter, and it wakes main.
LEMMA SleepStep ==
  ASSUME TypeOK, NoLostWakeup, [Next]_vars
  PROVE  NoLostWakeup'
<1> USE DEF NoLostWakeup
<1>1. CASE Main \/ SpuriousWakeup \/ Interrupt
  BY <1>1, SizesAssumption DEF Main, PostRequest, CheckFinished, StopHandler,
     JoinHandler, ReapRequest, DestroyMembers, StopWriter, JoinWriter,
     SpuriousWakeup, Interrupt, TypeOK, SharedTypeOK, mainVars
<1>2. CASE \E h \in Handlers : Handler(h)
  BY <1>2 DEF Handler, TakeRequest, HttpError, HttpResponse, PostInsert, PostUpdate,
     AwaitUpdate, ReleaseOne, ReportProgress, HandlerExit, mainVars
<1>3. CASE Writer \/ Terminated \/ UNCHANGED vars
  BY <1>3 DEF Writer, RunInsert, RunUpdate, Executed, ReleaseLock, WriterExit,
     Terminated, vars, mainVars
<1> QED
  BY <1>1, <1>2, <1>3 DEF Next

-----------------------------------------------------------------------------
(* The theorems. *)

\* Whatever the number of types and workers and whatever the server answers,
\* the state keeps its type and the six parts of the inductive invariant: where
\* requests are, what main has destroyed, where the writer is, what the log
\* holds, who waits for it, and what the counters count.
THEOREM Invariance == Spec => [](TypeOK /\ IInv)
<1>1. Init => TypeOK /\ IInv
  BY TypeInit, PlacesInit, MainInit, WriterInit, LogInit, WaitInit, CountInit DEF IInv
<1>2. TypeOK /\ IInv /\ [Next]_vars => (TypeOK /\ IInv)'
  <2> SUFFICES ASSUME TypeOK, IInv, [Next]_vars
               PROVE  TypeOK' /\ IInv'
    OBVIOUS
  <2> USE DEF IInv
  <2>1. TypeOK'
    BY TypeMain, TypeHandler, TypeWriter, TypeStutter DEF Next, Terminated
  <2>2. PlacesInv'
    BY PlacesStep
  <2>3. MainInv' /\ WriterInv' /\ LogInv'
    BY MainStep, WriterStep, LogStep
  <2>4. WaitInv' /\ CountInv'
    BY WaitStep, CountStep
  <2> QED
    BY <2>1, <2>2, <2>3, <2>4
<1> QED
  BY <1>1, <1>2, PTL DEF Spec

\* The state of the pipeline keeps its type.
THEOREM TypeCorrect == Spec => []TypeOK
BY Invariance, PTL

\* No thread of the history reader touches an object whose destructor has run,
\* with or without SIGINT (~HistoryHandler, ~HistoryRequest).
THEOREM DestroySafe == Spec => []NoUseAfterDestroy
<1>1. TypeOK /\ IInv => NoUseAfterDestroy
  BY DestroyLemma DEF IInv
<1> QED
  BY <1>1, Invariance, PTL

\* ioService.stop() on the database thread drops no posted query.
THEOREM DropSafe == Spec => []NoQueryDropped
<1>1. TypeOK /\ IInv => NoQueryDropped
  BY DropLemma DEF IInv
<1> QED
  BY <1>1, Invariance, PTL

\* last_history_update is written after the last insert of its type.
THEOREM MarkSafe == Spec => []MarkedAfterInserts
<1>1. TypeOK /\ IInv => MarkedAfterInserts
  BY MarkLemma DEF IInv
<1> QED
  BY <1>1, Invariance, PTL

\* The counter a worker waits on never runs past the value it compares with.
THEOREM OvershootSafe == Spec => []WaitsNeverOvershoot
<1>1. TypeOK /\ IInv => WaitsNeverOvershoot
  BY OvershootLemma DEF IInv
<1> QED
  BY <1>1, Invariance, PTL

\* One failed step costs every later query of its statement, and no other.
THEOREM StepErrorCost == Spec => []StepErrorLosesTheRest
<1>1. Init => StatementInv /\ StepErrorLosesTheRest
  BY DEF Init, StatementInv, StepErrorLosesTheRest
<1>2. TypeOK /\ IInv /\ StatementInv /\ StepErrorLosesTheRest /\ [Next]_vars
        => StatementInv' /\ StepErrorLosesTheRest'
  BY StatementStep DEF IInv
<1> QED
  BY <1>1, <1>2, Invariance, PTL DEF Spec

\* main never sleeps through the release of the last type.
THEOREM SleepSafe == Spec => []NoLostWakeup
<1>1. Init => NoLostWakeup
  BY DEF Init, NoLostWakeup
<1>2. TypeOK /\ NoLostWakeup /\ [Next]_vars => NoLostWakeup'
  BY SleepStep
<1> QED
  BY <1>1, <1>2, TypeCorrect, PTL DEF Spec

-----------------------------------------------------------------------------
(* The refinement: once finished, and what the batch sees. *)

LEMMA FinishedInit == Init => FinishedInv
<1> SUFFICES ASSUME Init PROVE FinishedInv
  OBVIOUS
<1>1. Finalized = {}
  BY DEF Init, Finalized
<1>2. Cardinality({}) = 0
  BY FS_EmptySet
<1> QED
  BY <1>1, <1>2 DEF Init, FinishedInv, Busy

\* Steps that finalize nothing and move no request.
LEMMA FinishedFrame ==
  ASSUME FinishedInv, UNCHANGED <<finalized, posted, httpQueue, semaphore>>,
         \A h \in Handlers : Busy(h)' =>
           /\ Busy(h) /\ cur'[h] = cur[h]
           /\ httpPc'[h] = "report" <=> httpPc[h] = "report"
  PROVE  FinishedInv'
<1>1. Finalized' = Finalized
  BY DEF Finalized
<1> QED
  BY <1>1 DEF FinishedInv

LEMMA FinishedPost ==
  ASSUME TypeOK, FinishedInv, PostRequest
  PROVE  FinishedInv'
<1>1. /\ nextHandler \in Handlers /\ posted \in Nat /\ posted' = posted + 1
      /\ httpQueue' = [httpQueue EXCEPT ![nextHandler] = Append(@, posted + 1)]
      /\ UNCHANGED <<cur, httpPc, finalized, semaphore>>
  BY DEF PostRequest, TypeOK, MainTypeOK
<1>2. Finalized' = Finalized /\ posted + 1 \notin Finalized
      /\ \A r \in Finalized : r <= posted + 1
  BY <1>1 DEF Finalized, FinishedInv, Requests
<1>3. \A h \in Handlers : httpQueue[h] \in Seq(Requests)
  BY DEF TypeOK, HttpTypeOK
<1>4. \A h \in Handlers : \A k \in DOMAIN httpQueue'[h] :
        \/ k \in DOMAIN httpQueue[h] /\ httpQueue'[h][k] = httpQueue[h][k]
        \/ httpQueue'[h][k] = posted + 1
  BY <1>1, <1>3 DEF TypeOK, HttpTypeOK
<1> QED
  BY <1>1, <1>2, <1>4 DEF FinishedInv, Busy

LEMMA FinishedTake ==
  ASSUME TypeOK, FinishedInv, NEW h \in Handlers, TakeRequest(h)
  PROVE  FinishedInv'
<1> DEFINE q == httpQueue[h]
<1>1. /\ q \in Seq(Requests) /\ q # <<>>
      /\ cur' = [cur EXCEPT ![h] = q[1]]
      /\ httpQueue' = [httpQueue EXCEPT ![h] = Tail(q)]
      /\ httpPc' = [httpPc EXCEPT ![h] = "request"]
      /\ UNCHANGED <<posted, finalized, semaphore>>
  BY DEF TakeRequest, TypeOK, HttpTypeOK, mainVars
<1>2. 1 \in DOMAIN q
  BY <1>1
<1>3. Finalized' = Finalized
  BY <1>1 DEF Finalized
<1>4. \A i \in DOMAIN Tail(q) : i + 1 \in DOMAIN q /\ Tail(q)[i] = q[i + 1]
  BY <1>1
<1>5. \A g \in Handlers : httpQueue'[g] = IF g = h THEN Tail(q) ELSE httpQueue[g]
  BY <1>1 DEF TypeOK, HttpTypeOK
<1>6. ASSUME NEW g \in Handlers, NEW i \in DOMAIN httpQueue'[g]
      PROVE  httpQueue'[g][i] \notin Finalized
  <2>1. CASE g = h
    <3>1. httpQueue'[g][i] = q[i + 1] /\ i + 1 \in DOMAIN httpQueue[h]
      BY <1>4, <1>5, <2>1
    <3> QED
      BY <3>1 DEF FinishedInv
  <2>2. CASE g # h
    BY <1>5, <2>2 DEF FinishedInv
  <2> QED
    BY <2>1, <2>2
<1>7. \A g \in Handlers : Busy(g)' => (cur'[g] \in Finalized <=> httpPc'[g] = "report")
  <2> SUFFICES ASSUME NEW g \in Handlers, Busy(g)'
               PROVE  cur'[g] \in Finalized <=> httpPc'[g] = "report"
    OBVIOUS
  <2>1. CASE g = h
    <3>1. cur'[g] = q[1] /\ httpPc'[g] = "request"
      BY <1>1, <2>1 DEF TypeOK, HttpTypeOK
    <3> QED
      BY <1>2, <3>1 DEF FinishedInv
  <2>2. CASE g # h
    <3>1. cur'[g] = cur[g] /\ httpPc'[g] = httpPc[g]
      BY <1>1, <2>2 DEF TypeOK, HttpTypeOK
    <3> QED
      BY <3>1 DEF FinishedInv, Busy
  <2> QED
    BY <2>1, <2>2
<1> QED
  BY <1>1, <1>3, <1>6, <1>7 DEF FinishedInv

LEMMA FinishedRelease ==
  ASSUME TypeOK, PlacesInv, FinishedInv, NEW h \in Handlers, ReleaseOne(h)
  PROVE  /\ FinishedInv'
         /\ cur[h] \in Requests /\ finalized[cur[h]] = 0
         /\ finalized' = [finalized EXCEPT ![cur[h]] = 1]
<1> DEFINE r == cur[h]
<1>1. /\ r \in Requests /\ Busy(h) /\ httpPc[h] = "finalize"
  BY BusyHasRequest DEF ReleaseOne, Busy
<1>2. r \notin Finalized /\ finalized[r] = 0
  BY <1>1 DEF FinishedInv, Finalized
<1>3. /\ semaphore' = semaphore + 1
      /\ finalized' = [finalized EXCEPT ![r] = 1]
      /\ httpPc' = [httpPc EXCEPT ![h] = "report"]
      /\ UNCHANGED <<posted, httpQueue, cur>>
  BY <1>2 DEF ReleaseOne
<1>4. \A s \in Requests : finalized'[s] = IF s = r THEN 1 ELSE finalized[s]
  BY <1>3 DEF TypeOK, SharedTypeOK
<1>5. Finalized' = Finalized \cup {r}
  BY <1>1, <1>4 DEF Finalized
<1>6. Cardinality(Finalized') = Cardinality(Finalized) + 1
  <2>1. IsFiniteSet(Requests)
    BY FS_Interval, SizesAssumption DEF Requests
  <2>2. IsFiniteSet(Finalized)
    BY <2>1, FS_Subset DEF Finalized
  <2> HIDE DEF r
  <2> QED
    BY <1>2, <1>5, <2>2, FS_AddElement
<1>7. \A g \in Handlers : g # h /\ Busy(g) => cur[g] # r
  BY <1>1 DEF PlacesInv
<1>8. \A g \in Handlers : httpPc'[g] = IF g = h THEN "report" ELSE httpPc[g]
  BY <1>3 DEF TypeOK, HttpTypeOK
<1>9. \A g \in Handlers : Busy(g)' => (cur'[g] \in Finalized' <=> httpPc'[g] = "report")
  BY <1>3, <1>5, <1>7, <1>8 DEF FinishedInv, Busy
<1>10. \A g \in Handlers : \A i \in DOMAIN httpQueue[g] : httpQueue[g][i] \notin Finalized'
  BY <1>5 DEF FinishedInv, PlacesInv
<1>11. \A s \in Finalized' : s <= posted
  BY <1>1, <1>5 DEF FinishedInv, PlacesInv
<1>12. \A s \in Requests : finalized'[s] \in {0, 1}
  BY <1>4 DEF FinishedInv
<1>13. semaphore' = Cardinality(Finalized')
  BY <1>3, <1>6 DEF FinishedInv
<1> QED
  BY <1>1, <1>2, <1>3, <1>9, <1>10, <1>11, <1>12, <1>13 DEF FinishedInv

LEMMA FinishedStep ==
  ASSUME TypeOK, PlacesInv, FinishedInv, [Next]_vars
  PROVE  FinishedInv'
<1>1. CASE PostRequest
  BY <1>1, FinishedPost
<1>2. CASE (Main \/ SpuriousWakeup \/ Interrupt \/ Writer \/ UNCHANGED vars) /\ ~PostRequest
  <2>1. UNCHANGED <<finalized, posted, httpQueue, semaphore, httpPc, cur>>
    BY <1>2 DEF Main, CheckFinished, StopHandler, JoinHandler,
       ReapRequest, DestroyMembers, StopWriter, JoinWriter, SpuriousWakeup,
       Interrupt, Writer, RunInsert, RunUpdate, Executed, ReleaseLock, WriterExit,
       vars, mainVars, httpVars
  <2> QED
    BY <2>1, FinishedFrame DEF Busy
<1>3. ASSUME NEW h \in Handlers, Handler(h)
      PROVE  FinishedInv'
  <2>1. CASE TakeRequest(h)
    BY <2>1, FinishedTake
  <2>2. CASE ReleaseOne(h)
    BY <2>2, FinishedRelease
  <2>3. CASE \/ HttpError(h) \/ HttpResponse(h) \/ PostInsert(h) \/ PostUpdate(h)
             \/ AwaitUpdate(h) \/ ReportProgress(h) \/ HandlerExit(h)
    <3>1. UNCHANGED <<finalized, posted, httpQueue, semaphore>>
      BY <2>3 DEF HttpError, HttpResponse, PostInsert, PostUpdate, AwaitUpdate,
         ReportProgress, HandlerExit, mainVars
    <3>2. \A g \in Handlers : Busy(g)' =>
            /\ Busy(g) /\ cur'[g] = cur[g]
            /\ httpPc'[g] = "report" <=> httpPc[g] = "report"
      BY <2>3 DEF HttpError, HttpResponse, PostInsert, PostUpdate, AwaitUpdate,
         ReportProgress, HandlerExit, TypeOK, HttpTypeOK, Busy
    <3> QED
      BY <3>1, <3>2, FinishedFrame
  <2> QED
    BY <1>3, <2>1, <2>2, <2>3 DEF Handler
<1> QED
  BY <1>1, <1>2, <1>3 DEF Next, Terminated

\* A step that runs no query is invisible in the tables.
LEMMA TablesFrame ==
  ASSUME TypeOK, PlacesInv, WriterInv, [Next]_vars, results' = results
  PROVE  Marked' = Marked /\ \A r \in Requests : RowsOf(r)' = RowsOf(r)
<1>1. /\ dbLog \in Seq(Jobs) /\ Len(results) <= Len(dbLog)
      /\ DOMAIN results = 1 .. Len(results) /\ DOMAIN dbLog = 1 .. Len(dbLog)
      /\ Len(results) \in Nat /\ Len(dbLog) \in Nat
  BY DEF TypeOK, WriterTypeOK, WriterInv
<1>2. \A i \in DOMAIN dbLog : dbLog'[i] = dbLog[i]
  <2>1. dbLog' = dbLog \/ \E job \in Jobs : dbLog' = Append(dbLog, job)
    BY LogGrows DEF Jobs
  <2> QED
    BY <1>1, <2>1
<1>3. \A i \in DOMAIN results : dbLog'[i] = dbLog[i]
  BY <1>1, <1>2
<1>4. Marked' = Marked
  BY <1>3 DEF Marked
<1>5. \A r \in Requests : RowsOf(r)' = RowsOf(r)
  BY <1>3 DEF RowsOf
<1> QED
  BY <1>4, <1>5

\* Where no worker takes, finishes or reports, the types' phases stay.
LEMMA PhaseFrame ==
  ASSUME finalized' = finalized,
         \A r \in Requests : finalized[r] > 0 \/
           ((\E h \in Handlers : cur'[h] = r) <=> (\E h \in Handlers : cur[h] = r))
  PROVE  \A r \in Requests : Phase(r)' = Phase(r)
BY DEF Phase

\* The phases, the rows and the stage are all that the batch's variables hold.
LEMMA BatchFrame ==
  ASSUME \A r \in Requests : Phase(r)' = Phase(r),
         \A r \in Requests : RowsOf(r)' = RowsOf(r),
         Marked' = Marked, sigCaught' = sigCaught, Stage' = Stage
  PROVE  UNCHANGED Batch!vars
<1>1. [r \in Requests |-> Phase(r)]' = [r \in Requests |-> Phase(r)]
  OBVIOUS
<1>2. [r \in Requests |-> Cardinality(RowsOf(r))]' = [r \in Requests |-> Cardinality(RowsOf(r))]
  OBVIOUS
<1> QED
  BY <1>1, <1>2 DEF Batch!vars

\* A query run is a row stored, a type marked, or nothing.
LEMMA BatchQuery ==
  ASSUME TypeOK, IInv, FinishedInv, RunInsert \/ RunUpdate
  PROVE  [Batch!Next]_Batch!vars
<1> USE DEF IInv
<1>1. PICK j \in DOMAIN dbLog, o \in Outcomes :
        /\ dbNext = j /\ j = Len(results) + 1
        /\ results' = Append(results, o)
        /\ dbLog' = dbLog
  BY QueryRuns
<1>2. PICK t \in Requests : t = dbLog[j].req /\ dbLog[j] \in Jobs
  BY <1>1, LogEntry
<1>3. /\ UNCHANGED <<cur, finalized, sigCaught, mainPc>>
  BY DEF RunInsert, RunUpdate, Executed, mainVars, httpVars
<1>4. /\ Len(results) \in Nat /\ DOMAIN results = 1 .. Len(results)
      /\ DOMAIN results' = DOMAIN results \cup {j} /\ results'[j] = o
      /\ \A i \in DOMAIN results : results'[i] = results[i] /\ i # j /\ i < j
      /\ DOMAIN results \subseteq DOMAIN dbLog
  <2>1. results \in Seq(Outcomes) /\ dbLog \in Seq(Jobs) /\ j <= Len(dbLog)
    BY <1>1 DEF TypeOK, WriterTypeOK
  <2> QED
    BY <1>1, <2>1
<1>5. Phase(t) = "active" /\ \A r \in Requests : Phase(r)' = Phase(r)
  <2>1. j \in dbNext .. Len(dbLog)
    BY <1>1 DEF TypeOK, WriterTypeOK
  <2>2. PICK h \in Handlers : httpPc[h] \in {"parse", "awaitUpdate"} /\ cur[h] = t
    BY <1>2, <2>1 DEF WaitInv
  <2>3. t \notin Finalized
    BY <2>2 DEF FinishedInv, Busy
  <2>4. ~(finalized[t] > 0)
    BY <1>2, <2>3 DEF Finalized
  <2> QED
    BY <1>3, <2>2, <2>4, PhaseFrame DEF Phase
<1>6. t \notin Marked
  <2> SUFFICES ASSUME t \in Marked PROVE FALSE
    OBVIOUS
  <2>1. PICK i \in DOMAIN results : dbLog[i] = [req |-> t, kind |-> "update"]
    BY DEF Marked
  <2>2. i \in DOMAIN dbLog /\ dbLog[i].kind = "update" /\ dbLog[j].req = dbLog[i].req
    BY <1>4, <1>2, <2>1
  <2>3. j <= i
    BY <1>1, <2>2 DEF LogInv
  <2> QED
    BY <1>4, <2>1, <2>3
<1>7. Stage' = Stage
  BY <1>3 DEF Stage
<1>8. \A r \in Requests :
        RowsOf(r)' = IF dbLog[j] = [req |-> r, kind |-> "insert"] /\ o = "ok"
                     THEN RowsOf(r) \cup {j} ELSE RowsOf(r)
  BY <1>1, <1>4 DEF RowsOf
<1>9. Marked' = IF dbLog[j] = [req |-> t, kind |-> "update"] /\ o = "ok"
                THEN Marked \cup {t} ELSE Marked
  <2>1. \A r \in Requests : dbLog[j] = [req |-> r, kind |-> "update"] => r = t
    BY <1>2
  <2> QED
    BY <1>1, <1>4, <1>2, <2>1 DEF Marked
<1>10. CASE dbLog[j] = [req |-> t, kind |-> "insert"] /\ o = "ok"
  <2>1. \A r \in Requests : dbLog[j] = [req |-> r, kind |-> "insert"] <=> r = t
    BY <1>10
  <2>2. Marked' = Marked
    BY <1>9, <1>10
  <2>3. Cardinality(RowsOf(t)') = Cardinality(RowsOf(t)) + 1
    <3>1. IsFiniteSet(RowsOf(t))
      <4>1. IsFiniteSet(DOMAIN results)
        BY <1>4, FS_Interval
      <4> QED
        BY <4>1, FS_Subset DEF RowsOf
    <3>2. j \notin RowsOf(t)
      BY <1>4 DEF RowsOf
    <3>3. RowsOf(t)' = RowsOf(t) \cup {j}
      BY <1>2, <1>8, <1>10, Zenon
    <3> QED
      BY <3>1, <3>2, <3>3, FS_AddElement
  <2>4. [r \in Requests |-> Cardinality(RowsOf(r))]' =
          [[r \in Requests |-> Cardinality(RowsOf(r))] EXCEPT ![t] = @ + 1]
    <3>1. \A r \in Requests : r # t => RowsOf(r)' = RowsOf(r)
      BY <1>8, <2>1, Zenon
    <3>2. \A r \in Requests : Cardinality(RowsOf(r)') =
            IF r = t THEN Cardinality(RowsOf(t)) + 1 ELSE Cardinality(RowsOf(r))
      BY <2>3, <3>1, Zenon
    <3> QED
      BY <1>2, <3>2
  <2>5. [r \in Requests |-> Phase(r)]' = [r \in Requests |-> Phase(r)]
    BY <1>5
  <2>6. Batch!Store(t)
    BY <1>3, <1>2, <1>5, <1>6, <1>7, <2>2, <2>4, <2>5 DEF Batch!Store
  <2> QED
    BY <1>2, <2>6 DEF Batch!Next
<1>11. CASE dbLog[j] = [req |-> t, kind |-> "update"] /\ o = "ok"
  <2>1. Marked' = Marked \cup {t}
    BY <1>9, <1>11
  <2>2. \A r \in Requests : RowsOf(r)' = RowsOf(r)
    <3>1. \A r \in Requests : dbLog[j] # [req |-> r, kind |-> "insert"]
      BY <1>11
    <3> QED
      BY <1>8, <3>1, Zenon
  <2>3. [r \in Requests |-> Cardinality(RowsOf(r))]' =
          [r \in Requests |-> Cardinality(RowsOf(r))]
    BY <2>2
  <2>4. [r \in Requests |-> Phase(r)]' = [r \in Requests |-> Phase(r)]
    BY <1>5
  <2>5. Batch!Mark(t)
    BY <1>3, <1>2, <1>5, <1>6, <1>7, <2>1, <2>3, <2>4 DEF Batch!Mark
  <2> QED
    BY <1>2, <2>5 DEF Batch!Next
<1>12. CASE o # "ok"
  BY <1>3, <1>5, <1>7, <1>8, <1>9, <1>12, BatchFrame
<1>13. dbLog[j] = [req |-> t, kind |-> "insert"] \/ dbLog[j] = [req |-> t, kind |-> "update"]
  BY <1>2 DEF Jobs
<1> QED
  BY <1>10, <1>11, <1>12, <1>13

\* A worker takes a request, finalizes it, or does what only it can see.
LEMMA BatchWorker ==
  ASSUME TypeOK, IInv, FinishedInv, [Next]_vars, NEW h \in Handlers, Handler(h)
  PROVE  [Batch!Next]_Batch!vars
<1> USE DEF IInv
<1>1. /\ UNCHANGED <<results, sigCaught>>
      /\ mainPc' = mainPc \/ (mainPc = "asleep" /\ mainPc' = "check")
  BY DEF Handler, TakeRequest, HttpError, HttpResponse, PostInsert, PostUpdate,
     AwaitUpdate, ReleaseOne, ReportProgress, HandlerExit, mainVars, dbVars
<1>2. /\ Marked' = Marked /\ \A r \in Requests : RowsOf(r)' = RowsOf(r)
      /\ Stage' = Stage
  BY <1>1, TablesFrame DEF Stage
<1>3. [r \in Requests |-> Cardinality(RowsOf(r))]' =
        [r \in Requests |-> Cardinality(RowsOf(r))]
  BY <1>2
<1>4. CASE TakeRequest(h)
  <2> DEFINE t == httpQueue[h][1]
  <2>1. /\ httpQueue[h] \in Seq(Requests) /\ httpQueue[h] # <<>>
        /\ cur' = [cur EXCEPT ![h] = t] /\ finalized' = finalized
        /\ httpPc[h] = "idle"
    BY <1>4 DEF TakeRequest, TypeOK, HttpTypeOK
  <2>2. 1 \in DOMAIN httpQueue[h] /\ t \in Requests
    BY <2>1
  <2>3. t \notin Finalized /\ ~(finalized[t] > 0) /\ \A g \in Handlers : cur[g] # t
    BY <2>2 DEF FinishedInv, PlacesInv, Finalized
  <2>4. Stage # "closed"
    BY <2>1, TearDownWorkers DEF Stage, TearDown
  <2>5. cur[h] = None /\ \A g \in Handlers : cur'[g] = IF g = h THEN t ELSE cur[g]
    BY <2>1 DEF PlacesInv, Busy, TypeOK, HttpTypeOK
  <2> HIDE DEF t
  <2>6. \A r \in Requests : (\E g \in Handlers : cur'[g] = r)
                              <=> r = t \/ \E g \in Handlers : cur[g] = r
    BY <2>2, <2>5, SizesAssumption DEF None, Requests
  <2>7. \A r \in Requests : Phase(r)' = IF r = t THEN "active" ELSE Phase(r)
    BY <2>1, <2>3, <2>6 DEF Phase
  <2>8. Phase(t) = "waiting"
    BY <2>3 DEF Phase
  <2>9. [r \in Requests |-> Phase(r)]' = [[r \in Requests |-> Phase(r)] EXCEPT ![t] = "active"]
    BY <2>2, <2>7
  <2>10. Batch!Start(t)
    BY <1>1, <1>2, <1>3, <2>2, <2>4, <2>8, <2>9 DEF Batch!Start
  <2> QED
    BY <2>2, <2>10 DEF Batch!Next
<1>5. CASE ReleaseOne(h)
  <2> DEFINE t == cur[h]
  <2>1. t \in Requests /\ finalized[t] = 0 /\ finalized' = [finalized EXCEPT ![t] = 1]
    BY <1>5, FinishedRelease
  <2>2. cur' = cur
    BY <1>5 DEF ReleaseOne
  <2>3. Phase(t) = "active"
    BY <2>1 DEF Phase
  <2>4. \A r \in Requests : finalized'[r] = IF r = t THEN 1 ELSE finalized[r]
    BY <2>1 DEF TypeOK, SharedTypeOK
  <2> HIDE DEF t
  <2>5. \A r \in Requests : Phase(r)' = IF r = t THEN "finished" ELSE Phase(r)
    BY <2>1, <2>2, <2>4 DEF Phase
  <2>6. [r \in Requests |-> Phase(r)]' = [[r \in Requests |-> Phase(r)] EXCEPT ![t] = "finished"]
    BY <2>1, <2>5
  <2>7. Batch!Finish(t)
    BY <1>1, <1>2, <1>3, <2>1, <2>3, <2>6 DEF Batch!Finish
  <2> QED
    BY <2>1, <2>7 DEF Batch!Next
<1>6. CASE ReportProgress(h)
  <2>1. /\ finalized' = finalized /\ cur' = [cur EXCEPT ![h] = None] /\ httpPc[h] = "report"
    BY <1>6 DEF ReportProgress
  <2>2. cur[h] \in Requests /\ finalized[cur[h]] > 0
    BY <2>1, BusyHasRequest DEF FinishedInv, Finalized, Busy
  <2>3. \A g \in Handlers : cur'[g] = IF g = h THEN None ELSE cur[g]
    BY <2>1 DEF TypeOK, HttpTypeOK
  <2>4. \A r \in Requests : finalized[r] > 0 \/
          ((\E g \in Handlers : cur'[g] = r) <=> (\E g \in Handlers : cur[g] = r))
    BY <2>2, <2>3, SizesAssumption DEF None, Requests
  <2> QED
    BY <1>1, <1>2, <2>1, <2>4, PhaseFrame, BatchFrame
<1>7. CASE \/ HttpError(h) \/ HttpResponse(h) \/ PostInsert(h) \/ PostUpdate(h)
           \/ AwaitUpdate(h) \/ HandlerExit(h)
  <2>1. UNCHANGED <<cur, finalized>>
    BY <1>7 DEF HttpError, HttpResponse, PostInsert, PostUpdate, AwaitUpdate, HandlerExit
  <2> QED
    BY <1>1, <1>2, <2>1, PhaseFrame, BatchFrame
<1> QED
  BY <1>4, <1>5, <1>6, <1>7 DEF Handler

\* main leaves when all are finished or interrupted, and closes when none is active.
LEMMA BatchMain ==
  ASSUME TypeOK, IInv, FinishedInv, [Next]_vars, Main \/ SpuriousWakeup \/ Interrupt
  PROVE  [Batch!Next]_Batch!vars
<1> USE DEF IInv
<1>1. UNCHANGED <<cur, finalized, results>>
  BY DEF Main, PostRequest, CheckFinished, StopHandler, JoinHandler, ReapRequest,
     DestroyMembers, StopWriter, JoinWriter, SpuriousWakeup, Interrupt,
     mainVars, httpVars, dbVars
<1>2. /\ Marked' = Marked
      /\ \A r \in Requests : RowsOf(r)' = RowsOf(r)
      /\ \A r \in Requests : Phase(r)' = Phase(r)
  BY <1>1, TablesFrame, PhaseFrame
<1>3. /\ [r \in Requests |-> Cardinality(RowsOf(r))]' =
           [r \in Requests |-> Cardinality(RowsOf(r))]
      /\ [r \in Requests |-> Phase(r)]' = [r \in Requests |-> Phase(r)]
  BY <1>2
<1>4. CASE CheckFinished
  <2>1. CASE mainPc' = "asleep"
    <3>1. Stage' = Stage /\ sigCaught' = sigCaught
      BY <1>4, <2>1 DEF CheckFinished, Stage
    <3> QED
      BY <1>2, <3>1, BatchFrame
  <2>2. CASE mainPc' # "asleep"
    <3>1. /\ Stage = "running" /\ Stage' = "closing" /\ sigCaught' = sigCaught
          /\ sigCaught \/ semaphore >= NReq
      BY <1>4, <2>2 DEF CheckFinished, Stage
    <3>2. sigCaught \/ \A r \in Requests : Phase(r) = "finished"
      <4> SUFFICES ASSUME semaphore >= NReq
                   PROVE  \A r \in Requests : Phase(r) = "finished"
        BY <3>1
      <4>1. IsFiniteSet(Requests) /\ Cardinality(Requests) = NReq
        BY FS_Interval, SizesAssumption DEF Requests
      <4>2. Finalized \in SUBSET Requests
        BY DEF Finalized
      <4>3. /\ Cardinality(Finalized) <= Cardinality(Requests)
            /\ Cardinality(Finalized) = Cardinality(Requests) => Finalized = Requests
        BY <4>1, <4>2, FS_Subset
      <4>4. Cardinality(Finalized) = Cardinality(Requests)
        BY <4>1, <4>3, SizesAssumption DEF FinishedInv, TypeOK, SharedTypeOK
      <4> QED
        BY <4>3, <4>4 DEF Finalized, Phase
    <3>3. Batch!Leave
      BY <1>2, <1>3, <3>1, <3>2 DEF Batch!Leave
    <3> QED
      BY <3>3 DEF Batch!Next
  <2> QED
    BY <2>1, <2>2
<1>5. CASE JoinWriter
  <2>1. Stage = "closing" /\ Stage' = "closed" /\ sigCaught' = sigCaught
    BY <1>5 DEF JoinWriter, Stage
  <2>2. \A h \in Handlers : cur[h] = None
    BY <1>5, TearDownWorkers DEF JoinWriter, TearDown, PlacesInv, Busy
  <2>3. \A r \in Requests : Phase(r) # "active"
    BY <2>2, SizesAssumption DEF Phase, None, Requests
  <2>4. Batch!Close
    BY <1>2, <1>3, <2>1, <2>3 DEF Batch!Close
  <2> QED
    BY <2>4 DEF Batch!Next
<1>6. CASE Interrupt
  <2>1. Stage' = Stage /\ sigCaught' = TRUE
    BY <1>6 DEF Interrupt, mainVars, Stage
  <2>2. Batch!Interrupt
    BY <1>2, <1>3, <2>1 DEF Batch!Interrupt
  <2> QED
    BY <2>2 DEF Batch!Next
<1>7. CASE \/ PostRequest \/ SpuriousWakeup \/ StopHandler \/ JoinHandler
           \/ (\E r \in Requests : ReapRequest(r)) \/ DestroyMembers \/ StopWriter
  <2>1. Stage' = Stage /\ sigCaught' = sigCaught
    BY <1>7 DEF PostRequest, SpuriousWakeup, StopHandler, JoinHandler, ReapRequest,
       DestroyMembers, StopWriter, Stage
  <2> QED
    BY <1>2, <2>1, BatchFrame
<1> QED
  BY <1>4, <1>5, <1>6, <1>7 DEF Main

\* Seen from outside the pipeline is a batch of types: the rows of a type are
\* stored before it is marked and never after, each is finished once, and the
\* batch is closed with nothing in flight (HistoryHandler, HistoryRequest).
THEOREM PipelineImplementsBatch == Spec => ImplementsBatch
<1>1. Init => Batch!Init
  <2> SUFFICES ASSUME Init PROVE Batch!Init
    OBVIOUS
  <2>1. \A r \in Requests : Phase(r) = "waiting"
    BY SizesAssumption DEF Init, Phase, None, Requests
  <2>2. \A r \in Requests : RowsOf(r) = {}
    BY DEF Init, RowsOf
  <2>3. Marked = {} /\ Stage = "running" /\ ~sigCaught /\ sigCaught = FALSE
    BY DEF Init, Marked, Stage
  <2>4. \A r \in Requests : Cardinality(RowsOf(r)) = 0
    BY <2>2, FS_EmptySet
  <2> QED
    BY <2>1, <2>3, <2>4 DEF Batch!Init
<1>2. TypeOK /\ IInv /\ FinishedInv /\ [Next]_vars => [Batch!Next]_Batch!vars
  <2> SUFFICES ASSUME TypeOK, IInv, FinishedInv, [Next]_vars
               PROVE  [Batch!Next]_Batch!vars
    OBVIOUS
  <2>1. CASE Main \/ SpuriousWakeup \/ Interrupt
    BY <2>1, BatchMain
  <2>2. CASE \E h \in Handlers : Handler(h)
    BY <2>2, BatchWorker
  <2>3. CASE RunInsert \/ RunUpdate
    BY <2>3, BatchQuery
  <2>4. CASE ReleaseLock \/ WriterExit \/ UNCHANGED vars
    <3>1. UNCHANGED <<results, cur, finalized, sigCaught, mainPc>>
      BY <2>4 DEF ReleaseLock, WriterExit, vars, mainVars, httpVars, dbVars
    <3>2. Marked' = Marked /\ \A r \in Requests : RowsOf(r)' = RowsOf(r)
      BY <3>1, TablesFrame DEF IInv
    <3> QED
      BY <3>1, <3>2, PhaseFrame, BatchFrame DEF Stage
  <2> QED
    BY <2>1, <2>2, <2>3, <2>4 DEF Next, Writer, Terminated
<1>3. TypeOK /\ IInv /\ FinishedInv /\ [Next]_vars => FinishedInv'
  BY FinishedStep DEF IInv
<1> QED
  BY <1>1, <1>2, <1>3, FinishedInit, Invariance, PTL DEF Spec, ImplementsBatch, Batch!Spec
=============================================================================
