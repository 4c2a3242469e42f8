-------------------------- MODULE OrderReaderProofs --------------------------
(***************************************************************************)
(* Machine-checked proofs about OrderReader, for every region, every       *)
(* listing of the server and any number of killed runs.                    *)
(***************************************************************************)
EXTENDS OrderReader, TLAPS

Entries == [id : Orders, valid : BOOLEAN]

\* The number of pages, and of runs, is a number.
LEMMA Sizes == Len(Listing) \in Nat /\ MaxRuns \in Nat /\ MaxRuns >= 1
<1>1. Len(Listing) \in Nat
  BY ListingAssumption
<1> QED
  BY <1>1, RunsAssumption

\* A page of the listing is a sequence of entries.
LEMMA PageType ==
  ASSUME NEW p \in 1 .. Len(Listing)
  PROVE  Listing[p] \in Seq(Entries)
BY ListingAssumption DEF Entries

\* The query the database thread is at belongs to an order of the region.
LEMMA OrderType ==
  ASSUME IInv, dbNext <= Len(handlers)
  PROVE  Order \in Orders /\ dbNext \in DOMAIN handlers
BY DEF IInv, TypeOK, Order

LEMMA InitInv == Init => IInv
<1> SUFFICES ASSUME Init PROVE IInv
  OBVIOUS
<1>1. PICK stored \in SUBSET Orders :
        active = stored /\ known = stored /\ sides = stored /\ views = stored
  BY DEF Init
<1>2. TypeOK
  <2>1. /\ page \in 0 .. Len(Listing) /\ runs \in 1 .. MaxRuns
        /\ todo \in Seq(Entries) /\ handlers \in Seq(Orders) /\ steps \in Seq(0 .. 3)
    BY Sizes DEF Init
  <2>2. sigCaught \in BOOLEAN /\ cleared \in BOOLEAN /\ complete \in BOOLEAN
        /\ dbStopped \in BOOLEAN
    BY DEF Init
  <2>3. /\ active \subseteq known /\ known \subseteq Orders
        /\ sides \subseteq Orders /\ views \subseteq Orders
    BY <1>1
  <2>4. mainPc = "deactivate" /\ dbPc = "idle" /\ dbNext = 1 /\ semaphore = 0
        /\ destroyed = {}
    BY DEF Init
  <2> QED
    BY <2>1, <2>2, <2>3, <2>4 DEF TypeOK, Entries
<1>3. WriterInv /\ CountInv /\ MainInv /\ RowsInv
  <2>1. /\ handlers = <<>> /\ steps = <<>> /\ dbNext = 1 /\ dbPc = "idle" /\ semaphore = 0
        /\ mainPc = "deactivate" /\ destroyed = {} /\ ~dbStopped /\ ~cleared
    BY DEF Init
  <2>2. Len(handlers) = 0 /\ Len(steps) = 0
    BY <2>1
  <2>3. WriterInv
    BY <2>1, <2>2 DEF WriterInv
  <2>4. CountInv
    <3>1. ~Left
      BY <2>1 DEF Left
    <3>2. Released = 0 /\ Acquired = 0
      BY <2>1, <3>1 DEF Released, Acquired
    <3> QED
      BY <2>1, <3>1, <3>2 DEF CountInv
  <2>5. MainInv /\ RowsInv
    BY <2>1, <2>2 DEF MainInv, RowsInv
  <2> QED
    BY <2>3, <2>4, <2>5
<1>4. ActiveIsStored /\ ViewsHaveOrders
  BY <1>1 DEF Init, ActiveIsStored, ViewsHaveOrders
<1> QED
  BY <1>2, <1>3, <1>4 DEF IInv

\* What a step of the main thread that neither posts a query, nor writes the
\* database, nor starts to tear down preserves.
LEMMA MainStep ==
  ASSUME IInv, UNCHANGED <<handlers, semaphore, dbVars, tables, sigCaught, runs>>,
         TypeOK', MainInv', Left' <=> Left, cleared' = cleared
  PROVE  IInv'
<1>1. WriterInv'
  BY DEF IInv, WriterInv, dbVars
<1>2. CountInv'
  BY DEF IInv, CountInv, Released, Acquired, dbVars
<1>3. RowsInv'
  BY DEF IInv, RowsInv, Order, dbVars, tables
<1>4. ActiveIsStored'
  BY DEF IInv, ActiveIsStored, Stored, dbVars, tables
<1>5. ViewsHaveOrders'
  BY DEF IInv, ViewsHaveOrders, tables
<1> QED
  BY <1>1, <1>2, <1>3, <1>4, <1>5 DEF IInv

LEMMA DeactivateStep == ASSUME IInv, Deactivate PROVE IInv'
<1> USE DEF IInv, TypeOK, dbVars, tables
<1>1. mainPc = "deactivate" /\ handlers = <<>> /\ ~Left /\ destroyed = {}
  BY DEF Deactivate, MainInv, Left
<1>2. CASE UNCHANGED <<active, cleared>>
  <2>1. TypeOK' /\ MainInv' /\ ~Left'
    BY <1>1, <1>2 DEF Deactivate, MainGoes, MainInv, Left
  <2> QED
    BY <1>1, <1>2, <2>1, MainStep DEF Deactivate, MainGoes
<1>3. CASE active' = active \cap Unlocated /\ cleared' = TRUE /\ mainPc' = "first"
  <2>1. UNCHANGED <<handlers, semaphore, dbVars, known, sides, views>>
    BY <1>1, <1>3 DEF Deactivate, MainGoes
  <2>2. TypeOK' /\ MainInv' /\ ~Left'
    BY <1>1, <1>3 DEF Deactivate, MainInv, Left, MainGoes
  <2>3. WriterInv' /\ CountInv' /\ RowsInv' /\ ViewsHaveOrders'
    BY <1>1, <2>1, <2>2 DEF WriterInv, CountInv, Released, Acquired, RowsInv, Order, ViewsHaveOrders
  <2>4. Len(steps) = 0
    BY <1>1 DEF WriterInv
  <2>5. Stored' = {}
    BY <2>1, <2>4 DEF Stored
  <2>6. ActiveIsStored'
    BY <1>3, <2>5 DEF ActiveIsStored
  <2> QED
    BY <2>2, <2>3, <2>6
<1> QED
  BY <1>2, <1>3 DEF Deactivate, MainGoes

LEMMA FetchFirstStep == ASSUME IInv, FetchFirst PROVE IInv'
<1>1. TypeOK' /\ MainInv' /\ (Left' <=> Left)
  BY Sizes, ListingAssumption
  DEF FetchFirst, MainGoes, IInv, TypeOK, MainInv, Left, dbVars, tables
<1> QED
  BY <1>1, MainStep DEF FetchFirst, MainGoes

LEMMA ParseStep == ASSUME IInv, Parse PROVE IInv'
<1>1. Listing[page] \in Seq(Entries)
  BY PageType, Sizes DEF IInv, TypeOK, MainInv, Parse
<1>2. TypeOK' /\ MainInv' /\ (Left' <=> Left)
  BY <1>1 DEF Parse, MainGoes, IInv, TypeOK, MainInv, Left, dbVars, tables, Entries
<1> QED
  BY <1>2, MainStep DEF Parse, MainGoes

\* A query posted leaves the queries before it where they are.
LEMMA PostOrderStep == ASSUME IInv, PostOrder PROVE IInv'
<1>1. /\ Head(todo) \in Entries /\ Tail(todo) \in Seq(Entries)
      /\ todo' = Tail(todo) /\ ~Left /\ ~Left' /\ mainPc' = mainPc
      /\ UNCHANGED <<page, destroyed, cleared, complete, dbVars, tables,
                     semaphore, sigCaught, runs>>
  <2>1. todo \in Seq(Entries) /\ todo # <<>>
    BY DEF PostOrder, IInv, TypeOK, Entries
  <2>2. Head(todo) \in Entries /\ Tail(todo) \in Seq(Entries)
    BY <2>1
  <2> QED
    BY <2>2 DEF PostOrder, Left
<1>2. /\ handlers' \in Seq(Orders) /\ Len(handlers') >= Len(handlers)
      /\ \A i \in 1 .. Len(handlers) : handlers'[i] = handlers[i]
  <2>1. CASE handlers' = Append(handlers, Head(todo).id)
    BY <1>1, <2>1 DEF IInv, TypeOK, Entries
  <2>2. CASE handlers' = handlers
    BY <2>2 DEF IInv, TypeOK
  <2> QED
    BY <2>1, <2>2 DEF PostOrder
<1>3. TypeOK'
  BY <1>1, <1>2 DEF IInv, TypeOK, Entries, dbVars, tables
<1>4. Len(handlers) \in Nat /\ Len(handlers') \in Nat /\ dbNext \in Nat
  BY <1>2 DEF IInv, TypeOK
<1>5. WriterInv'
  BY <1>1, <1>2, <1>4 DEF IInv, WriterInv, dbVars
<1>6. CountInv'
  BY <1>1, <1>2, <1>4 DEF IInv, CountInv, Released, Acquired, dbVars
<1>7. MainInv'
  BY <1>1 DEF IInv, MainInv, PostOrder, Left, dbVars
<1>8. RowsInv'
  <2>1. dbPc \in {"side", "view"} => handlers'[dbNext] = handlers[dbNext]
    BY <1>2, <1>4 DEF IInv, WriterInv, TypeOK
  <2> QED
    BY <1>1, <2>1 DEF IInv, RowsInv, Order, dbVars, tables
<1>9. ActiveIsStored'
  <2>1. DOMAIN steps \subseteq 1 .. Len(handlers)
    BY <1>4 DEF IInv, WriterInv, TypeOK
  <2>2. Stored' = Stored
    BY <1>1, <1>2, <2>1 DEF Stored, dbVars
  <2> QED
    BY <1>1, <2>2 DEF IInv, ActiveIsStored, tables
<1>10. ViewsHaveOrders'
  BY <1>1 DEF IInv, ViewsHaveOrders, tables
<1> QED
  BY <1>3, <1>5, <1>6, <1>7, <1>8, <1>9, <1>10 DEF IInv

LEMMA LastPageStep == ASSUME IInv, LastPage PROVE IInv'
<1>1. TypeOK' /\ MainInv' /\ (Left' <=> Left)
  BY DEF LastPage, IInv, TypeOK, MainInv, Left, dbVars, tables
<1> QED
  BY <1>1, MainStep DEF LastPage

LEMMA FetchNextStep == ASSUME IInv, FetchNext PROVE IInv'
<1>1. TypeOK' /\ MainInv' /\ (Left' <=> Left)
  <2>1. CASE page' = page + 1
    <3>1. mainPc' \in {"wait", "parse"} /\ page' \in 1 .. Len(Listing) /\ ~Left /\ ~Left'
      BY <2>1, Sizes DEF FetchNext, MainGoes, IInv, TypeOK, Left
    <3>2. UNCHANGED <<todo, handlers, destroyed, cleared, complete>>
      BY DEF FetchNext, MainGoes
    <3> QED
      BY <3>1, <3>2 DEF FetchNext, IInv, TypeOK, MainInv, Left, dbVars, tables
  <2>2. CASE MainGoes("wait") \/ MainGoes("unwind")
    BY <2>2 DEF FetchNext, MainGoes, IInv, TypeOK, MainInv, Left, dbVars, tables
  <2> QED
    BY <2>1, <2>2 DEF FetchNext
<1> QED
  BY <1>1, MainStep DEF FetchNext, MainGoes

LEMMA AwaitQueriesStep == ASSUME IInv, AwaitQueries PROVE IInv'
<1>1. TypeOK' /\ MainInv' /\ (Left' <=> Left)
  BY DEF AwaitQueries, MainGoes, IInv, TypeOK, MainInv, Left, dbVars, tables
<1> QED
  BY <1>1, MainStep DEF AwaitQueries, MainGoes

\* The destructor has one release for every query: all have been run.
LEMMA UnwindStep == ASSUME IInv, Unwind PROVE IInv'
<1>1. /\ semaphore >= Len(handlers) /\ semaphore' = semaphore - Len(handlers)
      /\ ~Left /\ Left'
      /\ UNCHANGED <<page, todo, handlers, cleared, complete, dbVars, tables,
                     sigCaught, runs>>
      /\ semaphore \in Nat /\ Len(handlers) \in Nat
  BY DEF Unwind, IInv, TypeOK, Left
<1>2. TypeOK'
  <2>1. destroyed' \subseteq Members
    BY DEF Unwind, IInv, TypeOK, Members
  <2>2. semaphore' \in Nat
    BY <1>1
  <2> QED
    BY <1>1, <2>1, <2>2 DEF Unwind, IInv, TypeOK, dbVars, tables
<1>3. WriterInv' /\ RowsInv' /\ ViewsHaveOrders'
  BY <1>1 DEF IInv, WriterInv, RowsInv, Order, ViewsHaveOrders, dbVars, tables
<1>4. CountInv'
  <2>1. Acquired = 0 /\ Acquired' = Len(handlers)
    BY <1>1 DEF Acquired
  <2>2. Released' = Released /\ Released \in Int
    BY <1>1 DEF Released, dbVars, IInv, TypeOK
  <2>3. semaphore = Released
    BY <1>1, <2>1, <2>2 DEF IInv, CountInv
  <2> QED
    BY <1>1, <2>1, <2>2, <2>3 DEF CountInv
<1>5. MainInv'
  BY <1>1 DEF Unwind, IInv, MainInv, dbVars
<1>6. ActiveIsStored'
  BY <1>1 DEF IInv, ActiveIsStored, Stored, dbVars, tables
<1> QED
  BY <1>2, <1>3, <1>4, <1>5, <1>6 DEF IInv

\* Steps that change neither queries, rows nor the semaphore.
LEMMA QuietStep ==
  ASSUME IInv, TypeOK', MainInv',
         UNCHANGED <<handlers, semaphore, dbPc, dbNext, steps, tables, cleared>>,
         Left' <=> Left
  PROVE  IInv'
<1>1. WriterInv' /\ RowsInv' /\ ViewsHaveOrders'
  BY DEF IInv, WriterInv, RowsInv, Order, ViewsHaveOrders, tables
<1>2. CountInv'
  BY DEF IInv, CountInv, Released, Acquired
<1>3. ActiveIsStored'
  BY DEF IInv, ActiveIsStored, Stored, tables
<1> QED
  BY <1>1, <1>2, <1>3 DEF IInv

LEMMA StopWriterStep == ASSUME IInv, StopWriter PROVE IInv'
<1>1. TypeOK' /\ MainInv' /\ (Left' <=> Left)
  BY DEF StopWriter, MainGoes, IInv, TypeOK, MainInv, Left, dbVars, tables
<1> QED
  BY <1>1, QuietStep DEF StopWriter, MainGoes

LEMMA JoinWriterStep == ASSUME IInv, JoinWriter PROVE IInv'
<1>1. destroyed' \subseteq Members
  BY DEF JoinWriter, IInv, TypeOK, Members
<1>2. TypeOK' /\ MainInv' /\ (Left' <=> Left)
  BY <1>1 DEF JoinWriter, IInv, TypeOK, MainInv, Left, dbVars, tables
<1> QED
  BY <1>2, QuietStep DEF JoinWriter, dbVars

LEMMA InterruptStep == ASSUME IInv, Interrupt PROVE IInv'
<1>1. TypeOK' /\ MainInv' /\ (Left' <=> Left)
  BY DEF Interrupt, IInv, TypeOK, MainInv, Left, mainVars, dbVars, tables
<1> QED
  BY <1>1, QuietStep DEF Interrupt, mainVars, dbVars

\* The query that is begun is the next in the list, and the destructor is not
\* through: there is a query it has no release for.
LEMMA InsOrderStep == ASSUME IInv, InsOrder PROVE IInv'
<1>1. /\ dbPc = "idle" /\ dbNext <= Len(handlers) /\ Len(steps) = dbNext - 1
      /\ Order \in Orders /\ dbNext \in Nat \ {0} /\ steps \in Seq(0 .. 3)
      /\ dbNext \in DOMAIN handlers
  BY OrderType DEF InsOrder, IInv, TypeOK, WriterInv
<1>2. /\ UNCHANGED <<mainVars, dbNext, dbStopped, sides, views, semaphore, sigCaught, runs>>
      /\ Order' = Order /\ (Left' <=> Left)
  BY DEF InsOrder, Order, Left, mainVars
<1>3. PICK n \in {0, 1} :
        /\ steps' = Append(steps, n)
        /\ dbPc' = IF n = 1 THEN "side" ELSE "finalize"
        /\ known' = IF n = 1 THEN known \cup {Order} ELSE known
        /\ active' = IF n = 1 THEN active \cup {Order} ELSE active
  BY DEF InsOrder
<1>4. /\ steps' \in Seq(0 .. 3) /\ Len(steps') = dbNext /\ steps'[dbNext] = n
      /\ \A i \in 1 .. dbNext - 1 : steps'[i] = steps[i]
  BY <1>1, <1>3
<1>5. TypeOK'
  BY <1>1, <1>2, <1>3, <1>4 DEF IInv, TypeOK, mainVars
<1>6. WriterInv'
  BY <1>1, <1>2, <1>3, <1>4 DEF WriterInv, mainVars
<1>7. CountInv'
  <2>1. Acquired' = Acquired
    BY <1>2 DEF Acquired, mainVars
  <2>2. Released' = Released
    BY <1>1, <1>2, <1>3 DEF Released
  <2>3. UNCHANGED <<semaphore, handlers>>
    BY <1>2 DEF mainVars
  <2> QED
    BY <1>2, <2>1, <2>2, <2>3 DEF IInv, CountInv
<1>8. MainInv' /\ RowsInv' /\ ViewsHaveOrders'
  BY <1>2, <1>3 DEF IInv, MainInv, RowsInv, ViewsHaveOrders, Left, mainVars
<1>9. ActiveIsStored'
  <2>1. DOMAIN steps = 1 .. dbNext - 1 /\ DOMAIN steps' = 1 .. dbNext
    BY <1>1, <1>4
  <2>2. Stored' = IF n = 1 THEN Stored \cup {Order} ELSE Stored
    BY <1>1, <1>2, <1>4, <2>1 DEF Stored, Order, mainVars
  <2> QED
    BY <1>2, <1>3, <2>2 DEF IInv, ActiveIsStored, mainVars
<1> QED
  BY <1>5, <1>6, <1>7, <1>8, <1>9 DEF IInv

\* The later two statements of a query leave `step` at one or above.
LEMMA StepsOnly ==
  ASSUME IInv, dbPc \in {"side", "view"}, NEW n \in 2 .. 3,
         steps' = [steps EXCEPT ![dbNext] = n], UNCHANGED <<handlers, dbNext>>
  PROVE  /\ steps' \in Seq(0 .. 3) /\ Len(steps') = Len(steps)
         /\ dbNext \in DOMAIN steps /\ steps'[dbNext] = n
         /\ Stored' = Stored
<1>1. dbNext \in DOMAIN steps /\ steps \in Seq(0 .. 3) /\ steps[dbNext] \in {1, 2}
  BY DEF IInv, WriterInv, TypeOK
<1>2. /\ steps' \in Seq(0 .. 3) /\ Len(steps') = Len(steps) /\ steps'[dbNext] = n
      /\ DOMAIN steps' = DOMAIN steps
      /\ \A i \in DOMAIN steps \ {dbNext} : steps'[i] = steps[i]
  BY <1>1
<1>3. \A i \in DOMAIN steps : steps'[i] >= 1 <=> steps[i] >= 1
  BY <1>1, <1>2
<1>4. Stored' = Stored
  BY <1>2, <1>3 DEF Stored
<1> QED
  BY <1>1, <1>2, <1>4

LEMMA InsSideStep == ASSUME IInv, InsSide PROVE IInv'
<1>1. /\ dbPc = "side" /\ Order \in Orders /\ Order \in known
      /\ dbPc' \in {"view", "finalize"}
      /\ UNCHANGED <<mainVars, dbNext, dbStopped, active, known, views, semaphore,
                     sigCaught, runs>>
      /\ Order' = Order /\ (Left' <=> Left)
  BY OrderType DEF InsSide, IInv, WriterInv, RowsInv, Order, Left, mainVars
<1>2. /\ steps' \in Seq(0 .. 3) /\ Len(steps') = Len(steps) /\ Stored' = Stored
      /\ dbPc' = "view" => steps'[dbNext] = 2 /\ Order \in sides'
      /\ sides \subseteq sides' /\ sides' \subseteq Orders
  <2>1. CASE dbPc' = "view"
    BY <1>1, <2>1, StepsOnly DEF InsSide, mainVars, IInv, TypeOK
  <2>2. CASE UNCHANGED <<sides, steps>> /\ dbPc' = "finalize"
    BY <1>1, <2>2 DEF IInv, TypeOK, Stored, mainVars
  <2> QED
    BY <2>1, <2>2 DEF InsSide
<1>3. TypeOK'
  BY <1>1, <1>2 DEF IInv, TypeOK, mainVars
<1>4. WriterInv'
  BY <1>1, <1>2 DEF IInv, WriterInv, mainVars
<1>5. CountInv'
  BY <1>1 DEF IInv, CountInv, Released, Acquired, mainVars
<1>6. MainInv' /\ RowsInv' /\ ViewsHaveOrders' /\ ActiveIsStored'
  BY <1>1, <1>2
  DEF IInv, MainInv, RowsInv, ViewsHaveOrders, ActiveIsStored, Left, mainVars
<1> QED
  BY <1>3, <1>4, <1>5, <1>6 DEF IInv

LEMMA InsOrderViewStep == ASSUME IInv, InsOrderView PROVE IInv'
<1>1. /\ dbPc = "view" /\ Order \in Orders /\ Order \in known \cap sides
      /\ dbPc' = "finalize"
      /\ UNCHANGED <<mainVars, dbNext, dbStopped, active, known, sides, semaphore,
                     sigCaught, runs>>
      /\ (Left' <=> Left)
  BY OrderType DEF InsOrderView, IInv, WriterInv, RowsInv, Left, mainVars
<1>2. /\ steps' \in Seq(0 .. 3) /\ Len(steps') = Len(steps) /\ Stored' = Stored
      /\ views' \subseteq views \cup {Order}
  <2>1. CASE steps' = [steps EXCEPT ![dbNext] = 3] /\ views' = views \cup {Order}
    BY <1>1, <2>1, StepsOnly DEF mainVars
  <2>2. CASE UNCHANGED <<views, steps>>
    BY <1>1, <2>2 DEF IInv, TypeOK, Stored, mainVars
  <2> QED
    BY <2>1, <2>2 DEF InsOrderView
<1>3. TypeOK'
  BY <1>1, <1>2 DEF IInv, TypeOK, mainVars
<1>4. WriterInv'
  BY <1>1, <1>2 DEF IInv, WriterInv, mainVars
<1>5. CountInv'
  BY <1>1 DEF IInv, CountInv, Released, Acquired, mainVars
<1>6. MainInv' /\ RowsInv' /\ ViewsHaveOrders' /\ ActiveIsStored'
  BY <1>1, <1>2
  DEF IInv, MainInv, RowsInv, ViewsHaveOrders, ActiveIsStored, Left, mainVars
<1> QED
  BY <1>3, <1>4, <1>5, <1>6 DEF IInv

\* The release adds one to what the destructor can acquire.
LEMMA ReleaseOneStep == ASSUME IInv, ReleaseOne PROVE IInv'
<1>1. /\ dbPc = "finalize" /\ dbPc' = "report" /\ semaphore' = semaphore + 1
      /\ UNCHANGED <<mainVars, dbNext, dbStopped, steps, tables, sigCaught, runs>>
      /\ (Left' <=> Left)
  BY DEF ReleaseOne, Left, mainVars
<1>2. TypeOK' /\ WriterInv' /\ MainInv' /\ RowsInv'
  BY <1>1 DEF IInv, TypeOK, WriterInv, MainInv, RowsInv, Left, mainVars, tables
<1>3. CountInv'
  <2>1. Acquired' = Acquired /\ Acquired \in Int /\ Len(handlers) \in Nat
    BY <1>1 DEF Acquired, mainVars, IInv, TypeOK
  <2>2. Released' = Released + 1 /\ Released \in Int
    BY <1>1 DEF Released, IInv, TypeOK
  <2>3. handlers' = handlers /\ semaphore \in Nat
    BY <1>1 DEF mainVars, IInv, TypeOK
  <2> QED
    BY <1>1, <2>1, <2>2, <2>3 DEF IInv, CountInv
<1>4. ViewsHaveOrders' /\ ActiveIsStored'
  BY <1>1 DEF IInv, ViewsHaveOrders, ActiveIsStored, Stored, mainVars, tables
<1> QED
  BY <1>2, <1>3, <1>4 DEF IInv

LEMMA ReportProgressStep == ASSUME IInv, ReportProgress PROVE IInv'
<1>1. /\ dbPc = "report" /\ dbPc' = "idle" /\ dbNext' = dbNext + 1
      /\ UNCHANGED <<mainVars, dbStopped, steps, tables, semaphore, sigCaught, runs>>
      /\ (Left' <=> Left)
  BY DEF ReportProgress, Left, mainVars
<1>2. TypeOK' /\ WriterInv' /\ MainInv' /\ RowsInv'
  BY <1>1 DEF IInv, TypeOK, WriterInv, MainInv, RowsInv, Left, mainVars, tables
<1>3. Released' = Released
  BY <1>1 DEF Released, IInv, TypeOK
<1>4. CountInv'
  BY <1>1, <1>3 DEF IInv, CountInv, Acquired, mainVars
<1>5. ViewsHaveOrders' /\ ActiveIsStored'
  BY <1>1 DEF IInv, ViewsHaveOrders, ActiveIsStored, Stored, mainVars, tables
<1> QED
  BY <1>2, <1>4, <1>5 DEF IInv

LEMMA WriterExitStep == ASSUME IInv, WriterExit PROVE IInv'
<1>1. /\ dbPc = "idle" /\ dbPc' = "exited" /\ dbStopped
      /\ UNCHANGED <<mainVars, dbNext, dbStopped, steps, tables, semaphore, sigCaught, runs>>
      /\ (Left' <=> Left)
  BY DEF WriterExit, Left, mainVars
<1>2. TypeOK' /\ WriterInv' /\ MainInv' /\ RowsInv'
  BY <1>1 DEF IInv, TypeOK, WriterInv, MainInv, RowsInv, Left, mainVars, tables
<1>3. CountInv'
  BY <1>1 DEF IInv, CountInv, Released, Acquired, mainVars
<1>4. ViewsHaveOrders' /\ ActiveIsStored'
  BY <1>1 DEF IInv, ViewsHaveOrders, ActiveIsStored, Stored, mainVars, tables
<1> QED
  BY <1>2, <1>3, <1>4 DEF IInv

\* A killed run leaves tables a run may start from.
LEMMA RestartStep == ASSUME IInv, Restart PROVE IInv'
<1>1. /\ handlers' = <<>> /\ steps' = <<>> /\ dbNext' = 1 /\ dbPc' = "idle"
      /\ semaphore' = 0 /\ mainPc' = "deactivate" /\ destroyed' = {}
      /\ ~dbStopped' /\ ~cleared' /\ page' = 0 /\ todo' = <<>>
      /\ UNCHANGED tables
  BY DEF Restart
<1>2. TypeOK'
  <2>1. /\ page' \in 0 .. Len(Listing) /\ runs' \in 1 .. MaxRuns
        /\ todo' \in Seq(Entries) /\ handlers' \in Seq(Orders) /\ steps' \in Seq(0 .. 3)
    BY <1>1, Sizes DEF Restart, IInv, TypeOK
  <2>2. /\ sigCaught' \in BOOLEAN /\ cleared' \in BOOLEAN /\ complete' \in BOOLEAN
        /\ dbStopped' \in BOOLEAN
    BY DEF Restart
  <2> QED
    BY <1>1, <2>1, <2>2 DEF IInv, TypeOK, Entries, tables
<1>3. Len(handlers') = 0 /\ Len(steps') = 0 /\ ~Left'
  BY <1>1 DEF Left
<1>4. WriterInv'
  BY <1>1, <1>3 DEF WriterInv
<1>5. CountInv'
  <2>1. Released' = 0 /\ Acquired' = 0
    BY <1>1, <1>3 DEF Released, Acquired
  <2> QED
    BY <1>1, <1>3, <2>1 DEF CountInv
<1>6. MainInv' /\ RowsInv' /\ ActiveIsStored'
  BY <1>1, <1>3 DEF MainInv, RowsInv, ActiveIsStored
<1>7. ViewsHaveOrders'
  BY <1>1 DEF IInv, ViewsHaveOrders, tables
<1> QED
  BY <1>2, <1>4, <1>5, <1>6, <1>7 DEF IInv

LEMMA StepInv == IInv /\ [Next]_vars => IInv'
<1> SUFFICES ASSUME IInv, [Next]_vars PROVE IInv'
  OBVIOUS
<1>1. CASE Main
  BY <1>1, DeactivateStep, FetchFirstStep, ParseStep, PostOrderStep, LastPageStep,
     FetchNextStep, AwaitQueriesStep, UnwindStep, StopWriterStep, JoinWriterStep
  DEF Main
<1>2. CASE Interrupt \/ Restart
  BY <1>2, InterruptStep, RestartStep
<1>3. CASE Writer
  BY <1>3, InsOrderStep, InsSideStep, InsOrderViewStep, ReleaseOneStep,
     ReportProgressStep, WriterExitStep
  DEF Writer
<1>4. CASE UNCHANGED vars
  <2>1. TypeOK' /\ MainInv' /\ (Left' <=> Left)
    BY <1>4 DEF vars, mainVars, dbVars, tables, IInv, TypeOK, MainInv, Left
  <2> QED
    BY <1>4, <2>1, QuietStep DEF vars, mainVars, dbVars
<1> QED
  BY <1>1, <1>2, <1>3, <1>4 DEF Next

-----------------------------------------------------------------------------
\* The inductive invariant holds in every reachable state, for every region and
\* every listing the server may answer with.
THEOREM OrderInvariance == Spec => []IInv
BY InitInv, StepInv, PTL DEF Spec

\* Whatever main unwinds from, once OrderHandler3's members are gone the
\* database thread runs none of its queries: a report of the last release is
\* all it may still be at (apps/order_reader.cpp, ~OrderHandler3).
THEOREM OrderTearDown == Spec => []OnlyTheLastReportIsLate
<1>1. ASSUME IInv PROVE OnlyTheLastReportIsLate
  <2> SUFFICES ASSUME destroyed # {} PROVE OnlyTheLastReportIsLate
    BY DEF OnlyTheLastReportIsLate
  <2>1. /\ Len(handlers) <= Released /\ Len(handlers) \in Nat /\ dbNext \in Nat
        /\ dbNext - 1 <= Len(handlers)
        /\ dbPc \notin {"idle", "exited"} => dbNext <= Len(handlers)
        /\ dbPc \in {"idle", "side", "view", "finalize", "report", "exited"}
    BY <1>1 DEF IInv, MainInv, CountInv, WriterInv, TypeOK
  <2>2. CASE dbPc = "report"
    BY <2>1, <2>2 DEF Released, OnlyTheLastReportIsLate
  <2>3. CASE dbPc # "report"
    BY <2>1, <2>3 DEF Released, OnlyTheLastReportIsLate
  <2> QED
    BY <2>2, <2>3
<1> QED
  BY <1>1, OrderInvariance, PTL

\* The io_service is stopped only when all queries have run, on every exception
\* path of main (apps/order_reader.cpp, ~OrderHandler3).
THEOREM OrderNothingDropped == Spec => []NothingDropped
<1>1. ASSUME IInv PROVE NothingDropped
  <2> SUFFICES ASSUME Left PROVE Len(steps) = Len(handlers)
    BY DEF NothingDropped
  <2>1. /\ Len(handlers) <= Released /\ Len(handlers) \in Nat /\ dbNext \in Nat
        /\ dbNext - 1 <= Len(handlers)
        /\ dbPc \notin {"idle", "exited"} => dbNext <= Len(handlers)
        /\ Len(steps) = IF dbPc \in {"idle", "exited"} THEN dbNext - 1 ELSE dbNext
    BY <1>1 DEF IInv, CountInv, WriterInv, TypeOK
  <2>2. CASE dbPc = "report"
    BY <2>1, <2>2 DEF Released
  <2>3. CASE dbPc # "report"
    BY <2>1, <2>3 DEF Released
  <2> QED
    BY <2>2, <2>3
<1> QED
  BY <1>1, OrderInvariance, PTL

\* An order is active exactly if this run stored it or its station is unknown,
\* across kills and restarts (apps/order_reader.cpp, main and insOrder).
THEOREM OrderActiveIsStored == Spec => []ActiveIsStored
<1>1. IInv => ActiveIsStored
  BY DEF IInv
<1> QED
  BY <1>1, OrderInvariance, PTL

\* Every row of order_views has its order and its side on record, across kills
\* and restarts (apps/order_reader.cpp, SingleOrderHandler::run).
THEOREM OrderViewsHaveOrders == Spec => []ViewsHaveOrders
<1>1. IInv => ViewsHaveOrders
  BY DEF IInv
<1> QED
  BY <1>1, OrderInvariance, PTL

-----------------------------------------------------------------------------
(* A complete run against the listing. *)

\* The pages up to one more.
LEMMA NextPage ==
  ASSUME NEW p \in Nat
  PROVE  /\ ValidUpTo(p + 1) = ValidUpTo(p) \cup ValidIds(Listing[p + 1])
         /\ ValidUpTo(0) = {}
<1>1. 1 .. p + 1 = (1 .. p) \cup {p + 1} /\ 1 .. 0 = {}
  OBVIOUS
<1> QED
  BY <1>1 DEF ValidUpTo

\* An entry is either posted or, if it does not convert, left out.
LEMMA HeadAndTail ==
  ASSUME NEW s \in Seq(Entries), s # <<>>
  PROVE  ValidIds(s) = ValidIds(Tail(s)) \cup (IF Head(s).valid THEN {Head(s).id} ELSE {})
<1>1. ASSUME NEW i \in DOMAIN s, s[i].valid
      PROVE  s[i].id \in ValidIds(Tail(s)) \cup (IF Head(s).valid THEN {Head(s).id} ELSE {})
  <2>1. CASE i = 1
    BY <1>1, <2>1
  <2>2. CASE i # 1
    <3>1. i - 1 \in DOMAIN Tail(s) /\ Tail(s)[i - 1] = s[i]
      BY <2>2
    <3> QED
      BY <1>1, <3>1 DEF ValidIds
  <2> QED
    BY <2>1, <2>2
<1>2. ASSUME NEW i \in DOMAIN Tail(s), Tail(s)[i].valid
      PROVE  Tail(s)[i].id \in ValidIds(s)
  <2>1. i + 1 \in DOMAIN s /\ Tail(s)[i] = s[i + 1]
    OBVIOUS
  <2> QED
    BY <1>2, <2>1 DEF ValidIds
<1>3. Head(s).valid => Head(s).id \in ValidIds(s)
  <2>1. 1 \in DOMAIN s /\ Head(s) = s[1]
    OBVIOUS
  <2> QED
    BY <2>1 DEF ValidIds
<1> QED
  BY <1>1, <1>2, <1>3 DEF ValidIds

LEMMA PagesStep ==
  ASSUME IInv, PagesInv, [Next]_vars
  PROVE  PagesInv'
<1>0. /\ page \in Nat /\ Len(Listing) \in Nat /\ todo \in Seq(Entries)
      /\ handlers \in Seq(Orders)
  BY Sizes DEF IInv, TypeOK, Entries
<1>1. CASE Deactivate
  BY <1>1 DEF Deactivate, MainGoes, PagesInv, PostedIds
<1>2. CASE FetchFirst
  <2>1. CASE page' = 1 /\ mainPc' = "parse" /\ UNCHANGED <<todo, handlers, cleared, complete>>
    <3>1. PostedIds' = {} /\ ValidUpTo(page' - 1) = {}
      <4>1. page' - 1 = 0 /\ handlers' = <<>>
        BY <1>2, <2>1 DEF FetchFirst, PagesInv
      <4> QED
        BY <4>1, NextPage DEF PostedIds
    <3>2. mainPc = "first"
      BY <1>2 DEF FetchFirst
    <3> QED
      BY <2>1, <3>1, <3>2 DEF PagesInv, ValidUpTo
  <2>2. CASE MainGoes("unwind")
    BY <1>2, <2>2 DEF FetchFirst, MainGoes, PagesInv, PostedIds
  <2> QED
    BY <1>2, <2>1, <2>2 DEF FetchFirst
<1>3. CASE Parse
  <2>1. CASE todo' = Listing[page] /\ mainPc' = "post"
             /\ UNCHANGED <<page, handlers, cleared, complete>>
    <3>1. page - 1 \in Nat /\ page = (page - 1) + 1 /\ mainPc = "parse"
      BY <1>0, <1>3 DEF Parse, IInv, MainInv
    <3>2. ValidUpTo(page) = ValidUpTo(page - 1) \cup ValidIds(Listing[page])
      BY <3>1, NextPage
    <3> QED
      BY <2>1, <3>1, <3>2 DEF PagesInv, PostedIds
  <2>2. CASE MainGoes("wait")
    BY <1>3, <2>2 DEF Parse, MainGoes, PagesInv, PostedIds
  <2> QED
    BY <1>3, <2>1, <2>2 DEF Parse
<1>4. CASE PostOrder
  <2>1. /\ todo # <<>> /\ todo' = Tail(todo) /\ mainPc = "post"
        /\ UNCHANGED <<mainPc, page, cleared, complete>>
        /\ \/ Head(todo).valid /\ handlers' = Append(handlers, Head(todo).id)
           \/ ~Head(todo).valid /\ UNCHANGED handlers
    BY <1>4 DEF PostOrder
  <2>2. PostedIds' = PostedIds \cup (IF Head(todo).valid THEN {Head(todo).id} ELSE {})
    <3>1. CASE Head(todo).valid
      <4>1. Head(todo).id \in Orders
        <5>1. Head(todo) \in Entries
          BY <1>0, <2>1
        <5> QED
          BY <5>1 DEF Entries
      <4>2. /\ DOMAIN handlers' = DOMAIN handlers \cup {Len(handlers) + 1}
            /\ \A i \in DOMAIN handlers : handlers'[i] = handlers[i]
            /\ handlers'[Len(handlers) + 1] = Head(todo).id
        <5>1. handlers' = Append(handlers, Head(todo).id)
          BY <2>1, <3>1
        <5> QED
          BY <1>0, <4>1, <5>1
      <4> QED
        BY <3>1, <4>2 DEF PostedIds
    <3>2. CASE ~Head(todo).valid
      BY <2>1, <3>2 DEF PostedIds
    <3> QED
      BY <3>1, <3>2
  <2>3. ValidIds(todo) = ValidIds(todo') \cup (IF Head(todo).valid THEN {Head(todo).id} ELSE {})
    BY <1>0, <2>1, HeadAndTail
  <2>4. PostedIds' \cup ValidIds(todo') = PostedIds \cup ValidIds(todo)
    BY <2>2, <2>3
  <2>5. PostedIds \cup ValidIds(todo) = ValidUpTo(page) /\ ~complete /\ cleared
    BY <2>1 DEF PagesInv
  <2> QED
    BY <2>1, <2>4, <2>5 DEF PagesInv
<1>5. CASE LastPage \/ FetchNext
  <2>1. /\ mainPc = "post" /\ todo = <<>> /\ UNCHANGED <<handlers, cleared>>
        /\ ~complete /\ cleared
    BY <1>5 DEF LastPage, FetchNext, MainGoes, PagesInv
  <2>2. PostedIds = ValidUpTo(page) /\ PostedIds' = PostedIds
    <3>1. ValidIds(<<>>) = {}
      BY DEF ValidIds
    <3> QED
      BY <2>1, <3>1 DEF PagesInv, PostedIds
  <2>3. CASE LastPage
    BY <2>1, <2>2, <2>3 DEF LastPage, PagesInv, Accepted
  <2>4. CASE FetchNext
    <3>1. CASE page' = page + 1 /\ mainPc' \in {"wait", "parse"} /\ complete' = complete
      <4>1. page' - 1 = page
        BY <1>0, <3>1
      <4> QED
        BY <2>1, <2>2, <3>1, <4>1 DEF PagesInv
    <3>2. CASE MainGoes("wait") \/ MainGoes("unwind")
      BY <2>1, <3>2 DEF MainGoes, PagesInv
    <3> QED
      BY <2>4, <3>1, <3>2 DEF FetchNext
  <2> QED
    BY <1>5, <2>3, <2>4
<1>6. CASE Restart
  BY <1>6 DEF Restart, PagesInv, PostedIds
<1>7. CASE \/ AwaitQueries \/ Unwind \/ StopWriter \/ JoinWriter
           \/ Interrupt \/ Writer \/ UNCHANGED vars
  <2>1. /\ UNCHANGED <<handlers, cleared, complete>>
        /\ \/ UNCHANGED <<mainPc, page, todo>>
           \/ mainPc' \in {"unwind", "stop", "join", "done"}
    BY <1>7 DEF AwaitQueries, Unwind, StopWriter, JoinWriter, MainGoes, Interrupt,
       Writer, InsOrder, InsSide, InsOrderView, ReleaseOne, ReportProgress,
       WriterExit, vars, mainVars
  <2>2. PostedIds' = PostedIds
    BY <2>1 DEF PostedIds
  <2> QED
    BY <1>7, <2>1, <2>2 DEF PagesInv, AwaitQueries, Unwind, StopWriter, JoinWriter
<1> QED
  BY <1>1, <1>2, <1>3, <1>4, <1>5, <1>6, <1>7 DEF Next, Main

\* A run that saw every page and failed nowhere leaves exactly the listed orders
\* active, whatever state a killed run has left (apps/order_reader.cpp, main).
THEOREM OrderSnapshotIsListing == Spec => []SnapshotIsListing
<1>1. Init => PagesInv
  BY DEF Init, PagesInv, PostedIds
<1>2. IInv /\ PagesInv /\ NothingDropped => SnapshotIsListing
  <2> SUFFICES ASSUME IInv, PagesInv, NothingDropped, mainPc = "done", complete,
                      \A i \in DOMAIN steps : steps[i] = 3
               PROVE  active \ Unlocated = Accepted \ Unlocated
    BY DEF SnapshotIsListing
  <2>1. DOMAIN steps = DOMAIN handlers
    BY DEF NothingDropped, Left, IInv, TypeOK
  <2>2. {j \in DOMAIN steps : steps[j] >= 1} = DOMAIN handlers
    BY <2>1
  <2>3. Stored = PostedIds
    BY <2>2 DEF Stored, PostedIds
  <2>4. PostedIds = Accepted /\ cleared
    BY DEF PagesInv
  <2>5. Stored \subseteq active /\ active \subseteq Stored \cup Unlocated
    BY <2>4 DEF IInv, ActiveIsStored
  <2> QED
    BY <2>3, <2>4, <2>5
<1>3. IInv /\ PagesInv /\ [Next]_vars => PagesInv'
  BY PagesStep
<1> QED
  BY <1>1, <1>2, <1>3, OrderInvariance, OrderNothingDropped, PTL DEF Spec
=============================================================================
