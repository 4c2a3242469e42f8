------------------------- MODULE EmdrRecorderProofs -------------------------
(***************************************************************************)
(* Proof that EmdrRecorder's tables hold the rowset taken last of every    *)
(* region and type, for any messages, buffers and failures, and that a     *)
(* message is in one place, in the order of its arrival, and lost only to  *)
(* an overflow of a buffer.                                                *)
(***************************************************************************)
EXTENDS EmdrRecorder, TLAPS

\* The circular buffers hold entries only, whatever they overwrite.
LEMMA LastOfType ==
  ASSUME NEW S, NEW s \in Seq(S)
  PROVE  LastOf(s) \in Seq(S)
<1>1. CASE Len(s) <= Capacity
  BY <1>1 DEF LastOf
<1>2. CASE Len(s) > Capacity
  <2>1. Len(s) \in Nat /\ 1 + Len(s) - Capacity \in 1 .. Len(s) + 1
    BY <1>2, BoundsAssumption
  <2>2. \A i \in 1 + Len(s) - Capacity .. Len(s) : s[i] \in S
    BY <2>1
  <2>3. SubSeq(s, 1 + Len(s) - Capacity, Len(s)) \in Seq(S)
    BY <2>1, <2>2
  <2> QED
    BY <2>3, <1>2, BoundsAssumption DEF LastOf
<1> QED
  BY <1>1, <1>2, BoundsAssumption

\* A rowset applied to tables that are the latest leaves tables that are: what it
\* does not list is deleted wherever the tables know the station, and what
\* it does not delete belongs to another region or type.
LEMMA AppliedIsLatest ==
  ASSUME TablesInv, NEW rowset \in Listings
  PROVE  /\ Applied(rowset) \in
              [market : [Orders -> Nat], lastUpdate : [Regions -> [Types -> Nat]],
               taken : [Regions -> [Types -> [time : Nat, orders : SUBSET Orders]]]]
         /\ LatestOf(Applied(rowset).market, Applied(rowset).lastUpdate,
                     Applied(rowset).taken)
<1> DEFINE A == Applied(rowset)
<1>1. /\ rowset.region \in Regions /\ rowset.type \in Types
      /\ rowset.time \in Nat /\ rowset.orders \subseteq Orders
      /\ \A o \in rowset.orders : /\ TypeOf[o] = rowset.type
                                  /\ RegionOf[StationOf[o]] \in {rowset.region, NoRegion}
  BY DEF Listings, Rowsets
<1>2. /\ draft.market \in [Orders -> Nat]
      /\ draft.lastUpdate \in [Regions -> [Types -> Nat]]
      /\ draft.taken \in [Regions -> [Types -> [time : Nat, orders : SUBSET Orders]]]
  BY DEF TablesInv
<1>3. A.market \in [Orders -> Nat]
  BY <1>1, <1>2 DEF Applied
<1>4. A.lastUpdate \in [Regions -> [Types -> Nat]]
  BY <1>1, <1>2 DEF Applied
<1>5. A.taken \in [Regions -> [Types -> [time : Nat, orders : SUBSET Orders]]]
  BY <1>1, <1>2 DEF Applied
<1>6. A \in [market : [Orders -> Nat], lastUpdate : [Regions -> [Types -> Nat]],
             taken : [Regions -> [Types -> [time : Nat, orders : SUBSET Orders]]]]
  BY <1>3, <1>4, <1>5 DEF Applied
<1>7. ASSUME NEW r \in Regions, NEW t \in Types
      PROVE  /\ A.lastUpdate[r][t] = A.taken[r][t].time
             /\ \A o \in Orders :
                  TypeOf[o] = t /\ RegionOf[StationOf[o]] = r =>
                    A.market[o] = IF o \in A.taken[r][t].orders
                                    THEN A.taken[r][t].time ELSE 0
  <2>1. CASE r = rowset.region /\ t = rowset.type
    <3>1. A.lastUpdate[r][t] = rowset.time
      BY <2>1, <1>1, <1>2 DEF Applied
    <3>2. A.taken[r][t] = [time |-> rowset.time, orders |-> rowset.orders]
      BY <2>1, <1>1, <1>2 DEF Applied
    <3>3. ASSUME NEW o \in Orders, TypeOf[o] = t, RegionOf[StationOf[o]] = r
          PROVE  A.market[o] = IF o \in rowset.orders THEN rowset.time ELSE 0
      BY <3>3, <2>1 DEF Applied, Deleted
    <3> QED
      BY <3>1, <3>2, <3>3
  <2>2. CASE ~(r = rowset.region /\ t = rowset.type)
    <3>1. /\ A.lastUpdate[r][t] = draft.lastUpdate[r][t]
          /\ A.taken[r][t] = draft.taken[r][t]
      BY <2>2, <1>1, <1>2 DEF Applied
    <3>2. ASSUME NEW o \in Orders, TypeOf[o] = t, RegionOf[StationOf[o]] = r
          PROVE  A.market[o] = draft.market[o]
      <4>1. o \notin rowset.orders
        BY <3>2, <2>2, <1>1, TablesAssumption
      <4>2. o \notin Deleted(rowset)
        <5>1. SUFFICES ASSUME NEW p \in rowset.orders, StationOf[o] = StationOf[p],
                              TypeOf[o] = rowset.type
                       PROVE  FALSE
          BY <3>2, <2>2 DEF Deleted
        <5> QED
          BY <5>1, <3>2, <2>2, <1>1, TablesAssumption
      <4> QED
        BY <4>1, <4>2 DEF Applied
    <3>3. LatestOf(draft.market, draft.lastUpdate, draft.taken)
      BY DEF TablesInv
    <3> QED
      BY <3>1, <3>2, <3>3 DEF LatestOf
  <2> QED
    BY <2>1, <2>2
<1> HIDE DEF A
<1>8. LatestOf(A.market, A.lastUpdate, A.taken)
  BY <1>7 DEF LatestOf
<1> QED
  BY <1>6, <1>8 DEF A

-----------------------------------------------------------------------------
\* The empty tables, and a transaction that has just begun, are the latest.
LEMMA TablesInit == Init => TablesInv
<1> SUFFICES ASSUME Init PROVE TablesInv
  OBVIOUS
<1>1. /\ received \in 0 .. MaxReceived
      /\ buffer \in Seq(Entries) /\ local \in Seq(Entries)
      /\ todo \in Seq(Messages) /\ rowsets \in Seq(Listings)
  BY BoundsAssumption DEF Init
<1>2. /\ market \in [Orders -> Nat]
      /\ lastUpdate \in [Regions -> [Types -> Nat]]
      /\ taken \in [Regions -> [Types -> [time : Nat, orders : SUBSET Orders]]]
  BY DEF Init, NoRowset
<1>3. /\ draft \in [market : [Orders -> Nat], lastUpdate : [Regions -> [Types -> Nat]],
                    taken : [Regions -> [Types -> [time : Nat, orders : SUBSET Orders]]]]
      /\ draft.market = market /\ draft.lastUpdate = lastUpdate /\ draft.taken = taken
  BY <1>2 DEF Init
<1>4. LatestOf(market, lastUpdate, taken)
  BY DEF Init, NoRowset, LatestOf
<1> QED
  BY <1>1, <1>2, <1>3, <1>4 DEF TablesInv, MarketIsLatest

\* A transaction that begins, or one that is rolled back, sees the tables.
LEMMA FreshDraft ==
  ASSUME TablesInv,
         draft' = [market |-> market, lastUpdate |-> lastUpdate, taken |-> taken],
         UNCHANGED tables,
         received' \in 0 .. MaxReceived,
         buffer' \in Seq(Entries), local' \in Seq(Entries),
         todo' \in Seq(Messages), rowsets' \in Seq(Listings)
  PROVE  TablesInv'
<1>1. /\ draft' \in [market : [Orders -> Nat], lastUpdate : [Regions -> [Types -> Nat]],
                    taken : [Regions -> [Types -> [time : Nat, orders : SUBSET Orders]]]]
      /\ draft'.market = market /\ draft'.lastUpdate = lastUpdate /\ draft'.taken = taken
  BY DEF TablesInv
<1>2. market' = market /\ lastUpdate' = lastUpdate /\ taken' = taken
  BY DEF tables
<1>3. LatestOf(market, lastUpdate, taken)
  BY DEF TablesInv, MarketIsLatest
<1> QED
  BY <1>1, <1>2, <1>3 DEF TablesInv, MarketIsLatest, LatestOf

\* Every step of either thread preserves the invariant of the tables.
LEMMA TablesStep == TablesInv /\ [Next]_vars => TablesInv'
<1> SUFFICES ASSUME TablesInv, [Next]_vars PROVE TablesInv'
  OBVIOUS
<1>1. ASSUME UNCHANGED <<buffer, local, todo, rowsets, tables, draft, received>>
      PROVE  TablesInv'
  BY <1>1 DEF TablesInv, MarketIsLatest, LatestOf, tables
<1>2. CASE CheckSigint \/ Join \/ ReceiveOther \/ Interrupt \/ SleepOrExit
            \/ FailInDestructor
  BY <1>1, <1>2 DEF CheckSigint, Join, ReceiveOther, Interrupt, SleepOrExit,
                    FailInDestructor
<1>3. CASE Receive
  <2>1. PICK m \in Messages :
          buffer' = LastOf(Append(buffer, [number |-> received + 1, rowsets |-> m]))
    BY <1>3 DEF Receive
  <2>2. [number |-> received + 1, rowsets |-> m] \in Entries
    BY <1>3, BoundsAssumption DEF Receive, TablesInv, Entries
  <2>3. Append(buffer, [number |-> received + 1, rowsets |-> m]) \in Seq(Entries)
    BY <2>2 DEF TablesInv
  <2>4. buffer' \in Seq(Entries)
    BY <2>1, <2>3, LastOfType
  <2>5. received' \in 0 .. MaxReceived
    BY <1>3, BoundsAssumption DEF Receive, TablesInv
  <2>6. UNCHANGED <<local, todo, rowsets, tables, draft>>
    BY <1>3 DEF Receive
  <2> QED
    BY <2>4, <2>5, <2>6 DEF TablesInv, MarketIsLatest, LatestOf, tables
<1>4. CASE Collect
  <2>1. local \o buffer \in Seq(Entries)
    BY DEF TablesInv
  <2>2. local' \in Seq(Entries)
    BY <1>4, <2>1, LastOfType DEF Collect
  <2>3. \A i \in 1 .. Len(local') : local'[i].rowsets \in Messages
    <3>1. ASSUME NEW i \in 1 .. Len(local')
          PROVE  local'[i].rowsets \in Messages
      <4>1. local'[i] \in Entries
        BY <2>2
      <4> QED
        BY <4>1 DEF Entries
    <3> QED
      BY <3>1
  <2>4. todo' = [i \in 1 .. Len(local') |-> local'[i].rowsets]
    BY <1>4, <2>2 DEF Collect
  <2>5. todo' \in Seq(Messages)
    BY <2>2, <2>3, <2>4
  <2>6. /\ buffer' \in Seq(Entries)
        /\ received' \in 0 .. MaxReceived /\ rowsets' \in Seq(Listings)
    BY <1>4 DEF Collect, TablesInv
  <2>7. /\ draft' = [market |-> market, lastUpdate |-> lastUpdate, taken |-> taken]
        /\ UNCHANGED tables
    BY <1>4 DEF Collect
  <2> QED
    BY <2>2, <2>5, <2>6, <2>7, FreshDraft
<1>5. CASE NextMessage
  <2>1. Head(todo) \in Messages /\ Tail(todo) \in Seq(Messages)
    BY <1>5 DEF NextMessage, TablesInv
  <2>2. todo' \in Seq(Messages) /\ rowsets' \in Seq(Listings)
    BY <1>5, <2>1, MessagesAssumption DEF NextMessage
  <2>3. UNCHANGED <<buffer, local, tables, draft, received>>
    BY <1>5 DEF NextMessage
  <2> QED
    BY <2>2, <2>3 DEF TablesInv, MarketIsLatest, LatestOf, tables
<1>6. CASE ApplyRowset
  <2>1. Head(rowsets) \in Listings /\ Tail(rowsets) \in Seq(Listings)
    BY <1>6 DEF ApplyRowset, TablesInv
  <2>2. rowsets' \in Seq(Listings)
    BY <1>6, <2>1 DEF ApplyRowset
  <2>3. UNCHANGED <<buffer, local, todo, tables, received>>
    BY <1>6 DEF ApplyRowset
  <2>4. draft' = draft \/ draft' = Applied(Head(rowsets))
    BY <1>6 DEF ApplyRowset
  <2>5. /\ draft' \in [market : [Orders -> Nat], lastUpdate : [Regions -> [Types -> Nat]],
                      taken : [Regions -> [Types -> [time : Nat, orders : SUBSET Orders]]]]
        /\ LatestOf(draft'.market, draft'.lastUpdate, draft'.taken)
    <3>1. CASE draft' = draft
      BY <3>1 DEF TablesInv
    <3>2. CASE draft' = Applied(Head(rowsets))
      BY <3>2, <2>1, AppliedIsLatest
    <3> QED
      BY <2>4, <3>1, <3>2
  <2>6. LatestOf(market, lastUpdate, taken)
    BY DEF TablesInv, MarketIsLatest
  <2> QED
    BY <2>2, <2>3, <2>5, <2>6 DEF TablesInv, MarketIsLatest, LatestOf, tables
<1>7. CASE FailOnBadRow \/ FailForOnce
  <2>1. Rollback
    BY <1>7 DEF FailOnBadRow, FailForOnce
  <2>2. /\ draft' = [market |-> market, lastUpdate |-> lastUpdate, taken |-> taken]
        /\ UNCHANGED <<buffer, local, received>> /\ UNCHANGED tables
        /\ todo' = <<>> /\ rowsets' = <<>>
    BY <2>1 DEF Rollback
  <2>3. /\ received' \in 0 .. MaxReceived
        /\ buffer' \in Seq(Entries) /\ local' \in Seq(Entries)
        /\ todo' \in Seq(Messages) /\ rowsets' \in Seq(Listings)
    BY <2>2 DEF TablesInv
  <2> QED
    BY <2>2, <2>3, FreshDraft
<1>8. CASE Commit
  <2>1. /\ market' = draft.market /\ lastUpdate' = draft.lastUpdate
        /\ taken' = draft.taken
        /\ local' = <<>> /\ UNCHANGED <<buffer, todo, rowsets, draft, received>>
    BY <1>8 DEF Commit
  <2>2. LatestOf(draft.market, draft.lastUpdate, draft.taken)
    BY DEF TablesInv
  <2>3. /\ market' \in [Orders -> Nat]
        /\ lastUpdate' \in [Regions -> [Types -> Nat]]
        /\ taken' \in [Regions -> [Types -> [time : Nat, orders : SUBSET Orders]]]
    BY <2>1 DEF TablesInv
  <2>4. MarketIsLatest' /\ LatestOf(draft'.market, draft'.lastUpdate, draft'.taken)
    BY <2>1, <2>2 DEF MarketIsLatest, LatestOf
  <2> QED
    BY <2>1, <2>3, <2>4 DEF TablesInv
<1>9. CASE UNCHANGED vars
  BY <1>1, <1>9 DEF vars
<1> QED
  BY <1>2, <1>3, <1>4, <1>5, <1>6, <1>7, <1>8, <1>9 DEF Next, Receiver, Database

\* Whatever the relay publishes and whichever statement fails: the tables hold, of
\* every region and type, the orders of the rowset taken last and its time.
THEOREM RecorderTables == Spec => []MarketIsLatest
<1>1. Init => TablesInv
  BY TablesInit
<1>2. TablesInv /\ [Next]_vars => TablesInv'
  BY TablesStep
<1>3. TablesInv => MarketIsLatest
  BY DEF TablesInv
<1> QED
  BY <1>1, <1>2, <1>3, PTL DEF Spec

-----------------------------------------------------------------------------
(* The messages in the two buffers. *)

\* Numbers of a sequence that is put together.
LEMMA NumbersOf ==
  ASSUME NEW s \in Seq(Entries), NEW u \in Seq(Entries), NEW e \in Entries
  PROVE  /\ Numbers(s \o u) = Numbers(s) \cup Numbers(u)
         /\ Numbers(Append(s, e)) = Numbers(s) \cup {e.number}
         /\ Numbers(<<>>) = {}
         /\ Numbers(s) \subseteq Int
<1>1. Numbers(s \o u) = Numbers(s) \cup Numbers(u)
  <2>1. ASSUME NEW i \in DOMAIN (s \o u)
        PROVE  (s \o u)[i].number \in Numbers(s) \cup Numbers(u)
    <3>1. \/ i \in DOMAIN s /\ (s \o u)[i] = s[i]
          \/ i - Len(s) \in DOMAIN u /\ (s \o u)[i] = u[i - Len(s)]
      OBVIOUS
    <3> QED
      BY <3>1 DEF Numbers
  <2>2. ASSUME NEW i \in DOMAIN s
        PROVE  s[i].number \in Numbers(s \o u)
    <3>1. i \in DOMAIN (s \o u) /\ (s \o u)[i] = s[i]
      OBVIOUS
    <3> QED
      BY <3>1 DEF Numbers
  <2>3. ASSUME NEW i \in DOMAIN u
        PROVE  u[i].number \in Numbers(s \o u)
    <3>1. i + Len(s) \in DOMAIN (s \o u) /\ (s \o u)[i + Len(s)] = u[i]
      OBVIOUS
    <3> QED
      BY <3>1 DEF Numbers
  <2> QED
    BY <2>1, <2>2, <2>3 DEF Numbers
<1>2. Numbers(Append(s, e)) = Numbers(s) \cup {e.number}
  <2>1. /\ DOMAIN Append(s, e) = DOMAIN s \cup {Len(s) + 1}
        /\ \A i \in DOMAIN s : Append(s, e)[i] = s[i]
        /\ Append(s, e)[Len(s) + 1] = e
    OBVIOUS
  <2> QED
    BY <2>1 DEF Numbers
<1>3. Numbers(<<>>) = {}
  BY DEF Numbers
<1>4. Numbers(s) \subseteq Int
  <2>1. \A i \in DOMAIN s : s[i] \in Entries
    OBVIOUS
  <2> QED
    BY <2>1, BoundsAssumption DEF Numbers, Entries
<1> QED
  BY <1>1, <1>2, <1>3, <1>4

\* The numbers of entries are integers.
LEMMA EntryNumbers ==
  ASSUME NEW s \in Seq(Entries)
  PROVE  /\ Len(s) \in Nat /\ DOMAIN s = 1 .. Len(s)
         /\ \A i \in 1 .. Len(s) : s[i].number \in Int
<1>1. ASSUME NEW i \in 1 .. Len(s)
      PROVE  s[i].number \in Int
  <2>1. s[i] \in Entries
    OBVIOUS
  <2>2. s[i].number \in 1 .. MaxReceived
    BY <2>1 DEF Entries
  <2> QED
    BY <2>2, BoundsAssumption
<1> QED
  BY <1>1

\* Two positions of spaced entries.
LEMMA SpacedAt ==
  ASSUME NEW s, Spaced(s), NEW i \in DOMAIN s, NEW j \in DOMAIN s, i <= j
  PROVE  s[j].number >= s[i].number + (j - i)
BY DEF Spaced

\* What a full buffer keeps and what it overwrites: both are spaced, disjoint,
\* and together all; what is overwritten has Capacity entries behind it.
LEMMA LastOfSpaced ==
  ASSUME NEW s \in Seq(Entries), Spaced(s)
  PROVE  /\ Spaced(LastOf(s))
         /\ Numbers(LastOf(s)) \subseteq Numbers(s)
         /\ \A n \in Dropped(s) : s[Len(s)].number >= n + Capacity /\ Len(s) # 0
<1>1. /\ Len(s) \in Nat /\ DOMAIN s = 1 .. Len(s)
      /\ \A i \in 1 .. Len(s) : s[i].number \in Int
  BY EntryNumbers
<1>2. CASE Len(s) <= Capacity
  BY <1>2 DEF LastOf, Dropped
<1>3. CASE Len(s) > Capacity
  <2> DEFINE u == LastOf(s)
  <2>1. PICK d \in Nat \ {0} :
          /\ Capacity \in Nat \ {0} /\ Len(s) = d + Capacity
          /\ DOMAIN s = 1 .. Len(s) /\ 1 + Len(s) - Capacity = 1 + d
    <3>1. /\ Len(s) - Capacity \in Nat \ {0} /\ Capacity \in Nat \ {0}
          /\ Len(s) = (Len(s) - Capacity) + Capacity
          /\ 1 + Len(s) - Capacity = 1 + (Len(s) - Capacity)
      BY <1>3, BoundsAssumption
    <3> QED
      BY <1>1, <3>1
  <2>2. u = SubSeq(s, 1 + d, Len(s))
    <3>1. ~(Len(s) <= Capacity)
      BY <1>3, <2>1
    <3> QED
      BY <2>1, <3>1, Zenon DEF LastOf
  <2>3. /\ DOMAIN u = 1 .. Capacity
        /\ \A i \in 1 .. Capacity : i + d \in DOMAIN s /\ u[i] = s[i + d]
    <3>1. /\ DOMAIN SubSeq(s, 1 + d, Len(s)) = 1 .. Capacity
          /\ \A i \in 1 .. Capacity : SubSeq(s, 1 + d, Len(s))[i] = s[i + d]
      BY <2>1
    <3>2. \A i \in 1 .. Capacity : i + d \in DOMAIN s
      BY <2>1
    <3> QED
      BY <2>2, <3>1, <3>2, Zenon
  <2> HIDE DEF u
  <2>4. Spaced(u)
    <3> SUFFICES ASSUME NEW i \in 1 .. Capacity, NEW j \in 1 .. Capacity, i <= j
                 PROVE  u[j].number >= u[i].number + (j - i)
      BY <2>3 DEF Spaced
    <3>1. /\ i + d \in 1 .. Len(s) /\ j + d \in 1 .. Len(s) /\ i + d <= j + d
          /\ (j + d) - (i + d) = j - i
      BY <2>1
    <3>2. s[j + d].number >= s[i + d].number + ((j + d) - (i + d))
      BY <1>1, <3>1, SpacedAt
    <3>3. u[i] = s[i + d] /\ u[j] = s[j + d]
      BY <2>3
    <3> QED
      BY <3>1, <3>2, <3>3
  <2>5. Numbers(u) \subseteq Numbers(s)
    BY <2>3 DEF Numbers
  <2>6. ASSUME NEW n \in Numbers(s), n \notin Numbers(u)
        PROVE  s[Len(s)].number >= n + Capacity /\ Len(s) # 0
    <3>1. PICK i \in DOMAIN s : n = s[i].number
      BY DEF Numbers
    <3>2. ~(i > d)
      <4>1. SUFFICES ASSUME i > d PROVE FALSE
        OBVIOUS
      <4>2. i - d \in 1 .. Capacity /\ (i - d) + d = i
        BY <2>1, <4>1
      <4>3. u[i - d].number = n
        BY <2>3, <3>1, <4>2
      <4> QED
        BY <2>3, <2>6, <4>2, <4>3 DEF Numbers
    <3>3. Len(s) \in DOMAIN s /\ i <= Len(s) /\ Len(s) - i >= Capacity
      BY <2>1, <3>2
    <3>4. s[Len(s)].number >= s[i].number + (Len(s) - i)
      BY <3>3, SpacedAt
    <3>5. s[Len(s)].number \in Int /\ s[i].number \in Int /\ Len(s) # 0
      BY <1>1, <3>3
    <3> QED
      BY <1>1, <2>1, <3>1, <3>3, <3>4, <3>5
  <2> QED
    BY <2>4, <2>5, <2>6 DEF u, Dropped
<1> QED
  BY <1>2, <1>3, BoundsAssumption

\* Two chains of differences that meet make one.
LEMMA Chain ==
  ASSUME NEW a \in Int, NEW b \in Int, NEW c \in Int, NEW e \in Int,
         NEW l \in Int, NEW i \in Int, NEW j \in Int,
         b >= a + (l - i), e >= c + ((j - l) - 1), b < c
  PROVE  e >= a + (j - i)
OBVIOUS

\* Two spaced buffers, the one before the other, are spaced as a whole.
LEMMA SpacedWhole ==
  ASSUME NEW s \in Seq(Entries), NEW u \in Seq(Entries), Spaced(s), Spaced(u),
         \A n \in Numbers(s), m \in Numbers(u) : n < m
  PROVE  Spaced(s \o u)
<1>1. /\ Len(s) \in Nat /\ DOMAIN s = 1 .. Len(s)
      /\ Len(u) \in Nat /\ DOMAIN u = 1 .. Len(u)
      /\ \A i \in 1 .. Len(s) : s[i].number \in Int
      /\ \A i \in 1 .. Len(u) : u[i].number \in Int
  BY EntryNumbers
<1> DEFINE w == s \o u
<1>2. /\ DOMAIN w = 1 .. Len(s) + Len(u)
      /\ \A i \in 1 .. Len(s) : w[i] = s[i]
      /\ \A i \in Len(s) + 1 .. Len(s) + Len(u) : w[i] = u[i - Len(s)]
  OBVIOUS
<1> HIDE DEF w
<1>3. SUFFICES ASSUME NEW i \in 1 .. Len(s) + Len(u), NEW j \in 1 .. Len(s) + Len(u), i <= j
               PROVE  w[j].number >= w[i].number + (j - i)
  BY <1>2 DEF Spaced, w
<1>4. CASE j <= Len(s)
  <2>1. i \in 1 .. Len(s) /\ j \in 1 .. Len(s)
    BY <1>1, <1>3, <1>4
  <2>2. s[j].number >= s[i].number + (j - i)
    BY <1>1, <1>3, <2>1, SpacedAt
  <2>3. w[i] = s[i] /\ w[j] = s[j]
    BY <1>2, <2>1
  <2> QED
    BY <2>2, <2>3
<1>5. CASE i > Len(s)
  <2>1. /\ i - Len(s) \in 1 .. Len(u) /\ j - Len(s) \in 1 .. Len(u)
        /\ i - Len(s) <= j - Len(s) /\ (j - Len(s)) - (i - Len(s)) = j - i
        /\ i \in Len(s) + 1 .. Len(s) + Len(u) /\ j \in Len(s) + 1 .. Len(s) + Len(u)
    BY <1>1, <1>3, <1>5
  <2>2. u[j - Len(s)].number >= u[i - Len(s)].number + ((j - Len(s)) - (i - Len(s)))
    BY <1>1, <2>1, SpacedAt
  <2>3. w[i] = u[i - Len(s)] /\ w[j] = u[j - Len(s)]
    BY <1>2, <2>1
  <2> QED
    BY <2>1, <2>2, <2>3
<1>6. CASE i <= Len(s) /\ j > Len(s)
  <2>1. /\ i \in 1 .. Len(s) /\ Len(s) \in 1 .. Len(s) /\ i <= Len(s)
        /\ 1 \in 1 .. Len(u) /\ j - Len(s) \in 1 .. Len(u) /\ 1 <= j - Len(s)
        /\ j \in Len(s) + 1 .. Len(s) + Len(u)
    BY <1>1, <1>3, <1>6
  <2>2. s[Len(s)].number >= s[i].number + (Len(s) - i)
    BY <1>1, <2>1, SpacedAt
  <2>3. u[j - Len(s)].number >= u[1].number + ((j - Len(s)) - 1)
    BY <1>1, <2>1, SpacedAt
  <2>4. s[Len(s)].number < u[1].number
    BY <1>1, <2>1 DEF Numbers
  <2>5. w[i] = s[i] /\ w[j] = u[j - Len(s)]
    BY <1>2, <2>1
  <2>6. /\ s[Len(s)].number \in Int /\ s[i].number \in Int
        /\ u[1].number \in Int /\ u[j - Len(s)].number \in Int
        /\ Len(s) \in Int /\ i \in Int /\ j \in Int
    BY <1>1, <2>1
  <2>7. u[j - Len(s)].number >= s[i].number + (j - i)
    <3> DEFINE a == s[i].number
               b == s[Len(s)].number
               c == u[1].number
               e == u[j - Len(s)].number
               l == Len(s)
    <3>1. /\ a \in Int /\ b \in Int /\ c \in Int /\ e \in Int
          /\ l \in Int /\ i \in Int /\ j \in Int
          /\ b >= a + (l - i) /\ e >= c + ((j - l) - 1) /\ b < c
      BY <2>2, <2>3, <2>4, <2>6
    <3> HIDE DEF a, b, c, e, l
    <3>2. e >= a + (j - i)
      BY <3>1, Chain
    <3> QED
      BY <3>2 DEF a, e
  <2> QED
    BY <2>5, <2>7
<1> QED
  BY <1>1, <1>3, <1>4, <1>5, <1>6

\* The messages are in order before the first one arrives.
LEMMA MessagesInit == Init => MessagesInv
<1> SUFFICES ASSUME Init PROVE MessagesInv
  OBVIOUS
<1>1. /\ local = <<>> /\ buffer = <<>> /\ received = 0
      /\ committed = {} /\ overwritten = {}
  BY DEF Init
<1>2. Numbers(<<>>) = {} /\ Spaced(<<>>) /\ 1 .. 0 = {}
  BY DEF Numbers, Spaced
<1> QED
  BY <1>1, <1>2 DEF MessagesInv, EachInOnePlace, LostToOverflowOnly

\* One message arrives: the buffer overwrites its oldest if it is full.
LEMMA ReceiveMessage ==
  ASSUME TablesInv, MessagesInv, Receive
  PROVE  MessagesInv'
<1>1. PICK e \in Entries :
        /\ e.number = received + 1
        /\ buffer' = LastOf(Append(buffer, e))
        /\ overwritten' = overwritten \cup Dropped(Append(buffer, e))
        /\ received' = received + 1
        /\ UNCHANGED <<local, committed>>
  <2>1. PICK m \in Messages :
          LET queue == Append(buffer, [number |-> received + 1, rowsets |-> m])
          IN  /\ buffer' = LastOf(queue)
              /\ overwritten' = overwritten \cup Dropped(queue)
    BY DEF Receive
  <2>2. [number |-> received + 1, rowsets |-> m] \in Entries
    BY BoundsAssumption DEF Receive, TablesInv, Entries
  <2> QED
    BY <2>1, <2>2 DEF Receive
<1> DEFINE q == Append(buffer, e)
<1>2. /\ local \in Seq(Entries) /\ buffer \in Seq(Entries) /\ q \in Seq(Entries)
      /\ received \in Nat
  BY BoundsAssumption DEF TablesInv
<1>3. /\ Numbers(q) = Numbers(buffer) \cup {received + 1}
      /\ Numbers(buffer) \subseteq Int /\ Numbers(local) \subseteq Int
  BY <1>1, <1>2, NumbersOf
<1>4. 1 .. received + 1 = (1 .. received) \cup {received + 1} /\ received + 1 \notin 1 .. received
  BY <1>2
<1>5. /\ Numbers(buffer) \subseteq 1 .. received /\ Numbers(local) \subseteq 1 .. received
      /\ committed \subseteq 1 .. received /\ overwritten \subseteq 1 .. received
  BY DEF MessagesInv, EachInOnePlace
<1>6. Spaced(q)
  <2>1. Len(buffer) \in Nat /\ DOMAIN buffer = 1 .. Len(buffer)
    BY <1>2
  <2>2. /\ DOMAIN q = 1 .. Len(buffer) + 1
        /\ \A i \in 1 .. Len(buffer) : q[i] = buffer[i]
        /\ q[Len(buffer) + 1] = e
    BY <1>2
  <2> HIDE DEF q
  <2>3. SUFFICES ASSUME NEW i \in 1 .. Len(buffer) + 1, NEW j \in 1 .. Len(buffer) + 1, i <= j
                 PROVE  q[j].number >= q[i].number + (j - i)
    BY <2>2 DEF Spaced
  <2>4. CASE j <= Len(buffer)
    <3>1. i \in 1 .. Len(buffer) /\ j \in 1 .. Len(buffer)
      BY <2>1, <2>3, <2>4
    <3>2. buffer[j].number >= buffer[i].number + (j - i)
      BY <2>1, <2>3, <3>1, SpacedAt DEF MessagesInv
    <3> QED
      BY <2>2, <3>1, <3>2
  <2>5. CASE i <= Len(buffer) /\ j = Len(buffer) + 1
    <3>1. i \in 1 .. Len(buffer) /\ Len(buffer) \in 1 .. Len(buffer) /\ i <= Len(buffer)
      BY <2>1, <2>3, <2>5
    <3>2. buffer[Len(buffer)].number >= buffer[i].number + (Len(buffer) - i)
      BY <2>1, <3>1, SpacedAt DEF MessagesInv
    <3>3. buffer[Len(buffer)].number \in 1 .. received
      BY <1>5, <2>1, <3>1 DEF Numbers
    <3>4. buffer[i].number \in Int
      BY <1>2, <3>1, EntryNumbers
    <3>5. received + 1 >= buffer[i].number + (j - i)
      BY <1>2, <2>1, <2>5, <3>1, <3>2, <3>3, <3>4
    <3>6. q[i] = buffer[i] /\ q[j] = e
      BY <2>2, <2>5, <3>1
    <3> QED
      BY <1>1, <3>5, <3>6
  <2>6. CASE i = Len(buffer) + 1 /\ j = Len(buffer) + 1
    <3>1. q[i].number = received + 1 /\ q[j].number = received + 1
      BY <1>1, <2>2, <2>6
    <3>2. j - i = 0 /\ received + 1 >= received + 1 + 0
      BY <1>2, <2>1, <2>6
    <3> QED
      BY <3>1, <3>2
  <2> QED
    BY <2>1, <2>3, <2>4, <2>5, <2>6
<1>7. /\ Spaced(LastOf(q)) /\ Numbers(LastOf(q)) \subseteq Numbers(q)
      /\ \A n \in Dropped(q) : q[Len(q)].number >= n + Capacity
      /\ Numbers(LastOf(q)) \cup Dropped(q) = Numbers(q)
      /\ Numbers(LastOf(q)) \cap Dropped(q) = {}
  BY <1>2, <1>6, LastOfSpaced DEF Dropped
<1>8. q[Len(q)].number = received + 1
  BY <1>1, <1>2
<1> HIDE DEF q
<1>9. EachInOnePlace'
  BY <1>1, <1>3, <1>4, <1>5, <1>7 DEF MessagesInv, EachInOnePlace, q
<1>10. LostToOverflowOnly'
  <2>1. \A n \in Dropped(q) : received + 1 >= n + Capacity
    BY <1>7, <1>8
  <2>2. \A n \in overwritten : n \in Int /\ received >= n + Capacity
    BY <1>5 DEF MessagesInv, LostToOverflowOnly
  <2>3. \A n \in overwritten : received + 1 >= n + Capacity
    BY <1>2, <2>2, BoundsAssumption
  <2> QED
    BY <1>1, <2>1, <2>3 DEF LostToOverflowOnly, q
<1>11. /\ \A n \in Numbers(local), m \in Numbers(q) : n < m
       /\ \A n \in committed, m \in Numbers(local) \cup Numbers(q) : n < m
  <2>1. \A n \in 1 .. received : n < received + 1
    BY <1>2
  <2> QED
    BY <1>3, <1>5, <2>1 DEF MessagesInv
<1> QED
  BY <1>1, <1>7, <1>9, <1>10, <1>11 DEF MessagesInv, q

\* The buffer is moved to the end of the local one, which may overflow.
LEMMA CollectMessages ==
  ASSUME TablesInv, MessagesInv, Collect
  PROVE  MessagesInv'
<1> DEFINE q == local \o buffer
<1>1. /\ local' = LastOf(q) /\ buffer' = <<>>
      /\ overwritten' = overwritten \cup Dropped(q)
      /\ UNCHANGED <<received, committed>>
  BY DEF Collect
<1>2. /\ local \in Seq(Entries) /\ buffer \in Seq(Entries) /\ q \in Seq(Entries)
      /\ received \in Nat
  BY BoundsAssumption DEF TablesInv
<1>3. Numbers(q) = Numbers(local) \cup Numbers(buffer) /\ Numbers(<<>>) = {} /\ Spaced(<<>>)
  <2>1. Numbers(<<>>) = {} /\ Spaced(<<>>)
    BY DEF Numbers, Spaced
  <2>2. CASE local = <<>>
    BY <1>2, <2>1, <2>2
  <2>3. CASE local # <<>>
    <3>1. local[1] \in Entries
      BY <1>2, <2>3
    <3> QED
      BY <1>2, <2>1, <3>1, NumbersOf
  <2> QED
    BY <2>2, <2>3
<1>4. /\ Numbers(q) \subseteq 1 .. received
      /\ committed \subseteq 1 .. received /\ overwritten \subseteq 1 .. received
  BY <1>3 DEF MessagesInv, EachInOnePlace
<1>5. Spaced(q)
  BY <1>2, SpacedWhole DEF MessagesInv
<1>6. /\ Spaced(LastOf(q)) /\ Numbers(LastOf(q)) \subseteq Numbers(q)
      /\ \A n \in Dropped(q) : q[Len(q)].number >= n + Capacity /\ Len(q) # 0
      /\ Numbers(LastOf(q)) \cup Dropped(q) = Numbers(q)
      /\ Numbers(LastOf(q)) \cap Dropped(q) = {}
      /\ Dropped(q) \subseteq Numbers(q)
  BY <1>2, <1>5, LastOfSpaced DEF Dropped
<1>7. \A n \in Dropped(q) : received >= n + Capacity
  <2> SUFFICES ASSUME NEW n \in Dropped(q) PROVE received >= n + Capacity
    OBVIOUS
  <2>1. Len(q) \in 1 .. Len(q) /\ DOMAIN q = 1 .. Len(q)
    BY <1>2, <1>6
  <2>2. q[Len(q)].number \in 1 .. received
    BY <1>4, <2>1 DEF Numbers
  <2>3. q[Len(q)].number >= n + Capacity /\ n \in 1 .. received
    BY <1>4, <1>6
  <2> HIDE DEF q
  <2> QED
    BY <1>2, <2>2, <2>3, BoundsAssumption
<1> HIDE DEF q
<1>8. EachInOnePlace'
  BY <1>1, <1>3, <1>6 DEF MessagesInv, EachInOnePlace
<1>9. LostToOverflowOnly'
  BY <1>1, <1>7 DEF MessagesInv, LostToOverflowOnly
<1>10. \A n \in committed, m \in Numbers(q) : n < m
  BY <1>3 DEF MessagesInv
<1> QED
  BY <1>1, <1>3, <1>6, <1>8, <1>9, <1>10 DEF MessagesInv

\* A transaction commits all of the local buffer.
LEMMA CommitMessages ==
  ASSUME TablesInv, MessagesInv, Commit
  PROVE  MessagesInv'
<1>1. /\ committed' = committed \cup Numbers(local) /\ local' = <<>>
      /\ UNCHANGED <<buffer, received, overwritten>>
  BY DEF Commit
<1>2. Numbers(<<>>) = {} /\ Spaced(<<>>)
  BY DEF Numbers, Spaced
<1>3. EachInOnePlace'
  BY <1>1, <1>2 DEF MessagesInv, EachInOnePlace
<1>4. \A n \in committed', m \in Numbers(buffer) : n < m
  BY <1>1 DEF MessagesInv
<1> QED
  BY <1>1, <1>2, <1>3, <1>4 DEF MessagesInv, LostToOverflowOnly

LEMMA MessagesStep == TablesInv /\ MessagesInv /\ [Next]_vars => MessagesInv'
<1> SUFFICES ASSUME TablesInv, MessagesInv, [Next]_vars PROVE MessagesInv'
  OBVIOUS
<1>1. CASE UNCHANGED <<buffer, local, received, committed, overwritten>>
  BY <1>1 DEF MessagesInv, EachInOnePlace, LostToOverflowOnly
<1>2. CASE \/ CheckSigint \/ Join \/ ReceiveOther \/ Interrupt \/ SleepOrExit
           \/ NextMessage \/ ApplyRowset \/ FailOnBadRow \/ FailForOnce
           \/ FailInDestructor \/ UNCHANGED vars
  BY <1>1, <1>2 DEF CheckSigint, Join, ReceiveOther, Interrupt, SleepOrExit,
     NextMessage, ApplyRowset, FailOnBadRow, FailForOnce, Rollback,
     FailInDestructor, vars
<1> QED
  BY <1>2, ReceiveMessage, CollectMessages, CommitMessages DEF Next, Receiver, Database

\* For any traffic, buffer size, failures and signals: the messages keep their
\* order, and each is in one place.
LEMMA MessagesSafe == Spec => [](TablesInv /\ MessagesInv)
<1>1. Init => TablesInv /\ MessagesInv
  BY TablesInit, MessagesInit
<1>2. TablesInv /\ MessagesInv /\ [Next]_vars => (TablesInv /\ MessagesInv)'
  BY TablesStep, MessagesStep
<1> QED
  BY <1>1, <1>2, PTL DEF Spec

\* No message is lost or doubled by a transaction that fails and is tried again.
THEOREM PlacesSafe == Spec => []EachInOnePlace
BY MessagesSafe, PTL DEF MessagesInv

\* The messages take effect in the order of their arrival.
THEOREM OrderSafe == Spec => []InOrderOfArrival
<1>1. TablesInv /\ MessagesInv => InOrderOfArrival
  <2> SUFFICES ASSUME TablesInv, MessagesInv PROVE InOrderOfArrival
    OBVIOUS
  <2> DEFINE q == local \o buffer
  <2>1. local \in Seq(Entries) /\ buffer \in Seq(Entries) /\ q \in Seq(Entries)
    BY DEF TablesInv
  <2>2. Spaced(q)
    BY <2>1, SpacedWhole DEF MessagesInv
  <2>3. /\ Len(q) \in Nat /\ DOMAIN q = 1 .. Len(q)
        /\ \A i \in 1 .. Len(q) : q[i].number \in Int
    BY <2>1, EntryNumbers
  <2>4. \A i \in DOMAIN q : q[i].number \in Numbers(local) \cup Numbers(buffer)
    <3>1. SUFFICES ASSUME NEW i \in DOMAIN q
                   PROVE  q[i].number \in Numbers(local) \cup Numbers(buffer)
      OBVIOUS
    <3>2. \/ i \in DOMAIN local /\ q[i] = local[i]
          \/ i - Len(local) \in DOMAIN buffer /\ q[i] = buffer[i - Len(local)]
      BY <2>1, <3>1
    <3> QED
      BY <3>2 DEF Numbers
  <2> HIDE DEF q
  <2>5. ASSUME NEW i \in DOMAIN q, NEW j \in DOMAIN q, i < j
        PROVE  q[i].number < q[j].number
    <3>1. q[j].number >= q[i].number + (j - i)
      BY <2>2, <2>3, <2>5, SpacedAt
    <3>2. q[i].number \in Int /\ q[j].number \in Int /\ i \in Int /\ j \in Int
      BY <2>3
    <3> QED
      BY <2>5, <3>1, <3>2
  <2>6. \A n \in committed : \A i \in DOMAIN q : n < q[i].number
    BY <2>4 DEF MessagesInv
  <2> QED
    BY <2>5, <2>6 DEF InOrderOfArrival, q
<1> QED
  BY <1>1, MessagesSafe, PTL

\* Only a message that Capacity later ones have followed is lost.
THEOREM OverflowSafe == Spec => []LostToOverflowOnly
BY MessagesSafe, PTL DEF MessagesInv
=============================================================================
