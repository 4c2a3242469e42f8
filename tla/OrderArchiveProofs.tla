------------------------- MODULE OrderArchiveProofs -------------------------
(* Proofs about OrderArchive and ViewAnalysis. *)
EXTENDS ViewAnalysis, FiniteSums

\* A set of numbers has a least element.
LEMMA LeastOf ==
  ASSUME NEW S \in SUBSET Nat, S # {}
  PROVE  Least(S) \in S /\ \A j \in S : Least(S) <= j
<1>1. OpToRel(<, Nat) = {p \in Nat \X Nat : p[1] < p[2]}
  BY DEF OpToRel
<1>2. PICK i \in S : \A j \in S : <<j, i>> \notin {p \in Nat \X Nat : p[1] < p[2]}
  <2> DEFINE R == {p \in Nat \X Nat : p[1] < p[2]}
  <2>1. IsWellFoundedOn(R, Nat)
    BY <1>1, NatLessThanWellFounded
  <2> HIDE DEF R
  <2>2. \E i \in S : \A j \in S : <<j, i>> \notin R
    BY <2>1, WFMin
  <2> QED  BY <2>2 DEF R
<1>3. \A j \in S : i <= j
  <2> SUFFICES ASSUME NEW j \in S  PROVE i <= j
    OBVIOUS
  <2>1. <<j, i>> \notin {p \in Nat \X Nat : p[1] < p[2]}
    BY <1>2
  <2>2. <<j, i>> \in Nat \X Nat /\ ~(j < i)
    BY <2>1
  <2> QED  BY <2>2
<1> QED  BY <1>3 DEF Least
---------------------------------------------------------------------------
(* Reading a snapshot                                                      *)

\* A set of numbers with a bound has a greatest element.
LEMMA GreatestOf ==
  ASSUME NEW n \in Nat, NEW S \in SUBSET 0..n, S # {}
  PROVE  \E k \in S : \A j \in S : j <= k
<1> DEFINE T == {n - k : k \in S}
<1>1. T \in SUBSET Nat /\ T # {}
  <2>1. ASSUME NEW k \in S  PROVE n - k \in Nat
    BY k \in 0..n
  <2>2. PICK k \in S : TRUE
    OBVIOUS
  <2>3. n - k \in T
    OBVIOUS
  <2> QED  BY <2>1, <2>3
<1>2. Least(T) \in T /\ \A j \in T : Least(T) <= j
  BY <1>1, LeastOf
<1>3. PICK k \in S : n - k = Least(T)
  BY <1>2
<1>4. ASSUME NEW j \in S  PROVE j <= k
  <2>1. n - j \in T
    OBVIOUS
  <2>2. n - k <= n - j
    BY <1>2, <1>3, <2>1
  <2> QED  BY <2>2, j \in 0..n, k \in 0..n
<1> QED  BY <1>4

\* readOrders gives pages of live orders, no more than the count can tell.
LEMMA ReadPages ==
  ASSUME NEW t \in Tarballs
  PROVE  /\ DOMAIN readOrders(t) \subseteq Nat
         /\ Cardinality(DOMAIN readOrders(t)) \in 0..MaxCount
         /\ \A p \in DOMAIN readOrders(t) :
              readOrders(t)[p] \in LiveLists /\ DOMAIN readOrders(t)[p] # {}
<1> DEFINE d == readOrders(t)
           numbers == {t[k].page : k \in EntriesRead(t)}
<1>1. t \in Seq(Entries) /\ DOMAIN t = 1..Len(t) /\ Len(t) \in Nat
  BY TarballsAreSequences
<1>2. \A k \in EntriesRead(t) : /\ k \in 1..Len(t) /\ t[k] \in Entries
                                /\ t[k].page \in Nat /\ t[k].page < MaxCount
  BY <1>1, PagesFit DEF EntriesRead, Entries, NotJson
<1>3. DOMAIN d \subseteq numbers
  BY DEF readOrders
<1>4. numbers \subseteq 0..(MaxCount - 1)
  BY <1>2, MaxCountIsNumber
<1>5. Cardinality(DOMAIN d) \in 0..MaxCount
  <2>1. IsFiniteSet(0..(MaxCount - 1)) /\ Cardinality(0..(MaxCount - 1)) = MaxCount
    BY FS_Interval, MaxCountIsNumber
  <2>2. DOMAIN d \in SUBSET (0..(MaxCount - 1))
    BY <1>3, <1>4
  <2>3. IsFiniteSet(DOMAIN d) /\ Cardinality(DOMAIN d) <= MaxCount
    BY <2>1, <2>2, FS_Subset
  <2>4. Cardinality(DOMAIN d) \in Nat
    BY <2>3, FS_CardinalityType
  <2> QED  BY <2>3, <2>4, MaxCountIsNumber
<1>6. ASSUME NEW p \in numbers
      PROVE LastEntry(t, p) \in EntriesRead(t)
  <2> DEFINE S == {k \in EntriesRead(t) : t[k].page = p}
  <2>1. S \in SUBSET (0..Len(t)) /\ S # {}
    BY <1>1, <1>2
  <2>2. \E k \in S : \A j \in S : j <= k
    BY <2>1, <1>1, GreatestOf
  <2> QED  BY <2>2 DEF LastEntry
<1>7. ASSUME NEW p \in DOMAIN d
      PROVE d[p] \in LiveLists /\ DOMAIN d[p] # {}
  <2> DEFINE e == t[LastEntry(t, p)]
  <2>1. e \in Entries
    BY <1>2, <1>3, <1>6
  <2>2. d[p] = [i \in filterOrders(e) |-> e.orders[i]] /\ filterOrders(e) # {}
    BY DEF readOrders
  <2>3. e.orders \in Lists
    BY <2>1 DEF Entries
  <2>4. filterOrders(e) \subseteq DOMAIN e.orders
    BY DEF filterOrders
  <2>5. DOMAIN e.orders \subseteq Ids /\ \A i \in DOMAIN e.orders : e.orders[i] \in Quotes
    BY <2>3 DEF Lists
  <2> HIDE DEF e, d
  <2>6. DOMAIN d[p] = filterOrders(e) /\ filterOrders(e) \in SUBSET Ids
    BY <2>2, <2>4, <2>5
  <2>7. d[p] \in [filterOrders(e) -> Quotes]
    BY <2>2, <2>4, <2>5
  <2>8. d[p] \in Lists
    BY <2>6, <2>7 DEF Lists
  <2>9. \A i \in DOMAIN d[p] : d[p][i].volume # 0
    BY <2>2, <2>6 DEF filterOrders
  <2> QED  BY <2>2, <2>6, <2>8, <2>9 DEF LiveLists
<1> QED  BY <1>3, <1>4, <1>5, <1>7

---------------------------------------------------------------------------
(* The invariant                                                           *)

\* A list is a function of ids to live orders, and every such function is one.
LEMMA LiveListType ==
  ASSUME NEW l \in LiveLists
  PROVE  /\ DOMAIN l \subseteq Ids /\ l \in [DOMAIN l -> Quotes]
         /\ \A i \in DOMAIN l : /\ l[i] \in [price : Int, volume : Nat]
                               /\ l[i].volume # 0
BY QuotesAreNumbers DEF LiveLists, Lists

LEMMA LiveListMade ==
  ASSUME NEW S \in SUBSET Ids, NEW l \in [S -> Quotes], \A i \in S : l[i].volume # 0
  PROVE  l \in LiveLists
<1>1. l \in Lists
  BY DEF Lists
<1> QED  BY <1>1 DEF LiveLists

LEMMA EmptyFacts == /\ DOMAIN Empty = {} /\ Empty \in LiveLists
                    /\ Len(Empty) = 0 /\ \A S : Empty \in Seq(S)
<1>1. DOMAIN Empty = {} /\ Len(Empty) = 0 /\ \A S : Empty \in Seq(S)
  BY DEF Empty
<1>2. Empty \in [{} -> Quotes]
  BY <1>1 DEF Empty
<1> QED  BY <1>1, <1>2, LiveListMade

LEMMA InitInv == Init => IInv
<1> SUFFICES ASSUME Init  PROVE IInv
  OBVIOUS
<1> USE EmptyFacts DEF Init
<1>1. ListsOK
  BY MaxCountIsNumber DEF ListsOK, Compared
<1>2. IndexOK
  BY DEF IndexOK, Empty
<1>3. SizeOK
  <2>1. Cardinality(DOMAIN index) = 0
    BY FS_EmptySet
  <2>2. Cardinality(Ids) \in Nat
    BY IdsAreNumbers, FS_CardinalityType
  <2> QED  BY <2>1, <2>2 DEF SizeOK, Empty
<1>4. WrittenOK
  BY DEF WrittenOK, Empty
<1>5. ReaderOK
  BY DEF ReaderOK
<1> QED  BY <1>1, <1>2, <1>3, <1>4, <1>5 DEF IInv

LEMMA OpenInv == IInv /\ Open => IInv'
<1> SUFFICES ASSUME IInv, Open  PROVE IInv'
  OBVIOUS
<1>1. PICK t \in Tarballs : docs' = readOrders(t) /\ pages' = Cardinality(DOMAIN readOrders(t))
  BY DEF Open
<1> USE DEF IInv, Open
<1>2. ListsOK'
  BY <1>1, ReadPages DEF ListsOK
<1>3. IndexOK' /\ SizeOK' /\ WrittenOK'
  <2>1. IndexOK'
    BY DEF IndexOK
  <2>2. SizeOK'
    BY DEF SizeOK
  <2>3. WrittenOK'
    BY DEF WrittenOK, Expected
  <2> QED  BY <2>1, <2>2, <2>3
<1>4. ReaderOK'
  BY DEF ReaderOK
<1> QED  BY <1>2, <1>3, <1>4

\* When everything is compared, the slots hold the active orders and no others.
LEMMA ComparedReads ==
  ASSUME IInv, Compared
  PROVE  /\ Live(written) = Listed(active)
         /\ \A j, k \in DOMAIN written :
              written[j].volume # 0 /\ written[k].volume # 0 /\ written[j].id = written[k].id => j = k
<1>1. DOMAIN index = DOMAIN active /\ DOMAIN written = 1..size
  BY DEF Compared, IInv, IndexOK, WrittenOK
<1>2. \A i \in DOMAIN index : written[index[i]] = Order(i, active[i]) /\ index[i] \in 1..size
  BY DEF Compared, IInv, IndexOK, WrittenOK, Expected
<1>3. \A i \in DOMAIN active : Order(i, active[i]).volume # 0
  BY LiveListType DEF IInv, ListsOK, Order
<1>4. ASSUME NEW k \in DOMAIN written, written[k].volume # 0
      PROVE  \E i \in DOMAIN active : index[i] = k /\ written[k] = Order(i, active[i])
  <2>1. ~\E j \in DOMAIN free : free[j] = k
    BY <1>4 DEF IInv, WrittenOK
  <2>2. \E i \in DOMAIN index : index[i] = k
    BY <2>1, <1>1 DEF IInv, IndexOK
  <2> QED  BY <2>2, <1>1, <1>2
<1>5. Live(written) \subseteq Listed(active)
  BY <1>4 DEF Live, Listed
<1>6. Listed(active) \subseteq Live(written)
  BY <1>1, <1>2, <1>3 DEF Live, Listed
<1>7. ASSUME NEW j \in DOMAIN written, NEW k \in DOMAIN written,
             written[j].volume # 0, written[k].volume # 0, written[j].id = written[k].id
      PROVE  j = k
  <2>1. PICK i \in DOMAIN active : index[i] = j /\ written[j] = Order(i, active[i])
    BY <1>4, <1>7
  <2>2. PICK l \in DOMAIN active : index[l] = k /\ written[k] = Order(l, active[l])
    BY <1>4, <1>7
  <2>3. i = l
    BY <2>1, <2>2, <1>7 DEF Order
  <2> QED  BY <2>1, <2>2, <2>3
<1> QED  BY <1>5, <1>6, <1>7

LEMMA CloseInv == IInv /\ Close => IInv' /\ slots' = written /\ Live(slots') = Listed(active)
<1> SUFFICES ASSUME IInv, Close
             PROVE  IInv' /\ slots' = written /\ Live(slots') = Listed(active)
  OBVIOUS
<1>1. slots' = written
  BY DEF IInv, ListsOK, Close, AsInt8
<1>2. DOMAIN old = {} /\ cur = {} /\ DOMAIN docs = {} /\ Compared
  BY DEF Close, Compared
<1>7. Live(slots') = Listed(active)
  BY <1>1, <1>2, ComparedReads
<1>8. phase' = "idle"
  BY <1>7 DEF Close
<1>9. ListsOK'
  BY <1>8, <1>2 DEF IInv, Close, ListsOK, Compared
<1>10. IndexOK' /\ SizeOK' /\ WrittenOK'
  <2>1. IndexOK'
    BY DEF IInv, Close, IndexOK
  <2>2. SizeOK'
    BY DEF IInv, Close, SizeOK
  <2>3. WrittenOK'
    BY DEF IInv, Close, WrittenOK, Expected
  <2> QED  BY <2>1, <2>2, <2>3
<1>11. ReaderOK'
  BY <1>1, <1>8 DEF Close, ReaderOK
<1> QED  BY <1>1, <1>7, <1>9, <1>10, <1>11 DEF IInv

LEMMA BeginPageInv == IInv /\ BeginPage => IInv'
<1> SUFFICES ASSUME IInv, BeginPage  PROVE IInv'
  OBVIOUS
<1> DEFINE n == Least(DOMAIN docs)
           page == docs[n]
           inside == {i \in DOMAIN active : Covers(page, i)}
<1>1. /\ docs' = [p \in DOMAIN docs \ {n} |-> docs[p]]
      /\ active' = [i \in (DOMAIN active \ inside) \cup DOMAIN page |->
                      IF i \in DOMAIN page THEN page[i] ELSE active[i]]
      /\ cur' = DOMAIN page /\ old' = [i \in inside |-> active[i]]
      /\ DOMAIN old = {} /\ cur = {} /\ phase = "view"
      /\ UNCHANGED <<views, phase, pages, index, free, size, written, slots>>
  BY DEF BeginPage, Compared
<1>2. n \in DOMAIN docs
  BY LeastOf DEF IInv, ListsOK, BeginPage
<1>3. page \in LiveLists /\ DOMAIN page # {}
  BY <1>2 DEF IInv, ListsOK
<1>4. active \in LiveLists
  BY DEF IInv, ListsOK
<1>5. DOMAIN page \cap DOMAIN active \subseteq inside
  <2>1. \A i \in DOMAIN page : i \in Nat
    BY <1>3, LiveListType, IdsAreNumbers
  <2> QED  BY <2>1 DEF Covers
<1> HIDE DEF n, page, inside
<1>6. inside \subseteq DOMAIN active
  BY DEF inside
<1>7. ListsOK'
  <2>1. DOMAIN docs' \subseteq Nat /\ \A p \in DOMAIN docs' : docs'[p] \in LiveLists /\ DOMAIN docs'[p] # {}
    BY <1>1 DEF IInv, ListsOK
  <2>2. active' \in LiveLists
    <3>1. \A i \in (DOMAIN active \ inside) \cup DOMAIN page : active'[i] \in Quotes /\ active'[i].volume # 0
      BY <1>1, <1>3, <1>4, LiveListType
    <3>2. (DOMAIN active \ inside) \cup DOMAIN page \in SUBSET Ids
      BY <1>3, <1>4, LiveListType
    <3>3. active' \in [(DOMAIN active \ inside) \cup DOMAIN page -> Quotes]
      BY <1>1, <3>1
    <3> QED  BY <3>1, <3>2, <3>3, LiveListMade
  <2>3. old' \in LiveLists
    <3>1. old' \in [inside -> Quotes] /\ \A i \in inside : old'[i].volume # 0
      BY <1>1, <1>4, <1>6, LiveListType
    <3> QED  BY <3>1, <1>4, <1>6, LiveListType, LiveListMade
  <2>4. cur' \subseteq DOMAIN active' /\ DOMAIN old' \cap DOMAIN active' \subseteq cur'
    BY <1>1
  <2> QED  BY <1>1, <2>1, <2>2, <2>3, <2>4 DEF IInv, ListsOK
<1>8. DOMAIN index = (DOMAIN active' \ cur') \cup DOMAIN old'
  <2>1. DOMAIN index = DOMAIN active
    BY <1>1 DEF IInv, IndexOK
  <2> QED  BY <2>1, <1>1, <1>5, <1>6
<1>9. IndexOK' /\ SizeOK'
  <2>1. IndexOK'
    <3>1. UNCHANGED <<index, free, size>>
      BY <1>1
    <3> QED  BY <3>1, <1>8 DEF IInv, IndexOK
  <2>2. SizeOK'
    BY <1>1 DEF IInv, SizeOK
  <2> QED  BY <2>1, <2>2
<1>10. WrittenOK'
  <2>1. ASSUME NEW i \in DOMAIN index  PROVE written[index[i]] = Expected(i)'
    <3>1. written[index[i]] = Order(i, active[i]) /\ i \in DOMAIN active
      BY <1>1 DEF IInv, IndexOK, WrittenOK, Expected
    <3>2. CASE i \in inside
      BY <3>1, <3>2, <1>1 DEF Expected
    <3>3. CASE i \notin inside
      BY <3>1, <3>3, <1>1, <1>5 DEF Expected
    <3> QED  BY <3>2, <3>3
  <2> QED  BY <2>1, <1>1 DEF IInv, WrittenOK
<1>11. ReaderOK'
  BY <1>1 DEF IInv, ReaderOK
<1> QED  BY <1>7, <1>9, <1>10, <1>11 DEF IInv

\* A diff changes price and volume of one slot.
LEMMA ChangeFacts ==
  ASSUME NEW n \in Nat, NEW w \in [1..n -> [id : Ids, price : Int, volume : Nat]],
         NEW k \in 1..n, NEW price \in Int, NEW volume \in Nat
  PROVE  /\ Change(w, k, price, volume) \in [1..n -> [id : Ids, price : Int, volume : Nat]]
         /\ Change(w, k, price, volume)[k] = [id |-> w[k].id, price |-> price, volume |-> volume]
BY DEF Change

LEMMA ChangeOthers ==
  ASSUME NEW n \in Nat, NEW w \in [1..n -> [id : Ids, price : Int, volume : Nat]],
         NEW k \in 1..n, NEW price, NEW volume, NEW j \in 1..n, j # k
  PROVE  Change(w, k, price, volume)[j] = w[j]
BY DEF Change

\* The ids of the lists are numbers, and there are finitely many.
LEMMA IdFacts ==
  ASSUME IInv
  PROVE  /\ cur \in SUBSET Nat /\ DOMAIN old \in SUBSET Nat /\ DOMAIN active \in SUBSET Ids
         /\ cur # {} => Least(cur) \in cur
         /\ DOMAIN old # {} => Least(DOMAIN old) \in DOMAIN old
         /\ DOMAIN index \in SUBSET Ids /\ IsFiniteSet(DOMAIN index)
         /\ Cardinality(DOMAIN index) \in Nat
<1>1. /\ cur \in SUBSET Nat /\ DOMAIN old \in SUBSET Nat /\ DOMAIN active \in SUBSET Ids
      /\ DOMAIN old \in SUBSET Ids
  BY LiveListType, IdsAreNumbers DEF IInv, ListsOK
<1>2. DOMAIN index \in SUBSET Ids
  BY <1>1 DEF IInv, IndexOK
<1> QED  BY <1>1, <1>2, LeastOf, IdsAreNumbers, FS_Subset, FS_CardinalityType

LEMMA KeptOrderInv == IInv /\ KeptOrder => IInv'
<1> SUFFICES ASSUME IInv, KeptOrder  PROVE IInv'
  OBVIOUS
<1> DEFINE i == Least(cur)
<1>1. i \in cur /\ i \in DOMAIN old
  BY IdFacts DEF KeptOrder, InLoop
<1> HIDE DEF i
<1>2. /\ written' = IF active[i].price # old[i].price \/ active[i].volume # old[i].volume
                    THEN Change(written, index[i], active[i].price, active[i].volume)
                    ELSE written
      /\ cur' = cur \ {i} /\ old' = [j \in DOMAIN old \ {i} |-> old[j]]
      /\ AfterRecord(i \notin DOMAIN index)
      /\ UNCHANGED <<views, docs, pages, active, index, free, size, slots>>
  BY DEF KeptOrder, i
<1>3. i \in DOMAIN active /\ i \in DOMAIN index /\ index[i] \in 1..size /\ size \in Nat
  BY <1>1 DEF IInv, ListsOK, IndexOK
<1>4. phase' = "view" \/ (phase' = "failed" /\ SelfCheck)
  BY <1>2, <1>3 DEF AfterRecord
<1>5. DOMAIN old' = DOMAIN old \ {i}
  BY <1>2
<1>6. ListsOK'
  <2>1. old' \in LiveLists
    <3>1. old \in LiveLists
      BY DEF IInv, ListsOK
    <3>2. old' \in [DOMAIN old \ {i} -> Quotes] /\ \A j \in DOMAIN old \ {i} : old'[j].volume # 0
      BY <3>1, <1>2, LiveListType
    <3> QED  BY <3>1, <3>2, LiveListType, LiveListMade
  <2> QED  BY <1>2, <1>4, <1>5, <2>1 DEF IInv, ListsOK
<1>7. IndexOK'
  <2>1. DOMAIN index = (DOMAIN active \ cur') \cup DOMAIN old'
    BY <1>2, <1>3, <1>5 DEF IInv, IndexOK
  <2>2. UNCHANGED <<active, index, free, size>>
    BY <1>2
  <2> QED  BY <2>1, <2>2 DEF IInv, IndexOK
<1>8. SizeOK'
  BY <1>2 DEF IInv, SizeOK
<1>9. WrittenOK'
  <2>1. active[i].price \in Int /\ active[i].volume \in Nat
    BY <1>3, LiveListType DEF IInv, ListsOK
  <2>2. written \in [1..size -> [id : Ids, price : Int, volume : Nat]]
    BY DEF IInv, WrittenOK
  <2>3. written[index[i]] = Order(i, old[i])
    BY <1>1, <1>3 DEF IInv, WrittenOK, Expected
  <2> DEFINE c == Change(written, index[i], active[i].price, active[i].volume)
  <2>10. /\ c \in [1..size -> [id : Ids, price : Int, volume : Nat]]
         /\ c[index[i]] = [id |-> written[index[i]].id, price |-> active[i].price,
                           volume |-> active[i].volume]
         /\ \A j \in 1..size : j # index[i] => c[j] = written[j]
    <3>1. c \in [1..size -> [id : Ids, price : Int, volume : Nat]]
      BY <1>3, <2>1, <2>2, ChangeFacts
    <3>2. c[index[i]] = [id |-> written[index[i]].id, price |-> active[i].price,
                         volume |-> active[i].volume]
      BY <1>3, <2>1, <2>2, ChangeFacts
    <3>3. ASSUME NEW j \in 1..size, j # index[i]  PROVE c[j] = written[j]
      <4>1. PICK p \in Int, v \in Nat, k \in 1..size :
              p = active[i].price /\ v = active[i].volume /\ k = index[i]
        BY <1>3, <2>1
      <4>2. size \in Nat /\ j # k
        BY <1>3, <3>3, <4>1
      <4>3. Change(written, k, p, v)[j] = written[j]
        BY <2>2, <4>2, ChangeOthers
      <4>4. c = Change(written, k, p, v)
        BY <4>1, Zenon
      <4> QED  BY <4>3, <4>4, Zenon
    <3> QED  BY <3>1, <3>2, <3>3
  <2> HIDE DEF c
  <2>4. /\ written' \in [1..size -> [id : Ids, price : Int, volume : Nat]]
        /\ \A k \in 1..size : k # index[i] => written'[k] = written[k]
    <3>1. CASE active[i].price # old[i].price \/ active[i].volume # old[i].volume
      <4>1. written' = c
        BY <3>1, <1>2 DEF c
      <4> QED  BY <4>1, <2>10
    <3>2. CASE ~(active[i].price # old[i].price \/ active[i].volume # old[i].volume)
      BY <3>2, <1>2, <2>2
    <3> QED  BY <3>1, <3>2
  <2>5. written'[index[i]] = Order(i, active[i])
    <3>1. CASE active[i].price # old[i].price \/ active[i].volume # old[i].volume
      <4>1. written' = c
        BY <3>1, <1>2 DEF c
      <4> QED  BY <4>1, <2>10, <2>3 DEF Order
    <3>2. CASE ~(active[i].price # old[i].price \/ active[i].volume # old[i].volume)
      BY <3>2, <1>2, <2>3 DEF Order
    <3> QED  BY <3>1, <3>2
  <2>6. ASSUME NEW j \in DOMAIN index  PROVE written'[index[j]] = Expected(j)'
    <3>1. CASE j = i
      BY <3>1, <1>2, <1>5, <2>5 DEF Expected
    <3>2. CASE j # i
      <4>1. index[j] # index[i] /\ index[j] \in 1..size
        BY <3>2, <1>3 DEF IInv, IndexOK
      <4>2. written'[index[j]] = Expected(j)
        BY <4>1, <2>4 DEF IInv, WrittenOK
      <4>3. Expected(j)' = Expected(j)
        BY <3>2, <1>2, <1>5 DEF Expected
      <4> QED  BY <4>2, <4>3
    <3> QED  BY <3>1, <3>2
  <2>7. ASSUME NEW j \in DOMAIN free  PROVE written'[free[j]].volume = 0
    <3>1. free[j] \in 1..size /\ free[j] # index[i]
      BY <1>3 DEF IInv, IndexOK
    <3> QED  BY <3>1, <2>4 DEF IInv, WrittenOK
  <2> QED  BY <1>2, <2>4, <2>6, <2>7 DEF WrittenOK
<1>10. ReaderOK'
  BY <1>4 DEF ReaderOK
<1> QED  BY <1>6, <1>7, <1>8, <1>9, <1>10 DEF IInv

LEMMA GoneOrderInv == IInv /\ GoneOrder => IInv'
<1> SUFFICES ASSUME IInv, GoneOrder  PROVE IInv'
  OBVIOUS
<1> DEFINE i == Least(DOMAIN old)
           c == Change(written, index[i], old[i].price, 0)
<1>1. i \in DOMAIN old
  BY IdFacts DEF GoneOrder
<1>2. i \notin cur
  <2>1. \A j \in cur : i < j /\ j \in Nat
    BY IdFacts DEF GoneOrder
  <2> QED  BY <2>1
<1>3. /\ written' = c /\ free' = Append(free, index[i])
      /\ index' = [j \in DOMAIN index \ {i} |-> index[j]]
      /\ old' = [j \in DOMAIN old \ {i} |-> old[j]]
      /\ cur' = cur /\ AfterRecord(i \notin DOMAIN index)
      /\ UNCHANGED <<views, docs, pages, active, size, slots>>
  BY DEF GoneOrder
<1> HIDE DEF i, c
<1>4. i \in DOMAIN index /\ index[i] \in 1..size /\ size \in Nat /\ i \notin DOMAIN active
  BY <1>1, <1>2 DEF IInv, ListsOK, IndexOK
<1>5. phase' = "view" \/ (phase' = "failed" /\ SelfCheck)
  BY <1>3, <1>4 DEF AfterRecord
<1>6. DOMAIN old' = DOMAIN old \ {i} /\ DOMAIN index' = DOMAIN index \ {i}
  BY <1>3
<1>7. /\ free \in Seq(1..size) /\ Len(free) \in Nat
      /\ free' \in Seq(1..size) /\ Len(free') = Len(free) + 1
      /\ DOMAIN free = 1..Len(free) /\ DOMAIN free' = 1..(Len(free) + 1)
      /\ \A j \in DOMAIN free : free'[j] = free[j]
      /\ free'[Len(free) + 1] = index[i]
  BY <1>3, <1>4 DEF IInv, IndexOK
<1>8. ListsOK'
  <2>1. old \in LiveLists
    BY DEF IInv, ListsOK
  <2>2. old' \in [DOMAIN old \ {i} -> Quotes] /\ \A j \in DOMAIN old \ {i} : old'[j].volume # 0
    BY <2>1, <1>3, LiveListType
  <2>3. old' \in LiveLists
    BY <2>1, <2>2, LiveListType, LiveListMade
  <2> QED  BY <1>3, <1>5, <1>6, <2>3 DEF IInv, ListsOK
<1>9. IndexOK'
  <2>1. DOMAIN index' = (DOMAIN active' \ cur') \cup DOMAIN old'
    BY <1>2, <1>3, <1>4, <1>6 DEF IInv, IndexOK
  <2>2. size' \in Nat /\ index' \in [DOMAIN index' -> 1..size']
    BY <1>3, <1>4, <1>6 DEF IInv, IndexOK
  <2>3. free' \in Seq(1..size')
    BY <1>3, <1>7
  <2>4. \A j, k \in DOMAIN index' : index'[j] = index'[k] => j = k
    BY <1>3, <1>6 DEF IInv, IndexOK
  <2>5. \A j \in DOMAIN free : free[j] # index[i]
    BY <1>4 DEF IInv, IndexOK
  <2>6. \A j, k \in DOMAIN free' : free'[j] = free'[k] => j = k
    <3>1. \A j, k \in DOMAIN free : free[j] = free[k] => j = k
      BY DEF IInv, IndexOK
    <3>2. ASSUME NEW j \in DOMAIN free', NEW k \in DOMAIN free', free'[j] = free'[k]
          PROVE  j = k
      <4>1. CASE j \in DOMAIN free /\ k \in DOMAIN free
        BY <3>1, <3>2, <4>1, <1>7
      <4>2. CASE j \notin DOMAIN free \/ k \notin DOMAIN free
        BY <2>5, <3>2, <4>2, <1>7
      <4> QED  BY <4>1, <4>2
    <3> QED  BY <3>2
  <2>7. ASSUME NEW j \in DOMAIN index', NEW k \in DOMAIN free'
        PROVE  index'[j] # free'[k]
    <3>1. j \in DOMAIN index /\ j # i /\ index'[j] = index[j]
      BY <1>3, <1>6
    <3>2. CASE k \in DOMAIN free
      BY <3>1, <3>2, <1>7 DEF IInv, IndexOK
    <3>3. CASE k = Len(free) + 1
      BY <3>1, <3>3, <1>4, <1>7 DEF IInv, IndexOK
    <3> QED  BY <3>2, <3>3, <1>7
  <2>8. ASSUME NEW k \in 1..size'
        PROVE  (\E j \in DOMAIN index' : index'[j] = k) \/ (\E j \in DOMAIN free' : free'[j] = k)
    <3>1. k \in 1..size
      BY <1>3
    <3>2. CASE k = index[i]
      BY <3>2, <1>7
    <3>3. CASE k # index[i] /\ \E j \in DOMAIN index : index[j] = k
      BY <3>3, <1>3, <1>6
    <3>4. CASE \E j \in DOMAIN free : free[j] = k
      BY <3>4, <1>7
    <3> QED  BY <3>1, <3>2, <3>3, <3>4 DEF IInv, IndexOK
  <2> QED  BY <2>1, <2>2, <2>3, <2>4, <2>6, <2>7, <2>8 DEF IndexOK
<1>10. SizeOK'
  <2>1. Cardinality(DOMAIN index') = Cardinality(DOMAIN index) - 1
    BY <1>4, <1>6, IdFacts, FS_RemoveElement
  <2> QED  BY <2>1, <1>3, <1>7, IdFacts DEF IInv, SizeOK
<1>11. WrittenOK'
  <2>1. old[i].price \in Int /\ 0 \in Nat
    BY <1>1, LiveListType DEF IInv, ListsOK
  <2>2. written \in [1..size -> [id : Ids, price : Int, volume : Nat]]
    BY DEF IInv, WrittenOK
  <2>3. c \in [1..size -> [id : Ids, price : Int, volume : Nat]]
    <3>1. Change(written, index[i], old[i].price, 0) \in [1..size -> [id : Ids, price : Int, volume : Nat]]
      BY <1>4, <2>1, <2>2, ChangeFacts
    <3> QED  BY <3>1 DEF c
  <2>4. c[index[i]] = [id |-> written[index[i]].id, price |-> old[i].price, volume |-> 0]
    <3>1. PICK p \in Int, k \in 1..size, z \in Nat : p = old[i].price /\ k = index[i] /\ z = 0
      BY <1>4, <2>1
    <3>2. Change(written, k, p, z)[k] = [id |-> written[k].id, price |-> p, volume |-> z]
      BY <1>4, <2>2, ChangeFacts
    <3> QED  BY <3>1, <3>2 DEF c
  <2>5. ASSUME NEW j \in 1..size, j # index[i]  PROVE c[j] = written[j]
    <3>1. PICK k \in 1..size : k = index[i]
      BY <1>4
    <3>2. size \in Nat /\ j # k
      BY <1>4, <2>5, <3>1
    <3>3. Change(written, k, old[i].price, 0)[j] = written[j]
      BY <2>2, <3>2, ChangeOthers
    <3>4. c = Change(written, k, old[i].price, 0)
      BY <3>1, Zenon DEF c
    <3> QED  BY <3>3, <3>4, Zenon
  <2>6. ASSUME NEW j \in DOMAIN index'  PROVE written'[index'[j]] = Expected(j)'
    <3>1. j \in DOMAIN index /\ j # i /\ index'[j] = index[j]
      BY <1>3, <1>6
    <3>2. index[j] # index[i] /\ index[j] \in 1..size
      BY <3>1, <1>4 DEF IInv, IndexOK
    <3>3. written'[index'[j]] = Expected(j)
      BY <3>1, <3>2, <2>5, <1>3 DEF IInv, WrittenOK
    <3>4. Expected(j)' = Expected(j)
      BY <3>1, <1>3, <1>6 DEF Expected
    <3> QED  BY <3>3, <3>4
  <2>7. ASSUME NEW j \in DOMAIN free'  PROVE written'[free'[j]].volume = 0
    <3>1. CASE j \in DOMAIN free
      <4>1. free[j] \in 1..size /\ free[j] # index[i] /\ free'[j] = free[j]
        BY <3>1, <1>4, <1>7 DEF IInv, IndexOK
      <4> QED  BY <3>1, <4>1, <2>5, <1>3 DEF IInv, WrittenOK
    <3>2. CASE j = Len(free) + 1
      BY <3>2, <1>3, <1>7, <2>4
    <3> QED  BY <3>1, <3>2, <1>7
  <2> QED  BY <1>3, <2>3, <2>6, <2>7 DEF WrittenOK
<1>12. ReaderOK'
  BY <1>5 DEF ReaderOK
<1> QED  BY <1>8, <1>9, <1>10, <1>11, <1>12 DEF IInv

\* Slot k is no order's and not on the list f, which has what else was free.
FreshSlot(k, f, n) ==
  /\ n \in Nat /\ size <= n /\ k \in 1..n /\ \A j \in 1..n : j = k \/ j \in 1..size
  /\ f \in Seq(1..size) /\ \A j \in DOMAIN f : f[j] # k
  /\ \A j \in DOMAIN f : \E m \in DOMAIN free : f[j] = free[m]
  /\ \A m \in DOMAIN free : free[m] = k \/ \E j \in DOMAIN f : f[j] = free[m]
  /\ \A i, j \in DOMAIN f : f[i] = f[j] => i = j
  /\ \A i \in DOMAIN index : index[i] # k
  /\ n - Len(f) = size - Len(free) + 1 /\ Len(f) \in Nat

LEMMA IndexFacts ==
  ASSUME IInv
  PROVE  /\ size \in Nat /\ free \in Seq(1..size) /\ Len(free) \in Nat
         /\ DOMAIN free = 1..Len(free)
         /\ \A i \in 1..Len(free) : free[i] \in 1..size
         /\ \A i, j \in DOMAIN free : free[i] = free[j] => i = j
         /\ \A i \in DOMAIN index : index[i] \in 1..size
         /\ \A i \in DOMAIN index, j \in DOMAIN free : index[i] # free[j]
BY DEF IInv, IndexOK

\* A list without its head.
LEMMA TailFacts ==
  ASSUME NEW S, NEW s \in Seq(S), s # <<>>
  PROVE  /\ Tail(s) \in Seq(S) /\ Len(Tail(s)) = Len(s) - 1 /\ Head(s) = s[1]
         /\ Len(s) \in Nat \ {0} /\ DOMAIN Tail(s) = 1..(Len(s) - 1)
         /\ \A j \in 1..(Len(s) - 1) : Tail(s)[j] = s[j + 1]
<1>1. Len(s) \in Nat \ {0} /\ Head(s) = s[1]
  OBVIOUS
<1>2. Tail(s) \in Seq(S) /\ Len(Tail(s)) = Len(s) - 1
  BY <1>1
<1>3. DOMAIN Tail(s) = 1..(Len(s) - 1)
  BY <1>2
<1>4. \A j \in 1..(Len(s) - 1) : Tail(s)[j] = s[j + 1]
  BY <1>1
<1> QED  BY <1>1, <1>2, <1>3, <1>4

LEMMA SlotPushed == ASSUME IInv, free = <<>>  PROVE FreshSlot(size + 1, free, size + 1)
BY IndexFacts DEF FreshSlot

LEMMA SlotReused == ASSUME IInv, free # <<>>  PROVE FreshSlot(Head(free), Tail(free), size)
<1> DEFINE k == Head(free)  f == Tail(free)  l == Len(free)
<1>1. /\ size \in Nat /\ DOMAIN free = 1..l
      /\ \A i \in 1..l : free[i] \in 1..size
      /\ \A i, j \in DOMAIN free : free[i] = free[j] => i = j
      /\ \A i \in DOMAIN index : index[i] \in 1..size
      /\ \A i \in DOMAIN index, j \in DOMAIN free : index[i] # free[j]
  BY IndexFacts
<1>2. /\ k = free[1] /\ f \in Seq(1..size) /\ Len(f) = l - 1 /\ DOMAIN f = 1..(l - 1)
      /\ l \in Nat \ {0}
      /\ \A j \in 1..(l - 1) : f[j] = free[j + 1]
  BY IndexFacts, TailFacts
<1> HIDE DEF k, f, l
<1>3. ASSUME NEW j \in 1..(l - 1)
      PROVE  j + 1 \in 1..l /\ j + 1 # 1 /\ f[j] = free[j + 1]
  BY <1>2
<1>4. 1 \in 1..l
  BY <1>2
<1>5. \A j \in DOMAIN f : f[j] # k
  BY <1>1, <1>2, <1>3, <1>4
<1>6. ASSUME NEW i \in DOMAIN f, NEW j \in DOMAIN f, f[i] = f[j]  PROVE i = j
  <2>1. i \in 1..(l - 1) /\ j \in 1..(l - 1)
    BY <1>2
  <2>2. i + 1 = j + 1
    BY <1>1, <1>3, <1>6, <2>1
  <2> QED  BY <2>1, <2>2
<1>7. ASSUME NEW m \in DOMAIN free  PROVE free[m] = k \/ \E j \in DOMAIN f : f[j] = free[m]
  <2>1. m \in 1..l
    BY <1>1
  <2>2. CASE m = 1
    BY <2>2, <1>2
  <2>3. CASE m # 1
    <3>1. m - 1 \in 1..(l - 1) /\ (m - 1) + 1 = m
      BY <2>1, <2>3, <1>2
    <3>2. f[m - 1] = free[m]
      BY <3>1, <1>2
    <3> QED  BY <3>1, <3>2, <1>2
  <2> QED  BY <2>2, <2>3
<1>8. \A j \in DOMAIN f : \E m \in DOMAIN free : f[j] = free[m]
  BY <1>1, <1>2, <1>3
<1>9. k \in 1..size /\ \A i \in DOMAIN index : index[i] # k
  BY <1>1, <1>2, <1>4
<1>10. size - Len(f) = size - l + 1 /\ Len(f) \in Nat
  BY <1>1, <1>2
<1> QED  BY <1>1, <1>2, <1>5, <1>6, <1>7, <1>8, <1>9, <1>10 DEF FreshSlot, k, f, l

LEMMA NewOrderInv == IInv /\ NewOrder => IInv'
<1> SUFFICES ASSUME IInv, NewOrder  PROVE IInv'
  OBVIOUS
<1> DEFINE i == Least(cur)
           k == IF free = <<>> THEN size + 1 ELSE Head(free)
<1>1. i \in cur
  BY IdFacts DEF NewOrder
<1>2. i \notin DOMAIN old
  <2>1. \A j \in DOMAIN old : i < j /\ j \in Nat
    BY IdFacts DEF NewOrder
  <2> QED  BY <2>1
<1>3. /\ index' = [j \in DOMAIN index \cup {i} |-> IF j = i THEN k ELSE index[j]]
      /\ free' = IF free = <<>> THEN free ELSE Tail(free)
      /\ size' = IF free = <<>> THEN size + 1 ELSE size
      /\ written' = Put(written, k, Order(i, active[i]))
      /\ cur' = cur \ {i} /\ old' = old
      /\ AfterRecord(i \in DOMAIN index)
      /\ UNCHANGED <<views, docs, pages, active, slots>>
  BY DEF NewOrder
<1>4. FreshSlot(k, free', size') /\ (size' = size \/ free = <<>>)
  BY <1>3, SlotPushed, SlotReused
<1> HIDE DEF i, k
<1>20. /\ size' \in Nat /\ size <= size' /\ k \in 1..size'
       /\ \A j \in 1..size' : j = k \/ j \in 1..size
       /\ \A j \in DOMAIN index : index[j] # k
  BY <1>4 DEF FreshSlot
<1>21. /\ free' \in Seq(1..size) /\ \A j \in DOMAIN free' : free'[j] # k
       /\ \A j \in DOMAIN free' : \E m \in DOMAIN free : free'[j] = free[m]
       /\ \A m \in DOMAIN free : free[m] = k \/ \E j \in DOMAIN free' : free'[j] = free[m]
       /\ \A a, b \in DOMAIN free' : free'[a] = free'[b] => a = b
  BY <1>4 DEF FreshSlot
<1>22. size' - Len(free') = size - Len(free) + 1 /\ Len(free') \in Nat
  BY <1>4 DEF FreshSlot
<1>5. i \notin DOMAIN index /\ i \in DOMAIN active
  BY <1>1, <1>2 DEF IInv, ListsOK, IndexOK
<1>6. phase' = "view" \/ (phase' = "failed" /\ SelfCheck)
  BY <1>3, <1>5 DEF AfterRecord
<1>7. DOMAIN index' = DOMAIN index \cup {i} /\ index'[i] = k /\ \A j \in DOMAIN index : index'[j] = index[j]
  BY <1>3, <1>5
<1>8. ListsOK'
  BY <1>2, <1>3, <1>6 DEF IInv, ListsOK
<1>9. IndexOK'
  <2>1. DOMAIN index' = (DOMAIN active' \ cur') \cup DOMAIN old'
    BY <1>1, <1>2, <1>3, <1>5, <1>7 DEF IInv, IndexOK
  <2>2. index' \in [DOMAIN index' -> 1..size']
    <3>1. \A j \in DOMAIN index' : index'[j] \in 1..size'
      BY <1>7, <1>20, IndexFacts
    <3> QED  BY <3>1, <1>3
  <2>3. free' \in Seq(1..size')
    BY <1>20, <1>21, IndexFacts
  <2>4. \A a, b \in DOMAIN index' : index'[a] = index'[b] => a = b
    BY <1>7, <1>20 DEF IInv, IndexOK
  <2>5. \A a \in DOMAIN index', j \in DOMAIN free' : index'[a] # free'[j]
    BY <1>7, <1>21, IndexFacts
  <2>6. ASSUME NEW s \in 1..size'
        PROVE  (\E j \in DOMAIN index' : index'[j] = s) \/ (\E j \in DOMAIN free' : free'[j] = s)
    <3>1. CASE s = k
      BY <3>1, <1>7
    <3>2. CASE s # k
      <4>1. s \in 1..size
        BY <3>2, <1>20
      <4>2. (\E j \in DOMAIN index : index[j] = s) \/ (\E j \in DOMAIN free : free[j] = s)
        BY <4>1 DEF IInv, IndexOK
      <4> QED  BY <3>2, <4>2, <1>7, <1>21
    <3> QED  BY <3>1, <3>2
  <2> QED  BY <1>20, <1>21, <2>1, <2>2, <2>3, <2>4, <2>5, <2>6 DEF IndexOK
<1>10. SizeOK'
  <2>1. Cardinality(DOMAIN index') = Cardinality(DOMAIN index) + 1
    BY <1>5, <1>7, IdFacts, FS_AddElement
  <2>2. DOMAIN index' \in SUBSET Ids
    BY <1>5, <1>7, IdFacts
  <2>3. Cardinality(DOMAIN index') <= Cardinality(Ids) /\ Cardinality(Ids) \in Nat
    BY <2>2, IdsAreNumbers, FS_Subset, FS_CardinalityType
  <2>4. size = Cardinality(DOMAIN index) + Len(free) /\ size <= Cardinality(Ids) /\ size \in Nat
        /\ Len(free) \in Nat /\ Cardinality(DOMAIN index) \in Nat /\ (free = <<>> => Len(free) = 0)
    <3>1. free = <<>> => Len(free) = 0
      OBVIOUS
    <3> QED  BY <3>1, IdFacts, IndexFacts DEF IInv, SizeOK
  <2>5. size' = Cardinality(DOMAIN index') + Len(free')
    BY <2>1, <2>4, <1>20, <1>22
  <2>6. size' <= Cardinality(Ids)
    <3>1. CASE size' = size
      BY <3>1, <2>4
    <3>2. CASE free = <<>>
      BY <3>2, <2>1, <2>3, <2>4, <2>5, <1>3
    <3> QED  BY <3>1, <3>2, <1>4
  <2> QED  BY <2>5, <2>6 DEF SizeOK
<1>11. WrittenOK'
  <2>1. Order(i, active[i]) \in [id : Ids, price : Int, volume : Nat]
    BY <1>5, LiveListType DEF IInv, ListsOK, Order
  <2>2. written \in [1..size -> [id : Ids, price : Int, volume : Nat]]
    BY DEF IInv, WrittenOK
  <2>3. /\ written' \in [1..size' -> [id : Ids, price : Int, volume : Nat]]
        /\ written'[k] = Order(i, active[i])
        /\ \A j \in 1..size : j # k => written'[j] = written[j]
    <3>1. DOMAIN written \cup {k} = 1..size'
      BY <1>20, <2>2, IndexFacts
    <3>2. written' = [j \in 1..size' |-> IF j = k THEN Order(i, active[i]) ELSE written[j]]
      BY <3>1, <1>3 DEF Put
    <3> HIDE DEF Order
    <3>3. \A j \in 1..size' : j = k \/ j \in 1..size
      BY <1>20
    <3>4. written' \in [1..size' -> [id : Ids, price : Int, volume : Nat]]
      BY <3>2, <3>3, <2>1, <2>2
    <3> QED  BY <3>2, <3>4, <1>20, IndexFacts
  <2>4. ASSUME NEW j \in DOMAIN index'  PROVE written'[index'[j]] = Expected(j)'
    <3>1. CASE j = i
      BY <3>1, <1>2, <1>3, <1>7, <2>3 DEF Expected
    <3>2. CASE j # i
      <4>1. j \in DOMAIN index /\ index'[j] = index[j] /\ index[j] \in 1..size /\ index[j] # k
        BY <3>2, <1>7, <1>20, IndexFacts
      <4>2. written'[index'[j]] = Expected(j)
        BY <4>1, <2>3 DEF IInv, WrittenOK
      <4>3. Expected(j)' = Expected(j)
        BY <1>3 DEF Expected
      <4> QED  BY <4>2, <4>3
    <3> QED  BY <3>1, <3>2
  <2>5. ASSUME NEW j \in DOMAIN free'  PROVE written'[free'[j]].volume = 0
    <3>1. PICK m \in DOMAIN free : free'[j] = free[m]
      BY <1>21
    <3>2. free[m] \in 1..size /\ free[m] # k
      BY <3>1, <1>21, IndexFacts
    <3> QED  BY <3>1, <3>2, <2>3 DEF IInv, WrittenOK
  <2> QED  BY <2>3, <2>4, <2>5 DEF WrittenOK
<1>12. ReaderOK'
  BY <1>6 DEF ReaderOK
<1> QED  BY <1>8, <1>9, <1>10, <1>11, <1>12 DEF IInv

LEMMA NextInv == IInv /\ [Next]_vars => IInv'
<1> SUFFICES ASSUME IInv, [Next]_vars  PROVE IInv'
  OBVIOUS
<1>1. CASE Next
  BY <1>1, OpenInv, BeginPageInv, NewOrderInv, KeptOrderInv, GoneOrderInv, CloseInv DEF Next
<1>2. CASE UNCHANGED vars
  <2>1. ListsOK'
    BY <1>2 DEF vars, IInv, ListsOK, Compared
  <2>2. IndexOK'
    BY <1>2 DEF vars, IInv, IndexOK
  <2>3. SizeOK' /\ ReaderOK'
    BY <1>2 DEF vars, IInv, SizeOK, ReaderOK
  <2>4. WrittenOK'
    BY <1>2 DEF vars, IInv, WrittenOK, Expected
  <2> QED  BY <2>1, <2>2, <2>3, <2>4 DEF IInv
<1> QED  BY <1>1, <1>2

THEOREM ArchiveInvariant == Spec => []IInv
BY InitInv, NextInv, PTL DEF Spec

---------------------------------------------------------------------------
(* The theorems                                                            *)

\* Whatever the snapshots, as long as their pages can be counted, a reader of the
\* archive has after every file the orders the writer holds active, each
\* once, and but for check() the writer never throws.
THEOREM ArchiveReadsBack == Spec => []ReadsBack
<1>1. IInv => ReadsBack
  <2> SUFFICES ASSUME IInv  PROVE ReadsBack
    OBVIOUS
  <2>1. phase = "failed" => SelfCheck
    BY DEF IInv, ReaderOK
  <2>2. phase = "idle" => slots = written /\ Compared
    BY DEF IInv, ReaderOK, ListsOK
  <2> QED  BY <2>1, <2>2, ComparedReads DEF ReadsBack
<1> QED  BY <1>1, ArchiveInvariant, PTL

\* No slot is leaked and none is shared, whatever comes and goes: an archive
\* needs no more slots than there are ids alive between two deletions.
THEOREM ArchiveKeepsSlots == Spec => []SlotsAccounted
<1>1. IInv => SlotsAccounted
  <2> SUFFICES ASSUME IInv  PROVE SlotsAccounted
    OBVIOUS
  <2>1. \A i \in DOMAIN index : index[i] \in 1..size
    BY DEF IInv, IndexOK
  <2>2. \A k \in DOMAIN free : free[k] \in 1..size
    BY DEF IInv, IndexOK
  <2>3. \A k \in 1..size :
          (\E i \in DOMAIN index : index[i] = k) \/ (\E j \in DOMAIN free : free[j] = k)
    BY DEF IInv, IndexOK
  <2>4. {index[i] : i \in DOMAIN index} \cup {free[k] : k \in DOMAIN free} = 1..size
    BY <2>1, <2>2, <2>3
  <2> QED  BY <2>4 DEF IInv, SizeOK, SlotsAccounted
<1> QED  BY <1>1, ArchiveInvariant, PTL

\* The archive shows its readers a log of whole views.
THEOREM ArchiveImplementsLog == Spec => ImplementsLog
<1>1. Init => Log!Init
  <2> SUFFICES ASSUME Init  PROVE Log!Init
    OBVIOUS
  <2>1. Live(slots) = {}
    BY EmptyFacts DEF Init, Live
  <2>2. Shown = <<>>
    BY <2>1 DEF Shown
  <2> QED  BY <2>2 DEF Init, Empty, Log!Init
<1>2. IInv /\ [Next]_vars => [Log!Next]_Log!vars
  <2> SUFFICES ASSUME IInv, [Next]_vars  PROVE [Log!Next]_Log!vars
    OBVIOUS
  <2>1. CASE UNCHANGED <<slots, active>>
    <3>1. Shown' = Shown
      BY <2>1 DEF Shown
    <3> QED  BY <2>1, <3>1 DEF Log!vars
  <2>2. CASE BeginPage
    <3> DEFINE n == Least(DOMAIN docs)
    <3>1. n \in DOMAIN docs
      BY <2>2, LeastOf DEF IInv, ListsOK, BeginPage
    <3>2. docs[n] \in LiveLists /\ DOMAIN docs[n] # {}
      BY <3>1 DEF IInv, ListsOK
    <3>3. docs[n] \in Log!Pages
      BY <3>2, LiveListType DEF Log!Pages
    <3>4. active' = Log!Replaced(active, docs[n])
      <4>1. DOMAIN active \ {i \in DOMAIN active : Covers(docs[n], i)} =
              {j \in DOMAIN active : ~Log!Covers(docs[n], j)}
        BY DEF Covers, Log!Covers
      <4> QED  BY <2>2, <4>1 DEF BeginPage, Log!Replaced
    <3>5. Shown' = Shown
      BY <2>2 DEF BeginPage, Shown
    <3> QED  BY <3>3, <3>4, <3>5 DEF Log!Next, Log!AddPage
  <2>3. CASE Close
    <3>1. Live(slots') = Listed(active)
      BY <2>3, CloseInv
    <3>2. active' = active
      BY <2>3 DEF Close
    <3>3. active \in LiveLists
      BY DEF IInv, ListsOK
    <3>4. {o.id : o \in Live(slots')} = DOMAIN active
      <4>1. \A o \in Listed(active) : o.id \in DOMAIN active
        BY DEF Listed, Order
      <4>2. ASSUME NEW i \in DOMAIN active  PROVE \E o \in Listed(active) : o.id = i
        <5>1. Order(i, active[i]) \in Listed(active)
          BY DEF Listed
        <5>2. Order(i, active[i]).id = i
          BY DEF Order
        <5> QED  BY <5>1, <5>2
      <4> QED  BY <3>1, <4>1, <4>2
    <3>5. ASSUME NEW i \in DOMAIN active
          PROVE  LET o == CHOOSE p \in Live(slots') : p.id = i
                 IN  [price |-> o.price, volume |-> o.volume] = active[i]
      <4> DEFINE o == CHOOSE p \in Live(slots') : p.id = i
      <4>1. Order(i, active[i]) \in Live(slots') /\ Order(i, active[i]).id = i
        BY <3>1 DEF Listed, Order
      <4>2. o \in Live(slots') /\ o.id = i
        BY <4>1
      <4> HIDE DEF o
      <4>3. PICK j \in DOMAIN active : o = Order(j, active[j])
        BY <4>2, <3>1 DEF Listed
      <4>4. o = Order(i, active[i])
        BY <4>2, <4>3 DEF Order
      <4>5. active[i] \in [price : Int, volume : Nat]
        BY <3>3, LiveListType
      <4>6. [price |-> o.price, volume |-> o.volume] = active[i]
        BY <4>4, <4>5 DEF Order
      <4> QED  BY <4>6 DEF o
    <3>6. Shown' = [i \in DOMAIN active |->
                     LET o == CHOOSE p \in Live(slots') : p.id = i
                     IN  [price |-> o.price, volume |-> o.volume]]
      BY <3>4 DEF Shown
    <3>7. Shown' = active
      <4>1. Shown' = [i \in DOMAIN active |-> active[i]]
        BY <3>5, <3>6
      <4>2. active = [i \in DOMAIN active |-> active[i]]
        BY <3>3, LiveListType
      <4> QED  BY <4>1, <4>2
    <3> QED  BY <3>2, <3>7 DEF Log!Next, Log!Show
  <2>4. \/ BeginPage \/ Close \/ UNCHANGED <<slots, active>>
    BY DEF Next, vars, Open, NewOrder, KeptOrder, GoneOrder
  <2> QED  BY <2>1, <2>2, <2>3, <2>4
<1> QED  BY <1>1, <1>2, ArchiveInvariant, PTL DEF Spec, ImplementsLog, Log!Spec

---------------------------------------------------------------------------
(* The analysis of the views: what Volume and Merged compute               *)

\* Counting up: what holds of 0 and is passed on to the next number holds of N.
LEMMA CountedUp ==
  ASSUME NEW N \in Nat, NEW G, 0 \in G, \A k \in 0..(N - 1) : k \in G => k + 1 \in G
  PROVE  N \in G
<1> SUFFICES ASSUME N \notin G PROVE FALSE
  OBVIOUS
<1> DEFINE Bad == {k \in 0..N : k \notin G}
<1>1. Bad \in SUBSET Nat /\ N \in Bad
  OBVIOUS
<1>2. Least(Bad) \in Bad /\ \A j \in Bad : Least(Bad) <= j
  BY <1>1, LeastOf
<1>3. PICK l \in Bad : \A j \in Bad : l <= j
  BY <1>2
<1>4. l - 1 \in 0..(N - 1)
  BY <1>3
<1>5. l - 1 \in G
  BY <1>3, <1>4
<1> QED  BY <1>3, <1>4, <1>5

\* A finite set of numbers has a greatest one.
LEMMA GreatestOfFinite ==
  ASSUME NEW S \in SUBSET Nat, IsFiniteSet(S), S # {}
  PROVE  \E k \in S : \A j \in S : j <= k
<1> DEFINE G == {T \in SUBSET S : T = {} \/ \E k \in T : \A j \in T : j <= k}
<1>1. {} \in G
  OBVIOUS
<1>2. ASSUME NEW T \in SUBSET S, NEW x \in S \ T, T \in G  PROVE T \cup {x} \in G
  <2>1. CASE T = {}
    BY <2>1
  <2>2. CASE \E k \in T : \A j \in T : j <= k
    <3>1. PICK k \in T : \A j \in T : j <= k
      BY <2>2
    <3>2. CASE x <= k
      BY <3>1, <3>2
    <3>3. CASE k <= x
      BY <3>1, <3>3
    <3> QED  BY <3>2, <3>3
  <2> QED  BY <1>2, <2>1, <2>2
<1> HIDE DEF G
<1>3. S \in G
  BY <1>1, <1>2, FiniteSetInduction
<1> QED  BY <1>3 DEF G

\* A finite set of numbers has an ascending list.
LEMMA AscendingExists ==
  ASSUME NEW S \in SUBSET Nat, IsFiniteSet(S)
  PROVE  \E s \in [1..Cardinality(S) -> S] : \A j, k \in DOMAIN s : j < k => s[j] < s[k]
<1> DEFINE Listable(T) ==
      \E s \in [1..Cardinality(T) -> T] : \A j, k \in DOMAIN s : j < k => s[j] < s[k]
    G == {n \in Nat : \A T \in SUBSET S : Cardinality(T) = n => Listable(T)}
<1>1. Cardinality(S) \in Nat
  BY FS_CardinalityType
<1>2. 0 \in G
  <2> SUFFICES ASSUME NEW T \in SUBSET S, Cardinality(T) = 0  PROVE Listable(T)
    OBVIOUS
  <2> DEFINE s == [k \in 1..0 |-> k]
  <2>1. s \in [1..Cardinality(T) -> T] /\ DOMAIN s = {}
    OBVIOUS
  <2> HIDE DEF s
  <2> QED  BY <2>1
<1>3. ASSUME NEW n \in Nat, n \in G  PROVE n + 1 \in G
  <2> SUFFICES ASSUME NEW T \in SUBSET S, Cardinality(T) = n + 1  PROVE Listable(T)
    OBVIOUS
  <2>1. IsFiniteSet(T) /\ T \in SUBSET Nat
    BY FS_Subset
  <2>2. T # {}
    BY FS_EmptySet
  <2>3. PICK x \in T : \A j \in T : j <= x
    BY <2>1, <2>2, GreatestOfFinite
  <2>4. Cardinality(T \ {x}) = n
    <3>1. Cardinality(T \ {x}) = Cardinality(T) - 1
      BY <2>1, FS_RemoveElement
    <3> QED  BY <3>1
  <2>5. PICK s \in [1..n -> T \ {x}] : \A j, k \in DOMAIN s : j < k => s[j] < s[k]
    BY <1>3, <2>4
  <2> DEFINE r == [k \in 1..(n + 1) |-> IF k = n + 1 THEN x ELSE s[k]]
  <2>6. r \in [1..(n + 1) -> T]
    BY <2>3, <2>5
  <2>7. ASSUME NEW j \in 1..(n + 1), NEW k \in 1..(n + 1), j < k  PROVE r[j] < r[k]
    <3>1. j \in 1..n /\ r[j] = s[j] /\ s[j] \in T /\ s[j] # x
      <4>1. j \in 1..n /\ j # n + 1
        BY <2>7
      <4>2. s[j] \in T \ {x}
        BY <2>5, <4>1
      <4> QED  BY <4>1, <4>2
    <3>2. CASE k = n + 1
      <4>1. r[k] = x
        BY <3>2
      <4>2. s[j] <= x /\ s[j] \in Nat /\ x \in Nat
        BY <2>1, <2>3, <3>1
      <4> HIDE DEF r
      <4> QED  BY <3>1, <4>1, <4>2
    <3>3. CASE k # n + 1
      <4>1. k \in 1..n /\ r[k] = s[k]
        BY <3>3
      <4>2. j \in DOMAIN s /\ k \in DOMAIN s
        BY <2>5, <3>1, <4>1
      <4>3. s[j] < s[k]
        BY <2>5, <2>7, <4>2
      <4> QED  BY <3>1, <4>1, <4>3
    <3> QED  BY <3>2, <3>3
  <2> HIDE DEF r
  <2> QED  BY <2>6, <2>7
<1> HIDE DEF G
<1>4. Cardinality(S) \in G
  BY <1>1, <1>2, <1>3, CountedUp
<1> QED  BY <1>4 DEF G

\* The list of a view's ids is ascending and has each of them.
LEMMA AscendingList ==
  ASSUME NEW S \in SUBSET Nat, IsFiniteSet(S)
  PROVE  /\ Ascending(S) \in Seq(S)
         /\ \A j, k \in 1..Len(Ascending(S)) : j < k => Ascending(S)[j] < Ascending(S)[k]
         /\ \A x \in S : \E k \in 1..Len(Ascending(S)) : Ascending(S)[k] = x
<1> DEFINE s == Ascending(S)  c == Cardinality(S)
<1>1. c \in Nat
  BY FS_CardinalityType
<1>2. s \in [1..c -> S] /\ \A j, k \in DOMAIN s : j < k => s[j] < s[k]
  BY AscendingExists DEF Ascending
<1> HIDE DEF s, c
<1>3. s \in Seq(S) /\ Len(s) = c /\ DOMAIN s = 1..c
  BY <1>1, <1>2
<1>4. ASSUME NEW j \in 1..c, NEW k \in 1..c, s[j] = s[k]  PROVE j = k
  <2>1. s[j] \in Nat /\ s[k] \in Nat
    BY <1>2
  <2>2. ~(j < k) /\ ~(k < j)
    BY <1>2, <1>3, <1>4, <2>1
  <2> QED  BY <2>2
<1>5. s \in Injection(1..c, S)
  BY <1>2, <1>4, Zenon DEF Injection, IsInjective
<1>6. IsFiniteSet(1..c) /\ Cardinality(1..c) = c
  BY <1>1, FS_Interval
<1>7. s \in Surjection(1..c, S)
  BY <1>5, <1>6, FS_Injection, Zenon DEF c
<1>8. \A x \in S : \E k \in 1..c : s[k] = x
  BY <1>7, Zenon DEF Surjection
<1> QED  BY <1>2, <1>3, <1>8 DEF s

\* The body of Volume's recursive function, and the sums of a list so far.
VolumeBody(g, view, ids) ==
  [k \in 0..Len(ids) |-> IF k = 0 THEN 0 ELSE g[k - 1] + view[ids[k]].volume]
Volumes(view, ids) == CHOOSE g : g = VolumeBody(g, view, ids)

\* Volume is the last of those sums.
LEMMA VolumeIs ==
  ASSUME NEW view
  PROVE  LET ids == Ascending(DOMAIN view) IN Volume(view) = Volumes(view, ids)[Len(ids)]
BY DEF Volume, Volumes, VolumeBody

\* There are such sums: they can be made up from the front of the list.
LEMMA VolumesExist ==
  ASSUME NEW view, NEW ids, Len(ids) \in Nat
  PROVE  Volumes(view, ids) = VolumeBody(Volumes(view, ids), view, ids)
<1> DEFINE n == Len(ids)
    Fits(g, m) == /\ g = [k \in 0..n |-> g[k]]
                  /\ \A k \in 0..n : k <= m =>
                       g[k] = IF k = 0 THEN 0 ELSE g[k - 1] + view[ids[k]].volume
    G == {m \in 0..n : \E g : Fits(g, m)}
<1>1. 0 \in G
  <2> DEFINE g == [k \in 0..n |-> 0]
  <2>1. Fits(g, 0)
    OBVIOUS
  <2> QED  BY <2>1
<1>2. ASSUME NEW m \in 0..(n - 1), m \in G  PROVE m + 1 \in G
  <2>1. PICK g : Fits(g, m)
    BY <1>2
  <2> DEFINE h == [k \in 0..n |-> IF k = 0 THEN 0 ELSE g[k - 1] + view[ids[k]].volume]
  <2>2. ASSUME NEW k \in 0..n, k <= m + 1
        PROVE  h[k] = IF k = 0 THEN 0 ELSE h[k - 1] + view[ids[k]].volume
    <3>1. CASE k = 0
      BY <3>1
    <3>2. CASE k # 0
      <4>1. k - 1 \in 0..n /\ k - 1 <= m
        BY <2>2, <3>2
      <4>2. h[k - 1] = g[k - 1]
        BY <2>1, <4>1
      <4> QED  BY <3>2, <4>2
    <3> QED  BY <3>1, <3>2
  <2>3. h = [k \in 0..n |-> h[k]]
    OBVIOUS
  <2>4. Fits(h, m + 1)
    <3> HIDE DEF h
    <3> QED  BY <2>2, <2>3
  <2> HIDE DEF Fits
  <2> QED  BY <2>4
<1>3. n \in G
  <2> HIDE DEF G
  <2> QED  BY <1>1, <1>2, CountedUp
<1>4. PICK g : Fits(g, n)
  BY <1>3
<1>5. g = VolumeBody(g, view, ids)
  <2>1. \A k \in 0..n : g[k] = IF k = 0 THEN 0 ELSE g[k - 1] + view[ids[k]].volume
    <3>1. \A k \in 0..n : k <= n
      OBVIOUS
    <3> QED  BY <1>4, <3>1, Zenon
  <2>2. g = [k \in 0..n |-> g[k]]
    BY <1>4
  <2> QED  BY <2>1, <2>2, Zenon DEF VolumeBody
<1> QED  BY <1>5, Zenon DEF Volumes

\* The sums are numbers, and each follows from the one before.
LEMMA VolumesSum ==
  ASSUME NEW view, \A i \in DOMAIN view : view[i].volume \in Int,
         NEW ids \in Seq(DOMAIN view)
  PROVE  LET v == Volumes(view, ids)
         IN  /\ v[0] = 0 /\ \A k \in 0..Len(ids) : v[k] \in Int
             /\ \A k \in 1..Len(ids) : v[k] = v[k - 1] + view[ids[k]].volume
<1> DEFINE v == Volumes(view, ids)  n == Len(ids)
<1>1. v = VolumeBody(v, view, ids)
  BY VolumesExist
<1> HIDE DEF v
<1>2. \A k \in 0..n : v[k] = IF k = 0 THEN 0 ELSE v[k - 1] + view[ids[k]].volume
  BY <1>1 DEF VolumeBody
<1>3. v[0] = 0 /\ \A k \in 1..n : v[k] = v[k - 1] + view[ids[k]].volume
  BY <1>2
<1> DEFINE G == {m \in 0..n : v[m] \in Int}
<1>4. ASSUME NEW N \in 0..n  PROVE N \in G
  <2>1. 0 \in G
    BY <1>3
  <2>2. ASSUME NEW k \in 0..(N - 1), k \in G  PROVE k + 1 \in G
    <3>1. k + 1 \in 1..n /\ (k + 1) - 1 = k
      OBVIOUS
    <3>2. ids[k + 1] \in DOMAIN view
      BY <3>1
    <3>3. v[k + 1] = v[k] + view[ids[k + 1]].volume
      BY <1>3, <3>1
    <3> QED  BY <2>2, <3>1, <3>2, <3>3
  <2> HIDE DEF G
  <2> QED  BY <2>1, <2>2, CountedUp
<1> QED  BY <1>3, <1>4 DEF v

\* A cell of the table that Merged computes, from the cells after it; how far
\* it is from the last cell; the table itself.
Cell(g, a, b, as, bs, p) ==
  LET i == p[1]
      j == p[2]
  IN  IF i > Len(as) /\ j > Len(bs) THEN [sold |-> 0, newCount |-> 0, newSum |-> 0]
      ELSE IF j > Len(bs) \/ (i <= Len(as) /\ as[i] < bs[j])
      THEN [g[<<i + 1, j>>] EXCEPT !.sold = @ + a[as[i]].volume]
      ELSE IF i > Len(as) \/ bs[j] < as[i]
      THEN [g[<<i, j + 1>>] EXCEPT !.newCount = @ + 1, !.newSum = @ + b[bs[j]].volume]
      ELSE [g[<<i + 1, j + 1>>] EXCEPT !.sold = @ + Minus(a[as[i]].volume, b[bs[j]].volume)]
Ahead(as, bs, p) == (Len(as) + 1 - p[1]) + (Len(bs) + 1 - p[2])
Places(as, bs) == (1..Len(as) + 1) \X (1..Len(bs) + 1)
Table(g, a, b, as, bs) == [p \in Places(as, bs) |-> Cell(g, a, b, as, bs, p)]

\* Merged's table is one whose cells are computed from the cells after them.
LEMMA MergedIs ==
  ASSUME NEW a, NEW b, NEW as, NEW bs
  PROVE  MergedFrom(a, b, as, bs) = CHOOSE g : g = Table(g, a, b, as, bs)
BY Zenon DEF MergedFrom, Table, Places, Cell

\* A place is a pair of places of the lists.
LEMMA PlaceParts ==
  ASSUME NEW as, NEW bs, NEW p \in Places(as, bs)
  PROVE  p[1] \in 1..(Len(as) + 1) /\ p[2] \in 1..(Len(bs) + 1)
<1> DEFINE S == 1..(Len(as) + 1)  T == 1..(Len(bs) + 1)
<1>1. p \in S \X T
  BY DEF Places
<1> HIDE DEF S, T
<1>2. p[1] \in S /\ p[2] \in T
  BY <1>1
<1> QED  BY <1>2 DEF S, T

\* A pair of places of the lists is a place, as far from the last as both are.
LEMMA PlaceMade ==
  ASSUME NEW as, NEW bs, NEW i \in 1..(Len(as) + 1), NEW j \in 1..(Len(bs) + 1)
  PROVE  /\ <<i, j>> \in Places(as, bs)
         /\ Ahead(as, bs, <<i, j>>) = (Len(as) + 1 - i) + (Len(bs) + 1 - j)
BY DEF Places, Ahead

\* Two tables have the same cells nearer to the last one than a place is.
AgreeAhead(g, h, as, bs, p) ==
  \A q \in Places(as, bs) : Ahead(as, bs, q) < Ahead(as, bs, p) => g[q] = h[q]

\* The table exists: it can be made out from the last cell backwards.
LEMMA TableExists ==
  ASSUME NEW a, NEW b, NEW as, NEW bs, Len(as) \in Nat, Len(bs) \in Nat
  PROVE  \E g : g = Table(g, a, b, as, bs)
<1> DEFINE D == Places(as, bs)
    Fits(g, k) == \A p \in D : Ahead(as, bs, p) < k => g[p] = Cell(g, a, b, as, bs, p)
    G == {k \in Nat : \E g : g = [p \in D |-> g[p]] /\ Fits(g, k)}
    m == Len(as)
    n == Len(bs)
    N == m + n + 1
<1>1. m \in Nat /\ n \in Nat /\ N \in Nat
  <2>1. m \in Nat /\ n \in Nat
    OBVIOUS
  <2> HIDE DEF m, n
  <2> QED  BY <2>1
<1>2. ASSUME NEW p \in D  PROVE Ahead(as, bs, p) \in Nat /\ Ahead(as, bs, p) < N
  <2> DEFINE i == p[1]  j == p[2]
  <2>1. i \in 1..(m + 1) /\ j \in 1..(n + 1)
    BY PlaceParts
  <2>2. Ahead(as, bs, p) = (m + 1 - i) + (n + 1 - j)
    BY DEF Ahead
  <2> HIDE DEF i, j, m, n
  <2> QED  BY <1>1, <2>1, <2>2
<1>3. ASSUME NEW g, NEW h, NEW p \in D, AgreeAhead(g, h, as, bs, p)
      PROVE  Cell(g, a, b, as, bs, p) = Cell(h, a, b, as, bs, p)
  \* A cell depends on cells nearer to the last one alone.
  <2> DEFINE i == p[1]  j == p[2]
  <2>1. i \in 1..(m + 1) /\ j \in 1..(n + 1)
    BY PlaceParts
  <2>2. m \in Nat /\ n \in Nat
    OBVIOUS
  <2>3. Ahead(as, bs, p) = (m + 1 - i) + (n + 1 - j)
    BY DEF Ahead
  <2>4. ASSUME NEW k \in 1..(m + 1), NEW l \in 1..(n + 1)
        PROVE  <<k, l>> \in Places(as, bs) /\ Ahead(as, bs, <<k, l>>) = (m + 1 - k) + (n + 1 - l)
    BY PlaceMade
  <2> HIDE DEF i, j, m, n
  <2>5. i <= m => g[<<i + 1, j>>] = h[<<i + 1, j>>]
    <3> SUFFICES ASSUME i <= m  PROVE g[<<i + 1, j>>] = h[<<i + 1, j>>]
      OBVIOUS
    <3> DEFINE q == <<i + 1, j>>
    <3>1. i + 1 \in 1..(m + 1) /\ j \in 1..(n + 1)
      BY <2>1, <2>2
    <3>2. q \in Places(as, bs) /\ Ahead(as, bs, q) = (m + 1 - (i + 1)) + (n + 1 - j)
      BY <3>1, <2>4
    <3>3. Ahead(as, bs, q) < Ahead(as, bs, p)
      <4> HIDE DEF q
      <4> QED  BY <2>1, <2>2, <2>3, <3>2
    <3> HIDE DEF q
    <3>4. g[q] = h[q]
      BY <1>3, <3>2, <3>3 DEF AgreeAhead
    <3> QED  BY <3>4 DEF q
  <2>6. j <= n => g[<<i, j + 1>>] = h[<<i, j + 1>>]
    <3> SUFFICES ASSUME j <= n  PROVE g[<<i, j + 1>>] = h[<<i, j + 1>>]
      OBVIOUS
    <3> DEFINE q == <<i, j + 1>>
    <3>1. i \in 1..(m + 1) /\ j + 1 \in 1..(n + 1)
      BY <2>1, <2>2
    <3>2. q \in Places(as, bs) /\ Ahead(as, bs, q) = (m + 1 - i) + (n + 1 - (j + 1))
      BY <3>1, <2>4
    <3>3. Ahead(as, bs, q) < Ahead(as, bs, p)
      <4> HIDE DEF q
      <4> QED  BY <2>1, <2>2, <2>3, <3>2
    <3> HIDE DEF q
    <3>4. g[q] = h[q]
      BY <1>3, <3>2, <3>3 DEF AgreeAhead
    <3> QED  BY <3>4 DEF q
  <2>7. i <= m /\ j <= n => g[<<i + 1, j + 1>>] = h[<<i + 1, j + 1>>]
    <3> SUFFICES ASSUME i <= m, j <= n  PROVE g[<<i + 1, j + 1>>] = h[<<i + 1, j + 1>>]
      OBVIOUS
    <3> DEFINE q == <<i + 1, j + 1>>
    <3>1. i + 1 \in 1..(m + 1) /\ j + 1 \in 1..(n + 1)
      BY <2>1, <2>2
    <3>2. q \in Places(as, bs) /\ Ahead(as, bs, q) = (m + 1 - (i + 1)) + (n + 1 - (j + 1))
      BY <3>1, <2>4
    <3>3. Ahead(as, bs, q) < Ahead(as, bs, p)
      <4> HIDE DEF q
      <4> QED  BY <2>1, <2>2, <2>3, <3>2
    <3> HIDE DEF q
    <3>4. g[q] = h[q]
      BY <1>3, <3>2, <3>3 DEF AgreeAhead
    <3> QED  BY <3>4 DEF q
  <2>8. i <= m \/ i > m
    BY <2>1, <2>2
  <2>9. j <= n \/ j > n
    BY <2>1, <2>2
  <2>10. CASE i > m /\ j > n
    BY <2>10 DEF Cell, i, j, m, n
  <2>11. CASE ~(i > m /\ j > n) /\ (j > n \/ (i <= m /\ as[i] < bs[j]))
    <3>1. i <= m
      BY <2>8, <2>11
    <3> QED  BY <2>5, <2>11, <3>1, Zenon DEF Cell, i, j, m, n
  <2>12. CASE ~(i > m /\ j > n) /\ ~(j > n \/ (i <= m /\ as[i] < bs[j])) /\ (i > m \/ bs[j] < as[i])
    <3>1. j <= n
      BY <2>9, <2>12
    <3> QED  BY <2>6, <2>12, <3>1, Zenon DEF Cell, i, j, m, n
  <2>13. CASE ~(i > m /\ j > n) /\ ~(j > n \/ (i <= m /\ as[i] < bs[j])) /\ ~(i > m \/ bs[j] < as[i])
    <3>1. i <= m /\ j <= n
      BY <2>8, <2>9, <2>13
    <3> QED  BY <2>7, <2>13, <3>1, Zenon DEF Cell, i, j, m, n
  <2> QED  BY <2>10, <2>11, <2>12, <2>13
<1> HIDE DEF D, m, n, N
<1>4. 0 \in G
  <2> DEFINE g == [p \in D |-> 0]
  <2>1. g = [p \in D |-> g[p]]
    OBVIOUS
  <2>2. ASSUME NEW p \in D  PROVE ~(Ahead(as, bs, p) < 0)
    <3> DEFINE x == Ahead(as, bs, p)
    <3>1. x \in Nat
      BY <1>2
    <3> HIDE DEF x
    <3>2. ~(x < 0)
      BY <3>1
    <3> QED  BY <3>2 DEF x
  <2>3. Fits(g, 0)
    BY <2>2, Zenon
  <2> HIDE DEF Fits, g
  <2> QED  BY <2>1, <2>3
<1>5. ASSUME NEW k \in 0..(N - 1), k \in G  PROVE k + 1 \in G
  <2>1. PICK g : Fits(g, k)
    BY <1>5, Zenon
  <2>2. k \in Nat /\ k + 1 \in Nat
    BY <1>1
  <2> DEFINE h == Table(g, a, b, as, bs)
  <2>3. \A p \in D : h[p] = Cell(g, a, b, as, bs, p)
    BY DEF Table, D
  <2>4. h = [p \in D |-> h[p]]
    BY DEF Table, D
  <2> HIDE DEF h
  <2>5. ASSUME NEW p \in D, Ahead(as, bs, p) < k + 1
        PROVE  h[p] = Cell(h, a, b, as, bs, p)
    <3>1. h[p] = Cell(g, a, b, as, bs, p)
      BY <2>3
    <3>2. ASSUME NEW q \in D, Ahead(as, bs, q) < Ahead(as, bs, p)
          PROVE  g[q] = h[q]
      <4> DEFINE x == Ahead(as, bs, q)  y == Ahead(as, bs, p)
      <4>1. x < k
        <5>1. x \in Nat /\ y \in Nat /\ x < y /\ y < k + 1
          BY <1>2, <2>5, <3>2
        <5> HIDE DEF x, y
        <5> QED  BY <5>1, <2>2
      <4>2. g[q] = Cell(g, a, b, as, bs, q)
        BY <2>1, <4>1, Zenon
      <4> QED  BY <4>2, <2>3
    <3>3. AgreeAhead(g, h, as, bs, p)
      BY <3>2, Zenon DEF AgreeAhead, D
    <3>4. Cell(g, a, b, as, bs, p) = Cell(h, a, b, as, bs, p)
      BY <1>3, <3>3, Zenon
    <3> QED  BY <3>1, <3>4
  <2>6. Fits(h, k + 1)
    BY <2>5, Zenon
  <2> HIDE DEF Fits
  <2> QED  BY <2>2, <2>4, <2>6, Zenon
<1>6. N \in G
  <2> HIDE DEF G
  <2> QED  BY <1>1, <1>4, <1>5, CountedUp
<1>7. PICK g : g = [p \in D |-> g[p]] /\ Fits(g, N)
  BY <1>6, Zenon
<1>8. \A p \in D : g[p] = Cell(g, a, b, as, bs, p)
  BY <1>2, <1>7, Zenon
<1>9. g = Table(g, a, b, as, bs)
  BY <1>7, <1>8, Zenon DEF Table, D
<1> QED  BY <1>9

\* The cells of Merged's table are what Cell says.
LEMMA TableMerged ==
  ASSUME NEW a, NEW b, NEW as, NEW bs, Len(as) \in Nat, Len(bs) \in Nat,
         NEW p \in Places(as, bs)
  PROVE  MergedFrom(a, b, as, bs)[p] = Cell(MergedFrom(a, b, as, bs), a, b, as, bs, p)
<1> DEFINE g == MergedFrom(a, b, as, bs)
<1>1. g = Table(g, a, b, as, bs)
  <2>1. g = CHOOSE h : h = Table(h, a, b, as, bs)
    BY MergedIs
  <2>2. \E h : h = Table(h, a, b, as, bs)
    BY TableExists
  <2> HIDE DEF g
  <2> QED  BY <2>1, <2>2, Zenon
<1> HIDE DEF g
<1>2. g[p] = Cell(g, a, b, as, bs, p)
  BY <1>1 DEF Table
<1> QED  BY <1>2 DEF g

\* What the cells of Merged's table are, by the four ways the loop goes on.
Merges(t, a, b, as, bs, m, n) ==
  \A i \in 1..(m + 1), j \in 1..(n + 1) :
    t[<<i, j>>] =
      IF i > m /\ j > n THEN [sold |-> 0, newCount |-> 0, newSum |-> 0]
      ELSE IF j > n \/ (i <= m /\ as[i] < bs[j])
      THEN [t[<<i + 1, j>>] EXCEPT !.sold = @ + a[as[i]].volume]
      ELSE IF i > m \/ bs[j] < as[i]
      THEN [t[<<i, j + 1>>] EXCEPT !.newCount = @ + 1, !.newSum = @ + b[bs[j]].volume]
      ELSE [t[<<i + 1, j + 1>>] EXCEPT !.sold = @ + Minus(a[as[i]].volume, b[bs[j]].volume)]

\* Merged's table in these terms.
LEMMA CellsMerged ==
  ASSUME NEW a, NEW b, NEW as, NEW bs, Len(as) \in Nat, Len(bs) \in Nat
  PROVE  Merges(MergedFrom(a, b, as, bs), a, b, as, bs, Len(as), Len(bs))
<1> DEFINE t == MergedFrom(a, b, as, bs)  m == Len(as)  n == Len(bs)
<1>1. ASSUME NEW i \in 1..(m + 1), NEW j \in 1..(n + 1)
      PROVE  t[<<i, j>>] =
        IF i > m /\ j > n THEN [sold |-> 0, newCount |-> 0, newSum |-> 0]
        ELSE IF j > n \/ (i <= m /\ as[i] < bs[j])
        THEN [t[<<i + 1, j>>] EXCEPT !.sold = @ + a[as[i]].volume]
        ELSE IF i > m \/ bs[j] < as[i]
        THEN [t[<<i, j + 1>>] EXCEPT !.newCount = @ + 1, !.newSum = @ + b[bs[j]].volume]
        ELSE [t[<<i + 1, j + 1>>] EXCEPT !.sold = @ + Minus(a[as[i]].volume, b[bs[j]].volume)]
  <2> DEFINE p == <<i, j>>
  <2>1. p \in Places(as, bs)
    BY PlaceMade
  <2>2. p[1] = i /\ p[2] = j
    OBVIOUS
  <2> HIDE DEF p
  <2>3. t[p] = Cell(t, a, b, as, bs, p)
    BY <2>1, TableMerged
  <2> HIDE DEF t
  <2>4. t[p] =
        IF i > m /\ j > n THEN [sold |-> 0, newCount |-> 0, newSum |-> 0]
        ELSE IF j > n \/ (i <= m /\ as[i] < bs[j])
        THEN [t[<<i + 1, j>>] EXCEPT !.sold = @ + a[as[i]].volume]
        ELSE IF i > m \/ bs[j] < as[i]
        THEN [t[<<i, j + 1>>] EXCEPT !.newCount = @ + 1, !.newSum = @ + b[bs[j]].volume]
        ELSE [t[<<i + 1, j + 1>>] EXCEPT !.sold = @ + Minus(a[as[i]].volume, b[bs[j]].volume)]
    BY <2>2, <2>3, Zenon DEF Cell
  <2> QED  BY <2>4, Zenon DEF p
<1> HIDE DEF t, m, n
<1>2. Merges(t, a, b, as, bs, m, n)
  BY <1>1, Zenon DEF Merges
<1> QED  BY <1>2 DEF t, m, n

\* v sums the volumes of a list in front of each of its places.
Accumulates(v, view, ids, m) ==
  /\ \A i \in 0..m : v[i] \in Int
  /\ \A i \in 1..m : view[ids[i]].volume \in Int /\ v[i] = v[i - 1] + view[ids[i]].volume

\* w has what unsigned differences add to what was sold, from each place of the
\* two lists on: once the modulus for every order of both whose volume rose.
Wraps(w, a, b, as, bs, m, n) ==
  \A i \in 1..(m + 1), j \in 1..(n + 1) :
    /\ w[<<i, j>>] \in Int
    /\ i > m /\ j > n => w[<<i, j>>] = 0
    /\ i <= m /\ (j > n \/ as[i] < bs[j]) => w[<<i, j>>] = w[<<i + 1, j>>]
    /\ j <= n /\ (i > m \/ bs[j] < as[i]) => w[<<i, j>>] = w[<<i, j + 1>>]
    /\ i <= m /\ j <= n /\ ~(as[i] < bs[j]) /\ ~(bs[j] < as[i]) =>
         w[<<i, j>>] = IF a[as[i]].volume < b[bs[j]].volume
                       THEN w[<<i + 1, j + 1>>] + VolumeModulus ELSE w[<<i + 1, j + 1>>]

\* What a cell of the table accounts for: the volumes from its place on.
Parts == [sold : Int, newCount : Int, newSum : Int]
Balanced(t, w, va, vb, m, n, i, j) ==
  /\ t[<<i, j>>] \in Parts
  /\ t[<<i, j>>].newSum - t[<<i, j>>].sold =
       (vb[n] - vb[j - 1]) - (va[m] - va[i - 1]) - w[<<i, j>>]

\* What an order that was sold, in whole or in part, adds to a cell of the table.
LEMMA RowSold ==
  ASSUME NEW r \in Parts, NEW c \in Int
  PROVE  LET s == [r EXCEPT !.sold = @ + c]
         IN  s \in Parts /\ s.newSum - s.sold = (r.newSum - r.sold) - c
BY DEF Parts

\* What a new order adds to it.
LEMMA RowNew ==
  ASSUME NEW r \in Parts, NEW c \in Int
  PROVE  LET s == [r EXCEPT !.newCount = @ + 1, !.newSum = @ + c]
         IN  s \in Parts /\ s.newSum - s.sold = (r.newSum - r.sold) + c
<1> DEFINE s == [r EXCEPT !.newCount = @ + 1, !.newSum = @ + c]
<1>1. r.sold \in Int /\ r.newCount \in Int /\ r.newSum \in Int
  BY DEF Parts
<1>2. s.newSum = r.newSum + c /\ s.sold = r.sold
  BY DEF Parts
<1>3. s \in Parts
  <2> DEFINE u == [r EXCEPT !.newCount = @ + 1]
  <2>1. u \in Parts
    BY DEF Parts
  <2>2. s = [u EXCEPT !.newSum = @ + c]
    BY DEF Parts
  <2> HIDE DEF u, s
  <2> QED  BY <2>1, <2>2 DEF Parts
<1> HIDE DEF s
<1>4. s.newSum - s.sold = (r.newSum - r.sold) + c
  BY <1>1, <1>2
<1> QED  BY <1>3, <1>4 DEF s

\* A cell accounts for the volumes from its place on, if the cells after it do.
LEMMA MergeStep ==
  ASSUME NEW t, NEW a, NEW b, NEW as, NEW bs, NEW m \in Nat, NEW n \in Nat, NEW va, NEW vb, NEW w,
         Merges(t, a, b, as, bs, m, n), Accumulates(va, a, as, m), Accumulates(vb, b, bs, n),
         Wraps(w, a, b, as, bs, m, n),
         NEW i \in 1..(m + 1), NEW j \in 1..(n + 1),
         i <= m => Balanced(t, w, va, vb, m, n, i + 1, j),
         j <= n => Balanced(t, w, va, vb, m, n, i, j + 1),
         i <= m /\ j <= n => Balanced(t, w, va, vb, m, n, i + 1, j + 1)
  PROVE  Balanced(t, w, va, vb, m, n, i, j)
<1> DEFINE s == t[<<i, j>>]  c == a[as[i]].volume  d == b[bs[j]].volume
<1>1. /\ i \in Nat /\ j \in Nat /\ (i <= m \/ i > m) /\ (j <= n \/ j > n)
      /\ i - 1 \in 0..m /\ j - 1 \in 0..n /\ m \in 0..m /\ n \in 0..n
  OBVIOUS
<1>2. va[i - 1] \in Int /\ vb[j - 1] \in Int /\ va[m] \in Int /\ vb[n] \in Int
  BY <1>1, Zenon DEF Accumulates
<1>3. i <= m => c \in Int /\ va[i] = va[i - 1] + c
  <2>1. i <= m => i \in 1..m
    BY <1>1
  <2> QED  BY <2>1, Zenon DEF Accumulates
<1>4. j <= n => d \in Int /\ vb[j] = vb[j - 1] + d
  <2>1. j <= n => j \in 1..n
    BY <1>1
  <2> QED  BY <2>1, Zenon DEF Accumulates
<1>5. s = IF i > m /\ j > n THEN [sold |-> 0, newCount |-> 0, newSum |-> 0]
          ELSE IF j > n \/ (i <= m /\ as[i] < bs[j])
          THEN [t[<<i + 1, j>>] EXCEPT !.sold = @ + c]
          ELSE IF i > m \/ bs[j] < as[i]
          THEN [t[<<i, j + 1>>] EXCEPT !.newCount = @ + 1, !.newSum = @ + d]
          ELSE [t[<<i + 1, j + 1>>] EXCEPT !.sold = @ + Minus(c, d)]
  BY Zenon DEF Merges
<1>6. (i + 1) - 1 = i /\ (j + 1) - 1 = j
  BY <1>1
<1> DEFINE A == va[i - 1]  B == vb[j - 1]  E == va[m]  F == vb[n]  W == w[<<i, j>>]
<1> SUFFICES s \in Parts /\ s.newSum - s.sold = (F - B) - (E - A) - W
  BY Zenon DEF Balanced
<1>7. /\ W \in Int
      /\ i > m /\ j > n => W = 0
      /\ i <= m /\ (j > n \/ as[i] < bs[j]) => W = w[<<i + 1, j>>]
      /\ j <= n /\ (i > m \/ bs[j] < as[i]) => W = w[<<i, j + 1>>]
      /\ i <= m /\ j <= n /\ ~(as[i] < bs[j]) /\ ~(bs[j] < as[i]) =>
           W = IF c < d THEN w[<<i + 1, j + 1>>] + VolumeModulus ELSE w[<<i + 1, j + 1>>]
  BY Zenon DEF Wraps
<1>8. CASE i > m /\ j > n
  <2>1. i - 1 = m /\ j - 1 = n
    BY <1>1, <1>8
  <2>2. s = [sold |-> 0, newCount |-> 0, newSum |-> 0] /\ W = 0
    BY <1>5, <1>7, <1>8, Zenon
  <2>3. A = E /\ B = F
    BY <2>1, Zenon
  <2> HIDE DEF s, A, B, E, F, W
  <2>4. s \in Parts /\ s.newSum - s.sold = 0
    BY <2>2 DEF Parts
  <2>5. A \in Int /\ B \in Int
    BY <1>2 DEF A, B
  <2>6. (F - B) - (E - A) - W = 0
    BY <2>2, <2>3, <2>5
  <2> QED  BY <2>4, <2>6
<1>9. CASE ~(i > m /\ j > n) /\ (j > n \/ (i <= m /\ as[i] < bs[j]))
  <2>1. i <= m
    BY <1>1, <1>9, Zenon
  <2> DEFINE r == t[<<i + 1, j>>]  q == r.newSum - r.sold
  <2>2. s = [r EXCEPT !.sold = @ + c] /\ W = w[<<i + 1, j>>]
    BY <1>5, <1>7, <1>9, <2>1, Zenon
  <2>3. r \in Parts /\ q = (F - B) - (E - va[i]) - W
    BY <2>1, <2>2, <1>6, Zenon DEF Balanced
  <2> HIDE DEF r
  <2>4. s \in Parts /\ s.newSum - s.sold = q - c
    BY <1>3, <2>1, <2>2, <2>3, RowSold, Zenon
  <2>5. /\ c \in Int /\ va[i] = A + c /\ W \in Int
        /\ A \in Int /\ B \in Int /\ E \in Int /\ F \in Int
    BY <1>2, <1>3, <1>7, <2>1, Zenon
  <2> HIDE DEF s, q, c, A, B, E, F, W
  <2> QED  BY <2>3, <2>4, <2>5
<1>10. CASE ~(i > m /\ j > n) /\ ~(j > n \/ (i <= m /\ as[i] < bs[j])) /\ (i > m \/ bs[j] < as[i])
  <2>1. j <= n
    BY <1>1, <1>10, Zenon
  <2> DEFINE r == t[<<i, j + 1>>]  q == r.newSum - r.sold
  <2>2. s = [r EXCEPT !.newCount = @ + 1, !.newSum = @ + d] /\ W = w[<<i, j + 1>>]
    BY <1>5, <1>7, <1>10, <2>1, Zenon
  <2>3. r \in Parts /\ q = (F - vb[j]) - (E - A) - W
    BY <2>1, <2>2, <1>6, Zenon DEF Balanced
  <2> HIDE DEF r
  <2>4. s \in Parts /\ s.newSum - s.sold = q + d
    BY <1>4, <2>1, <2>2, <2>3, RowNew, Zenon
  <2>5. /\ d \in Int /\ vb[j] = B + d /\ W \in Int
        /\ A \in Int /\ B \in Int /\ E \in Int /\ F \in Int
    BY <1>2, <1>4, <1>7, <2>1, Zenon
  <2> HIDE DEF s, q, d, A, B, E, F, W
  <2> QED  BY <2>3, <2>4, <2>5
<1>11. CASE ~(i > m /\ j > n) /\ ~(j > n \/ (i <= m /\ as[i] < bs[j])) /\ ~(i > m \/ bs[j] < as[i])
  <2>1. i <= m /\ j <= n /\ ~(as[i] < bs[j]) /\ ~(bs[j] < as[i])
    BY <1>1, <1>11, Zenon
  <2> DEFINE r == t[<<i + 1, j + 1>>]  q == r.newSum - r.sold  V == w[<<i + 1, j + 1>>]
             e == Minus(c, d)
  <2>2. s = [r EXCEPT !.sold = @ + e] /\ W = IF c < d THEN V + VolumeModulus ELSE V
    BY <1>5, <1>7, <1>11, <2>1, Zenon
  <2>3. r \in Parts /\ q = (F - vb[j]) - (E - va[i]) - V
    BY <2>1, <1>6, Zenon DEF Balanced
  <2>4. V \in Int
    <3>1. i + 1 \in 1..(m + 1) /\ j + 1 \in 1..(n + 1)
      BY <2>1
    <3> QED  BY <3>1, Zenon DEF Wraps
  <2>5. /\ c \in Int /\ va[i] = A + c /\ d \in Int /\ vb[j] = B + d
        /\ A \in Int /\ B \in Int /\ E \in Int /\ F \in Int
    BY <1>2, <1>3, <1>4, <2>1, Zenon
  <2> HIDE DEF s, c, d, A, B, E, F, W, V, r
  <2>6. e \in Int /\ e = c - d + (W - V) /\ W \in Int
    BY <2>2, <2>4, <2>5, VolumeModulusIsNumber DEF Minus
  <2> HIDE DEF e
  <2>7. s \in Parts /\ s.newSum - s.sold = q - e
    BY <2>2, <2>3, <2>6, RowSold, Zenon
  <2> HIDE DEF q
  <2> QED  BY <2>3, <2>4, <2>5, <2>6, <2>7
<1> QED  BY <1>8, <1>9, <1>10, <1>11, Zenon

\* The first cell accounts for all volumes: by induction on how far a cell is
\* from the last.
LEMMA MergeBalances ==
  ASSUME NEW t, NEW a, NEW b, NEW as, NEW bs, NEW m \in Nat, NEW n \in Nat, NEW va, NEW vb, NEW w,
         Merges(t, a, b, as, bs, m, n), Accumulates(va, a, as, m), Accumulates(vb, b, bs, n),
         Wraps(w, a, b, as, bs, m, n)
  PROVE  Balanced(t, w, va, vb, m, n, 1, 1)
<1> DEFINE B(i, j) == Balanced(t, w, va, vb, m, n, i, j)
    Held(k) == \A i \in 1..(m + 1), j \in 1..(n + 1) : (m + 1 - i) + (n + 1 - j) < k => B(i, j)
    G == {k \in Nat : Held(k)}
    N == m + n + 1
<1>1. ASSUME NEW i \in 1..(m + 1), NEW j \in 1..(n + 1),
             i <= m => B(i + 1, j), j <= n => B(i, j + 1), i <= m /\ j <= n => B(i + 1, j + 1)
      PROVE  B(i, j)
  BY <1>1, MergeStep, Zenon
<1> HIDE DEF B
<1>2. ASSUME NEW k \in Nat, Held(k)  PROVE Held(k + 1)
  <2> SUFFICES ASSUME NEW i \in 1..(m + 1), NEW j \in 1..(n + 1),
                      (m + 1 - i) + (n + 1 - j) < k + 1
               PROVE  B(i, j)
    OBVIOUS
  <2>1. i <= m => B(i + 1, j)
    <3>1. i <= m => i + 1 \in 1..(m + 1) /\ (m + 1 - (i + 1)) + (n + 1 - j) < k
      OBVIOUS
    <3> QED  BY <1>2, <3>1
  <2>2. j <= n => B(i, j + 1)
    <3>1. j <= n => j + 1 \in 1..(n + 1) /\ (m + 1 - i) + (n + 1 - (j + 1)) < k
      OBVIOUS
    <3> QED  BY <1>2, <3>1
  <2>3. i <= m /\ j <= n => B(i + 1, j + 1)
    <3>1. i <= m /\ j <= n => /\ i + 1 \in 1..(m + 1) /\ j + 1 \in 1..(n + 1)
                             /\ (m + 1 - (i + 1)) + (n + 1 - (j + 1)) < k
      OBVIOUS
    <3> QED  BY <1>2, <3>1
  <2> QED  BY <1>1, <2>1, <2>2, <2>3
<1>3. Held(0)
  OBVIOUS
<1>4. N \in G
  <2>1. 0 \in G /\ N \in Nat
    BY <1>3
  <2>2. \A k \in 0..(N - 1) : k \in G => k + 1 \in G
    <3> HIDE DEF Held
    <3> QED  BY <1>2
  <2> HIDE DEF G, N
  <2> QED  BY <2>1, <2>2, CountedUp
<1>5. Held(N)
  BY <1>4, Zenon
<1>6. 1 \in 1..(m + 1) /\ 1 \in 1..(n + 1) /\ (m + 1 - 1) + (n + 1 - 1) < N
  OBVIOUS
<1>7. B(1, 1)
  <2> HIDE DEF N
  <2> QED  BY <1>5, <1>6, Zenon
<1> QED  BY <1>7 DEF B

\* What is offered in a view is a number for each order.
Offers(view) == DOMAIN view \subseteq Ids /\ \A i \in DOMAIN view : view[i].volume \in Int

\* The views of a reader whose slots hold orders offer numbers.
LEMMA ViewOffers ==
  ASSUME NEW w, \A k \in DOMAIN w : w[k] \in [id : Ids, price : Int, volume : Nat]
  PROVE  Offers(View(w))
<1>1. \A o \in Live(w) : o.id \in Ids /\ o.volume \in Int
  BY DEF Live
<1>2. DOMAIN View(w) = {o.id : o \in Live(w)} \cap Watched
  BY DEF View
<1>3. ASSUME NEW i \in DOMAIN View(w)  PROVE View(w)[i].volume \in Int
  <2> DEFINE o == CHOOSE p \in Live(w) : p.id = i
  <2>1. \E p \in Live(w) : p.id = i
    BY <1>2
  <2>2. o \in Live(w)
    BY <2>1
  <2>3. View(w)[i] = [price |-> o.price, volume |-> o.volume]
    BY <1>2 DEF View
  <2> HIDE DEF o
  <2> QED  BY <1>1, <2>2, <2>3
<1> QED  BY <1>1, <1>2, <1>3 DEF Offers

\* A list of a view's ids: ascending, and each of them.
Enumerates(ids, S, n) ==
  /\ \A k \in 1..n : ids[k] \in S
  /\ \A j, k \in 1..n : j < k => ids[j] < ids[k]
  /\ \A x \in S : \E k \in 1..n : ids[k] = x

\* Volume sums the volumes of a view along the list of its ids.
LEMMA ListSums ==
  ASSUME NEW view, Offers(view)
  PROVE  LET ids == Ascending(DOMAIN view)
             v == Volumes(view, ids)
             n == Len(ids)
         IN  /\ n \in Nat /\ Accumulates(v, view, ids, n) /\ Volume(view) = v[n] /\ v[0] = 0
             /\ Enumerates(ids, DOMAIN view, n)
<1> DEFINE ids == Ascending(DOMAIN view)  v == Volumes(view, ids)  n == Len(ids)
<1>1. DOMAIN view \in SUBSET Nat /\ IsFiniteSet(DOMAIN view)
  BY IdsAreNumbers, FS_Subset DEF Offers
<1>2. /\ ids \in Seq(DOMAIN view)
      /\ \A j, k \in 1..n : j < k => ids[j] < ids[k]
      /\ \A x \in DOMAIN view : \E k \in 1..n : ids[k] = x
  BY <1>1, AscendingList
<1>3. Volume(view) = v[n]
  BY VolumeIs
<1> HIDE DEF ids
<1>4. n \in Nat /\ \A k \in 1..n : ids[k] \in DOMAIN view
  BY <1>2
<1>5. \A i \in DOMAIN view : view[i].volume \in Int
  BY DEF Offers
<1>6. v[0] = 0 /\ (\A k \in 0..n : v[k] \in Int) /\ \A k \in 1..n : v[k] = v[k - 1] + view[ids[k]].volume
  BY <1>2, <1>5, VolumesSum
<1> HIDE DEF v, n
<1>7. Accumulates(v, view, ids, n)
  BY <1>4, <1>5, <1>6, Zenon DEF Accumulates
<1>8. Enumerates(ids, DOMAIN view, n)
  BY <1>2, <1>4, Zenon DEF Enumerates
<1> QED  BY <1>3, <1>4, <1>6, <1>7, <1>8 DEF v, n, ids

\* The modulus once more.
LEMMA OnceMore ==
  ASSUME NEW M \in Nat, NEW c \in Nat
  PROVE  M * c \in Int /\ M * (c + 1) = M * c + M /\ M * 0 = 0
OBVIOUS

\* How numbers compare.
LEMMA NeitherLess ==
  ASSUME NEW x \in Nat, NEW y \in Nat, ~(x < y), ~(y < x)
  PROVE  x = y
OBVIOUS

LEMMA FurtherOn ==
  ASSUME NEW x \in Nat, NEW y \in Nat, NEW z \in Nat, x < y, y = z \/ y < z
  PROVE  z # x
OBVIOUS

\* Along two lists the modulus is added once for every order whose volume rose.
LEMMA WrapsCounted ==
  ASSUME NEW a, NEW b, Offers(a), Offers(b), NEW as, NEW bs, NEW m \in Nat, NEW n \in Nat,
         Enumerates(as, DOMAIN a, m), Enumerates(bs, DOMAIN b, n)
  PROVE  \E w : /\ Wraps(w, a, b, as, bs, m, n)
                /\ w[<<1, 1>>] = VolumeModulus * Cardinality(Risen(a, b))
<1> DEFINE
    InA(i, x) == \E k \in 1..m : i <= k /\ as[k] = x
    InB(j, x) == \E l \in 1..n : j <= l /\ bs[l] = x
    Late(i, j) == {x \in Risen(a, b) : InA(i, x) /\ InB(j, x)}
    D == (1..(m + 1)) \X (1..(n + 1))
    w == [p \in D |-> VolumeModulus * Cardinality(Late(p[1], p[2]))]
<1>1. /\ \A k \in 1..m : as[k] \in DOMAIN a /\ as[k] \in Nat
      /\ \A l \in 1..n : bs[l] \in DOMAIN b /\ bs[l] \in Nat
      /\ \A j, k \in 1..m : j < k => as[j] < as[k]
      /\ \A j, k \in 1..n : j < k => bs[j] < bs[k]
  BY IdsAreNumbers DEF Enumerates, Offers
<1>2. IsFiniteSet(Risen(a, b))
  BY IdsAreNumbers, FS_Subset DEF Risen, Offers
<1>3. ASSUME NEW i \in 1..(m + 1), NEW j \in 1..(n + 1)
      PROVE  /\ IsFiniteSet(Late(i, j)) /\ Cardinality(Late(i, j)) \in Nat
             /\ w[<<i, j>>] = VolumeModulus * Cardinality(Late(i, j))
             /\ w[<<i, j>>] \in Int
  <2>1. IsFiniteSet(Late(i, j))
    BY <1>2, FS_Subset
  <2>2. Cardinality(Late(i, j)) \in Nat
    BY <2>1, FS_CardinalityType
  <2>3. <<i, j>> \in D /\ <<i, j>>[1] = i /\ <<i, j>>[2] = j
    OBVIOUS
  <2> HIDE DEF Late, D
  <2>4. w[<<i, j>>] = VolumeModulus * Cardinality(Late(i, j))
    BY <2>3, Zenon
  <2> HIDE DEF w
  <2> QED  BY <2>1, <2>2, <2>4, OnceMore, VolumeModulusIsNumber
<1> HIDE DEF w
<1>4. ASSUME NEW i \in 1..m, NEW x  PROVE InA(i, x) <=> as[i] = x \/ InA(i + 1, x)
  <2>1. \A k \in 1..m : i <= k <=> k = i \/ i + 1 <= k
    OBVIOUS
  <2> QED  BY <2>1, Zenon
<1>5. ASSUME NEW j \in 1..n, NEW x  PROVE InB(j, x) <=> bs[j] = x \/ InB(j + 1, x)
  <2>1. \A l \in 1..n : j <= l <=> l = j \/ j + 1 <= l
    OBVIOUS
  <2> QED  BY <2>1, Zenon
<1>6. ASSUME NEW i \in 1..(m + 1), NEW j \in 1..(n + 1), i > m, j > n  PROVE w[<<i, j>>] = 0
  <2>1. \A x : ~InA(i, x)
    <3>1. \A k \in 1..m : ~(i <= k)
      BY <1>6
    <3> QED  BY <3>1, Zenon
  <2> HIDE DEF InA, InB
  <2>2. Late(i, j) = {}
    BY <2>1
  <2> HIDE DEF Late
  <2>3. w[<<i, j>>] = VolumeModulus * 0
    BY <1>3, <2>2, FS_EmptySet, Zenon
  <2> QED  BY <2>3, OnceMore, VolumeModulusIsNumber
<1>7. ASSUME NEW i \in 1..(m + 1), NEW j \in 1..(n + 1), i <= m, j > n \/ as[i] < bs[j]
      PROVE  w[<<i, j>>] = w[<<i + 1, j>>]
  <2>1. i \in 1..m /\ i + 1 \in 1..(m + 1)
    BY <1>7
  <2>2. ~InB(j, as[i])
    <3> SUFFICES ASSUME NEW l \in 1..n, j <= l  PROVE bs[l] # as[i]
      OBVIOUS
    <3>1. j \in 1..n /\ (j = l \/ j < l)
      OBVIOUS
    <3>2. ~(j > n)
      OBVIOUS
    <3>3. bs[j] = bs[l] \/ bs[j] < bs[l]
      BY <1>1, <3>1, Zenon
    <3>4. as[i] \in Nat /\ bs[j] \in Nat /\ bs[l] \in Nat
      BY <1>1, <2>1, <3>1, Zenon
    <3> QED  BY <1>7, <3>2, <3>3, <3>4, FurtherOn, Zenon
  <2> HIDE DEF InA, InB
  <2>3. Late(i, j) = Late(i + 1, j)
    BY <1>4, <2>1, <2>2
  <2> HIDE DEF Late
  <2> QED  BY <1>3, <2>1, <2>3, Zenon
<1>8. ASSUME NEW i \in 1..(m + 1), NEW j \in 1..(n + 1), j <= n, i > m \/ bs[j] < as[i]
      PROVE  w[<<i, j>>] = w[<<i, j + 1>>]
  <2>1. j \in 1..n /\ j + 1 \in 1..(n + 1)
    BY <1>8
  <2>2. ~InA(i, bs[j])
    <3> SUFFICES ASSUME NEW k \in 1..m, i <= k  PROVE as[k] # bs[j]
      OBVIOUS
    <3>1. i \in 1..m /\ (i = k \/ i < k)
      OBVIOUS
    <3>2. ~(i > m)
      OBVIOUS
    <3>3. as[i] = as[k] \/ as[i] < as[k]
      BY <1>1, <3>1, Zenon
    <3>4. as[i] \in Nat /\ bs[j] \in Nat /\ as[k] \in Nat
      BY <1>1, <2>1, <3>1, Zenon
    <3> QED  BY <1>8, <3>2, <3>3, <3>4, FurtherOn, Zenon
  <2> HIDE DEF InA, InB
  <2>3. Late(i, j) = Late(i, j + 1)
    BY <1>5, <2>1, <2>2
  <2> HIDE DEF Late
  <2> QED  BY <1>3, <2>1, <2>3, Zenon
<1>9. ASSUME NEW i \in 1..(m + 1), NEW j \in 1..(n + 1), i <= m, j <= n,
             ~(as[i] < bs[j]), ~(bs[j] < as[i])
      PROVE  w[<<i, j>>] = IF a[as[i]].volume < b[bs[j]].volume
                           THEN w[<<i + 1, j + 1>>] + VolumeModulus ELSE w[<<i + 1, j + 1>>]
  <2> DEFINE x == as[i]
  <2>1. /\ i \in 1..m /\ i + 1 \in 1..(m + 1) /\ j \in 1..n /\ j + 1 \in 1..(n + 1)
    BY <1>9
  <2>2. bs[j] = x
    <3>1. as[i] \in Nat /\ bs[j] \in Nat
      BY <1>1, <2>1, Zenon
    <3> QED  BY <1>9, <3>1, NeitherLess, Zenon
  <2>3. ~InA(i + 1, x)
    <3> SUFFICES ASSUME NEW k \in 1..m, i + 1 <= k  PROVE as[k] # x
      OBVIOUS
    <3>1. i < k
      OBVIOUS
    <3>2. as[i] < as[k] /\ as[i] \in Nat /\ as[k] \in Nat
      BY <1>1, <2>1, <3>1, Zenon
    <3> QED  BY <3>2, FurtherOn, Zenon
  <2>4. x \in Risen(a, b) <=> a[x].volume < b[x].volume
    <3>1. x \in DOMAIN a /\ x \in DOMAIN b
      BY <1>1, <2>1, <2>2, Zenon
    <3> HIDE DEF x
    <3> QED  BY <3>1 DEF Risen
  <2> HIDE DEF InA, InB
  <2>5. ASSUME NEW y  PROVE /\ InA(i, y) <=> y = x \/ InA(i + 1, y)
                            /\ InB(j, y) <=> y = x \/ InB(j + 1, y)
    BY <1>4, <1>5, <2>1, <2>2, Zenon
  <2> DEFINE c == Cardinality(Late(i + 1, j + 1))
  <2> HIDE DEF x
  <2>6. /\ IsFiniteSet(Late(i + 1, j + 1)) /\ c \in Nat
        /\ w[<<i + 1, j + 1>>] = VolumeModulus * c
        /\ w[<<i, j>>] = VolumeModulus * Cardinality(Late(i, j))
    BY <1>3, <2>1, Zenon
  <2>7. CASE a[x].volume < b[x].volume
    <3>1. x \notin Late(i + 1, j + 1)
      BY <2>3
    <3>2. Late(i, j) = Late(i + 1, j + 1) \cup {x}
      BY <2>4, <2>5, <2>7
    <3> HIDE DEF Late
    <3>3. Cardinality(Late(i, j)) = c + 1
      BY <3>1, <3>2, <2>6, FS_AddElement
    <3> HIDE DEF c
    <3>4. w[<<i, j>>] = VolumeModulus * (c + 1)
      BY <2>6, <3>3, Zenon
    <3> QED  BY <2>2, <2>6, <2>7, <3>4, OnceMore, VolumeModulusIsNumber, Zenon DEF x
  <2>8. CASE ~(a[x].volume < b[x].volume)
    <3>1. Late(i, j) = Late(i + 1, j + 1)
      BY <2>4, <2>5, <2>8
    <3> HIDE DEF Late
    <3>2. w[<<i, j>>] = w[<<i + 1, j + 1>>]
      BY <2>6, <3>1, Zenon
    <3> QED  BY <2>2, <2>8, <3>2, Zenon DEF x
  <2> QED  BY <2>7, <2>8
<1>10. Late(1, 1) = Risen(a, b)
  <2>1. ASSUME NEW x \in Risen(a, b)  PROVE x \in Late(1, 1)
    <3>1. x \in DOMAIN a /\ x \in DOMAIN b
      BY DEF Risen
    <3>2. (\E k \in 1..m : as[k] = x) /\ \E l \in 1..n : bs[l] = x
      BY <3>1 DEF Enumerates
    <3>3. (\A k \in 1..m : 1 <= k) /\ \A l \in 1..n : 1 <= l
      OBVIOUS
    <3> QED  BY <3>2, <3>3, Zenon
  <2> QED  BY <2>1
<1>11. w[<<1, 1>>] = VolumeModulus * Cardinality(Risen(a, b))
  <2>1. 1 \in 1..(m + 1) /\ 1 \in 1..(n + 1)
    OBVIOUS
  <2> HIDE DEF Late
  <2> QED  BY <1>3, <1>10, <2>1, Zenon
<1>12. Wraps(w, a, b, as, bs, m, n)
  <2> HIDE DEF Late
  <2> QED  BY <1>3, <1>6, <1>7, <1>8, <1>9, Zenon DEF Wraps
<1> QED  BY <1>11, <1>12

\* What is offered now is what was offered, less what was sold, and what is new,
\* but for the orders whose volume rose.
LEMMA MergedBalances ==
  ASSUME NEW a, NEW b, Offers(a), Offers(b)
  PROVE  LET s == Merged(a, b)
         IN  Volume(b) = Volume(a) + s.newSum - s.sold + VolumeModulus * Cardinality(Risen(a, b))
<1> DEFINE as == Ascending(DOMAIN a)  va == Volumes(a, as)  m == Len(as)
           bs == Ascending(DOMAIN b)  vb == Volumes(b, bs)  n == Len(bs)
           t == MergedFrom(a, b, as, bs)  x == VolumeModulus * Cardinality(Risen(a, b))
<1>1. /\ m \in Nat /\ Accumulates(va, a, as, m) /\ Volume(a) = va[m] /\ va[0] = 0
      /\ Enumerates(as, DOMAIN a, m)
  BY ListSums
<1>2. /\ n \in Nat /\ Accumulates(vb, b, bs, n) /\ Volume(b) = vb[n] /\ vb[0] = 0
      /\ Enumerates(bs, DOMAIN b, n)
  BY ListSums
<1>3. Merged(a, b) = t[<<1, 1>>]
  BY DEF Merged
<1>4. Merges(t, a, b, as, bs, m, n)
  <2> HIDE DEF as, bs
  <2> QED  BY <1>1, <1>2, CellsMerged
<1>5. \E w : Wraps(w, a, b, as, bs, m, n) /\ w[<<1, 1>>] = x
  <2>1. m \in Nat /\ n \in Nat
    BY <1>1, <1>2
  <2>2. Enumerates(as, DOMAIN a, m) /\ Enumerates(bs, DOMAIN b, n)
    BY <1>1, <1>2
  <2> DEFINE P(p, q, k, l) == \E w : Wraps(w, a, b, p, q, k, l) /\ w[<<1, 1>>] = x
  <2>3. ASSUME NEW p, NEW q, NEW k \in Nat, NEW l \in Nat,
               Enumerates(p, DOMAIN a, k), Enumerates(q, DOMAIN b, l)
        PROVE  P(p, q, k, l)
    BY <2>3, WrapsCounted
  <2> HIDE DEF as, bs, m, n, P
  <2>4. P(as, bs, m, n)
    BY <2>1, <2>2, <2>3, Zenon
  <2> QED  BY <2>4 DEF P
<1> HIDE DEF as, bs, va, vb, m, n, t
<1>6. PICK w : Wraps(w, a, b, as, bs, m, n) /\ w[<<1, 1>>] = x
  BY <1>5
<1> HIDE DEF x
<1>7. Balanced(t, w, va, vb, m, n, 1, 1)
  BY <1>1, <1>2, <1>4, <1>6, MergeBalances
<1>8. m \in 0..m /\ n \in 0..n /\ 1 \in 1..(m + 1) /\ 1 \in 1..(n + 1)
  BY <1>1, <1>2
<1>9. va[m] \in Int /\ vb[n] \in Int /\ x \in Int
  BY <1>1, <1>2, <1>6, <1>8, Zenon DEF Accumulates, Wraps
<1> DEFINE s == t[<<1, 1>>]
<1>10. s \in Parts /\ s.newSum - s.sold = (vb[n] - vb[0]) - (va[m] - va[0]) - x
  BY <1>6, <1>7 DEF Balanced
<1> HIDE DEF s
<1>11. s.newSum \in Int /\ s.sold \in Int
  BY <1>10 DEF Parts
<1>12. vb[n] = va[m] + s.newSum - s.sold + x
  BY <1>1, <1>2, <1>9, <1>10, <1>11
<1> QED  BY <1>1, <1>2, <1>3, <1>12 DEF s, x

\* The analysis holds the view the reader shows, which is of orders.
ViewsOK ==
  /\ IInv
  /\ last = View(slots)
  /\ \A k \in DOMAIN slots : slots[k] \in [id : Ids, price : Int, volume : Nat]

\* Nothing has been read, and nothing is shown.
LEMMA InitViews == AnalysisInit => ViewsOK
<1> SUFFICES ASSUME AnalysisInit PROVE ViewsOK
  OBVIOUS
<1>1. IInv
  BY InitInv DEF AnalysisInit
<1>2. slots = Empty /\ last = Empty
  BY DEF AnalysisInit, Init
<1>3. DOMAIN slots = {}
  BY <1>2, EmptyFacts
<1>4. View(slots) = Empty
  <2>1. Live(slots) = {}
    BY <1>3 DEF Live
  <2>2. View(slots) = [i \in {} |-> LET o == CHOOSE p \in Live(slots) : p.id = i
                                    IN  [price |-> o.price, volume |-> o.volume]]
    <3>1. {o.id : o \in Live(slots)} \cap Watched = {}
      BY <2>1
    <3> QED  BY <3>1, Zenon DEF View
  <2> QED  BY <2>2 DEF Empty
<1> QED  BY <1>1, <1>2, <1>3, <1>4 DEF ViewsOK

\* Only Close shows another view, and it is compared with the one before.
LEMMA NextViews ==
  ASSUME ViewsOK, [AnalysisNext]_<<vars, analysisVars>>
  PROVE  /\ ViewsOK'
         /\ \/ UNCHANGED <<vars, analysisVars>>
            \/ row' \notin {None, Aborted} =>
                 row'.total = Volume(View(slots)) + row'.merged.newSum - row'.merged.sold
                              + VolumeModulus * Cardinality(Risen(View(slots), View(slots')))
<1>1. CASE UNCHANGED <<vars, analysisVars>>
  <2>1. IInv'
    BY <1>1, NextInv DEF ViewsOK, analysisVars
  <2>2. UNCHANGED slots /\ UNCHANGED last
    BY <1>1 DEF vars, analysisVars
  <2>3. View(slots)' = View(slots)
    BY <2>2 DEF View, Live
  <2> QED  BY <1>1, <2>1, <2>2, <2>3 DEF ViewsOK
<1>2. CASE Close /\ StepAndUpdate
  <2>1. IInv' /\ slots' = written
    BY <1>2, CloseInv DEF ViewsOK
  <2>2. last' = View(slots')
    BY <1>2 DEF StepAndUpdate
  <2>3. \A k \in DOMAIN slots' : slots'[k] \in [id : Ids, price : Int, volume : Nat]
    BY <2>1 DEF ViewsOK, IInv, WrittenOK
  <2>4. ViewsOK'
    BY <2>1, <2>2, <2>3 DEF ViewsOK, View, Live
  <2>5. ASSUME row' \notin {None, Aborted}
        PROVE  row'.total = Volume(View(slots)) + row'.merged.newSum - row'.merged.sold
                           + VolumeModulus * Cardinality(Risen(View(slots), View(slots')))
    <3> DEFINE a == View(slots)  b == View(slots')
    <3>1. PICK apart \in BOOLEAN : row' = IF DOMAIN last # {} THEN Step(last, b, apart) ELSE None
      BY <1>2 DEF StepAndUpdate
    <3>2. last = a
      BY DEF ViewsOK
    <3>3. row' = [merged |-> Merged(a, b), total |-> Volume(b),
                  minSell |-> Least({a[i].price : i \in DOMAIN a})]
      BY <2>5, <3>1, <3>2, Zenon DEF Step
    <3>4. Offers(a) /\ Offers(b)
      BY <2>3, ViewOffers DEF ViewsOK
    <3> HIDE DEF a, b
    <3>5. Volume(b) = Volume(a) + Merged(a, b).newSum - Merged(a, b).sold
                      + VolumeModulus * Cardinality(Risen(a, b))
      BY <3>4, MergedBalances
    <3>6. row'.total = Volume(b) /\ row'.merged = Merged(a, b)
      BY <3>3
    <3> QED  BY <3>5, <3>6 DEF a, b
  <2> QED  BY <2>4, <2>5
<1>3. CASE (Open \/ BeginPage \/ NewOrder \/ KeptOrder \/ GoneOrder) /\ row' = None /\ UNCHANGED last
  <2>1. IInv'
    BY <1>3, NextInv DEF ViewsOK, Next
  <2>2. UNCHANGED slots
    BY <1>3 DEF Open, BeginPage, NewOrder, KeptOrder, GoneOrder
  <2>3. View(slots)' = View(slots)
    BY <2>2 DEF View, Live
  <2>4. ViewsOK'
    BY <1>3, <2>1, <2>2, <2>3 DEF ViewsOK
  <2> QED  BY <1>3, <2>4
<1> QED  BY <1>1, <1>2, <1>3 DEF AnalysisNext

\* Whatever the snapshots and whichever orders are watched, every volume of two
\* views that are compared is accounted for: what was offered and is new, less
\* what was sold, is what is offered now, but for the modulus, which is added to
\* what was sold once for every order that grew (TritaniumBuyAnalysis::step).
THEOREM AnalysisAccountsForVolume == AnalysisSpec => VolumeAccounted
<1>1. AnalysisInit => ViewsOK
  BY InitViews
<1>2. ViewsOK /\ [AnalysisNext]_<<vars, analysisVars>> =>
        /\ ViewsOK'
        /\ [row' \notin {None, Aborted} =>
              row'.total = Volume(View(slots)) + row'.merged.newSum - row'.merged.sold
                            + VolumeModulus * Cardinality(Risen(View(slots), View(slots')))]_<<vars, analysisVars>>
  BY NextViews
<1> QED  BY <1>1, <1>2, PTL DEF AnalysisSpec, VolumeAccounted
=============================================================================
