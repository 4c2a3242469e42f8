-------------------------- MODULE WorkspaceProofs ---------------------------
(* The properties of Workspace for any data, any number of kills, deletions   *)
(* and updates: what is loaded belongs together, the program fails only with  *)
(* a cause, its jobs need no skill and yield no copy in vain, and a reported  *)
(* plan can be carried out.                                                   *)
(*                                                                            *)
(* WorkspaceInv, the inductive invariant, says what is loaded and that every  *)
(* list of jobs is fed in full; the rest is about the lists themselves, which *)
(* are functions of the data. Their forms (MarketForm to PlanetaryForm) say   *)
(* what a job of each list is; sums over the columns of a plan are treated by *)
(* the lemmas of FiniteSums.                                                  *)
EXTENDS Workspace, FiniteSums, TLAPS

\* A cache that the next run would read.
Readable(f) == files[f] \notin {Absent, Partial}

\* In memory the two are set together.
InMemory == names = groups

\* On disk they are written together, if not at once: as long as one of them is
\* still to be written, at least one of them is missing or cut off.
OnDisk == Readable("names") /\ Readable("groups") => files["names"] = files["groups"]

\* How far the writer is with the two streams: closed in reverse order.
Written ==
  /\ pc = "openNames" => ~Readable("names") \/ ~Readable("groups")
  /\ pc \in {"openGroups", "closeGroups", "closeNames"} => files["names"] = Partial
  /\ pc = "closeGroups" => files["groups"] = Partial
  /\ pc \in {"closeNames", "compareTypeIds"} => files["groups"] = groups

\* The two caches of typeIDs: in memory, on disk, and half written.
CachesInv ==
  /\ DOMAIN files = {"names", "groups", "market"}
  /\ InMemory
  /\ OnDisk
  /\ Written

\* A step that leaves the typeIDs caches and what was loaded of them alone keeps
\* the invariant unless it enters the writer: the step of the market's cache,
\* of the planner and of the user's other files.
LEMMA Elsewhere ==
  ASSUME CachesInv,
         files'["names"] = files["names"], files'["groups"] = files["groups"],
         DOMAIN files' = DOMAIN files,
         names' = names, groups' = groups,
         pc' \notin {"openNames", "openGroups", "closeGroups", "closeNames", "compareTypeIds"}
  PROVE  CachesInv'
BY DEF CachesInv, InMemory, OnDisk, Written, Readable

\* A killed or finished process forgets what it read, and leaves the files.
LEMMA StopKeeps ==
  ASSUME CachesInv, Stop
  PROVE  CachesInv'
BY DEF Stop, CachesInv, InMemory, OnDisk, Written, Readable

\* With a cache deleted there is none to disagree with the other.
LEMMA DeleteKeeps ==
  ASSUME CachesInv, NEW f \in DOMAIN files, DeleteCache(f)
  PROVE  CachesInv'
BY DEF DeleteCache, CachesInv, InMemory, OnDisk, Written, Readable, loaded

\* Both caches are read, or neither.
LEMMA ReadKeeps ==
  ASSUME CachesInv, ReadTypeIds \/ LoadYaml
  PROVE  CachesInv'
<1>1. CASE ReadTypeIds
  BY <1>1 DEF ReadTypeIds, Goto, CachesInv, InMemory, OnDisk, Written, Readable
<1>2. CASE LoadYaml
  BY <1>2 DEF LoadYaml, Goto, CachesInv, InMemory, OnDisk, Written, Readable
<1> QED  BY <1>1, <1>2

\* From the moment the first stream is opened until the last one is closed the
\* names are cut off; then both caches hold what is in memory.
LEMMA WriteKeeps ==
  ASSUME CachesInv, OpenNames \/ OpenGroups \/ CloseGroups \/ CloseNames
  PROVE  CachesInv'
<1> USE DEF Write, Goto, loaded, CachesInv, InMemory, OnDisk, Written, Readable
<1>1. CASE OpenNames
  BY <1>1 DEF OpenNames
<1>2. CASE OpenGroups
  BY <1>2 DEF OpenGroups
<1>3. CASE CloseGroups
  BY <1>3 DEF CloseGroups
<1>4. CASE CloseNames
  BY <1>4 DEF CloseNames
<1> QED  BY <1>1, <1>2, <1>3, <1>4

\* No other step up to the planner touches them.
LEMMA LoadKeeps ==
  ASSUME CachesInv,
         \/ UpdateSources \/ Start \/ CompareTypeIds \/ LoadFiles
         \/ ReadMarket \/ LoadOrdersFromDB \/ CompareMarket
  PROVE  CachesInv'
<1> USE DEF Goto, loaded
<1>1. CASE UpdateSources
  BY <1>1, Elsewhere DEF UpdateSources
<1>2. CASE Start
  BY <1>2, Elsewhere DEF Start
<1>3. CASE CompareTypeIds
  BY <1>3, Elsewhere DEF CompareTypeIds
<1>4. CASE LoadFiles
  BY <1>4, Elsewhere DEF LoadFiles
<1>5. CASE ReadMarket
  BY <1>5, Elsewhere DEF ReadMarket
<1>6. CASE LoadOrdersFromDB
  BY <1>6, Elsewhere DEF LoadOrdersFromDB
<1>7. CASE CompareMarket
  BY <1>7, Elsewhere DEF CompareMarket
<1> QED  BY <1>1, <1>2, <1>3, <1>4, <1>5, <1>6, <1>7

\* The writer of the market's cache leaves the other two alone.
LEMMA MarketKeeps ==
  ASSUME CachesInv, OpenMarket \/ CloseMarket
  PROVE  CachesInv'
<1> USE DEF Write, Goto, loaded
<1>1. CASE OpenMarket
  <2>1. /\ files'["names"] = files["names"] /\ files'["groups"] = files["groups"]
        /\ DOMAIN files' = DOMAIN files
    BY <1>1 DEF OpenMarket, CachesInv
  <2> QED  BY <1>1, <2>1, Elsewhere DEF OpenMarket
<1>2. CASE CloseMarket
  <2>1. /\ files'["names"] = files["names"] /\ files'["groups"] = files["groups"]
        /\ DOMAIN files' = DOMAIN files
    BY <1>2 DEF CloseMarket, CachesInv
  <2> QED  BY <1>2, <2>1, Elsewhere DEF CloseMarket
<1> QED  BY <1>1, <1>2

\* The planner only adds columns, or gives up.
LEMMA FeedKeeps ==
  ASSUME CachesInv, NEW from, NEW jobs, NEW to,
         to \in {"addMarket", "addProduction", "addT2Invention", "addT3Invention",
                 "addCopy", "solve"},
         Feed(from, jobs, to)
  PROVE  CachesInv'
<1>1. pc' \in {"failed", to}
  BY DEF Feed
<1>2. UNCHANGED <<files, names, groups>>
  BY DEF Feed, loaded
<1> QED  BY <1>1, <1>2, Elsewhere

\* So does the planner.
LEMMA PlanKeeps ==
  ASSUME CachesInv, Solve \/ (\E j \in DOMAIN columns : Choose(j)) \/ Report
  PROVE  CachesInv'
<1>1. CASE Solve
  BY <1>1, Elsewhere DEF Solve, loaded
<1>2. ASSUME NEW j \in DOMAIN columns, Choose(j)  PROVE CachesInv'
  BY <1>2, Elsewhere DEF Choose, loaded
<1>3. CASE Report
  BY <1>3, Elsewhere DEF Report, Goto, loaded, planner
<1> QED  BY <1>1, <1>2, <1>3

\* Nothing but the constructor and its writer touches the two caches.
LEMMA CachesStep ==
  ASSUME CachesInv, [Next]_vars
  PROVE  CachesInv'
<1>1. CASE Kill \/ Exit
  BY <1>1, StopKeeps DEF Kill, Exit
<1>2. ASSUME NEW f \in DOMAIN files, DeleteCache(f)  PROVE CachesInv'
  BY <1>2, DeleteKeeps
<1>3. CASE \/ AddPlanetary \/ AddMarket \/ AddProduction
           \/ AddT2Invention \/ AddT3Invention \/ AddCopy
  BY <1>3, FeedKeeps
     DEF AddPlanetary, AddMarket, AddProduction, AddT2Invention, AddT3Invention, AddCopy
<1>4. CASE UNCHANGED vars
  BY <1>4 DEF vars, CachesInv, InMemory, OnDisk, Written, Readable
<1> QED  BY <1>1, <1>2, <1>3, <1>4, ReadKeeps, WriteKeeps, LoadKeeps, MarketKeeps, PlanKeeps DEF Next

\* For any data, any number of kills, updates and deletions: the two caches are
\* never read, and never used, from different versions of typeIDs.yaml.
THEOREM CachesAgree == Spec => []CachesInv
<1>1. Init => CachesInv
  BY DEF Init, CachesInv, InMemory, OnDisk, Written, Readable
<1>2. CachesInv /\ [Next]_vars => CachesInv'
  BY CachesStep
<1> QED  BY <1>1, <1>2, PTL DEF Spec

\* The names and the groups in memory come from the same typeIDs.yaml (the order
\* in which workspace::loadTypeIds opens and closes the two streams).
THEOREM NamesAndGroups == Spec => []NamesMatchGroups
<1>1. CachesInv => NamesMatchGroups
  BY DEF CachesInv, InMemory, NamesMatchGroups
<1> QED  BY <1>1, CachesAgree, PTL

-----------------------------------------------------------------------------
(* Lists as functions of positions, and the forms of the jobs              *)

\* An entry of the lists taken together is an entry of one of them, at the
\* pair of its place among the lists and its place in it.
LEMMA TogetherAt ==
  ASSUME NEW lists
  PROVE  /\ \A i \in DOMAIN lists : \A k \in DOMAIN lists[i] :
              <<i, k>> \in DOMAIN Together(lists) /\ Together(lists)[<<i, k>>] = lists[i][k]
         /\ \A x \in DOMAIN Together(lists) :
              \E i \in DOMAIN lists : \E k \in DOMAIN lists[i] :
                x = <<i, k>> /\ Together(lists)[x] = lists[i][k]
BY DEF Together

\* The lists taken together have the entries of each, and no other.
LEMMA RangeTogether ==
  ASSUME NEW lists
  PROVE  /\ \A i \in DOMAIN lists : Range(lists[i]) \subseteq Range(Together(lists))
         /\ \A x \in Range(Together(lists)) : \E i \in DOMAIN lists : x \in Range(lists[i])
<1>1. ASSUME NEW i \in DOMAIN lists, NEW x \in Range(lists[i])
      PROVE  x \in Range(Together(lists))
  <2>1. PICK k \in DOMAIN lists[i] : x = lists[i][k]
    BY DEF Range
  <2>2. <<i, k>> \in DOMAIN Together(lists) /\ Together(lists)[<<i, k>>] = x
    BY <2>1, TogetherAt
  <2> QED  BY <2>2 DEF Range
<1>2. ASSUME NEW x \in Range(Together(lists))
      PROVE  \E i \in DOMAIN lists : x \in Range(lists[i])
  <2>1. PICK y \in DOMAIN Together(lists) : x = Together(lists)[y]
    BY DEF Range
  <2> QED  BY <2>1, TogetherAt DEF Range
<1> QED  BY <1>1, <1>2

\* Finitely many finite lists make a finite one.
LEMMA TogetherFinite ==
  ASSUME NEW lists, IsFiniteSet(DOMAIN lists),
         \A i \in DOMAIN lists : IsFiniteSet(DOMAIN lists[i])
  PROVE  IsFiniteSet(DOMAIN Together(lists))
<1>1. \A i \in DOMAIN lists : IsFiniteSet({i} \X DOMAIN lists[i])
  BY FS_Product, FS_Singleton
<1> DEFINE part == [i \in DOMAIN lists |-> {i} \X DOMAIN lists[i]]
           parts == {{i} \X DOMAIN lists[i] : i \in DOMAIN lists}
<1>2. part \in Surjection(DOMAIN lists, parts)
  BY DEF Surjection
<1>3. IsFiniteSet(parts)
  BY <1>2, FS_Surjection
<1> QED  BY <1>1, <1>3, FS_UNION DEF Together

\* A finite set of integers that is not empty has a greatest element.
LEMMA MaxExists ==
  ASSUME NEW S, IsFiniteSet(S), S \subseteq Int, S # {}
  PROVE  Max(S) \in S /\ \A x \in S : x <= Max(S)
<1> DEFINE G == {T \in SUBSET S : T # {} => \E x \in T : \A y \in T : x >= y}
<1>1. {} \in G
  OBVIOUS
<1>2. ASSUME NEW T \in SUBSET S, NEW a \in S \ T, T \in G  PROVE T \cup {a} \in G
  <2>1. CASE T = {}
    BY <2>1
  <2>2. CASE T # {}
    <3>1. PICK x \in T : \A y \in T : x >= y
      BY <1>2, <2>2
    <3>2. CASE x >= a
      BY <3>1, <3>2
    <3>3. CASE a >= x
      BY <3>1, <3>3
    <3> QED  BY <3>2, <3>3, <3>1
  <2> QED  BY <2>1, <2>2
<1>3. S \in G
  <2> HIDE DEF G
  <2> QED  BY <1>1, <1>2, FiniteSetInduction
<1>4. \E x \in S : \A y \in S : x >= y
  BY <1>3
<1> QED  BY <1>4 DEF Max

\* A finite set of integers that is not empty has a least element.
LEMMA MinExists ==
  ASSUME NEW S, IsFiniteSet(S), S \subseteq Int, S # {}
  PROVE  Min(S) \in S
<1> DEFINE G == {T \in SUBSET S : T # {} => \E x \in T : \A y \in T : x <= y}
<1>1. {} \in G
  OBVIOUS
<1>2. ASSUME NEW T \in SUBSET S, NEW a \in S \ T, T \in G  PROVE T \cup {a} \in G
  <2>1. CASE T = {}
    BY <2>1
  <2>2. CASE T # {}
    <3>1. PICK x \in T : \A y \in T : x <= y
      BY <1>2, <2>2
    <3>2. CASE x <= a
      BY <3>1, <3>2
    <3>3. CASE a <= x
      BY <3>1, <3>3
    <3> QED  BY <3>2, <3>3, <3>1
  <2> QED  BY <2>1, <2>2
<1>3. S \in G
  <2> HIDE DEF G
  <2> QED  BY <1>1, <1>2, FiniteSetInduction
<1>4. \E x \in S : \A y \in S : x <= y
  BY <1>3
<1> QED  BY <1>4 DEF Min

\* A list has finitely many positions, all of them numbers.
LEMMA ListFinite ==
  ASSUME NEW s, IsList(s)
  PROVE  IsFiniteSet(DOMAIN s) /\ DOMAIN s \subseteq Int
<1>1. DOMAIN s = 1..Len(s) /\ Len(s) \in Nat
  BY DEF IsList
<1> QED  BY <1>1, FS_Interval

-----------------------------------------------------------------------------

\* The only entry of a list of one.
LEMMA RangeOne ==
  ASSUME NEW x
  PROVE  Range(<<x>>) = {x}
BY DEF Range

\* What addMarketResourcesAndJobs adds buys from a sell order or sells to a
\* buy order.
LEMMA MarketForm ==
  ASSUME NEW w, NEW J \in Range(MarketJobs(w)), J # Thrown
  PROVE  \/ \E o \in Range(w.sell) : J = Buy(w, o)
         \/ \E o \in Range(w.buy) : J = Sell(w, o)
<1> DEFINE buys == Map(LAMBDA o : IF checkItem(w, o.type) THEN Buy(w, o) ELSE Thrown, Tradable(w, w.sell))
           sells == Map(LAMBDA o : IF checkItem(w, o.type) THEN Sell(w, o) ELSE Thrown, Tradable(w, w.buy))
<1>1. ASSUME J \in Range(buys)  PROVE \E o \in Range(w.sell) : J = Buy(w, o)
  BY <1>1 DEF Range, Map, Tradable, RestrictValues, Restrict
<1>2. ASSUME J \in Range(sells)  PROVE \E o \in Range(w.buy) : J = Sell(w, o)
  BY <1>2 DEF Range, Map, Tradable, RestrictValues, Restrict
<1>3. MarketJobs(w) = Together(<<buys, sells>>)
  BY DEF MarketJobs
<1> HIDE DEF buys, sells
<1>4. \E i \in DOMAIN <<buys, sells>> : J \in Range(<<buys, sells>>[i])
  BY <1>3, RangeTogether
<1> QED  BY <1>1, <1>2, <1>4

\* What addCopyJobs adds copies a blueprint that can be copied: it takes the
\* time of the original and of the laboratory and gives one run of the plain
\* copy.
LEMMA CopyForm ==
  ASSUME NEW w, NEW J \in Range(CopyJobs(w)), J # Thrown
  PROVE  \E b \in Nodes(w) :
           /\ CanCopy(w, b) /\ HasValue(w, b.id)
           /\ J = [name |-> <<"Copy", b.id>>,
                   in |-> <<<<BPO(b.id), 100 * b.copying.time>>, <<LabTime, 100 * b.copying.time>>>>,
                   out |-> <<<<BPC(b.id, Plain), Run>>>>,
                   cost |-> -(JobValue(w, b.id) * w.settings.copyTax), limit |-> Unlimited]
<1>1. PICK k \in DOMAIN CopyJobs(w) : J = CopyJobs(w)[k]
  BY DEF Range
<1> DEFINE b == w.blueprints[k]
           job == [name |-> <<"Copy", b.id>>,
                   in |-> <<<<BPO(b.id), 100 * b.copying.time>>, <<LabTime, 100 * b.copying.time>>>>,
                   out |-> <<<<BPC(b.id, Plain), Run>>>>,
                   cost |-> -(JobValue(w, b.id) * w.settings.copyTax), limit |-> Unlimited]
<1>2. k \in DOMAIN w.blueprints /\ CanCopy(w, b) /\ HasValue(w, b.id) /\ J \in {Thrown, job}
  BY <1>1 DEF CopyJobs, Map, RestrictValues, Restrict, Job, Copies, Named
<1>3. b \in Nodes(w)
  BY <1>2 DEF Nodes, Range
<1> QED  BY <1>2, <1>3

\* A row of the products the planner takes is the first product of a
\* blueprint that has a name, that can be manufactured from and for which the
\* user has the skills.
LEMMA ProductForm ==
  ASSUME NEW w, NEW p \in Range(Products(w))
  PROVE  \E b \in Nodes(w) :
           /\ b.id \in w.names /\ CanManufacture(w, b)
           /\ p = [bp |-> b.id, product |-> b.manufacturing.products[1].type,
                  quantity |-> b.manufacturing.products[1].quantity,
                  materials |-> b.manufacturing.materials,
                  skills |-> b.manufacturing.skills, time |-> b.manufacturing.time]
           /\ \A r \in Range(p.skills) : getSkillLevel(w, r[1]) >= r[2]
<1>1. PICK k \in DOMAIN Products(w) : p = Products(w)[k]
  BY DEF Range
<1> DEFINE b == w.blueprints[k]
           row == [bp |-> b.id, product |-> b.manufacturing.products[1].type,
                   quantity |-> b.manufacturing.products[1].quantity,
                   materials |-> b.manufacturing.materials,
                   skills |-> b.manufacturing.skills, time |-> b.manufacturing.time]
<1>2. k \in DOMAIN AllProducts(w) /\ p = AllProducts(w)[k]
      /\ \A r \in Range(p.skills) : getSkillLevel(w, r[1]) >= r[2]
  BY <1>1 DEF Products, Skilled, RestrictValues, Restrict
<1>3. k \in DOMAIN w.blueprints /\ b.id \in w.names /\ CanManufacture(w, b) /\ p = row
  BY <1>2 DEF AllProducts, Map, RestrictValues, Restrict, Named
<1>4. b \in Nodes(w)
  BY <1>3 DEF Nodes, Range
<1> QED  BY <1>2, <1>3, <1>4

\* What addManufacturingJobs adds produces one of those products from a
\* blueprint not on the ignore list, with the efficiency of a plain copy, or
\* of an invented one when the blueprint is not T1.
LEMMA ProductionForm ==
  ASSUME NEW w, NEW J \in Range(ManufacturingJobs(w)), J # Thrown
  PROVE  \E p \in Range(Products(w)) :
           /\ p.bp \notin w.settings.ignoreList
           /\ \E eff \in Range(IF isT1BP(w, p.bp) THEN <<Plain>> ELSE bpes) :
                J \in Range(Produce(w, p, eff))
<1> DEFINE kept == RestrictValues(Products(w), LAMBDA p : p.bp \notin w.settings.ignoreList)
           effs(p) == IF isT1BP(w, p.bp) THEN <<Plain>> ELSE bpes
           made(p) == Map(LAMBDA eff : Produce(w, p, eff), effs(p))
           jobs(p) == IF ~checkItem(w, p.bp) THEN <<Thrown>> ELSE Together(made(p))
           lists == Map(jobs, kept)
<1>1. ManufacturingJobs(w) = Together(lists)
  BY DEF ManufacturingJobs
<1> HIDE DEF lists
<1>2. PICK i \in DOMAIN lists : J \in Range(lists[i])
  BY <1>1, RangeTogether
<1> USE DEF lists
<1>3. i \in DOMAIN Products(w) /\ Products(w)[i].bp \notin w.settings.ignoreList
      /\ lists[i] = jobs(Products(w)[i])
  <2> DEFINE S == {x \in DOMAIN Products(w) : Products(w)[x].bp \notin w.settings.ignoreList}
  <2>1. kept = [x \in S |-> Products(w)[x]]
    BY DEF RestrictValues, Restrict
  <2>2. lists = [x \in DOMAIN kept |-> jobs(kept[x])]
    BY DEF Map
  <2> HIDE DEF kept, jobs, lists
  <2> QED  BY <2>1, <2>2
<1> DEFINE p == Products(w)[i]
<1>4. J \in Range(Together(made(p)))
  <2>1. J \in Range(jobs(p))
    <3> HIDE DEF jobs, lists, kept, made, effs
    <3> QED  BY <1>2, <1>3
  <2>2. Range(<<Thrown>>) = {Thrown}
    BY RangeOne
  <2> HIDE DEF made
  <2> QED  BY <2>1, <2>2
<1>5. PICK k \in DOMAIN made(p) : J \in Range(made(p)[k])
  BY <1>4, RangeTogether
<1>6. k \in DOMAIN effs(p) /\ made(p)[k] = Produce(w, p, effs(p)[k])
  BY DEF Map
<1>7. p \in Range(Products(w)) /\ effs(p)[k] \in Range(effs(p))
  BY <1>3, <1>6 DEF Range
<1> QED  BY <1>3, <1>5, <1>6, <1>7

\* What produce() puts into a job's inputs: the materials by the efficiency,
\* the time of the line, and the blueprint.
ProduceIn(p, eff, resource, amount) ==
  Together(<<Map(LAMBDA m : <<Item(m[1]), CeilPercent(eff[1] * m[2])>>, p.materials),
             <<<<LineTime, eff[2] * p.time>>, <<resource, amount>>>>>>)

\* The job produce() adds when nothing is thrown.
Produced(w, p, eff, source, resource, amount) ==
  [name |-> <<TechLevel(w, p.bp), source, eff, p.product>>,
   in |-> ProduceIn(p, eff, resource, amount),
   out |-> <<<<Item(p.product), p.quantity>>>>,
   cost |-> -(JobValue(w, p.product) * w.settings.productionTax), limit |-> Unlimited]

\* The only entries of a list of two.
LEMMA RangeTwo ==
  ASSUME NEW x, NEW y
  PROVE  Range(<<x, y>>) = {x, y}
BY DEF Range

\* What produce() adds uses the original's time, when it may, or the runs of
\* a copy.
LEMMA ProduceForm ==
  ASSUME NEW w, NEW p, NEW eff, NEW J \in Range(Produce(w, p, eff)), J # Thrown
  PROVE  /\ HasTechLevel(w, p.bp) /\ HasValue(w, p.product)
         /\ \/ FromOriginal(w, p.bp) /\ J = Produced(w, p, eff, "BPO", BPO(p.bp), eff[2] * p.time)
            \/ J = Produced(w, p, eff, "BPC", BPC(p.bp, eff), Run)
<1> DEFINE ok == HasTechLevel(w, p.bp) /\ HasValue(w, p.product) /\ p.product \in w.names
           from(source, resource, amount) ==
             Job(w, ok, <<TechLevel(w, p.bp), source, eff, p.product>>,
                 ProduceIn(p, eff, resource, amount), <<<<Item(p.product), p.quantity>>>>,
                 -(JobValue(w, p.product) * w.settings.productionTax), Unlimited)
           copy == from("BPC", BPC(p.bp, eff), Run)
           orig == from("BPO", BPO(p.bp), eff[2] * p.time)
<1>1. Produce(w, p, eff) = IF FromOriginal(w, p.bp) THEN <<orig, copy>> ELSE <<copy>>
  BY DEF Produce, ProduceIn
<1>2. copy # Thrown => ok /\ copy = Produced(w, p, eff, "BPC", BPC(p.bp, eff), Run)
  BY DEF Job, Produced
<1>3. orig # Thrown => ok /\ orig = Produced(w, p, eff, "BPO", BPO(p.bp), eff[2] * p.time)
  BY DEF Job, Produced
<1> HIDE DEF copy, orig
<1>4. J = copy \/ (J = orig /\ FromOriginal(w, p.bp))
  BY <1>1, RangeOne, RangeTwo
<1> QED  BY <1>2, <1>3, <1>4

\* What is kept of a list by the skills is an entry of it whose every skill
\* the user has.
LEMMA SkilledForm ==
  ASSUME NEW w, NEW entries, NEW r \in Range(Skilled(w, entries))
  PROVE  \E k \in DOMAIN entries :
           r = entries[k] /\ \A s \in Range(r.skills) : getSkillLevel(w, s[1]) >= s[2]
<1>1. PICK k \in DOMAIN Skilled(w, entries) : r = Skilled(w, entries)[k]
  BY DEF Range
<1>2. /\ k \in DOMAIN entries /\ r = entries[k]
      /\ \A s \in Range(r.skills) : getSkillLevel(w, s[1]) >= s[2]
  BY <1>1 DEF Skilled, RestrictValues, Restrict
<1> QED  BY <1>2

\* Where an invention comes from: the place of its node and that of its outcome.
LEMMA InventionPlace ==
  ASSUME NEW w, NEW tier, NEW k \in DOMAIN Inventions(w, tier)
  PROVE  \E i \in DOMAIN w.blueprints : \E n \in DOMAIN Likely(w.blueprints[i]) :
           LET b == w.blueprints[i]
           IN  /\ k = <<i, n>> /\ b.id \in w.names /\ CanInvent(w, b)
               /\ Inventions(w, tier)[k] = InventionsOf(w, b)[n]
               /\ InventionsOf(w, b)[n].tier = tier
               /\ \A s \in Range(InventionsOf(w, b)[n].skills) : getSkillLevel(w, s[1]) >= s[2]
<1> DEFINE can == RestrictValues(Named(w), LAMBDA b : CanInvent(w, b))
           rows == Map(LAMBDA b : InventionsOf(w, b), can)
           all == Together(rows)
           ofTier == RestrictValues(all, LAMBDA x : x.tier = tier)
<1>1. Inventions(w, tier) = Skilled(w, ofTier)
  BY DEF Inventions
<1> HIDE DEF ofTier
<1>2. /\ k \in DOMAIN ofTier /\ Inventions(w, tier)[k] = ofTier[k]
      /\ \A s \in Range(ofTier[k].skills) : getSkillLevel(w, s[1]) >= s[2]
  BY <1>1 DEF Skilled, RestrictValues, Restrict
<1> HIDE DEF all
<1>3. k \in DOMAIN all /\ ofTier[k] = all[k] /\ all[k].tier = tier
  BY <1>2 DEF ofTier, RestrictValues, Restrict
<1> HIDE DEF rows
<1>4. PICK i \in DOMAIN rows : \E n \in DOMAIN rows[i] : k = <<i, n>> /\ all[k] = rows[i][n]
  BY <1>3, TogetherAt DEF all
<1> DEFINE b == w.blueprints[i]
<1>5. i \in DOMAIN can /\ rows[i] = InventionsOf(w, can[i])
  <2> HIDE DEF can
  <2> QED  BY DEF rows, Map
<1>6. i \in DOMAIN w.blueprints /\ can[i] = b /\ b.id \in w.names /\ CanInvent(w, b)
  BY <1>5 DEF Named, RestrictValues, Restrict
<1> HIDE DEF can
<1>7. PICK n \in DOMAIN rows[i] : k = <<i, n>> /\ all[k] = rows[i][n]
  BY <1>4
<1> HIDE DEF b
<1>8. n \in DOMAIN Likely(b)
  <2>1. DOMAIN InventionsOf(w, b) = DOMAIN Likely(b)
    BY DEF InventionsOf
  <2> QED  BY <2>1, <1>5, <1>6, <1>7
<1>9. /\ b.id \in w.names /\ CanInvent(w, b)
      /\ Inventions(w, tier)[k] = InventionsOf(w, b)[n]
      /\ InventionsOf(w, b)[n].tier = tier
      /\ \A s \in Range(InventionsOf(w, b)[n].skills) : getSkillLevel(w, s[1]) >= s[2]
  BY <1>2, <1>3, <1>5, <1>6, <1>7
<1>10. k = <<i, n>> /\ i \in DOMAIN w.blueprints
  BY <1>6, <1>7
<1> QED  BY <1>8, <1>9, <1>10 DEF b

\* The same without its place in the list.
LEMMA InventionForm ==
  ASSUME NEW w, NEW tier, NEW r \in Range(Inventions(w, tier))
  PROVE  \E b \in Nodes(w) : \E n \in DOMAIN Likely(b) :
           /\ b.id \in w.names /\ CanInvent(w, b)
           /\ r = InventionsOf(w, b)[n] /\ r.tier = tier
           /\ \A s \in Range(r.skills) : getSkillLevel(w, s[1]) >= s[2]
<1>1. PICK k \in DOMAIN Inventions(w, tier) : r = Inventions(w, tier)[k]
  BY DEF Range
<1>2. PICK i \in DOMAIN w.blueprints : \E n \in DOMAIN Likely(w.blueprints[i]) :
        LET b == w.blueprints[i]
        IN  /\ k = <<i, n>> /\ b.id \in w.names /\ CanInvent(w, b)
            /\ Inventions(w, tier)[k] = InventionsOf(w, b)[n]
            /\ InventionsOf(w, b)[n].tier = tier
            /\ \A s \in Range(InventionsOf(w, b)[n].skills) : getSkillLevel(w, s[1]) >= s[2]
  BY InventionPlace
<1>3. w.blueprints[i] \in Nodes(w)
  BY DEF Nodes, Range
<1> QED  BY <1>1, <1>2, <1>3

\* What addInventionJobs adds researches a row of the inventions with one of
\* the decryptors.
LEMMA ResearchForm ==
  ASSUME NEW w, NEW tier, NEW J \in Range(InventionJobs(w, tier)), J # Thrown
  PROVE  \E r \in Range(Inventions(w, tier)) : \E d \in Range(decryptors) :
           HasValue(w, r.product) /\ J = Research(w, r, d)
<1> DEFINE known == RestrictValues(Inventions(w, tier), LAMBDA r : HasValue(w, r.product))
           row(r) == Map(LAMBDA d : Research(w, r, d), decryptors)
           rows == Map(row, known)
<1>1. InventionJobs(w, tier) = Together(rows)
  BY DEF InventionJobs
<1> HIDE DEF rows
<1>2. PICK i \in DOMAIN rows : J \in Range(rows[i])
  BY <1>1, RangeTogether
<1> HIDE DEF row
<1>3. i \in DOMAIN known /\ rows[i] = row(known[i])
  <2> HIDE DEF known
  <2> QED  BY DEF rows, Map
<1> DEFINE r == Inventions(w, tier)[i]
<1>4. i \in DOMAIN Inventions(w, tier) /\ HasValue(w, r.product) /\ known[i] = r
  BY <1>3 DEF RestrictValues, Restrict
<1> HIDE DEF known
<1>5. r \in Range(Inventions(w, tier))
  BY <1>4 DEF Range
<1> HIDE DEF r
<1>6. PICK k \in DOMAIN row(r) : J = row(r)[k]
  BY <1>2, <1>3, <1>4 DEF Range
<1>7. k \in DOMAIN decryptors /\ J = Research(w, r, decryptors[k])
  BY <1>6 DEF row, Map
<1> QED  BY <1>4, <1>5, <1>7 DEF Range, r

\* What addPlanetaryInteractionJobs adds builds a facility, carries an item
\* or runs a schematic.
LEMMA PlanetaryForm ==
  ASSUME NEW w, NEW J \in Range(PlanetaryJobs(w))
  PROVE  \/ J \in {Build(w, 1, 222, 815), Build(w, 2, 522, 715), Build(w, 3, 1122, 415)}
         \/ \E t \in PlanetaryItems(w) : J \in {Import(w, t), Export(w, t)}
         \/ \E s \in Range(w.schematics) : J = Process(w, s)
<1> DEFINE builds == <<Build(w, 1, 222, 815), Build(w, 2, 522, 715), Build(w, 3, 1122, 415)>>
           trade == [t \in PlanetaryItems(w) |-> <<Import(w, t), Export(w, t)>>]
           process == Map(LAMBDA s : Process(w, s), w.schematics)
           lists == <<builds, Together(trade), process>>
<1>1. PlanetaryJobs(w) = Together(lists)
  BY DEF PlanetaryJobs
<1>2. J \in Range(builds) => J \in {Build(w, 1, 222, 815), Build(w, 2, 522, 715), Build(w, 3, 1122, 415)}
  BY DEF Range
<1>3. J \in Range(process) => \E s \in Range(w.schematics) : J = Process(w, s)
  BY DEF Range, Map
<1>4. J \in Range(Together(trade)) => \E t \in PlanetaryItems(w) : J \in {Import(w, t), Export(w, t)}
  BY RangeTogether, RangeTwo
<1> HIDE DEF builds, trade, process
<1>5. \E i \in DOMAIN lists : J \in Range(lists[i])
  <2> HIDE DEF lists
  <2> QED  BY <1>1, RangeTogether
<1> QED  BY <1>2, <1>3, <1>4, <1>5

-----------------------------------------------------------------------------
(* What is loaded, the columns and the plan: the invariant                 *)

(***************************************************************************)
(* What is loaded                                                          *)
(***************************************************************************)
NamedIn(w, orders, v) ==
  RestrictValues(orders, LAMBDA o : o.type \in w.versions[v].names \cup DOMAIN w.avg \cup DOMAIN w.adj)

\* m is the market's cache as written from some version up to the latest,
\* with the orders of that version that the names of that version or an
\* earlier one can name.
IsMarket(w, latest, m) ==
  /\ m.version \in 1..latest /\ m.names \in 1..m.version
  /\ m.sell = NamedIn(w, w.versions[m.version].sell, m.names)
  /\ m.buy = NamedIn(w, w.versions[m.version].buy, m.names)

\* The control states with nothing in memory.
Unread == {"down", "loadTypeIds"}

\* The control states whose step feeds the jobs of one list to the program.
FeedSteps == {"built", "addMarket", "addProduction", "addT2Invention", "addT3Invention", "addCopy"}

\* The control states with all the columns there.
Planning == {"solve", "planning", "reported", "unsolved"}

\* The control states that load, write and compare the typeIDs caches, and
\* wait for the market's.
Reading == {"openNames", "openGroups", "closeGroups", "closeNames", "compareTypeIds", "loadFiles", "loadMarket"}

\* The control states of the writer of the market's cache, and its
\* comparison.
Trading == {"openMarket", "closeMarket", "compareMarket"}

\* What is on disk and in memory, and at which control state: the names and
\* the market in memory come from versions of the sources that exist, the
\* caches hold what the writer wrote, and whatever works on the market has
\* one.
LoadedInv ==
  /\ world \in DOMAIN Worlds /\ version \in 1..Len(W.versions)
  /\ pc \in Unread \cup Reading \cup Trading \cup FeedSteps \cup Planning \cup {"failed"}
  /\ DOMAIN files = {"names", "groups", "market"}
  /\ files["names"] = Absent \/ files["names"] = Partial \/ files["names"] \in 1..version
  /\ files["market"] = Absent \/ files["market"] = Partial \/ IsMarket(W, version, files["market"])
  /\ names \in 0..version
  /\ names = 0 => market = NoMarket
  /\ pc \notin Unread \cup {"failed"} => names # 0
  /\ market = NoMarket \/ IsMarket(W, version, market)
  /\ pc \in Trading \cup FeedSteps \cup Planning => IsMarket(W, version, market)
  /\ pc = "compareTypeIds" => files["names"] = names
  /\ pc = "compareMarket" => files["market"] = market

(***************************************************************************)
(* The columns                                                             *)
(***************************************************************************)
JobsAt(w, step) ==
  CASE step = "built" -> PlanetaryJobs(w)
    [] step = "addMarket" -> MarketJobs(w)
    [] step = "addProduction" -> ManufacturingJobs(w)
    [] step = "addT2Invention" -> InventionJobs(w, "T2")
    [] step = "addT3Invention" -> InventionJobs(w, "T3")
    [] step = "addCopy" -> CopyJobs(w)

\* The control states after the step that feeds a list.
Since ==
  [built |-> {"addMarket", "addProduction", "addT2Invention", "addT3Invention", "addCopy"} \cup Planning,
   addMarket |-> {"addProduction", "addT2Invention", "addT3Invention", "addCopy"} \cup Planning,
   addProduction |-> {"addT2Invention", "addT3Invention", "addCopy"} \cup Planning,
   addT2Invention |-> {"addT3Invention", "addCopy"} \cup Planning,
   addT3Invention |-> {"addCopy"} \cup Planning,
   addCopy |-> Planning]

\* The program has the job under its name.
HasColumn(job) == job # Thrown /\ job.name \in DOMAIN columns /\ columns[job.name] = job

\* Every job of the list has a column of its own.
HasColumns(jobs) ==
  /\ \A k \in DOMAIN jobs : HasColumn(jobs[k])
  /\ \A k, l \in DOMAIN jobs : jobs[k].name = jobs[l].name => k = l

\* The columns are jobs of the lists fed so far, under their names, and every
\* list fed has all its jobs among them.
ColumnsInv ==
  /\ pc \in Unread \cup Reading \cup Trading \cup {"built"} => columns = <<>>
  /\ IsFiniteSet(DOMAIN columns)
  /\ \A n \in DOMAIN columns :
       /\ columns[n] # Thrown /\ columns[n].name = n
       /\ \E step \in FeedSteps : columns[n] \in Range(JobsAt(ws, step))
  /\ \A step \in FeedSteps : pc \in Since[step] => HasColumns(JobsAt(ws, step))

\* What was planned: never more than a column's limit, bought with the money
\* put aside for it; and once reported, it satisfies every row. The program
\* has no solution where the solver found none.
PlanInv ==
  /\ pc = "unsolved" => Infeasible
  /\ pc \in {"planning", "reported"} =>
       /\ plan \in [DOMAIN columns -> Nat]
       /\ BuyInHolds(plan)
       /\ \A n \in DOMAIN columns : columns[n].limit # Unlimited => plan[n] <= columns[n].limit
  /\ pc = "reported" => \A r \in Rows : RowHolds(plan, r)

-----------------------------------------------------------------------------
(* What is loaded                                                          *)

\* What was read from a market stays what it was.
LEMMA MarketStays ==
  ASSUME NEW w, NEW v \in Nat, NEW m, IsMarket(w, v, m)
  PROVE  IsMarket(w, v + 1, m)
BY DEF IsMarket

\* What loadOrdersFromDB puts in memory is the market of the current version,
\* by the names in memory.
LEMMA MarketIsNamed ==
  ASSUME LoadOrdersFromDB, version \in Nat, names \in 1..version
  PROVE  IsMarket(W, version, market')
<1>1. \A orders : NamedOrders(orders, names) = NamedIn(W, orders, names)
  BY DEF NamedOrders, NamedIn, NamesOf, At
<1>2. /\ market'.version = version /\ market'.names = names
      /\ market'.sell = NamedOrders(At(version).sell, names)
      /\ market'.buy = NamedOrders(At(version).buy, names)
  BY DEF LoadOrdersFromDB
<1> HIDE DEF LoadOrdersFromDB
<1> QED  BY <1>1, <1>2 DEF IsMarket, At

\* Nothing is loaded, and no cache but the absent one is there.
LEMMA LoadedInit == Init => LoadedInv
<1> SUFFICES ASSUME Init PROVE LoadedInv
  OBVIOUS
<1>1. world \in DOMAIN Worlds
  BY DEF Init
<1>2. TypedWorld(Worlds[world])
  BY <1>1, WorldsAssumption
<1>3. Len(W.versions) \in Nat \ {0}
  BY <1>2 DEF TypedWorld, IsList, W
<1> QED  BY <1>1, <1>3 DEF Init, LoadedInv, Unread, Reading, Trading, FeedSteps, Planning

\* A step that touches neither the files nor what was loaded.
LEMMA LoadedElsewhere ==
  ASSUME LoadedInv, UNCHANGED <<world, version, files, loaded>>,
         \/ pc' = pc
         \/ pc' = "failed"
         \/ pc \in Trading \cup FeedSteps \cup Planning /\ pc' \in FeedSteps \cup Planning
         \/ pc = "compareTypeIds" /\ pc' = "loadFiles"
         \/ pc = "loadFiles" /\ pc' = "loadMarket"
  PROVE  LoadedInv'
<1>1. pc' \in Unread \cup Reading \cup Trading \cup FeedSteps \cup Planning \cup {"failed"}
  BY DEF LoadedInv, Reading
<1>2. W' = W
  BY DEF W
<1> QED
  BY <1>1, <1>2 DEF LoadedInv, Unread, Reading, Trading, FeedSteps, Planning, loaded

\* A killed process leaves the files as they are, and forgets the rest.
LEMMA LoadedStop ==
  ASSUME LoadedInv, Stop
  PROVE  LoadedInv'
<1>1. W' = W /\ pc' = "down" /\ names' = 0 /\ market' = NoMarket
      /\ UNCHANGED <<world, version, files>>
  BY DEF W, Stop
<1>2. version \in Nat
  BY DEF LoadedInv
<1> QED
  BY <1>1, <1>2 DEF LoadedInv, Unread, Reading, Trading, FeedSteps, Planning

\* An update only adds a version, and a deleted cache is absent.
LEMMA LoadedUser ==
  ASSUME LoadedInv, UpdateSources \/ \E f \in DOMAIN files : DeleteCache(f)
  PROVE  LoadedInv'
<1> USE DEF Unread, Reading, Trading, FeedSteps, Planning, loaded
<1>1. CASE UpdateSources
  <2>1. W' = W /\ Len(W.versions) \in Nat
    <3>1. TypedWorld(W)
      BY WorldsAssumption DEF LoadedInv, W
    <3> QED  BY <3>1, <1>1 DEF TypedWorld, IsList, UpdateSources, W
  <2>2. version \in Nat /\ version' = version + 1 /\ version' \in 1..Len(W.versions)
    BY <1>1, <2>1 DEF UpdateSources, LoadedInv
  <2>3. \A m : IsMarket(W, version, m) => IsMarket(W, version + 1, m)
    BY <2>2, MarketStays
  <2> QED  BY <1>1, <2>1, <2>2, <2>3 DEF UpdateSources, LoadedInv
<1>2. ASSUME NEW f \in DOMAIN files, DeleteCache(f)  PROVE LoadedInv'
  <2>1. W' = W
    BY <1>2 DEF W, DeleteCache
  <2> QED  BY <1>2, <2>1 DEF DeleteCache, LoadedInv
<1> QED  BY <1>1, <1>2

\* The steps of the constructor that read or write a cache.
LEMMA LoadedConstructor ==
  ASSUME LoadedInv,
         \/ Start \/ ReadTypeIds \/ LoadYaml \/ OpenNames \/ OpenGroups \/ CloseGroups
         \/ CloseNames \/ ReadMarket \/ LoadOrdersFromDB \/ OpenMarket \/ CloseMarket
  PROVE  LoadedInv'
<1> USE DEF Unread, Reading, Trading, FeedSteps, Planning, loaded, Goto, Write
<1>1. world' = world /\ version' = version
  BY DEF Start, ReadTypeIds, LoadYaml, OpenNames, OpenGroups, CloseGroups, CloseNames,
         ReadMarket, LoadOrdersFromDB, OpenMarket, CloseMarket
<1>2. W' = W
  BY <1>1 DEF W
<1>3. CASE Start
  BY <1>1, <1>2, <1>3 DEF Start, LoadedInv, planner
<1>4. CASE ReadTypeIds
  BY <1>1, <1>2, <1>4 DEF ReadTypeIds, LoadedInv
<1>5. CASE LoadYaml
  BY <1>1, <1>2, <1>5 DEF LoadYaml, LoadedInv
<1>6. CASE OpenNames
  BY <1>1, <1>2, <1>6 DEF OpenNames, LoadedInv
<1>7. CASE OpenGroups
  BY <1>1, <1>2, <1>7 DEF OpenGroups, LoadedInv
<1>8. CASE CloseGroups
  BY <1>1, <1>2, <1>8 DEF CloseGroups, LoadedInv
<1>9. CASE CloseNames
  BY <1>1, <1>2, <1>9 DEF CloseNames, LoadedInv
<1>10. CASE ReadMarket
  BY <1>1, <1>2, <1>10 DEF ReadMarket, LoadedInv
<1>11. CASE LoadOrdersFromDB
  <2>1. IsMarket(W, version, market')
    BY <1>11, MarketIsNamed DEF LoadOrdersFromDB, LoadedInv
  <2> QED  BY <1>1, <1>2, <1>11, <2>1 DEF LoadOrdersFromDB, LoadedInv
<1>12. CASE OpenMarket
  BY <1>1, <1>2, <1>12 DEF OpenMarket, LoadedInv
<1>13. CASE CloseMarket
  BY <1>1, <1>2, <1>13 DEF CloseMarket, LoadedInv
<1> QED  BY <1>3, <1>4, <1>5, <1>6, <1>7, <1>8, <1>9, <1>10, <1>11, <1>12, <1>13

\* Every step keeps what is loaded consistent with the files and the
\* versions.
LEMMA LoadedStep ==
  ASSUME LoadedInv, [Next]_vars
  PROVE  LoadedInv'
<1> USE DEF Unread, Reading, Trading, FeedSteps, Planning, Goto
<1>1. CASE Kill \/ Exit
  BY <1>1, LoadedStop DEF Kill, Exit
<1>2. CASE CompareTypeIds
  BY <1>2, LoadedElsewhere DEF CompareTypeIds
<1>3. CASE LoadFiles
  BY <1>3, LoadedElsewhere DEF LoadFiles
<1>4. CASE CompareMarket
  BY <1>4, LoadedElsewhere DEF CompareMarket
<1>5. CASE \/ AddPlanetary \/ AddMarket \/ AddProduction
           \/ AddT2Invention \/ AddT3Invention \/ AddCopy
  BY <1>5, LoadedElsewhere
     DEF AddPlanetary, AddMarket, AddProduction, AddT2Invention, AddT3Invention, AddCopy, Feed
<1>6. CASE Solve
  BY <1>6, LoadedElsewhere DEF Solve
<1>7. ASSUME NEW j \in DOMAIN columns, Choose(j)  PROVE LoadedInv'
  BY <1>7, LoadedElsewhere DEF Choose
<1>8. CASE Report
  BY <1>8, LoadedElsewhere DEF Report
<1>9. CASE UNCHANGED vars
  BY <1>9, LoadedElsewhere DEF vars, loaded
<1> QED
  BY <1>1, <1>2, <1>3, <1>4, <1>5, <1>6, <1>7, <1>8, <1>9, LoadedUser, LoadedConstructor DEF Next

-----------------------------------------------------------------------------
(* The lists of columns are finite                                         *)

\* Orders as the planner sees them: a finite list with prices and volumes.
TypedOrdersOf(orders) ==
  /\ IsFiniteSet(DOMAIN orders)
  /\ \A i \in DOMAIN orders : orders[i].price \in Nat /\ orders[i].volume \in Nat

\* The workspace as the planner sees it, with the types the amounts are
\* computed from.
TypedWs(w) ==
  /\ TypedBlueprints(w.blueprints) /\ TypedOrdersOf(w.sell) /\ TypedOrdersOf(w.buy)
  /\ AreCounts(w.avg) /\ AreCounts(w.adj)
  /\ \A s \in DOMAIN w.levels : w.levels[s] \in 0..5
  /\ IsList(w.assets) /\ \A a \in Range(w.assets) : a[2] \in Nat
  /\ IsList(w.owned) /\ \A o \in Range(w.owned) : IsCopy(o) => o.runs \in Nat
  /\ IsList(w.schematics)
  /\ \A s \in Range(w.schematics) :
       /\ IsList(s.materials) /\ \A m \in Range(s.materials) : m[2] \in Nat
       /\ s.tier \in 0..3 /\ s.time \in Nat /\ s.quantity \in Nat
  /\ \A f \in {"timeFrame", "lines", "labs", "buyIn", "brokersFee", "salesTax",
               "productionTax", "inventionTax", "copyTax"} : w.settings[f] \in Nat

\* The orders left once those without a name are gone are typed as all of
\* them.
LEMMA NamedInTyped ==
  ASSUME NEW w, NEW orders, TypedOrders(orders), NEW v
  PROVE  TypedOrdersOf(NamedIn(w, orders, v))
<1>1. IsFiniteSet(DOMAIN orders)
  BY ListFinite DEF TypedOrders
<1>2. DOMAIN NamedIn(w, orders, v) \subseteq DOMAIN orders
  BY DEF NamedIn, RestrictValues, Restrict
<1>3. \A i \in DOMAIN NamedIn(w, orders, v) : NamedIn(w, orders, v)[i] = orders[i]
  BY DEF NamedIn, RestrictValues, Restrict
<1>4. \A i \in DOMAIN orders : orders[i].price \in Nat /\ orders[i].volume \in Nat
  BY DEF TypedOrders, Range
<1> QED  BY <1>1, <1>2, <1>3, <1>4, FS_Subset DEF TypedOrdersOf

\* What the planner works with is typed, whatever was loaded.
LEMMA WsTyped ==
  ASSUME LoadedInv
  PROVE  TypedWs(ws)
<1>1. TypedWorld(W)
  BY WorldsAssumption DEF LoadedInv, W
<1>2. (market = NoMarket \/ IsMarket(W, version, market)) /\ version \in 1..Len(W.versions)
  BY DEF LoadedInv
<1>3. Len(W.versions) \in Nat /\ DOMAIN W.versions = 1..Len(W.versions)
  BY <1>1 DEF TypedWorld, IsList
<1>4. \A v \in 1..Len(W.versions) :
        LET x == W.versions[v]
        IN  TypedBlueprints(x.blueprints) /\ TypedOrders(x.sell) /\ TypedOrders(x.buy)
  BY <1>1, <1>3 DEF TypedWorld, Range
<1>5. TypedOrdersOf(market.sell) /\ TypedOrdersOf(market.buy)
  <2>1. CASE market = NoMarket
    <3>1. DOMAIN NoMarket.sell = {} /\ DOMAIN NoMarket.buy = {}
      BY DEF NoMarket
    <3> QED  BY <2>1, <3>1, FS_EmptySet DEF TypedOrdersOf
  <2>2. CASE IsMarket(W, version, market)
    <3>1. market.version \in 1..Len(W.versions)
      BY <1>2, <1>3, <2>2 DEF IsMarket
    <3> QED  BY <1>4, <2>2, <3>1, NamedInTyped DEF IsMarket
  <2> QED  BY <1>2, <2>1, <2>2
<1>6. /\ ws.blueprints = W.versions[version].blueprints /\ ws.sell = market.sell /\ ws.buy = market.buy
      /\ ws.avg = W.avg /\ ws.adj = W.adj /\ ws.schematics = W.schematics /\ ws.assets = W.assets
      /\ ws.owned = W.owned /\ ws.levels = W.levels /\ ws.settings = W.settings
  BY DEF ws, At
<1>7. TypedBlueprints(ws.blueprints)
  BY <1>2, <1>4, <1>6
<1> HIDE DEF ws
<1> QED  BY <1>1, <1>5, <1>6, <1>7 DEF TypedWorld, TypedWs

-----------------------------------------------------------------------------

\* The short intervals the lists are indexed by are finite.
LEMMA UpToFinite ==
  /\ IsFiniteSet(1..1) /\ IsFiniteSet(1..2) /\ IsFiniteSet(1..3)
  /\ IsFiniteSet(1..8) /\ IsFiniteSet(1..9)
<1>1. \A n \in Int : IsFiniteSet(1..n)
  BY FS_Interval
<1>2. 1 \in Int /\ 2 \in Int /\ 3 \in Int /\ 8 \in Int /\ 9 \in Int
  OBVIOUS
<1> QED  BY <1>1, <1>2, Zenon

\* A list of finitely many positions has finitely many entries.
LEMMA RangeFinite ==
  ASSUME NEW f, IsFiniteSet(DOMAIN f)
  PROVE  IsFiniteSet(Range(f))
<1> DEFINE g == [x \in DOMAIN f |-> f[x]]
<1>1. g \in Surjection(DOMAIN f, Range(f))
  BY DEF Surjection, Range
<1> QED  BY <1>1, FS_Surjection

\* The schematics mention finitely many items.
LEMMA ItemsFinite ==
  ASSUME NEW w, TypedWs(w)
  PROVE  IsFiniteSet(PlanetaryItems(w))
<1> DEFINE S == Range(w.schematics)
           items(s) == {m[1] : m \in Range(s.materials)} \cup {s.product}
           f == [s \in S |-> items(s)]
<1>1. IsFiniteSet(S)
  BY ListFinite, RangeFinite DEF TypedWs
<1>2. ASSUME NEW s \in S  PROVE IsFiniteSet(items(s))
  <2> DEFINE R == Range(s.materials)
             T == {m[1] : m \in R}
             g == [m \in R |-> m[1]]
  <2>1. IsFiniteSet(R)
    BY ListFinite, RangeFinite DEF TypedWs
  <2>2. g \in Surjection(R, T)
    BY DEF Surjection
  <2>3. IsFiniteSet(T)
    BY <2>1, <2>2, FS_Surjection
  <2> QED  BY <2>3, FS_AddElement
<1>3. f \in Surjection(S, {items(s) : s \in S})
  BY DEF Surjection
<1>4. IsFiniteSet({items(s) : s \in S})
  BY <1>1, <1>3, FS_Surjection
<1>5. IsFiniteSet(UNION {items(s) : s \in S})
  BY <1>2, <1>4, FS_UNION
<1> QED  BY <1>5 DEF PlanetaryItems

\* Two finite lists taken together are finite.
LEMMA PairFinite ==
  ASSUME NEW a, NEW b, IsFiniteSet(DOMAIN a), IsFiniteSet(DOMAIN b)
  PROVE  IsFiniteSet(DOMAIN Together(<<a, b>>))
<1>1. DOMAIN <<a, b>> = 1..2 /\ \A i \in 1..2 : IsFiniteSet(DOMAIN (<<a, b>>[i]))
  OBVIOUS
<1>2. IsFiniteSet(1..2)
  BY UpToFinite
<1> QED  BY <1>1, <1>2, TogetherFinite

\* The jobs on the planets are finitely many.
LEMMA PlanetaryFinite ==
  ASSUME NEW w, TypedWs(w)
  PROVE  IsFiniteSet(DOMAIN PlanetaryJobs(w))
<1> DEFINE builds == <<Build(w, 1, 222, 815), Build(w, 2, 522, 715), Build(w, 3, 1122, 415)>>
           trade == [t \in PlanetaryItems(w) |-> <<Import(w, t), Export(w, t)>>]
           process == Map(LAMBDA s : Process(w, s), w.schematics)
           lists == <<builds, Together(trade), process>>
<1>1. PlanetaryJobs(w) = Together(lists)
  BY DEF PlanetaryJobs
<1>2. DOMAIN builds = 1..3 /\ DOMAIN lists = 1..3
  OBVIOUS
<1>3. DOMAIN process = DOMAIN w.schematics
  BY DEF Map
<1>4. \A t \in DOMAIN trade : DOMAIN (trade[t]) = 1..2
  OBVIOUS
<1>5. DOMAIN trade = PlanetaryItems(w)
  OBVIOUS
<1> HIDE DEF process, trade, builds
<1>6. IsFiniteSet(DOMAIN process)
  BY <1>3, ListFinite DEF TypedWs
<1>7. IsFiniteSet(1..2) /\ IsFiniteSet(1..3)
  BY UpToFinite
<1>8. IsFiniteSet(DOMAIN Together(trade))
  BY <1>4, <1>5, <1>7, ItemsFinite, TogetherFinite
<1>9. \A i \in DOMAIN lists : IsFiniteSet(DOMAIN lists[i])
  BY <1>2, <1>6, <1>7, <1>8
<1> HIDE DEF lists
<1> QED  BY <1>1, <1>2, <1>7, <1>9, TogetherFinite

\* The jobs that trade are finitely many.
LEMMA MarketFinite ==
  ASSUME NEW w, TypedWs(w)
  PROVE  IsFiniteSet(DOMAIN MarketJobs(w))
<1> DEFINE buys == Map(LAMBDA o : IF checkItem(w, o.type) THEN Buy(w, o) ELSE Thrown, Tradable(w, w.sell))
           sells == Map(LAMBDA o : IF checkItem(w, o.type) THEN Sell(w, o) ELSE Thrown, Tradable(w, w.buy))
<1>1. MarketJobs(w) = Together(<<buys, sells>>)
  BY DEF MarketJobs
<1>2. DOMAIN buys \subseteq DOMAIN w.sell
  BY DEF Map, Tradable, RestrictValues, Restrict
<1>3. DOMAIN sells \subseteq DOMAIN w.buy
  BY DEF Map, Tradable, RestrictValues, Restrict
<1> HIDE DEF buys, sells
<1> QED  BY <1>1, <1>2, <1>3, FS_Subset, PairFinite DEF TypedWs, TypedOrdersOf

\* The jobs that produce are finitely many.
LEMMA ManufacturingFinite ==
  ASSUME NEW w, TypedWs(w)
  PROVE  IsFiniteSet(DOMAIN ManufacturingJobs(w))
<1> DEFINE kept == RestrictValues(Products(w), LAMBDA p : p.bp \notin w.settings.ignoreList)
           effs(p) == IF isT1BP(w, p.bp) THEN <<Plain>> ELSE bpes
           made(p) == Map(LAMBDA eff : Produce(w, p, eff), effs(p))
           jobs(p) == IF ~checkItem(w, p.bp) THEN <<Thrown>> ELSE Together(made(p))
           lists == Map(jobs, kept)
<1>1. ManufacturingJobs(w) = Together(lists)
  BY DEF ManufacturingJobs
<1>2. DOMAIN lists \subseteq DOMAIN w.blueprints
  BY DEF Map, Products, Skilled, AllProducts, Named, RestrictValues, Restrict
<1>3. ASSUME NEW i \in DOMAIN lists  PROVE \E p : lists[i] = jobs(p)
  <2> HIDE DEF kept, jobs
  <2> QED  BY DEF Map
<1> HIDE DEF lists, kept
<1>4. ASSUME NEW p  PROVE IsFiniteSet(DOMAIN jobs(p))
  <2>1. DOMAIN made(p) \in {1..1, 1..8}
    BY DEF Map, bpes
  <2>2. ASSUME NEW k \in DOMAIN made(p)  PROVE DOMAIN (made(p)[k]) \in {1..1, 1..2}
    BY DEF Map, Produce
  <2> HIDE DEF made
  <2>3. IsFiniteSet(1..1) /\ IsFiniteSet(1..2) /\ IsFiniteSet(1..8)
    BY UpToFinite
  <2>4. IsFiniteSet(DOMAIN Together(made(p)))
    BY <2>1, <2>2, <2>3, TogetherFinite
  <2>5. DOMAIN <<Thrown>> = 1..1
    OBVIOUS
  <2> QED  BY <2>3, <2>4, <2>5
<1> HIDE DEF jobs
<1>5. IsFiniteSet(DOMAIN w.blueprints)
  BY ListFinite DEF TypedWs, TypedBlueprints
<1> QED  BY <1>1, <1>2, <1>3, <1>4, <1>5, FS_Subset, TogetherFinite

\* A blueprint has finitely many outcomes with a probability.
LEMMA LikelyFinite ==
  ASSUME NEW w, TypedWs(w), NEW b \in Nodes(w), CanInvent(w, b)
  PROVE  IsFiniteSet(DOMAIN Likely(b)) /\ DOMAIN Likely(b) \subseteq Int
<1>1. IsList(b.invention.products)
  BY DEF TypedWs, TypedBlueprints, TypedActivity, CanInvent, Defined, Nodes
<1>2. DOMAIN Likely(b) \subseteq DOMAIN b.invention.products
  BY DEF Likely, RestrictValues, Restrict
<1> QED  BY <1>1, <1>2, ListFinite, FS_Subset

\* The jobs that invent are finitely many.
LEMMA InventionFinite ==
  ASSUME NEW w, TypedWs(w), NEW tier
  PROVE  IsFiniteSet(DOMAIN InventionJobs(w, tier))
<1> DEFINE can == RestrictValues(Named(w), LAMBDA b : CanInvent(w, b))
           rows == Map(LAMBDA b : InventionsOf(w, b), can)
           all == Together(rows)
           ofTier == RestrictValues(all, LAMBDA x : x.tier = tier)
           known == RestrictValues(Inventions(w, tier), LAMBDA r : HasValue(w, r.product))
           row(r) == Map(LAMBDA d : Research(w, r, d), decryptors)
           lists == Map(row, known)
<1>1. InventionJobs(w, tier) = Together(lists)
  BY DEF InventionJobs
<1>2. DOMAIN lists \subseteq DOMAIN all
  <2>1. Inventions(w, tier) = Skilled(w, ofTier)
    BY DEF Inventions
  <2>2. DOMAIN lists = DOMAIN known
    BY DEF Map
  <2>3. DOMAIN known \subseteq DOMAIN Inventions(w, tier)
    BY DEF RestrictValues, Restrict
  <2>4. DOMAIN ofTier \subseteq DOMAIN all
    BY DEF RestrictValues, Restrict
  <2> HIDE DEF all, known, lists, ofTier
  <2>5. DOMAIN Inventions(w, tier) \subseteq DOMAIN ofTier
    BY <2>1 DEF Skilled, RestrictValues, Restrict
  <2> QED  BY <2>2, <2>3, <2>4, <2>5
<1>3. ASSUME NEW i \in DOMAIN lists  PROVE DOMAIN (lists[i]) = 1..9
  BY DEF Map, decryptors
<1>4. DOMAIN rows \subseteq DOMAIN w.blueprints
  BY DEF Map, Named, RestrictValues, Restrict
<1>5. ASSUME NEW i \in DOMAIN rows
      PROVE  \E b \in Nodes(w) : CanInvent(w, b) /\ DOMAIN (rows[i]) = DOMAIN Likely(b)
  <2>1. i \in DOMAIN w.blueprints /\ CanInvent(w, w.blueprints[i])
        /\ rows[i] = InventionsOf(w, w.blueprints[i])
    BY DEF Map, Named, RestrictValues, Restrict
  <2>2. DOMAIN InventionsOf(w, w.blueprints[i]) = DOMAIN Likely(w.blueprints[i])
    BY DEF InventionsOf
  <2>3. w.blueprints[i] \in Nodes(w)
    BY <2>1 DEF Nodes, Range
  <2> HIDE DEF rows
  <2> QED  BY <2>1, <2>2, <2>3
<1>6. IsFiniteSet(DOMAIN w.blueprints)
  BY ListFinite DEF TypedWs, TypedBlueprints
<1> HIDE DEF rows, lists
<1>7. IsFiniteSet(DOMAIN all)
  BY <1>4, <1>5, <1>6, FS_Subset, LikelyFinite, TogetherFinite
<1> HIDE DEF all
<1>8. IsFiniteSet(1..9)
  BY UpToFinite
<1> QED  BY <1>1, <1>2, <1>3, <1>7, <1>8, FS_Subset, TogetherFinite

\* The jobs that copy are finitely many.
LEMMA CopyFinite ==
  ASSUME NEW w, TypedWs(w)
  PROVE  IsFiniteSet(DOMAIN CopyJobs(w))
<1>1. DOMAIN CopyJobs(w) \subseteq DOMAIN w.blueprints
  BY DEF CopyJobs, Map, Copies, Named, RestrictValues, Restrict
<1> QED  BY <1>1, ListFinite, FS_Subset DEF TypedWs, TypedBlueprints

\* Each step feeds finitely many jobs.
LEMMA ListsFinite ==
  ASSUME NEW w, TypedWs(w), NEW step \in FeedSteps
  PROVE  IsFiniteSet(DOMAIN JobsAt(w, step))
BY PlanetaryFinite, MarketFinite, ManufacturingFinite, InventionFinite, CopyFinite
   DEF FeedSteps, JobsAt

-----------------------------------------------------------------------------
(* Feeding the columns                                                     *)

\* The names of the jobs of a list.
NamesIn(jobs) == {job.name : job \in Range(jobs)}

\* A finite list has as many names as jobs exactly when no two of its jobs
\* share a name.
LEMMA NamesCounted ==
  ASSUME NEW jobs, IsFiniteSet(DOMAIN jobs)
  PROVE  /\ IsFiniteSet(NamesIn(jobs))
         /\ Cardinality(NamesIn(jobs)) = Cardinality(DOMAIN jobs)
              <=> \A k, l \in DOMAIN jobs : jobs[k].name = jobs[l].name => k = l
<1> DEFINE f == [k \in DOMAIN jobs |-> jobs[k].name]
<1>1. f \in Surjection(DOMAIN jobs, NamesIn(jobs))
  BY DEF Surjection, NamesIn, Range
<1>2. f \in Injection(DOMAIN jobs, NamesIn(jobs))
        <=> \A k, l \in DOMAIN jobs : jobs[k].name = jobs[l].name => k = l
  BY DEF Injection, IsInjective, NamesIn, Range
<1> QED  BY <1>1, <1>2, FS_Surjection

\* What Feed does with the jobs of a step.
LEMMA FeedAdds ==
  ASSUME NEW from, NEW jobs, NEW to, Feed(from, jobs, to), IsFiniteSet(DOMAIN jobs),
         IsFiniteSet(DOMAIN columns), pc' # "failed"
  PROVE  /\ pc' = to
         /\ \A k \in DOMAIN jobs :
              /\ jobs[k] # Thrown /\ jobs[k].name \in DOMAIN columns'
              /\ columns'[jobs[k].name] = jobs[k]
         /\ \A k, l \in DOMAIN jobs : jobs[k].name = jobs[l].name => k = l
         /\ \A n \in DOMAIN columns : n \in DOMAIN columns' /\ columns'[n] = columns[n]
         /\ \A n \in DOMAIN columns' \ DOMAIN columns :
              columns'[n] \in Range(jobs) /\ columns'[n].name = n /\ columns'[n] # Thrown
         /\ IsFiniteSet(DOMAIN columns')
<1> DEFINE made == Range(jobs)
           added == [n \in NamesIn(jobs) |-> CHOOSE job \in made : job.name = n]
<1>1. /\ pc' = to /\ Thrown \notin made /\ Cardinality(NamesIn(jobs)) = Cardinality(DOMAIN jobs)
      /\ NamesIn(jobs) \cap DOMAIN columns = {}
      /\ columns' = [n \in DOMAIN columns \cup NamesIn(jobs) |->
                       IF n \in NamesIn(jobs) THEN CHOOSE job \in made : job.name = n ELSE columns[n]]
  BY DEF Feed, NamesIn
<1>2. DOMAIN added = NamesIn(jobs)
  OBVIOUS
<1>3. /\ IsFiniteSet(DOMAIN added)
      /\ \A k, l \in DOMAIN jobs : jobs[k].name = jobs[l].name => k = l
  BY <1>1, <1>2, NamesCounted
<1>4. \A n \in DOMAIN added : added[n] \in made /\ added[n].name = n
  BY DEF NamesIn
<1>5. \A k \in DOMAIN jobs : jobs[k] \in made /\ jobs[k].name \in DOMAIN added
  BY DEF Range, NamesIn
<1>6. \A k \in DOMAIN jobs : added[jobs[k].name] = jobs[k]
  <2> HIDE DEF added
  <2> QED  BY <1>3, <1>4, <1>5 DEF Range
<1>7. /\ DOMAIN columns' = DOMAIN added \cup DOMAIN columns
      /\ \A n \in DOMAIN added : columns'[n] = added[n]
      /\ \A n \in DOMAIN columns : columns'[n] = columns[n]
  BY <1>1, <1>2
<1> HIDE DEF added
<1>8. IsFiniteSet(DOMAIN columns')
  <2>1. IsFiniteSet(DOMAIN added \cup DOMAIN columns)
    BY <1>3, FS_Union
  <2> QED  BY <1>7, <2>1
<1>9. \A k \in DOMAIN jobs : jobs[k] # Thrown
  BY <1>1, <1>5
<1> QED  BY <1>1, <1>3, <1>4, <1>5, <1>6, <1>7, <1>8, <1>9

\* A refused list had a job that threw, one that the program has already, or
\* two of one name.
LEMMA FeedRefused ==
  ASSUME NEW from, NEW jobs, NEW to, Feed(from, jobs, to), IsFiniteSet(DOMAIN jobs),
         pc' = "failed", to # "failed"
  PROVE  \/ \E k \in DOMAIN jobs : jobs[k] = Thrown \/ jobs[k].name \in DOMAIN columns
         \/ \E k, l \in DOMAIN jobs : jobs[k].name = jobs[l].name /\ k # l
<1>1. \/ Thrown \in Range(jobs) \/ Cardinality(NamesIn(jobs)) # Cardinality(DOMAIN jobs)
      \/ NamesIn(jobs) \cap DOMAIN columns # {}
  BY DEF Feed, NamesIn
<1>2. Thrown \in Range(jobs) => \E k \in DOMAIN jobs : jobs[k] = Thrown
  BY DEF Range
<1>3. NamesIn(jobs) \cap DOMAIN columns # {} => \E k \in DOMAIN jobs : jobs[k].name \in DOMAIN columns
  BY DEF NamesIn, Range
<1>4. Cardinality(NamesIn(jobs)) # Cardinality(DOMAIN jobs)
        => \E k, l \in DOMAIN jobs : jobs[k].name = jobs[l].name /\ k # l
  BY NamesCounted
<1> QED  BY <1>1, <1>2, <1>3, <1>4

\* Feeding a list changes the columns and the control state only, and the
\* columns not when it is refused.
LEMMA FeedKeepsRest ==
  ASSUME NEW from, NEW jobs, NEW to, to # "failed", Feed(from, jobs, to)
  PROVE  /\ pc = from /\ UNCHANGED <<world, version, files, loaded, plan, kills>>
         /\ pc' = "failed" => columns' = columns
         /\ pc' \in {to, "failed"}
BY DEF Feed

\* The workspace is a function of what was loaded.
LEMMA WsSame ==
  ASSUME UNCHANGED <<world, version, loaded>>
  PROVE  ws' = ws
BY DEF ws, loaded, At, W, AllNames, NamesOf

\* So are the lists of jobs.
LEMMA JobsSame ==
  ASSUME UNCHANGED <<world, version, loaded>>
  PROVE  \A step \in FeedSteps : JobsAt(ws', step) = JobsAt(ws, step)
BY WsSame

\* A list that is accepted becomes columns, next to those of the lists before
\* it.
LEMMA FeedStep ==
  ASSUME LoadedInv, ColumnsInv, NEW step \in FeedSteps, NEW to, pc = step,
         Feed(step, JobsAt(ws, step), to),
         to \in Since[step],
         to \notin {"failed", "built"} \cup Unread \cup Reading \cup Trading,
         \A s \in FeedSteps \ {step} : to \in Since[s] => step \in Since[s]
  PROVE  ColumnsInv'
<1> DEFINE jobs == JobsAt(ws, step)
<1>1. ws' = ws /\ pc' \in {to, "failed"}
  BY FeedKeepsRest, WsSame
<1>2. IsFiniteSet(DOMAIN jobs)
  BY WsTyped, ListsFinite
<1>3. pc' \notin {"built"} \cup Unread \cup Reading \cup Trading
  BY <1>1 DEF Unread, Reading, Trading
<1>4. CASE pc' = "failed"
  <2>1. columns' = columns
    BY <1>4, FeedKeepsRest
  <2>2. \A s \in FeedSteps : pc' \notin Since[s]
    BY <1>4 DEF Since, FeedSteps, Planning
  <2> QED  BY <1>1, <1>3, <2>1, <2>2 DEF ColumnsInv
<1>5. CASE pc' # "failed"
  <2> HIDE DEF jobs
  <2>1. /\ pc' = to
        /\ \A k \in DOMAIN jobs :
              /\ jobs[k] # Thrown /\ jobs[k].name \in DOMAIN columns'
              /\ columns'[jobs[k].name] = jobs[k]
        /\ \A k, l \in DOMAIN jobs : jobs[k].name = jobs[l].name => k = l
        /\ \A n \in DOMAIN columns : n \in DOMAIN columns' /\ columns'[n] = columns[n]
        /\ \A n \in DOMAIN columns' \ DOMAIN columns :
             columns'[n] \in Range(jobs) /\ columns'[n].name = n /\ columns'[n] # Thrown
        /\ IsFiniteSet(DOMAIN columns')
    <3>1. Feed(step, jobs, to) /\ IsFiniteSet(DOMAIN columns)
      BY DEF jobs, ColumnsInv
    <3> QED  BY <1>2, <1>5, <3>1, FeedAdds
  <2>2. ASSUME NEW n \in DOMAIN columns'
        PROVE  /\ columns'[n] # Thrown /\ columns'[n].name = n
               /\ \E s \in FeedSteps : columns'[n] \in Range(JobsAt(ws', s))
    <3>1. CASE n \in DOMAIN columns
      BY <1>1, <2>1, <3>1 DEF ColumnsInv
    <3>2. CASE n \notin DOMAIN columns
      BY <1>1, <2>1, <3>2 DEF jobs
    <3> QED  BY <3>1, <3>2
  <2>3. ASSUME NEW s \in FeedSteps, pc' \in Since[s]  PROVE HasColumns(JobsAt(ws, s))'
    <3>1. CASE s = step
      BY <1>1, <2>1, <3>1 DEF HasColumns, HasColumn, jobs
    <3>2. CASE s # step
      <4>1. HasColumns(JobsAt(ws, s))
        BY <2>1, <2>3, <3>2 DEF ColumnsInv
      <4> DEFINE list == JobsAt(ws, s)
      <4>2. JobsAt(ws, s)' = list
        BY <1>1
      <4> HIDE DEF list
      <4>3. HasColumns(list)
        BY <4>1 DEF list
      <4> QED  BY <2>1, <4>2, <4>3 DEF HasColumns, HasColumn
    <3> QED  BY <3>1, <3>2
  <2> QED  BY <1>3, <2>1, <2>2, <2>3 DEF ColumnsInv
<1> QED  BY <1>4, <1>5

\* The order in which main() feeds the lists.
Following ==
  [built |-> "addMarket", addMarket |-> "addProduction", addProduction |-> "addT2Invention",
   addT2Invention |-> "addT3Invention", addT3Invention |-> "addCopy", addCopy |-> "solve"]

\* The step after one that feeds has its list behind it, and nothing else
\* new.
LEMMA FeedOrder ==
  ASSUME NEW step \in FeedSteps
  PROVE  /\ Following[step] \in Since[step]
         /\ Following[step] \notin {"failed", "built"} \cup Unread \cup Reading \cup Trading
         /\ \A s \in FeedSteps \ {step} : Following[step] \in Since[s] => step \in Since[s]
BY DEF FeedSteps, Following, Since, Unread, Reading, Trading, Planning

\* The step that feeds one list.
FeedsJobs(step) == Feed(step, JobsAt(ws, step), Following[step])

\* Each of the six actions that feed is that of its list.
LEMMA FeedActions ==
  ASSUME \/ AddPlanetary \/ AddMarket \/ AddProduction
         \/ AddT2Invention \/ AddT3Invention \/ AddCopy
  PROVE  \E step \in FeedSteps : FeedsJobs(step)
<1>1. AddPlanetary => FeedsJobs("built")
  BY DEF AddPlanetary, FeedsJobs, JobsAt, Following
<1>2. AddMarket => FeedsJobs("addMarket")
  BY DEF AddMarket, FeedsJobs, JobsAt, Following
<1>3. AddProduction => FeedsJobs("addProduction")
  BY DEF AddProduction, FeedsJobs, JobsAt, Following
<1>4. AddT2Invention => FeedsJobs("addT2Invention")
  BY DEF AddT2Invention, FeedsJobs, JobsAt, Following
<1>5. AddT3Invention => FeedsJobs("addT3Invention")
  BY DEF AddT3Invention, FeedsJobs, JobsAt, Following
<1>6. AddCopy => FeedsJobs("addCopy")
  BY DEF AddCopy, FeedsJobs, JobsAt, Following
<1> QED  BY <1>1, <1>2, <1>3, <1>4, <1>5, <1>6 DEF FeedSteps

\* Without columns nothing is claimed of them.
LEMMA EmptyColumns ==
  ASSUME columns' = <<>>, pc' \in Unread \cup Reading \cup Trading \cup {"built", "failed"}
  PROVE  ColumnsInv'
<1>1. DOMAIN columns' = {}
  OBVIOUS
<1>2. \A s \in FeedSteps : pc' \notin Since[s]
  BY DEF Since, FeedSteps, Planning, Unread, Reading, Trading
<1> QED  BY <1>1, <1>2, FS_EmptySet DEF ColumnsInv

\* A step that leaves the columns and what was loaded alone, and does not
\* feed, keeps them as they are.
LEMMA SameColumns ==
  ASSUME ColumnsInv, UNCHANGED <<world, version, loaded, columns>>,
         pc' = pc \/ (pc \in Planning /\ pc' \in Planning)
  PROVE  ColumnsInv'
<1>1. ws' = ws
  BY WsSame
<1>2. \A s \in FeedSteps : pc' \in Since[s] => pc \in Since[s]
  BY DEF Since, FeedSteps, Planning
<1>3. pc' \in Unread \cup Reading \cup Trading \cup {"built"} => pc' = pc
  BY DEF Unread, Reading, Trading, Planning
<1>4. \A s \in FeedSteps : HasColumns(JobsAt(ws, s)) => HasColumns(JobsAt(ws, s))'
  <2> SUFFICES ASSUME NEW s \in FeedSteps, HasColumns(JobsAt(ws, s))  PROVE HasColumns(JobsAt(ws, s))'
    OBVIOUS
  <2> DEFINE list == JobsAt(ws, s)
  <2>1. JobsAt(ws, s)' = list
    BY <1>1
  <2> HIDE DEF list
  <2>2. HasColumns(list)
    BY DEF list
  <2> QED  BY <2>1, <2>2 DEF HasColumns, HasColumn
<1> QED  BY <1>1, <1>2, <1>3, <1>4 DEF ColumnsInv

\* Every step keeps the columns the jobs of the lists fed so far.
LEMMA ColumnsStep ==
  ASSUME LoadedInv, ColumnsInv, [Next]_vars
  PROVE  ColumnsInv'
<1> USE DEF Goto, Write
<1>1. CASE Kill \/ Exit
  BY <1>1, EmptyColumns DEF Kill, Exit, Stop, Unread
<1>2. CASE \/ UpdateSources \/ (\E f \in DOMAIN files : DeleteCache(f))
           \/ Start \/ ReadTypeIds \/ LoadYaml \/ OpenNames \/ OpenGroups \/ CloseGroups \/ CloseNames
           \/ CompareTypeIds \/ LoadFiles \/ ReadMarket \/ LoadOrdersFromDB \/ OpenMarket
           \/ CloseMarket \/ CompareMarket
  <2> USE DEF Unread, Reading, Trading
  <2>1. columns = <<>>
    BY <1>2 DEF ColumnsInv, UpdateSources, DeleteCache, Start, ReadTypeIds, LoadYaml, OpenNames,
       OpenGroups, CloseGroups, CloseNames, CompareTypeIds, LoadFiles, ReadMarket,
       LoadOrdersFromDB, OpenMarket, CloseMarket, CompareMarket
  <2>2. columns' = columns /\ pc' \in Unread \cup Reading \cup Trading \cup {"built", "failed"}
    BY <1>2 DEF UpdateSources, DeleteCache, Start, ReadTypeIds, LoadYaml, OpenNames,
       OpenGroups, CloseGroups, CloseNames, CompareTypeIds, LoadFiles, ReadMarket,
       LoadOrdersFromDB, OpenMarket, CloseMarket, CompareMarket, planner
  <2> QED  BY <2>1, <2>2, EmptyColumns
<1>3. ASSUME NEW step \in FeedSteps, FeedsJobs(step)  PROVE ColumnsInv'
  <2>1. Feed(step, JobsAt(ws, step), Following[step]) /\ pc = step
    BY <1>3 DEF FeedsJobs, Feed
  <2> QED  BY <2>1, FeedOrder, FeedStep
<1>4. CASE Solve
  BY <1>4, SameColumns DEF Solve, Planning
<1>5. ASSUME NEW n \in DOMAIN columns, Choose(n)  PROVE ColumnsInv'
  BY <1>5, SameColumns DEF Choose
<1>6. CASE Report
  BY <1>6, SameColumns DEF Report, Planning, planner
<1>7. CASE UNCHANGED vars
  BY <1>7, SameColumns DEF vars, loaded
<1> QED
  BY <1>1, <1>2, <1>3, <1>4, <1>5, <1>6, <1>7, FeedActions DEF Next

-----------------------------------------------------------------------------
(* The types of what the jobs take and give                                *)

\* A product of natural numbers is one.
LEMMA NatTimes == \A a, b \in Nat : a * b \in Nat
OBVIOUS

\* A row of the products or of the inventions, with its amounts.
TypedRow(p) ==
  /\ IsList(p.materials) /\ \A m \in Range(p.materials) : m[2] \in Nat
  /\ p.quantity \in Nat /\ p.time \in Nat

\* What the typed blueprints say of each of them.
LEMMA NodeTyped ==
  ASSUME NEW w, TypedWs(w), NEW b \in Nodes(w)
  PROVE  /\ TypedActivity(b.manufacturing) /\ TypedActivity(b.invention)
         /\ b.copying # Undefined => b.copying.time \in Nat \cup {Undefined}
         /\ \A i, j \in DOMAIN ProductsOf(b.invention) :
              /\ b.invention.products[i].probability \in Nat \cup {Undefined}
              /\ b.invention.products[i].type = b.invention.products[j].type => i = j
BY DEF TypedWs, TypedBlueprints, Nodes

\* A row of all the products comes from the blueprint at its position.
LEMMA AllProductForm ==
  ASSUME NEW w, NEW k \in DOMAIN AllProducts(w)
  PROVE  LET b == w.blueprints[k]
         IN  /\ k \in DOMAIN w.blueprints /\ b \in Nodes(w)
             /\ b.id \in w.names /\ CanManufacture(w, b)
             /\ AllProducts(w)[k]
                  = [bp |-> b.id, product |-> b.manufacturing.products[1].type,
                     quantity |-> b.manufacturing.products[1].quantity,
                     materials |-> b.manufacturing.materials,
                     skills |-> b.manufacturing.skills, time |-> b.manufacturing.time]
<1> DEFINE b == w.blueprints[k]
<1>1. k \in DOMAIN w.blueprints /\ b.id \in w.names /\ CanManufacture(w, b)
  BY DEF AllProducts, Map, RestrictValues, Restrict, Named
<1>2. AllProducts(w)[k]
        = [bp |-> b.id, product |-> b.manufacturing.products[1].type,
           quantity |-> b.manufacturing.products[1].quantity,
           materials |-> b.manufacturing.materials,
           skills |-> b.manufacturing.skills, time |-> b.manufacturing.time]
  BY DEF AllProducts, Map, RestrictValues, Restrict, Named
<1>3. b \in Nodes(w)
  BY <1>1 DEF Nodes, Range
<1> QED  BY <1>1, <1>2, <1>3

\* A row of the products has amounts that are numbers.
LEMMA ProductTyped ==
  ASSUME NEW w, TypedWs(w), NEW p \in Range(AllProducts(w))
  PROVE  TypedRow(p)
<1>1. PICK k \in DOMAIN AllProducts(w) : p = AllProducts(w)[k]
  BY DEF Range
<1> DEFINE b == w.blueprints[k]
<1>2. /\ b \in Nodes(w) /\ CanManufacture(w, b)
      /\ p.quantity = b.manufacturing.products[1].quantity
      /\ p.materials = b.manufacturing.materials /\ p.time = b.manufacturing.time
  BY <1>1, AllProductForm
<1>3. TypedActivity(b.manufacturing)
  BY <1>2, NodeTyped
<1> HIDE DEF b
<1>4. /\ IsList(b.manufacturing.products) /\ Len(b.manufacturing.products) = 1
      /\ IsList(b.manufacturing.materials) /\ b.manufacturing.time \in Nat
      /\ \A m \in Range(b.manufacturing.materials) : m[2] \in Nat
      /\ \A q \in Range(b.manufacturing.products) : q.quantity \in Nat
  BY <1>2, <1>3 DEF CanManufacture, Defined, TypedActivity
<1>5. b.manufacturing.products[1] \in Range(b.manufacturing.products)
  BY <1>4 DEF IsList
<1> QED  BY <1>2, <1>4, <1>5 DEF TypedRow

\* A level is between 0 and 5, with the override and without it.
LEMMA SkillTyped ==
  ASSUME NEW w, TypedWs(w), NEW s
  PROVE  getSkillLevel(w, s) \in 0..5
BY DEF TypedWs, getSkillLevel

\* So the levels of some of the skills add up to a number.
LEMMA LevelsTyped ==
  ASSUME NEW w, TypedWs(w), NEW skills, IsList(skills), NEW S
  PROVE  LevelsOf(w, Of(skills, S)) \in Nat
<1> DEFINE f == Map(LAMBDA r : getSkillLevel(w, r[1]), Of(skills, S))
<1>1. DOMAIN f \subseteq DOMAIN skills
  BY DEF Map, Of, RestrictValues, Restrict
<1>2. \A i \in DOMAIN f : \E s : f[i] = getSkillLevel(w, s)
  BY DEF Map
<1> HIDE DEF f
<1>3. \A i \in DOMAIN f : f[i] \in Nat
  BY <1>2, SkillTyped
<1>4. IsFiniteSet(DOMAIN f)
  BY <1>1, ListFinite, FS_Subset
<1>5. Sum(f) \in Nat
  BY <1>3, <1>4, SumNat DEF Sum, SumFunction
<1> QED  BY <1>5 DEF f, LevelsOf

\* A row of the inventions has amounts that are numbers, its probability with
\* the skills in it.
LEMMA InventionTyped ==
  ASSUME NEW w, TypedWs(w), NEW tier, NEW r \in Range(Inventions(w, tier))
  PROVE  TypedRow(r) /\ r.probability \in Nat
<1>1. PICK b \in Nodes(w) :
        CanInvent(w, b) /\ \E n \in DOMAIN Likely(b) : r = InventionsOf(w, b)[n]
  BY InventionForm
<1>2. PICK n \in DOMAIN Likely(b) : CanInvent(w, b) /\ r = InventionsOf(w, b)[n]
  BY <1>1
<1> DEFINE i == b.invention
           science == LevelsOf(w, Of(i.skills, Science))
           racial == LevelsOf(w, Of(i.skills, Racial))
<1>3. /\ r.quantity = i.products[n].quantity /\ r.materials = i.materials /\ r.time = i.time
      /\ r.probability = i.products[n].probability * (120 + 4 * science + 3 * racial)
  BY <1>2 DEF InventionsOf
<1>4. TypedActivity(i) /\ \A k \in DOMAIN ProductsOf(i) : i.products[k].probability \in Nat \cup {Undefined}
  BY NodeTyped
<1>5. /\ IsList(i.products) /\ IsList(i.materials) /\ IsList(i.skills) /\ i.time \in Nat
      /\ \A m \in Range(i.materials) : m[2] \in Nat
      /\ \A q \in Range(i.products) : q.quantity \in Nat
      /\ ProductsOf(i) = i.products
  BY <1>2, <1>4 DEF CanInvent, Defined, TypedActivity, ProductsOf
<1>6. n \in DOMAIN i.products /\ i.products[n].probability # Undefined
  BY <1>2 DEF Likely, RestrictValues, Restrict
<1>7. science \in Nat /\ racial \in Nat
  BY <1>5, LevelsTyped
<1> HIDE DEF science, racial, i
<1>8. i.products[n].probability \in Nat /\ i.products[n].quantity \in Nat
  BY <1>4, <1>5, <1>6 DEF Range
<1>9. 120 + 4 * science + 3 * racial \in Nat
  BY <1>7
<1>10. r.probability \in Nat
  BY <1>3, <1>8, <1>9, NatTimes
<1> QED  BY <1>3, <1>5, <1>8, <1>10 DEF TypedRow

\* The materials of a product whose materials all have a price have a value.
LEMMA InputValueTyped ==
  ASSUME NEW w, TypedWs(w), NEW q \in Range(Valued(w))
  PROVE  inputValue(w, q.product) \in Nat
<1> DEFINE v == Valued(w)
           S == {i \in DOMAIN v : v[i].product = q.product}
           last == Max(S)
           p == v[last]
           f == [i \in DOMAIN p.materials |-> p.materials[i][2] * w.adj[p.materials[i][1]]]
<1>1. inputValue(w, q.product) = Sum(f)
  BY DEF inputValue, LastPlace
<1>2. DOMAIN v \subseteq DOMAIN w.blueprints
  BY DEF Valued, AllProducts, Named, Map, RestrictValues, Restrict
<1>3. IsFiniteSet(S) /\ S \subseteq Int
  BY <1>2, ListFinite, FS_Subset DEF TypedWs, TypedBlueprints
<1>4. S # {}
  BY DEF Range
<1>5. last \in S
  <2> HIDE DEF S
  <2> QED  BY <1>3, <1>4, MaxExists
<1>6. last \in DOMAIN v
  BY <1>5
<1> HIDE DEF last
<1>7. p \in Range(AllProducts(w)) /\ \A m \in Range(p.materials) : m[1] \in DOMAIN w.adj
  BY <1>6 DEF Valued, RestrictValues, Restrict, Range
<1> HIDE DEF v, p
<1>8. TypedRow(p)
  BY <1>7, ProductTyped
<1>9. \A i \in DOMAIN p.materials : p.materials[i][2] \in Nat /\ w.adj[p.materials[i][1]] \in Nat
  BY <1>7, <1>8 DEF TypedRow, Range, TypedWs, AreCounts
<1>10. \A i \in DOMAIN f : f[i] \in Nat
  BY <1>9, NatTimes
<1>11. IsFiniteSet(DOMAIN f)
  BY <1>8, ListFinite DEF TypedRow
<1> HIDE DEF f
<1> QED  BY <1>1, <1>10, <1>11, SumNat DEF Sum, SumFunction

\* What has a value has one that is a number.
LEMMA JobValueTyped ==
  ASSUME NEW w, TypedWs(w), NEW t, HasValue(w, t)
  PROVE  JobValue(w, t) \in Nat
<1> DEFINE p == CHOOSE x \in ValuedProducts(w, t) : TRUE
<1>1. p \in ValuedProducts(w, t)
  BY DEF HasValue
<1>2. JobValue(w, t) = (IF p = t THEN 100 ELSE 2) * inputValue(w, p)
  BY DEF JobValue
<1> HIDE DEF p
<1>3. inputValue(w, p) \in Nat
  BY <1>1, InputValueTyped DEF ValuedProducts
<1> QED  BY <1>2, <1>3

\* Inputs or outputs: finitely many, with amounts that are numbers.
TypedEntries(in) == IsFiniteSet(DOMAIN in) /\ \A i \in DOMAIN in : in[i][2] \in Nat

\* A job the rows can be computed from. No job gives more than one resource.
TypedJob(J) ==
  /\ TypedEntries(J.in)
  /\ J.out = <<>> \/ \E r : \E a \in Nat : J.out = <<<<r, a>>>>
  /\ J.cost \in Int
  /\ J.limit = Unlimited \/ J.limit \in Nat

\* Finitely many typed lists make a typed one.
LEMMA TogetherTyped ==
  ASSUME NEW lists, IsFiniteSet(DOMAIN lists), \A i \in DOMAIN lists : TypedEntries(lists[i])
  PROVE  TypedEntries(Together(lists))
BY TogetherAt, TogetherFinite DEF TypedEntries

\* Two of them do.
LEMMA PairTyped ==
  ASSUME NEW a, NEW b, TypedEntries(a), TypedEntries(b)
  PROVE  TypedEntries(Together(<<a, b>>))
<1>1. DOMAIN <<a, b>> = 1..2 /\ \A i \in 1..2 : TypedEntries(<<a, b>>[i])
  OBVIOUS
<1> QED  BY <1>1, UpToFinite, TogetherTyped

\* The lists of no, one and two entries written out in the code are typed.
LEMMA ShortTyped ==
  /\ TypedEntries(<<>>)
  /\ \A r : \A a \in Nat : TypedEntries(<<<<r, a>>>>)
  /\ \A r, s : \A a, b \in Nat : TypedEntries(<<<<r, a>>, <<s, b>>>>)
<1>1. DOMAIN <<>> = {} /\ IsFiniteSet({})
  BY FS_EmptySet
<1>2. \A r, a : DOMAIN <<<<r, a>>>> = 1..1
  OBVIOUS
<1>3. \A r, s, a, b : DOMAIN <<<<r, a>>, <<s, b>>>> = 1..2
  OBVIOUS
<1> QED  BY <1>1, <1>2, <1>3, UpToFinite DEF TypedEntries

\* The customs fee is a number, and so is half of it.
LEMMA FeeTyped ==
  ASSUME NEW w, TypedWs(w), NEW t
  PROVE  TierOf(w, t) \in 0..4 /\ Fee(w, t) \in Nat /\ -Fee(w, t) \in Int /\ -(Fee(w, t) \div 2) \in Int
<1> DEFINE made == {s \in Range(w.schematics) : s.product = t}
<1>1. \A s \in made : s.tier \in 0..3
  BY DEF TypedWs
<1>2. TierOf(w, t) \in 0..4
  <2>1. CASE made = {}
    BY <2>1 DEF TierOf
  <2>2. CASE made # {}
    <3>1. (CHOOSE s \in made : TRUE) \in made
      BY <2>2
    <3> QED  BY <1>1, <2>2, <3>1 DEF TierOf
  <2> QED  BY <2>1, <2>2
<1>3. BaseValue[1 + TierOf(w, t)] \in Nat
  BY <1>2 DEF BaseValue
<1> QED  BY <1>2, <1>3 DEF Fee

\* The jobs on the planets are typed.
LEMMA PlanetaryTyped ==
  ASSUME NEW w, TypedWs(w), NEW J \in Range(PlanetaryJobs(w)), J # Thrown
  PROVE  TypedJob(J)
<1>1. ASSUME NEW i, NEW c \in Nat, NEW e \in Nat, J = Build(w, i, c, e)  PROVE TypedJob(J)
  <2>1. /\ J.in = <<<<CPU, c>>, <<PowerGrid, e>>>> /\ J.out = <<<<Facility(i), w.settings.timeFrame>>>>
        /\ J.cost = 0 /\ J.limit = Unlimited
    BY <1>1 DEF Build, Job
  <2>2. w.settings.timeFrame \in Nat
    BY DEF TypedWs
  <2> QED  BY <2>1, <2>2, ShortTyped DEF TypedJob
<1>2. ASSUME NEW t, J = Import(w, t)  PROVE TypedJob(J)
  <2>1. /\ J.in = <<<<Item(t), 1>>>> /\ J.out = <<<<Planetary(t), 1>>>>
        /\ J.cost = -(Fee(w, t) \div 2) /\ J.limit = Unlimited
    BY <1>2 DEF Import, Job
  <2> QED  BY <2>1, ShortTyped, FeeTyped DEF TypedJob
<1>3. ASSUME NEW t, J = Export(w, t)  PROVE TypedJob(J)
  <2>1. /\ J.in = <<<<Planetary(t), 1>>>> /\ J.out = <<<<Item(t), 1>>>>
        /\ J.cost = -Fee(w, t) /\ J.limit = Unlimited
    BY <1>3 DEF Export, Job
  <2> QED  BY <2>1, ShortTyped, FeeTyped DEF TypedJob
<1>4. ASSUME NEW s \in Range(w.schematics), J = Process(w, s)  PROVE TypedJob(J)
  <2> DEFINE mats == Map(LAMBDA m : <<Planetary(m[1]), m[2]>>, s.materials)
             rest == <<<<Facility(<<1, 2, 2, 3>>[s.tier + 1]), s.time>>>>
  <2>1. /\ J.in = Together(<<mats, rest>>) /\ J.out = <<<<Planetary(s.product), s.quantity>>>>
        /\ J.cost = 0 /\ J.limit = Unlimited
    BY <1>4 DEF Process, Job
  <2>2. DOMAIN mats = DOMAIN s.materials /\ \A i \in DOMAIN mats : mats[i][2] = s.materials[i][2]
    BY DEF Map
  <2>3. /\ IsList(s.materials) /\ \A m \in Range(s.materials) : m[2] \in Nat
        /\ s.time \in Nat /\ s.quantity \in Nat
    BY DEF TypedWs
  <2> HIDE DEF mats
  <2>4. TypedEntries(mats)
    BY <2>2, <2>3, ListFinite DEF TypedEntries, Range
  <2>5. TypedEntries(rest)
    BY <2>3, ShortTyped
  <2> HIDE DEF rest
  <2> QED  BY <2>1, <2>3, <2>4, <2>5, PairTyped DEF TypedJob
<1> QED  BY <1>1, <1>2, <1>3, <1>4, PlanetaryForm

\* An order of a typed list has a price and a volume.
LEMMA OrderTyped ==
  ASSUME NEW orders, TypedOrdersOf(orders), NEW o \in Range(orders)
  PROVE  o.price \in Nat /\ o.volume \in Nat
BY DEF TypedOrdersOf, Range

\* The jobs that trade are typed.
LEMMA MarketTyped ==
  ASSUME NEW w, TypedWs(w), NEW J \in Range(MarketJobs(w)), J # Thrown
  PROVE  TypedJob(J)
<1>1. w.settings.brokersFee \in Nat /\ w.settings.salesTax \in Nat
  BY DEF TypedWs
<1>2. ASSUME NEW o \in Range(w.sell), J = Buy(w, o)  PROVE TypedJob(J)
  <2>1. /\ J.in = <<>> /\ J.out = <<<<Item(o.type), 1>>>> /\ J.limit = o.volume
        /\ J.cost = -(100 * o.price * (100 + w.settings.brokersFee))
    BY <1>2 DEF Buy, Job
  <2>2. o.price \in Nat /\ o.volume \in Nat
    BY OrderTyped DEF TypedWs
  <2>3. J.cost \in Int
    BY <1>1, <2>1, <2>2
  <2> QED  BY <2>1, <2>2, <2>3, ShortTyped DEF TypedJob
<1>3. ASSUME NEW o \in Range(w.buy), J = Sell(w, o)  PROVE TypedJob(J)
  <2>1. /\ J.in = <<<<Item(o.type), 1>>>> /\ J.out = <<>> /\ J.limit = o.volume
        /\ J.cost = 100 * o.price * (100 - w.settings.brokersFee - w.settings.salesTax)
    BY <1>3 DEF Sell, Job
  <2>2. o.price \in Nat /\ o.volume \in Nat
    BY OrderTyped DEF TypedWs
  <2>3. J.cost \in Int
    <3> DEFINE a == 100 * o.price
               b == 100 - w.settings.brokersFee - w.settings.salesTax
    <3>1. a \in Int /\ b \in Int
      BY <1>1, <2>2
    <3>2. J.cost = a * b
      BY <2>1
    <3> HIDE DEF a, b
    <3> QED  BY <3>1, <3>2
  <2> QED  BY <2>1, <2>2, <2>3, ShortTyped DEF TypedJob
<1> QED  BY <1>2, <1>3, MarketForm

\* The products the planner takes are among all products, and the user has
\* their skills.
LEMMA ProductsAreProducts ==
  ASSUME NEW w, NEW p \in Range(Products(w))
  PROVE  p \in Range(AllProducts(w)) /\ \A s \in Range(p.skills) : getSkillLevel(w, s[1]) >= s[2]
<1>1. p \in Range(Skilled(w, AllProducts(w)))
  BY DEF Products
<1> QED  BY <1>1, SkilledForm DEF Range

\* The efficiencies in the code are percentages without sign.
LEMMA EfficiencyTyped ==
  ASSUME NEW eff, eff \in Range(<<Plain>>) \/ eff \in Range(bpes)
  PROVE  eff[1] \in Nat /\ eff[2] \in Nat
BY DEF Plain, bpes, Range

\* The job produce() adds is typed.
LEMMA ProducedTyped ==
  ASSUME NEW w, TypedWs(w), NEW p, TypedRow(p), HasValue(w, p.product),
         NEW eff, eff[1] \in Nat, eff[2] \in Nat, NEW source, NEW resource, NEW amount \in Nat
  PROVE  TypedJob(Produced(w, p, eff, source, resource, amount))
<1> DEFINE J == Produced(w, p, eff, source, resource, amount)
           mats == Map(LAMBDA m : <<Item(m[1]), CeilPercent(eff[1] * m[2])>>, p.materials)
           rest == <<<<LineTime, eff[2] * p.time>>, <<resource, amount>>>>
<1>1. /\ J.in = Together(<<mats, rest>>) /\ J.out = <<<<Item(p.product), p.quantity>>>>
      /\ J.cost = -(JobValue(w, p.product) * w.settings.productionTax) /\ J.limit = Unlimited
  BY DEF Produced, ProduceIn
<1>2. DOMAIN mats = DOMAIN p.materials
      /\ \A i \in DOMAIN mats : mats[i][2] = CeilPercent(eff[1] * p.materials[i][2])
  BY DEF Map
<1>3. /\ IsList(p.materials) /\ \A m \in Range(p.materials) : m[2] \in Nat
      /\ p.time \in Nat /\ p.quantity \in Nat
  BY DEF TypedRow
<1>4. \A n \in Nat : CeilPercent(n) \in Nat
  BY DEF CeilPercent
<1> HIDE DEF mats, J
<1>5. TypedEntries(mats)
  <2>1. \A i \in DOMAIN mats : eff[1] * p.materials[i][2] \in Nat
    BY <1>2, <1>3, NatTimes DEF Range
  <2> QED  BY <1>2, <1>3, <1>4, <2>1, ListFinite DEF TypedEntries
<1>6. eff[2] * p.time \in Nat
  BY <1>3, NatTimes
<1>7. TypedEntries(rest)
  BY <1>6, ShortTyped
<1>8. JobValue(w, p.product) \in Nat /\ w.settings.productionTax \in Nat
  BY JobValueTyped DEF TypedWs
<1>9. J.cost \in Int
  BY <1>1, <1>8
<1> HIDE DEF rest
<1> QED  BY <1>1, <1>3, <1>5, <1>7, <1>9, PairTyped DEF TypedJob, J

\* The jobs that produce are typed.
LEMMA ManufacturingTyped ==
  ASSUME NEW w, TypedWs(w), NEW J \in Range(ManufacturingJobs(w)), J # Thrown
  PROVE  TypedJob(J)
<1>1. PICK p \in Range(Products(w)) :
        \E e \in Range(IF isT1BP(w, p.bp) THEN <<Plain>> ELSE bpes) : J \in Range(Produce(w, p, e))
  BY ProductionForm
<1>2. PICK eff \in Range(IF isT1BP(w, p.bp) THEN <<Plain>> ELSE bpes) : J \in Range(Produce(w, p, eff))
  BY <1>1
<1>3. TypedRow(p)
  BY ProductsAreProducts, ProductTyped
<1>4. eff[1] \in Nat /\ eff[2] \in Nat
  BY EfficiencyTyped
<1>5. eff[2] * p.time \in Nat /\ Run \in Nat
  BY <1>3, <1>4, NatTimes DEF TypedRow, Run
<1> QED  BY <1>2, <1>3, <1>4, <1>5, ProduceForm, ProducedTyped

\* The table of the decryptors has nine rows.
LEMMA NineDecryptors == \A i : i \in DOMAIN decryptors <=> i \in 1..9
BY DEF decryptors

\* A decryptor's modifiers, of the probability and of the runs, are numbers,
\* as they are scaled in the model.
LEMMA DecryptorTyped ==
  ASSUME NEW d \in Range(decryptors)
  PROVE  d.probability \in Nat /\ d.runs \in Nat
<1>1. PICK k \in DOMAIN decryptors : d = decryptors[k]
  BY DEF Range
<1>2. k \in 1..9
  BY NineDecryptors
<1>3. decryptors[1].probability = 10 /\ decryptors[1].runs = 0
  BY DEF decryptors, Decryptor
<1>4. decryptors[2].probability = 6 /\ decryptors[2].runs = 9
  BY DEF decryptors, Decryptor
<1>5. decryptors[3].probability = 9 /\ decryptors[3].runs = 7
  BY DEF decryptors, Decryptor
<1>6. decryptors[4].probability = 10 /\ decryptors[4].runs = 2
  BY DEF decryptors, Decryptor
<1>7. decryptors[5].probability = 11 /\ decryptors[5].runs = 0
  BY DEF decryptors, Decryptor
<1>8. decryptors[6].probability = 12 /\ decryptors[6].runs = 1
  BY DEF decryptors, Decryptor
<1>9. decryptors[7].probability = 15 /\ decryptors[7].runs = 3
  BY DEF decryptors, Decryptor
<1>10. decryptors[8].probability = 18 /\ decryptors[8].runs = 4
  BY DEF decryptors, Decryptor
<1>11. decryptors[9].probability = 19 /\ decryptors[9].runs = 2
  BY DEF decryptors, Decryptor
<1> QED  BY <1>1, <1>2, <1>3, <1>4, <1>5, <1>6, <1>7, <1>8, <1>9, <1>10, <1>11

\* The materials as inputs are typed.
LEMMA ItemsTyped ==
  ASSUME NEW materials, IsList(materials), \A m \in Range(materials) : m[2] \in Nat
  PROVE  TypedEntries(Items(materials))
<1>1. DOMAIN Items(materials) = DOMAIN materials
      /\ \A i \in DOMAIN materials : Items(materials)[i][2] = materials[i][2]
  BY DEF Items, Map
<1> QED  BY <1>1, ListFinite DEF TypedEntries, Range

\* What research() puts into a job's inputs: the materials, the decryptor if
\* there is one, a run of the copy or the relic, and the time of the
\* laboratory.
ResearchIn(r, d) ==
  Together(<<Items(r.materials), IF d.id = "none" THEN <<>> ELSE <<<<Item(d.id), 1>>>>,
             <<IF r.tier = "T2" THEN <<BPC(r.bp, Plain), Run>> ELSE <<Item(r.bp), 1>>,
               <<LabTime, 100 * r.time>>>>>>)

\* The job that is added when nothing is thrown, field by field.
LEMMA ResearchFields ==
  ASSUME NEW w, NEW r, NEW d, Research(w, r, d) # Thrown
  PROVE  Research(w, r, d)
           = [name |-> <<"Research", r.bp, d.id, r.product>>, in |-> ResearchIn(r, d),
              out |-> <<<<BPC(r.product, d.eff), d.probability * r.probability * (r.quantity + d.runs)>>>>,
              cost |-> -(JobValue(w, r.product) * w.settings.inventionTax), limit |-> Unlimited]
BY DEF Research, Job, ResearchIn

\* The jobs that invent are typed.
LEMMA InventionJobTyped ==
  ASSUME NEW w, TypedWs(w), NEW tier, NEW J \in Range(InventionJobs(w, tier)), J # Thrown
  PROVE  TypedJob(J)
<1>1. PICK r \in Range(Inventions(w, tier)) : \E d \in Range(decryptors) :
        HasValue(w, r.product) /\ J = Research(w, r, d)
  BY ResearchForm
<1>2. PICK d \in Range(decryptors) : HasValue(w, r.product) /\ J = Research(w, r, d)
  BY <1>1
<1>3. TypedRow(r) /\ r.probability \in Nat /\ d.probability \in Nat /\ d.runs \in Nat
  BY InventionTyped, DecryptorTyped
<1> DEFINE a == d.probability * r.probability * (r.quantity + d.runs)
           mats == Items(r.materials)
           dec == IF d.id = "none" THEN <<>> ELSE <<<<Item(d.id), 1>>>>
           rest == <<IF r.tier = "T2" THEN <<BPC(r.bp, Plain), Run>> ELSE <<Item(r.bp), 1>>,
                     <<LabTime, 100 * r.time>>>>
<1>4. /\ J.in = Together(<<mats, dec, rest>>) /\ J.out = <<<<BPC(r.product, d.eff), a>>>>
      /\ J.cost = -(JobValue(w, r.product) * w.settings.inventionTax) /\ J.limit = Unlimited
  <2>1. Research(w, r, d) # Thrown
    BY <1>2
  <2>2. ResearchIn(r, d) = Together(<<mats, dec, rest>>)
    BY DEF ResearchIn
  <2> HIDE DEF mats, dec, rest, a
  <2>3. J = [name |-> <<"Research", r.bp, d.id, r.product>>, in |-> ResearchIn(r, d),
             out |-> <<<<BPC(r.product, d.eff), a>>>>,
             cost |-> -(JobValue(w, r.product) * w.settings.inventionTax), limit |-> Unlimited]
    BY <1>2, <2>1, ResearchFields DEF a
  <2> QED  BY <2>2, <2>3
<1>5. r.quantity \in Nat /\ r.time \in Nat /\ TypedEntries(mats)
  BY <1>3, ItemsTyped DEF TypedRow
<1>6. a \in Nat
  <2>1. d.probability * r.probability \in Nat /\ r.quantity + d.runs \in Nat
    BY <1>3, <1>5, NatTimes
  <2> QED  BY <2>1, NatTimes
<1>7. TypedEntries(dec)
  BY ShortTyped
<1>8. TypedEntries(rest)
  <2>1. 100 * r.time \in Nat /\ Run \in Nat
    BY <1>5 DEF Run
  <2>2. CASE r.tier = "T2"
    BY <2>1, <2>2, ShortTyped
  <2>3. CASE r.tier # "T2"
    BY <2>1, <2>3, ShortTyped
  <2> QED  BY <2>2, <2>3
<1>9. J.cost \in Int
  <2>1. JobValue(w, r.product) \in Nat /\ w.settings.inventionTax \in Nat
    BY <1>2, JobValueTyped DEF TypedWs
  <2> QED  BY <1>4, <2>1
<1> HIDE DEF a, mats, dec, rest
<1>10. TypedEntries(Together(<<mats, dec, rest>>))
  <2>1. DOMAIN <<mats, dec, rest>> = 1..3 /\ \A i \in 1..3 : TypedEntries(<<mats, dec, rest>>[i])
    BY <1>5, <1>7, <1>8
  <2> QED  BY <2>1, UpToFinite, TogetherTyped
<1> QED  BY <1>4, <1>6, <1>9, <1>10 DEF TypedJob

\* The jobs that copy are typed.
LEMMA CopyTyped ==
  ASSUME NEW w, TypedWs(w), NEW J \in Range(CopyJobs(w)), J # Thrown
  PROVE  TypedJob(J)
<1>1. PICK b \in Nodes(w) :
           /\ CanCopy(w, b) /\ HasValue(w, b.id)
           /\ J = [name |-> <<"Copy", b.id>>,
                   in |-> <<<<BPO(b.id), 100 * b.copying.time>>, <<LabTime, 100 * b.copying.time>>>>,
                   out |-> <<<<BPC(b.id, Plain), Run>>>>,
                   cost |-> -(JobValue(w, b.id) * w.settings.copyTax), limit |-> Unlimited]
  BY CopyForm
<1>2. b.copying.time \in Nat
  BY <1>1, NodeTyped DEF CanCopy, Defined
<1>3. 100 * b.copying.time \in Nat /\ Run \in Nat
  BY <1>2 DEF Run
<1>4. JobValue(w, b.id) \in Nat /\ w.settings.copyTax \in Nat
  BY <1>1, JobValueTyped DEF TypedWs
<1>5. -(JobValue(w, b.id) * w.settings.copyTax) \in Int
  BY <1>4
<1> QED  BY <1>1, <1>3, <1>5, ShortTyped DEF TypedJob

\* So every job that is fed is typed.
LEMMA JobTyped ==
  ASSUME NEW w, TypedWs(w), NEW step \in FeedSteps, NEW J \in Range(JobsAt(w, step)), J # Thrown
  PROVE  TypedJob(J)
BY PlanetaryTyped, MarketTyped, ManufacturingTyped, InventionJobTyped, CopyTyped DEF FeedSteps, JobsAt

-----------------------------------------------------------------------------
(* The plan                                                                *)

\* And every column.
LEMMA ColumnTyped ==
  ASSUME LoadedInv, ColumnsInv, NEW n \in DOMAIN columns
  PROVE  TypedJob(columns[n])
<1>1. TypedWs(ws)
  BY WsTyped
<1>2. PICK step \in FeedSteps : columns[n] \in Range(JobsAt(ws, step))
  BY DEF ColumnsInv
<1> QED  BY <1>1, <1>2, JobTyped DEF ColumnsInv

\* That no plan satisfies the rows depends on the columns and on what was
\* loaded only.
LEMMA InfeasibleStays ==
  ASSUME UNCHANGED <<world, version, loaded, columns>>, Infeasible
  PROVE  Infeasible'
<1>1. ws' = ws
  BY WsSame
<1>2. Rows' = Rows
  BY DEF Rows
<1> QED  BY <1>1, <1>2 DEF Infeasible

\* Doing nothing keeps to the money put aside.
LEMMA IdleHolds ==
  ASSUME LoadedInv
  PROVE  BuyInHolds(Idle)
<1>1. Used(Idle) = {}
  BY DEF Used, Idle
<1>2. Spent(Idle) = 0
  <2> DEFINE f == [n \in Used(Idle) |-> IF columns[n].cost < 0 THEN -(Idle[n] * columns[n].cost) ELSE 0]
  <2>1. DOMAIN f = {}
    BY <1>1
  <2>2. Spent(Idle) = Sum(f)
    BY DEF Spent
  <2> HIDE DEF f
  <2> QED  BY <2>1, <2>2, SumEmpty DEF Sum, SumFunction
<1>3. TypedWorld(W)
  BY WorldsAssumption DEF LoadedInv, W
<1>4. W.settings.buyIn \in Nat
  BY <1>3 DEF TypedWorld
<1> QED  BY <1>2, <1>4 DEF BuyInHolds

\* The bound on what is bought depends on the plan and the columns only.
LEMMA BuyInStays ==
  ASSUME UNCHANGED <<world, columns>>, NEW x, plan' = x, BuyInHolds(x)
  PROVE  BuyInHolds(plan)'
BY DEF BuyInHolds, Spent, Used, W

\* So do the rows, on what was loaded as well.
LEMMA RowStays ==
  ASSUME UNCHANGED <<world, version, loaded, columns, plan>>,
         \A r \in Rows : RowHolds(plan, r)
  PROVE  (\A r \in Rows : RowHolds(plan, r))'
<1>1. ws' = ws
  BY WsSame
<1>2. Rows' = Rows
  BY DEF Rows
<1>3. \A r : Activity(plan, r)' = Activity(plan, r)
  BY DEF Activity, Used
<1> QED  BY <1>1, <1>2, <1>3 DEF RowHolds

\* The solver's plan satisfies the rows, and nothing changes it until the
\* report is out.
LEMMA PlanStep ==
  ASSUME LoadedInv, ColumnsInv, PlanInv, [Next]_vars
  PROVE  PlanInv'
<1> USE DEF Goto, Write
<1>1. CASE pc' \notin {"unsolved", "planning", "reported"}
  BY <1>1 DEF PlanInv
<1>2. CASE Solve
  <2>1. UNCHANGED <<world, version, loaded, columns>> /\ plan' = Idle
        /\ pc = "solve" /\ pc' = IF Infeasible THEN "unsolved" ELSE "planning"
    BY <1>2 DEF Solve
  <2>2. plan' \in [DOMAIN columns' -> Nat] /\ \A n \in DOMAIN columns' : plan'[n] = 0
    BY <2>1 DEF Idle
  <2>3. BuyInHolds(plan)'
    BY <2>1, IdleHolds, BuyInStays
  <2>4. pc' = "unsolved" => Infeasible'
    BY <2>1, InfeasibleStays
  <2>5. \A n \in DOMAIN columns : columns[n].limit = Unlimited \/ columns[n].limit \in Nat
    BY ColumnTyped DEF TypedJob
  <2>6. \A n \in DOMAIN columns' : columns'[n].limit # Unlimited => plan'[n] <= columns'[n].limit
    BY <2>1, <2>2, <2>5
  <2> QED  BY <2>1, <2>2, <2>3, <2>4, <2>6 DEF PlanInv
<1>3. ASSUME NEW n \in DOMAIN columns, Choose(n)  PROVE PlanInv'
  <2> DEFINE x == [plan EXCEPT ![n] = @ + 1]
  <2>1. /\ pc = "planning" /\ pc' = pc /\ BuyInHolds(x) /\ plan' = x
        /\ columns[n].limit # Unlimited => x[n] <= columns[n].limit
        /\ UNCHANGED <<world, version, loaded, columns>>
    BY <1>3 DEF Choose
  <2>2. plan \in [DOMAIN columns -> Nat]
        /\ \A m \in DOMAIN columns : columns[m].limit # Unlimited => plan[m] <= columns[m].limit
    BY <2>1 DEF PlanInv
  <2>3. BuyInHolds(plan)'
    BY <2>1, BuyInStays
  <2>4. plan' \in [DOMAIN columns' -> Nat]
    BY <2>1, <2>2
  <2>5. \A m \in DOMAIN columns : columns[m].limit # Unlimited => x[m] <= columns[m].limit
    BY <2>1, <2>2
  <2> QED  BY <2>1, <2>3, <2>4, <2>5 DEF PlanInv
<1>4. CASE Report
  <2>1. UNCHANGED <<world, version, loaded, columns, plan>> /\ pc = "planning" /\ pc' = "reported"
        /\ \A r \in Rows : RowHolds(plan, r)
    BY <1>4 DEF Report, planner
  <2>2. (\A r \in Rows : RowHolds(plan, r))'
    BY <2>1, RowStays
  <2>3. BuyInHolds(plan)'
    BY <2>1, BuyInStays DEF PlanInv
  <2> QED  BY <2>1, <2>2, <2>3 DEF PlanInv
<1>5. CASE UNCHANGED vars
  <2>1. UNCHANGED <<world, version, loaded, columns, plan, pc>>
    BY <1>5 DEF vars, loaded
  <2>2. (\A r \in Rows : RowHolds(plan, r)) => (\A r \in Rows : RowHolds(plan, r))'
    BY <2>1, RowStays
  <2>3. BuyInHolds(plan) => BuyInHolds(plan)'
    BY <2>1, BuyInStays
  <2>4. Infeasible => Infeasible'
    BY <2>1, InfeasibleStays
  <2> QED  BY <2>1, <2>2, <2>3, <2>4 DEF PlanInv
<1>6. CASE pc' \in {"unsolved", "planning", "reported"} /\ Next /\ ~Report /\ ~Solve
  <2>1. pc' \in {"unsolved", "planning", "reported"} /\
        ~(\/ UpdateSources \/ Kill \/ Exit
          \/ \E f \in DOMAIN files : DeleteCache(f)
          \/ Start \/ ReadTypeIds \/ LoadYaml \/ OpenNames \/ OpenGroups \/ CloseGroups \/ CloseNames
          \/ CompareTypeIds \/ LoadFiles \/ ReadMarket \/ LoadOrdersFromDB \/ OpenMarket
          \/ CloseMarket \/ CompareMarket)
    BY <1>6 DEF UpdateSources, DeleteCache, Start, ReadTypeIds, LoadYaml, OpenNames, Kill, Exit, Stop,
       OpenGroups, CloseGroups, CloseNames, CompareTypeIds, LoadFiles, ReadMarket,
       LoadOrdersFromDB, OpenMarket, CloseMarket, CompareMarket
  <2>2. ASSUME NEW step \in FeedSteps, FeedsJobs(step)  PROVE FALSE
    <3>1. Following[step] \notin {"failed", "unsolved", "planning", "reported"}
      BY DEF FeedSteps, Following
    <3> QED  BY <1>6, <2>2, <3>1, FeedKeepsRest DEF FeedsJobs
  <2> QED  BY <1>3, <1>6, <2>1, <2>2, FeedActions DEF Next
<1> QED  BY <1>1, <1>2, <1>4, <1>5, <1>6

\* The inductive invariant: what is loaded, the columns, and the plan.
WorkspaceInv == LoadedInv /\ ColumnsInv /\ PlanInv

\* For any data and any number of kills, updates and deletions: the workspace
\* loads only what the sources and the caches hold, feeds every list of jobs
\* in full or fails, and reports only a plan that satisfies every row (the
\* control flow of main(), of workspace's constructor and of the planner).
THEOREM Inductive == Spec => []WorkspaceInv
<1>1. Init => WorkspaceInv
  <2> SUFFICES ASSUME Init PROVE WorkspaceInv
    OBVIOUS
  <2>1. LoadedInv
    BY LoadedInit
  <2>2. pc = "down" /\ columns = <<>> /\ DOMAIN columns = {}
    BY DEF Init
  <2>3. ColumnsInv
    <3>1. \A s \in FeedSteps : pc \notin Since[s]
      BY <2>2 DEF Since, FeedSteps, Planning
    <3> QED  BY <2>2, <3>1, FS_EmptySet DEF ColumnsInv
  <2>4. PlanInv
    BY <2>2 DEF PlanInv
  <2> QED  BY <2>1, <2>3, <2>4 DEF WorkspaceInv
<1>2. WorkspaceInv /\ [Next]_vars => WorkspaceInv'
  BY LoadedStep, ColumnsStep, PlanStep DEF WorkspaceInv
<1> QED  BY <1>1, <1>2, PTL DEF Spec

-----------------------------------------------------------------------------
(* Something to plan                                                       *)

\* std::min of two numbers.
LEMMA MinOfTwo ==
  ASSUME NEW a \in Int, NEW b \in Int
  PROVE  Min({a, b}) \in {a, b} /\ Min({a, b}) <= a /\ Min({a, b}) <= b
<1>1. \E x \in {a, b} : \A y \in {a, b} : x <= y
  OBVIOUS
<1> DEFINE m == Min({a, b})
<1>2. m \in {a, b} /\ \A y \in {a, b} : m <= y
  BY <1>1 DEF Min
<1> QED  BY <1>2

\* The runs of some copies of a blueprint are a number, not more than those
\* of all of them.
LEMMA RunsTyped ==
  ASSUME NEW w, TypedWs(w), NEW bp, NEW rows \in SUBSET OwnedBPCs(w, bp)
  PROVE  IsFiniteSet(rows) /\ RunsOf(w, rows) \in Nat /\ RunsOf(w, rows) <= RunsOf(w, OwnedBPCs(w, bp))
<1> DEFINE D == OwnedBPCs(w, bp)
           f == [i \in D |-> w.owned[i].runs]
           g == [i \in rows |-> w.owned[i].runs]
<1>1. D \subseteq DOMAIN w.owned /\ \A i \in D : f[i] \in Nat
  BY DEF OwnedBPCs, TypedWs, Range
<1>2. IsFiniteSet(D) /\ IsFiniteSet(rows)
  BY <1>1, ListFinite, FS_Subset DEF TypedWs
<1>3. RunsOf(w, rows) = SumFunctionOnSet(g, rows) /\ RunsOf(w, D) = SumFunctionOnSet(f, D)
  <2>1. DOMAIN g = rows /\ DOMAIN f = D
    OBVIOUS
  <2>2. RunsOf(w, rows) = Sum(g) /\ RunsOf(w, D) = Sum(f)
    BY DEF RunsOf
  <2> HIDE DEF f, g, D
  <2> QED  BY <2>1, <2>2 DEF Sum, SumFunction
<1>4. \A i \in rows : g[i] = f[i] /\ f[i] \in Nat
  BY <1>1
<1> HIDE DEF f, g, D
<1>5. rows \in SUBSET D
  BY DEF D
<1>6. SumFunctionOnSet(f, rows) = SumFunctionOnSet(g, rows)
  BY <1>2, <1>4, SumEq
<1>7. SumFunctionOnSet(g, rows) \in Nat
  BY <1>2, <1>4, SumNat
<1>8. SumFunctionOnSet(f, rows) <= SumFunctionOnSet(f, D)
  BY <1>1, <1>2, <1>5, SumOfSome
<1> QED  BY <1>2, <1>3, <1>6, <1>7, <1>8 DEF D

\* What the user has of a type is a number.
LEMMA AssetsTyped ==
  ASSUME NEW w, TypedWs(w), NEW t
  PROVE  countAsset(w, t) \in Nat
<1> DEFINE f == [i \in DOMAIN w.assets |-> IF w.assets[i][1] = t THEN w.assets[i][2] ELSE 0]
<1>1. countAsset(w, t) = Sum(f)
  BY DEF countAsset
<1>2. \A i \in DOMAIN f : f[i] \in Nat
  BY DEF TypedWs, Range
<1>3. IsFiniteSet(DOMAIN f)
  BY ListFinite DEF TypedWs
<1> HIDE DEF f
<1> QED  BY <1>1, <1>2, <1>3, SumNat DEF Sum, SumFunction

\* The skill without which the launch pads take more than there is.
Command == "Command Center Upgrades"

\* How the code computes the limits of the user from the skills.
LEMMA SkillForm ==
  ASSUME NEW w
  PROVE  /\ Upgrades(w) = 1 + getSkillLevel(w, Command)
         /\ \E s : Planets(w) = 1 + getSkillLevel(w, s)
         /\ \E s, t : Lines(w) = Min({w.settings.lines, 1 + getSkillLevel(w, s) + getSkillLevel(w, t)})
         /\ \E s, t : Labs(w) = Min({w.settings.labs, 1 + getSkillLevel(w, s) + getSkillLevel(w, t)})
<1>1. Upgrades(w) = 1 + getSkillLevel(w, Command)
  BY Zenon DEF Upgrades, Command
<1>2. Planets(w) = 1 + getSkillLevel(w, "Interplanetary Consolidation")
  BY Zenon DEF Planets
<1>3. Lines(w) = Min({w.settings.lines, 1 + getSkillLevel(w, "Mass Production")
                                          + getSkillLevel(w, "Advanced Mass Production")})
  BY Zenon DEF Lines
<1>4. Labs(w) = Min({w.settings.labs, 1 + getSkillLevel(w, "Laboratory Operation")
                                        + getSkillLevel(w, "Advanced Laboratory Operation")})
  BY Zenon DEF Labs
<1> QED  BY <1>1, <1>2, <1>3, <1>4, Zenon

\* So there is no negative number of laboratories or lines.
LEMMA SlotsTyped ==
  ASSUME NEW w, TypedWs(w)
  PROVE  Labs(w) \in Nat /\ Lines(w) \in Nat
<1>1. \A s : getSkillLevel(w, s) \in 0..5
  BY SkillTyped
<1>2. w.settings.lines \in Nat /\ w.settings.labs \in Nat
  BY DEF TypedWs
<1>3. \A s, t : 1 + getSkillLevel(w, s) + getSkillLevel(w, t) \in Nat
  BY <1>1
<1>4. \A a, b \in Nat : Min({a, b}) \in Nat
  BY MinOfTwo
<1> QED  BY <1>2, <1>3, <1>4, SkillForm

\* The command centers have CPU and power left after the launch pads when the
\* skill for them is at level 2 or more; below it the tables of the code
\* leave less than nothing.
LEMMA PowerTyped ==
  ASSUME NEW w, TypedWs(w)
  PROVE  /\ Cpu(w) \in Int /\ Power(w) \in Int
         /\ getSkillLevel(w, Command) >= 2 => Cpu(w) >= 0 /\ Power(w) >= 0
<1> DEFINE cpu == <<1675, 7057, 12136, 17215, 21315, 25415>>
           power == <<6000, 9000, 12000, 15000, 17000, 19000>>
           u == Upgrades(w)
           p == Planets(w)
<1>1. \A s : getSkillLevel(w, s) \in 0..5
  BY SkillTyped
<1>2. u \in 1..6 /\ p \in Nat /\ (getSkillLevel(w, Command) >= 2 => u >= 3)
  BY <1>1, SkillForm
<1>3. Cpu(w) = p * (cpu[u] - 7244) /\ Power(w) = p * (power[u] - 1430)
  BY DEF Cpu, Power
<1>4. \A i \in 1..6 : cpu[i] \in Int /\ power[i] \in Int /\ power[i] >= 1430 /\ (i >= 3 => cpu[i] >= 7244)
  OBVIOUS
<1> HIDE DEF cpu, power, u, p
<1>5. cpu[u] - 7244 \in Int /\ power[u] - 1430 \in Nat /\ (u >= 3 => cpu[u] - 7244 \in Nat)
  BY <1>2, <1>4
<1>6. \A c \in Int : p * c \in Int
  BY <1>2
<1>7. \A c \in Nat : p * c \in Nat
  BY <1>2
<1> QED  BY <1>2, <1>3, <1>5, <1>6, <1>7

\* What the right-hand side of a row is, by the kind of the resource.
LEMMA StockForm ==
  ASSUME NEW w, NEW r
  PROVE  /\ r[1] = "item" => Stock(w, r) = countAsset(w, r[2])
         /\ r[1] = "bpo" => Stock(w, r) = 100 * w.settings.timeFrame
         /\ r[1] = "bpc" => Stock(w, r) = Run * Runs(w, r[2], r[3])
         /\ r = LabTime => Stock(w, r) = 100 * w.settings.timeFrame * Labs(w)
         /\ r = LineTime => Stock(w, r) = 100 * w.settings.timeFrame * Lines(w)
         /\ r = CPU => Stock(w, r) = Cpu(w)
         /\ r = PowerGrid => Stock(w, r) = Power(w)
         /\ r[1] \notin {"item", "bpo", "bpc"} /\ r \notin {LabTime, LineTime, CPU, PowerGrid} => Stock(w, r) = 0
BY DEF Stock, LabTime, LineTime, CPU, PowerGrid

\* Only of processors and power can there be less than nothing.
LEMMA StockTyped ==
  ASSUME NEW w, TypedWs(w), NEW r
  PROVE  /\ Stock(w, r) \in Int
         /\ Stock(w, r) < 0 => r \in {CPU, PowerGrid} /\ getSkillLevel(w, Command) < 2
<1> DEFINE s == Stock(w, r)
<1>1. s \in Nat \/ (r = CPU /\ s = Cpu(w)) \/ (r = PowerGrid /\ s = Power(w))
  <2>1. 100 * w.settings.timeFrame \in Nat
    BY DEF TypedWs
  <2>2. 100 * w.settings.timeFrame * Labs(w) \in Nat /\ 100 * w.settings.timeFrame * Lines(w) \in Nat
    BY <2>1, SlotsTyped, NatTimes
  <2>3. Run * Runs(w, r[2], r[3]) \in Nat
    <3>1. Runs(w, r[2], r[3]) \in Nat
      BY RunsTyped DEF Runs
    <3> QED  BY <3>1 DEF Run
  <2>4. countAsset(w, r[2]) \in Nat
    BY AssetsTyped
  <2> QED  BY <2>1, <2>2, <2>3, <2>4, StockForm
<1> HIDE DEF s
<1>2. s \in Int /\ (s < 0 => r \in {CPU, PowerGrid} /\ getSkillLevel(w, Command) < 2)
  <2>1. getSkillLevel(w, Command) \in 0..5
    BY SkillTyped
  <2> QED  BY <1>1, <2>1, PowerTyped
<1> QED  BY <1>2 DEF s

\* Doing nothing satisfies every row, unless the command centers cannot even
\* run the launch pads: so the planner finds a plan, whatever the orders, the
\* assets and the skills are (the right-hand sides set up by the constructors
\* of the resources).
THEOREM SomethingToPlan == Spec => []NothingIsAPlan
<1>1. WorkspaceInv => NothingIsAPlan
  <2> SUFFICES ASSUME WorkspaceInv, pc = "unsolved"
               PROVE  getSkillLevel(ws, Command) < 2
    BY Zenon DEF NothingIsAPlan, Command
  <2>1. TypedWs(ws)
    BY WsTyped DEF WorkspaceInv
  <2>2. PICK r \in Rows : Stock(ws, r) < 0
    BY DEF WorkspaceInv, PlanInv, Infeasible
  <2> QED  BY <2>1, <2>2, StockTyped
<1> QED  BY <1>1, Inductive, PTL

-----------------------------------------------------------------------------
(* The jobs need only the skills the user has                              *)

\* The first part of the names of the jobs on the planets.
Offers == {"Build", "Import", "Export", "Process"}

\* The jobs on the planets have one of those names.
LEMMA PlanetaryNames ==
  ASSUME NEW w, NEW J \in Range(PlanetaryJobs(w)), J # Thrown
  PROVE  J.name[1] \in Offers
<1>1. \A i, c, e : Build(w, i, c, e) # Thrown => Build(w, i, c, e).name = <<"Build", i>>
  BY DEF Build, Job
<1>2. \A t : Import(w, t) # Thrown => Import(w, t).name = <<"Import", TierOf(w, t), t>>
  BY DEF Import, Job
<1>3. \A t : Export(w, t) # Thrown => Export(w, t).name = <<"Export", TierOf(w, t), t>>
  BY DEF Export, Job
<1>4. \A s : Process(w, s) # Thrown => Process(w, s).name = <<"Process", s.tier + 1, s.product>>
  BY DEF Process, Job
<1> QED  BY <1>1, <1>2, <1>3, <1>4, PlanetaryForm DEF Offers

\* The job that buys, field by field, when nothing is thrown.
LEMMA BuyForm ==
  ASSUME NEW w, NEW o, Buy(w, o) # Thrown
  PROVE  Buy(w, o) = [name |-> <<"Buy", o.type, o.id>>, in |-> <<>>, out |-> <<<<Item(o.type), 1>>>>,
                      cost |-> -(100 * o.price * (100 + w.settings.brokersFee)), limit |-> o.volume]
BY DEF Buy, Job

\* The job that sells, field by field, when nothing is thrown.
LEMMA SellForm ==
  ASSUME NEW w, NEW o, Sell(w, o) # Thrown
  PROVE  Sell(w, o) = [name |-> <<"Sell", o.type, o.id>>, in |-> <<<<Item(o.type), 1>>>>, out |-> <<>>,
                       cost |-> 100 * o.price * (100 - w.settings.brokersFee - w.settings.salesTax),
                       limit |-> o.volume]
BY DEF Sell, Job

\* The names of the jobs that produce start with the blueprint's tech level.
LEMMA ProductionNames ==
  ASSUME NEW w, NEW J \in Range(ManufacturingJobs(w)), J # Thrown
  PROVE  J.name[1] \in Levels
<1>1. PICK p \in Range(Products(w)) :
        \E e \in Range(IF isT1BP(w, p.bp) THEN <<Plain>> ELSE bpes) : J \in Range(Produce(w, p, e))
  BY ProductionForm
<1>2. PICK eff : J \in Range(Produce(w, p, eff))
  BY <1>1
<1>3. \A source, resource, amount :
        Produced(w, p, eff, source, resource, amount).name = <<TechLevel(w, p.bp), source, eff, p.product>>
  BY DEF Produced
<1>4. J.name[1] = TechLevel(w, p.bp)
  BY <1>2, <1>3, ProduceForm
<1> QED  BY <1>4 DEF TechLevel, Levels

\* The names of the jobs that invent start with the word.
LEMMA ResearchNames ==
  ASSUME NEW w, NEW tier, NEW J \in Range(InventionJobs(w, tier)), J # Thrown
  PROVE  J.name[1] = "Research"
BY ResearchForm, ResearchFields

\* What a column is of, by its name.
LEMMA ColumnForm ==
  ASSUME ColumnsInv, NEW n \in DOMAIN columns
  PROVE  /\ columns[n] # Thrown /\ columns[n].name = n
         /\ \/ n[1] \in Offers /\ columns[n] \in Range(PlanetaryJobs(ws))
            \/ /\ n[1] = "Buy" /\ columns[n] \in Range(MarketJobs(ws))
               /\ \E o \in Range(ws.sell) : columns[n] = Buy(ws, o)
            \/ n[1] = "Sell" /\ \E o \in Range(ws.buy) : columns[n] = Sell(ws, o)
            \/ n[1] \in Levels /\ columns[n] \in Range(ManufacturingJobs(ws))
            \/ n[1] = "Research" /\ \E tier \in {"T2", "T3"} : columns[n] \in Range(InventionJobs(ws, tier))
            \/ n[1] = "Copy" /\ columns[n] \in Range(CopyJobs(ws))
<1> DEFINE J == columns[n]
<1>1. J # Thrown /\ J.name = n /\ \E step \in FeedSteps : J \in Range(JobsAt(ws, step))
  BY DEF ColumnsInv
<1> HIDE DEF J
<1>2. CASE J \in Range(PlanetaryJobs(ws))
  BY <1>1, <1>2, PlanetaryNames DEF J
<1>3. CASE J \in Range(MarketJobs(ws))
  BY <1>1, <1>3, MarketForm, BuyForm, SellForm DEF J
<1>4. CASE J \in Range(ManufacturingJobs(ws))
  BY <1>1, <1>4, ProductionNames DEF J
<1>5. CASE \E tier \in {"T2", "T3"} : J \in Range(InventionJobs(ws, tier))
  BY <1>1, <1>5, ResearchNames DEF J
<1>6. CASE J \in Range(CopyJobs(ws))
  BY <1>1, <1>6, CopyForm DEF J
<1>7. \/ J \in Range(PlanetaryJobs(ws)) \/ J \in Range(MarketJobs(ws)) \/ J \in Range(ManufacturingJobs(ws))
      \/ \E tier \in {"T2", "T3"} : J \in Range(InventionJobs(ws, tier))
      \/ J \in Range(CopyJobs(ws))
  BY <1>1 DEF FeedSteps, JobsAt
<1> QED  BY <1>2, <1>3, <1>4, <1>5, <1>6, <1>7

\* No two blueprints have the same type.
LEMMA NodesById ==
  ASSUME NEW w, TypedWs(w), NEW b \in Nodes(w), NEW c \in Nodes(w), b.id = c.id
  PROVE  b = c
BY DEF TypedWs, TypedBlueprints, Nodes, Range

\* What a production takes: materials, time on a line, and its blueprint.
LEMMA ProduceUses ==
  ASSUME NEW p, NEW eff, NEW resource, NEW amount,
         NEW e \in Range(ProduceIn(p, eff, resource, amount))
  PROVE  \/ \E i \in DOMAIN p.materials : e = <<Item(p.materials[i][1]), CeilPercent(eff[1] * p.materials[i][2])>>
         \/ e = <<LineTime, eff[2] * p.time>> \/ e = <<resource, amount>>
<1> DEFINE mats == Map(LAMBDA m : <<Item(m[1]), CeilPercent(eff[1] * m[2])>>, p.materials)
           rest == <<<<LineTime, eff[2] * p.time>>, <<resource, amount>>>>
<1>1. ProduceIn(p, eff, resource, amount) = Together(<<mats, rest>>)
  BY DEF ProduceIn
<1>2. e \in Range(mats) => \E i \in DOMAIN p.materials :
        e = <<Item(p.materials[i][1]), CeilPercent(eff[1] * p.materials[i][2])>>
  BY DEF Range, Map
<1>3. Range(rest) = {<<LineTime, eff[2] * p.time>>, <<resource, amount>>}
  BY RangeTwo
<1> HIDE DEF mats, rest
<1>4. \E i \in DOMAIN <<mats, rest>> : e \in Range(<<mats, rest>>[i])
  BY <1>1, RangeTogether
<1> QED  BY <1>2, <1>3, <1>4

\* What getSkillLevel() says the user has, the user has, unless the skills
\* are overridden.
LEMMA Able ==
  ASSUME NEW skills, \A r \in Range(skills) : r[2] \in Nat /\ getSkillLevel(ws, r[1]) >= r[2]
  PROVE  override \/ \A r \in Range(skills) : r[2] > 0 => r[1] \in DOMAIN W.levels /\ W.levels[r[1]] >= r[2]
<1> SUFFICES ASSUME ~override, NEW r \in Range(skills), r[2] > 0
             PROVE  r[1] \in DOMAIN W.levels /\ W.levels[r[1]] >= r[2]
  OBVIOUS
<1>1. ~ws.override /\ ws.levels = W.levels
  BY DEF ws
<1> HIDE DEF ws
<1>2. getSkillLevel(ws, r[1]) = IF r[1] \in DOMAIN W.levels THEN W.levels[r[1]] ELSE 0
  BY <1>1 DEF getSkillLevel
<1> QED  BY <1>2

\* A job that produces with a blueprint needs skills the user has: those of
\* that blueprint, not those of another with the same product.
LEMMA ProducerSkilled ==
  ASSUME NEW w, TypedWs(w), NEW J \in Range(ManufacturingJobs(w)), J # Thrown,
         NEW b \in Nodes(w), UsesBlueprint(J, b)
  PROVE  \A r \in Range(b.manufacturing.skills) : r[2] \in Nat /\ getSkillLevel(w, r[1]) >= r[2]
<1>1. PICK p \in Range(Products(w)) :
        \E e \in Range(IF isT1BP(w, p.bp) THEN <<Plain>> ELSE bpes) : J \in Range(Produce(w, p, e))
  BY ProductionForm
<1>2. PICK eff : J \in Range(Produce(w, p, eff))
  BY <1>1
<1>3. PICK c \in Nodes(w) :
           /\ CanManufacture(w, c) /\ p.bp = c.id /\ p.skills = c.manufacturing.skills
           /\ \A r \in Range(p.skills) : getSkillLevel(w, r[1]) >= r[2]
  BY ProductForm
<1>4. \E resource \in {BPO(p.bp), BPC(p.bp, eff)} : \E amount : J.in = ProduceIn(p, eff, resource, amount)
  BY <1>2, ProduceForm DEF Produced
<1>5. PICK e \in Range(J.in) : e[1][1] \in {"bpo", "bpc"} /\ e[1][2] = b.id
  BY DEF UsesBlueprint
<1>6. e[1] \in {BPO(p.bp), BPC(p.bp, eff)}
  BY <1>4, <1>5, ProduceUses DEF Item, LineTime
<1>7. b.id = p.bp
  BY <1>5, <1>6 DEF BPO, BPC
<1>8. b = c
  BY <1>3, <1>7, NodesById
<1>9. \A r \in Range(b.manufacturing.skills) : r[2] \in Nat
  BY <1>3, <1>8, NodeTyped DEF TypedActivity, CanManufacture, Defined
<1> QED  BY <1>3, <1>8, <1>9

\* A job that invents from a blueprint needs skills the user has.
LEMMA InventorSkilled ==
  ASSUME NEW w, TypedWs(w), NEW tier, NEW J \in Range(InventionJobs(w, tier)), J # Thrown,
         NEW b \in Nodes(w), J.name[2] = b.id, J.name[4] = FirstOutcome(b)
  PROVE  \A r \in Range(b.invention.skills) : r[2] \in Nat /\ getSkillLevel(w, r[1]) >= r[2]
<1>1. PICK r \in Range(Inventions(w, tier)) : \E d \in Range(decryptors) : J = Research(w, r, d)
  BY ResearchForm
<1>2. J.name[2] = r.bp /\ J.name[4] = r.product
  BY <1>1, ResearchFields
<1>3. PICK c \in Nodes(w) : \E n \in DOMAIN Likely(c) :
           /\ CanInvent(w, c) /\ r = InventionsOf(w, c)[n]
           /\ \A s \in Range(r.skills) : getSkillLevel(w, s[1]) >= s[2]
  BY InventionForm
<1>4. PICK m \in DOMAIN Likely(c) :
           /\ CanInvent(w, c) /\ r = InventionsOf(w, c)[m]
           /\ \A s \in Range(r.skills) : getSkillLevel(w, s[1]) >= s[2]
  BY <1>3
<1> DEFINE first == Min(DOMAIN Likely(c))
<1>5. /\ r.bp = c.id /\ r.product = c.invention.products[m].type
      /\ r.skills = IF m = first THEN c.invention.skills ELSE <<>>
  BY <1>4 DEF InventionsOf
<1>6. b = c
  BY <1>2, <1>5, NodesById
<1>7. first \in DOMAIN Likely(c)
  <2>1. IsFiniteSet(DOMAIN Likely(c)) /\ DOMAIN Likely(c) \subseteq Int /\ DOMAIN Likely(c) # {}
    BY <1>4, LikelyFinite
  <2> QED  BY <2>1, MinExists
<1>8. DOMAIN Likely(c) \subseteq DOMAIN ProductsOf(c.invention)
  BY <1>4 DEF Likely, RestrictValues, Restrict, ProductsOf, CanInvent, Defined
<1>9. c.invention.products[m].type = c.invention.products[first].type
  BY <1>2, <1>5, <1>6 DEF FirstOutcome
<1> HIDE DEF first
<1>10. m = first
  BY <1>7, <1>8, <1>9, NodeTyped
<1>11. \A s \in Range(c.invention.skills) : s[2] \in Nat
  BY <1>4, NodeTyped DEF TypedActivity, CanInvent, Defined
<1> QED  BY <1>4, <1>5, <1>6, <1>10, <1>11

\* No job is in the program that needs a skill the user does not have, unless
\* the skills are overridden (the filters on the skills in the lists of
\* products and of inventions).
THEOREM JobsSkilled == Spec => []SkillsSuffice
<1>1. WorkspaceInv => SkillsSuffice
  <2> DEFINE able(skills) == \/ override
                             \/ \A r \in Range(skills) :
                                  r[2] > 0 => r[1] \in DOMAIN W.levels /\ W.levels[r[1]] >= r[2]
  <2> SUFFICES ASSUME WorkspaceInv, NEW n \in DOMAIN columns, NEW b \in Nodes(ws)
               PROVE  /\ n[1] \in Levels /\ UsesBlueprint(columns[n], b) => able(b.manufacturing.skills)
                      /\ n[1] = "Research" /\ n[2] = b.id /\ n[4] = FirstOutcome(b) => able(b.invention.skills)
    BY DEF SkillsSuffice
  <2>1. TypedWs(ws) /\ ColumnsInv
    BY WsTyped DEF WorkspaceInv
  <2>2. \A skills : (\A r \in Range(skills) : r[2] \in Nat /\ getSkillLevel(ws, r[1]) >= r[2]) => able(skills)
    BY Able
  <2>3. ASSUME n[1] \in Levels, UsesBlueprint(columns[n], b)  PROVE able(b.manufacturing.skills)
    <3>1. columns[n] \in Range(ManufacturingJobs(ws)) /\ columns[n] # Thrown
      BY <2>1, <2>3, ColumnForm DEF Offers, Levels
    <3> HIDE DEF able
    <3> QED  BY <2>1, <2>2, <2>3, <3>1, ProducerSkilled
  <2>4. ASSUME n[1] = "Research", n[2] = b.id, n[4] = FirstOutcome(b)  PROVE able(b.invention.skills)
    <3>1. /\ columns[n] # Thrown /\ columns[n].name = n
          /\ \E tier \in {"T2", "T3"} : columns[n] \in Range(InventionJobs(ws, tier))
      BY <2>1, <2>4, ColumnForm DEF Offers, Levels
    <3> HIDE DEF able
    <3> QED  BY <2>1, <2>2, <2>4, <3>1, InventorSkilled
  <2> HIDE DEF able
  <2> QED  BY <2>3, <2>4
<1> QED  BY <1>1, Inductive, PTL

-----------------------------------------------------------------------------
(* What is invented can be used                                            *)

\* The amount of a resource a job takes or gives: at least each of its
\* entries, and nothing without one.
LEMMA AmountSum ==
  ASSUME NEW entries, TypedEntries(entries), NEW r
  PROVE  /\ Amount(entries, r) \in Nat
         /\ \A i \in DOMAIN entries : entries[i][1] = r => entries[i][2] <= Amount(entries, r)
         /\ (\A i \in DOMAIN entries : entries[i][1] # r) => Amount(entries, r) = 0
         /\ \A i \in DOMAIN entries :
              entries[i][1] = r /\ (\A k \in DOMAIN entries \ {i} : entries[k][1] # r)
                => Amount(entries, r) = entries[i][2]
<1> DEFINE D == DOMAIN entries
           f == [i \in D |-> IF entries[i][1] = r THEN entries[i][2] ELSE 0]
<1>1. Amount(entries, r) = SumFunctionOnSet(f, D)
  <2>1. DOMAIN f = D
    OBVIOUS
  <2>2. Amount(entries, r) = Sum(f)
    BY DEF Amount
  <2> HIDE DEF f
  <2> QED  BY <2>1, <2>2 DEF Sum, SumFunction
<1>2. IsFiniteSet(D) /\ \A i \in D : f[i] \in Nat
  BY DEF TypedEntries
<1>3. \A i \in D : (entries[i][1] = r => f[i] = entries[i][2]) /\ (entries[i][1] # r => f[i] = 0)
  OBVIOUS
<1> HIDE DEF f
<1>4. Amount(entries, r) \in Nat
  BY <1>1, <1>2, SumNat
<1>5. \A i \in D : f[i] <= SumFunctionOnSet(f, D)
  BY <1>2, SumAtLeast
<1>6. (\A i \in D : f[i] = 0) => SumFunctionOnSet(f, D) = 0
  BY <1>2, SumZero
<1>7. \A i \in D : (\A k \in D \ {i} : f[k] = 0) => SumFunctionOnSet(f, D) = f[i]
  BY <1>2, SumSingle
<1> QED  BY <1>1, <1>3, <1>4, <1>5, <1>6, <1>7

\* What is produced with an efficiency is in the list when the list could be
\* made at all.
LEMMA ProductionHas ==
  ASSUME NEW w, NEW p \in Range(Products(w)), p.bp \notin w.settings.ignoreList,
         \A k \in DOMAIN ManufacturingJobs(w) : ManufacturingJobs(w)[k] # Thrown,
         NEW eff \in Range(IF isT1BP(w, p.bp) THEN <<Plain>> ELSE bpes)
  PROVE  checkItem(w, p.bp) /\ Range(Produce(w, p, eff)) \subseteq Range(ManufacturingJobs(w))
<1> DEFINE kept == RestrictValues(Products(w), LAMBDA q : q.bp \notin w.settings.ignoreList)
           effs(q) == IF isT1BP(w, q.bp) THEN <<Plain>> ELSE bpes
           made(q) == Map(LAMBDA e : Produce(w, q, e), effs(q))
           jobs(q) == IF ~checkItem(w, q.bp) THEN <<Thrown>> ELSE Together(made(q))
           lists == Map(jobs, kept)
<1>1. ManufacturingJobs(w) = Together(lists)
  BY DEF ManufacturingJobs
<1>2. PICK i \in DOMAIN Products(w) : p = Products(w)[i]
  BY DEF Range
<1>3. i \in DOMAIN lists /\ lists[i] = jobs(p)
  <2> DEFINE S == {x \in DOMAIN Products(w) : Products(w)[x].bp \notin w.settings.ignoreList}
  <2>1. kept = [x \in S |-> Products(w)[x]]
    BY DEF RestrictValues, Restrict
  <2>2. lists = [x \in DOMAIN kept |-> jobs(kept[x])]
    BY DEF Map
  <2> HIDE DEF kept, jobs, lists
  <2> QED  BY <1>2, <2>1, <2>2
<1> HIDE DEF lists, kept
<1>4. Range(jobs(p)) \subseteq Range(ManufacturingJobs(w))
  <2> HIDE DEF jobs
  <2> QED  BY <1>1, <1>3, RangeTogether
<1>5. Thrown \notin Range(ManufacturingJobs(w))
  BY DEF Range
<1> HIDE DEF made
<1>6. checkItem(w, p.bp)
  <2> SUFFICES ASSUME ~checkItem(w, p.bp) PROVE FALSE
    OBVIOUS
  <2>1. jobs(p) = <<Thrown>>
    OBVIOUS
  <2> HIDE DEF jobs
  <2> QED  BY <1>4, <1>5, <2>1, RangeOne
<1>7. jobs(p) = Together(made(p))
  BY <1>6
<1> HIDE DEF jobs
<1>8. PICK k \in DOMAIN effs(p) : eff = effs(p)[k]
  BY DEF Range
<1>9. k \in DOMAIN made(p) /\ made(p)[k] = Produce(w, p, eff)
  <2> HIDE DEF effs
  <2> QED  BY <1>8 DEF made, Map
<1> HIDE DEF effs
<1> QED  BY <1>4, <1>6, <1>7, <1>9, RangeTogether

\* produce() always adds the job that uses a copy, or throws.
LEMMA ProduceCopies ==
  ASSUME NEW w, NEW p, NEW eff
  PROVE  \E J \in Range(Produce(w, p, eff)) :
           J \in {Thrown, Produced(w, p, eff, "BPC", BPC(p.bp, eff), Run)}
<1> DEFINE ok == HasTechLevel(w, p.bp) /\ HasValue(w, p.product) /\ p.product \in w.names
           from(source, resource, amount) ==
             Job(w, ok, <<TechLevel(w, p.bp), source, eff, p.product>>,
                 ProduceIn(p, eff, resource, amount), <<<<Item(p.product), p.quantity>>>>,
                 -(JobValue(w, p.product) * w.settings.productionTax), Unlimited)
           copy == from("BPC", BPC(p.bp, eff), Run)
           orig == from("BPO", BPO(p.bp), eff[2] * p.time)
<1>1. Produce(w, p, eff) = IF FromOriginal(w, p.bp) THEN <<orig, copy>> ELSE <<copy>>
  BY DEF Produce, ProduceIn
<1>2. copy \in {Thrown, Produced(w, p, eff, "BPC", BPC(p.bp, eff), Run)}
  BY DEF Job, Produced
<1> HIDE DEF copy, orig
<1> QED  BY <1>1, <1>2, RangeOne, RangeTwo

\* What comes out of an invention has one of the efficiencies of the table
\* the products are made with.
LEMMA InventedEfficiency ==
  ASSUME NEW d \in Range(decryptors)
  PROVE  d.eff \in Range(bpes)
<1>1. PICK k \in DOMAIN decryptors : d = decryptors[k]
  BY DEF Range
<1>2. k \in 1..9
  BY NineDecryptors
<1>3. bpes[1] = <<98, 96>> /\ bpes[2] = <<100, 94>> /\ bpes[3] = <<96, 96>> /\ bpes[4] = <<97, 88>>
      /\ bpes[5] = <<95, 90>> /\ bpes[6] = <<96, 86>> /\ bpes[7] = <<97, 98>> /\ bpes[8] = <<99, 92>>
  BY DEF bpes
<1>4. /\ decryptors[1].eff = <<98, 96>> /\ decryptors[2].eff = <<100, 94>> /\ decryptors[3].eff = <<96, 96>>
      /\ decryptors[4].eff = <<97, 88>> /\ decryptors[5].eff = <<95, 90>> /\ decryptors[6].eff = <<96, 86>>
      /\ decryptors[7].eff = <<97, 98>> /\ decryptors[8].eff = <<99, 92>> /\ decryptors[9].eff = <<97, 98>>
  BY DEF decryptors, Decryptor
<1>5. \A i \in 1..8 : bpes[i] \in Range(bpes)
  <2>1. DOMAIN bpes = 1..8
    BY DEF bpes
  <2> QED  BY <2>1 DEF Range
<1>6. {<<98, 96>>, <<100, 94>>, <<96, 96>>, <<97, 88>>, <<95, 90>>, <<96, 86>>, <<97, 98>>, <<99, 92>>} \subseteq Range(bpes)
  BY <1>3, <1>5
<1>7. \A i \in 1..9 : decryptors[i].eff \in Range(bpes)
  BY <1>4, <1>6
<1> QED  BY <1>1, <1>2, <1>7

\* What comes out of an invention is not T1.
LEMMA InventedKind ==
  ASSUME NEW w, NEW tier, NEW r \in Range(Inventions(w, tier))
  PROVE  ~isT1BP(w, r.product)
<1>1. PICK c \in Nodes(w) : \E n \in DOMAIN Likely(c) : CanInvent(w, c) /\ r = InventionsOf(w, c)[n]
  BY InventionForm
<1>2. PICK n \in DOMAIN Likely(c) : CanInvent(w, c) /\ r = InventionsOf(w, c)[n]
  BY <1>1
<1>3. n \in DOMAIN c.invention.products /\ ProductsOf(c.invention) = c.invention.products
  BY <1>2 DEF Likely, RestrictValues, Restrict, ProductsOf, CanInvent, Defined
<1>4. r.product = c.invention.products[n].type
  BY <1>2 DEF InventionsOf
<1>5. Invents(c, r.product)
  BY <1>3, <1>4 DEF Invents, Range
<1> QED  BY <1>5 DEF isT1BP, isT2BP, isT3BP

\* With all lists fed, a product the planner takes has a column for each of
\* its efficiencies that uses the runs of a copy of that efficiency.
LEMMA ProductionTaken ==
  ASSUME ColumnsInv, Fed, TypedWs(ws), NEW p \in Range(Products(ws)), p.bp \notin ws.settings.ignoreList,
         NEW eff \in Range(IF isT1BP(ws, p.bp) THEN <<Plain>> ELSE bpes)
  PROVE  \E k \in DOMAIN columns : Amount(columns[k].in, BPC(p.bp, eff)) > 0
<1>1. \A k \in DOMAIN ManufacturingJobs(ws) : HasColumn(ManufacturingJobs(ws)[k])
  BY DEF ColumnsInv, Fed, Since, HasColumns, FeedSteps, Planning, JobsAt
<1>2. PICK J \in Range(ManufacturingJobs(ws)) : J \in {Thrown, Produced(ws, p, eff, "BPC", BPC(p.bp, eff), Run)}
  BY <1>1, ProductionHas, ProduceCopies DEF HasColumn
<1>3. J.name \in DOMAIN columns /\ columns[J.name] = J /\ J # Thrown
  BY <1>1 DEF HasColumn, Range
<1>4. J.in = ProduceIn(p, eff, BPC(p.bp, eff), Run)
  BY <1>2, <1>3 DEF Produced
<1>5. TypedEntries(J.in)
  BY <1>3, ManufacturingTyped DEF TypedJob
<1>6. \E i \in DOMAIN J.in : J.in[i] = <<BPC(p.bp, eff), Run>>
  <2> DEFINE mats == Map(LAMBDA m : <<Item(m[1]), CeilPercent(eff[1] * m[2])>>, p.materials)
             rest == <<<<LineTime, eff[2] * p.time>>, <<BPC(p.bp, eff), Run>>>>
             lists == <<mats, rest>>
  <2>1. J.in = Together(lists)
    BY <1>4 DEF ProduceIn
  <2>2. 2 \in DOMAIN rest /\ rest[2] = <<BPC(p.bp, eff), Run>>
    OBVIOUS
  <2> HIDE DEF mats, rest
  <2>3. 2 \in DOMAIN lists /\ lists[2] = rest
    OBVIOUS
  <2> HIDE DEF lists
  <2>4. <<2, 2>> \in DOMAIN Together(lists) /\ Together(lists)[<<2, 2>>] = rest[2]
    BY <2>2, <2>3, TogetherAt
  <2> QED  BY <2>1, <2>2, <2>4
<1>7. Amount(J.in, BPC(p.bp, eff)) >= Run
  <2>1. PICK i \in DOMAIN J.in : J.in[i] = <<BPC(p.bp, eff), Run>>
    BY <1>6
  <2>2. J.in[i][2] <= Amount(J.in, BPC(p.bp, eff)) /\ J.in[i][2] = Run
    BY <1>5, <2>1, AmountSum
  <2> QED  BY <2>2, <1>5, AmountSum DEF Run
<1>8. Amount(J.in, BPC(p.bp, eff)) > 0
  BY <1>5, <1>7, AmountSum DEF Run
<1> QED  BY <1>3, <1>8

\* A copy that an invention gives is one that some job of the program uses,
\* when its product is one the user can make: the efficiencies after each
\* decryptor and those of the manufacturing jobs are the same (the table bpes
\* and the decryptors' modifiers, which the code writes down separately).
THEOREM InventedUsable == Spec => []InventedIsUsable
<1>1. WorkspaceInv => InventedIsUsable
  <2> SUFFICES ASSUME WorkspaceInv, Fed, NEW n \in DOMAIN columns, n[1] = "Research",
                      NEW p \in Range(Products(ws)), p.bp = columns[n].out[1][1][2],
                      p.bp \notin W.settings.ignoreList
               PROVE  \E k \in DOMAIN columns : Amount(columns[k].in, columns[n].out[1][1]) > 0
    BY DEF InventedIsUsable
  <2>1. TypedWs(ws) /\ ColumnsInv
    BY WsTyped DEF WorkspaceInv
  <2>2. PICK tier : columns[n] # Thrown /\ columns[n] \in Range(InventionJobs(ws, tier))
    BY <2>1, ColumnForm DEF Offers, Levels
  <2>3. PICK r \in Range(Inventions(ws, tier)) : \E d \in Range(decryptors) : columns[n] = Research(ws, r, d)
    BY <2>2, ResearchForm
  <2>4. PICK d \in Range(decryptors) : columns[n] = Research(ws, r, d)
    BY <2>3
  <2>5. columns[n].out[1][1] = BPC(r.product, d.eff)
    BY <2>2, <2>4, ResearchFields
  <2>6. p.bp = r.product
    BY <2>5 DEF BPC
  <2>7. d.eff \in Range(IF isT1BP(ws, p.bp) THEN <<Plain>> ELSE bpes)
    BY <2>6, InventedKind, InventedEfficiency
  <2>8. ws.settings = W.settings
    BY DEF ws
  <2> QED  BY <2>1, <2>5, <2>6, <2>7, <2>8, ProductionTaken
<1> QED  BY <1>1, Inductive, PTL

-----------------------------------------------------------------------------
(* Sums over the columns of a row                                          *)

\* How much of a resource one unit of a column takes.
Takes(n, r) == Amount(columns[n].in, r)

\* How much of a resource one unit of a column gives.
Makes(n, r) == Amount(columns[n].out, r)

\* Units of each job, weighted.
Weighted(u) == SumFunctionOnSet([n \in Used(plan) |-> plan[n] * u[n]], Used(plan))

\* The amount in a list of no entry and in one of one entry.
LEMMA AmountOne ==
  ASSUME NEW x, NEW a \in Nat, NEW r
  PROVE  /\ Amount(<<>>, r) = 0
         /\ Amount(<<<<x, a>>>>, r) = IF x = r THEN a ELSE 0
<1>1. TypedEntries(<<>>) /\ TypedEntries(<<<<x, a>>>>)
  BY ShortTyped
<1> DEFINE one == <<<<x, a>>>>
<1>2. DOMAIN one = {1} /\ one[1] = <<x, a>>
  OBVIOUS
<1>3. DOMAIN <<>> = {}
  OBVIOUS
<1>4. Amount(<<>>, r) = 0
  BY <1>1, <1>3, AmountSum
<1> HIDE DEF one
<1>5. Amount(one, r) = IF x = r THEN a ELSE 0
  <2>1. TypedEntries(one)
    BY <1>1 DEF one
  <2>2. one[1][1] = x /\ one[1][2] = a
    BY <1>2
  <2>3. CASE x = r
    BY <1>2, <2>1, <2>2, <2>3, AmountSum
  <2>4. CASE x # r
    BY <1>2, <2>1, <2>2, <2>4, AmountSum
  <2> QED  BY <2>3, <2>4
<1> QED  BY <1>4, <1>5 DEF one

\* There is a plan, and it satisfies the rows.
Reported ==
  /\ WorkspaceInv /\ TypedWs(ws) /\ pc = "reported"
  /\ plan \in [DOMAIN columns -> Nat] /\ IsFiniteSet(Used(plan))
  /\ \A n \in DOMAIN columns : TypedJob(columns[n])
  /\ \A n \in DOMAIN columns : \A r : Takes(n, r) \in Nat /\ Makes(n, r) \in Nat

\* The invariant gives all of that for a reported plan.
LEMMA ReportedHolds ==
  ASSUME WorkspaceInv, pc = "reported"
  PROVE  Reported
<1>1. TypedWs(ws)
  BY WsTyped DEF WorkspaceInv
<1>2. plan \in [DOMAIN columns -> Nat] /\ IsFiniteSet(DOMAIN columns)
  BY DEF WorkspaceInv, PlanInv, ColumnsInv
<1>3. IsFiniteSet(Used(plan))
  <2>1. Used(plan) \subseteq DOMAIN columns
    BY DEF Used
  <2> QED  BY <1>2, <2>1, FS_Subset
<1>4. \A n \in DOMAIN columns : TypedJob(columns[n])
  BY ColumnTyped DEF WorkspaceInv
<1>5. \A n \in DOMAIN columns : TypedEntries(columns[n].in) /\ TypedEntries(columns[n].out)
  BY <1>4, ShortTyped DEF TypedJob
<1>6. \A n \in DOMAIN columns : \A r : Takes(n, r) \in Nat /\ Makes(n, r) \in Nat
  BY <1>5, AmountSum DEF Takes, Makes
<1> QED  BY <1>1, <1>2, <1>3, <1>4, <1>6 DEF Reported

\* A column's part in a row, with the amounts bounded from both sides.
LEMMA Balance ==
  ASSUME NEW a \in Nat, NEW b \in Nat, NEW x \in Nat, NEW u \in Nat, NEW m \in Nat, NEW c \in Nat,
         c * u <= a, b <= c * m
  PROVE  c * (x * u) - c * (x * m) <= x * (a - b)
<1>1. c * u \in Nat /\ c * m \in Nat
  BY NatTimes
<1>2. \A p, q \in Nat : p <= q => x * p <= x * q
  OBVIOUS
<1>3. x * (c * u) <= x * a /\ x * b <= x * (c * m)
  BY <1>1, <1>2
<1>4. x * (c * u) = c * (x * u) /\ x * (c * m) = c * (x * m) /\ x * (a - b) = x * a - x * b
  OBVIOUS
<1>5. x * a \in Int /\ x * b \in Int /\ c * (x * u) \in Int /\ c * (x * m) \in Int
  BY NatTimes
<1> QED  BY <1>3, <1>4, <1>5

\* What is taken of a resource but not given is in stock.
LEMMA RowBound ==
  ASSUME Reported, NEW r, Stock(ws, r) >= 0
  PROVE  Activity(plan, r) <= Stock(ws, r)
<1>1. Stock(ws, r) \in Int
  BY StockTyped DEF Reported
<1>2. CASE r \in Rows
  <2>1. RowHolds(plan, r)
    BY <1>2 DEF Reported, WorkspaceInv, PlanInv
  <2> QED  BY <1>1, <2>1 DEF RowHolds
<1>3. CASE r \notin Rows
  <2>1. ASSUME NEW n \in DOMAIN columns  PROVE Takes(n, r) = 0 /\ Makes(n, r) = 0
    <3>1. TypedEntries(columns[n].in) /\ TypedEntries(columns[n].out)
      BY ShortTyped DEF Reported, TypedJob
    <3>2. (\A i \in DOMAIN columns[n].in : columns[n].in[i][1] # r)
          /\ (\A i \in DOMAIN columns[n].out : columns[n].out[i][1] # r)
      BY <1>3 DEF Rows, Range
    <3> QED  BY <3>1, <3>2, AmountSum DEF Takes, Makes
  <2> DEFINE f == [n \in Used(plan) |-> plan[n] * (Amount(columns[n].in, r) - Amount(columns[n].out, r))]
  <2>2. Activity(plan, r) = Sum(f)
    BY DEF Activity
  <2>3. \A n \in Used(plan) : f[n] = 0
    BY <2>1 DEF Takes, Makes, Used, Reported
  <2>4. DOMAIN f = Used(plan)
    OBVIOUS
  <2> HIDE DEF f
  <2>5. Sum(f) = 0
    BY <2>3, <2>4, SumZero DEF Sum, SumFunction, Reported
  <2> QED  BY <1>1, <2>2, <2>5
<1> QED  BY <1>2, <1>3

\* What is used of a resource is there to begin with or made.
LEMMA Covered ==
  ASSUME Reported, NEW r, NEW c \in Nat \ {0}, NEW t \in Nat, Stock(ws, r) = c * t,
         NEW u, NEW m,
         \A n \in Used(plan) :
           /\ u[n] \in Nat /\ m[n] \in Nat
           /\ c * u[n] <= Takes(n, r) /\ Makes(n, r) <= c * m[n]
  PROVE  Weighted(u) \in Nat /\ Weighted(m) \in Nat /\ Weighted(u) <= t + Weighted(m)
<1> DEFINE U == Used(plan)
           f == [n \in U |-> plan[n] * (Takes(n, r) - Makes(n, r))]
           uses == [n \in U |-> plan[n] * u[n]]
           makes == [n \in U |-> plan[n] * m[n]]
           net == [n \in U |-> uses[n] + (-1) * makes[n]]
           less == [n \in U |-> (-1) * makes[n]]
           scaled == [n \in U |-> c * net[n]]
<1>1. IsFiniteSet(U) /\ U \subseteq DOMAIN columns /\ \A n \in U : plan[n] \in Nat
  BY DEF Reported, Used
<1>2. Activity(plan, r) = SumFunctionOnSet(f, U)
  <2>1. Activity(plan, r) = Sum(f)
    BY DEF Activity, Takes, Makes
  <2>2. DOMAIN f = U
    OBVIOUS
  <2> HIDE DEF f
  <2> QED  BY <2>1, <2>2 DEF Sum, SumFunction
<1>3. ASSUME NEW n \in U
      PROVE  /\ uses[n] \in Nat /\ makes[n] \in Nat
             /\ f[n] \in Int /\ scaled[n] \in Int /\ scaled[n] <= f[n]
             /\ net[n] \in Int /\ scaled[n] = c * net[n] /\ less[n] = (-1) * makes[n] /\ less[n] \in Int
             /\ net[n] = uses[n] + less[n]
  <2>1. /\ plan[n] \in Nat /\ u[n] \in Nat /\ m[n] \in Nat /\ Takes(n, r) \in Nat /\ Makes(n, r) \in Nat
        /\ c * u[n] <= Takes(n, r) /\ Makes(n, r) <= c * m[n]
    BY <1>1 DEF Reported
  <2>2. plan[n] * u[n] \in Nat /\ plan[n] * m[n] \in Nat
    BY <2>1, NatTimes
  <2>3. c * (plan[n] * u[n]) - c * (plan[n] * m[n]) <= plan[n] * (Takes(n, r) - Makes(n, r))
    BY <2>1, Balance
  <2>4. plan[n] * (Takes(n, r) - Makes(n, r)) \in Int
    BY <2>1
  <2>5. \A a, b \in Nat : c * (a + (-1) * b) = c * a - c * b /\ c * (a + (-1) * b) \in Int
    OBVIOUS
  <2> QED  BY <2>2, <2>3, <2>4, <2>5
<1>4. Weighted(u) = SumFunctionOnSet(uses, U) /\ Weighted(m) = SumFunctionOnSet(makes, U)
  BY DEF Weighted
<1> HIDE DEF f, uses, makes, net, less, scaled, U
<1>5. SumFunctionOnSet(scaled, U) <= SumFunctionOnSet(f, U)
  BY <1>1, <1>3, SumLe
<1>6. SumFunctionOnSet(scaled, U) = c * SumFunctionOnSet(net, U)
  BY <1>1, <1>3, SumTimes
<1>7. SumFunctionOnSet(net, U) = SumFunctionOnSet(uses, U) + SumFunctionOnSet(less, U)
  <2>1. \A n \in U : uses[n] \in Int /\ less[n] \in Int /\ net[n] = uses[n] + less[n]
    BY <1>3
  <2> QED  BY <1>1, <2>1, SumAdd
<1>8. SumFunctionOnSet(less, U) = (-1) * SumFunctionOnSet(makes, U)
  BY <1>1, <1>3, SumTimes
<1>9. SumFunctionOnSet(uses, U) \in Nat /\ SumFunctionOnSet(makes, U) \in Nat
  BY <1>1, <1>3, SumNat
<1>10. SumFunctionOnSet(f, U) \in Int /\ SumFunctionOnSet(f, U) <= c * t
  <2>1. SumFunctionOnSet(f, U) \in Int
    BY <1>1, <1>3, SumMore
  <2>2. c * t >= 0
    BY NatTimes
  <2> QED  BY <1>2, <2>1, <2>2, RowBound
<1> DEFINE a == SumFunctionOnSet(uses, U)
           b == SumFunctionOnSet(makes, U)
<1>11. c * (a + (-1) * b) <= c * t /\ a \in Nat /\ b \in Nat
  <2>1. \A i \in Nat, j \in Nat : c * (i + (-1) * j) \in Int
    OBVIOUS
  <2>2. c * t \in Int
    OBVIOUS
  <2> QED  BY <1>5, <1>6, <1>7, <1>8, <1>9, <1>10, <2>1, <2>2
<1> HIDE DEF a, b
<1>12. a <= t + b
  <2>1. \A i, j \in Int : c * i <= c * j => i <= j
    OBVIOUS
  <2>2. a + (-1) * b \in Int /\ t \in Int
    BY <1>11
  <2>3. a + (-1) * b <= t
    BY <1>11, <2>1, <2>2
  <2> QED  BY <1>11, <2>3
<1> QED  BY <1>4, <1>11, <1>12 DEF a, b

\* The sum over the used columns of a function that is the plan's times a
\* weight is the weighted plan.
LEMMA Tallied ==
  ASSUME Reported, NEW f, DOMAIN f = Used(plan), NEW u,
         \A n \in Used(plan) : u[n] \in Nat /\ f[n] = plan[n] * u[n]
  PROVE  Sum(f) = Weighted(u) /\ Weighted(u) \in Nat
<1> DEFINE g == [n \in Used(plan) |-> plan[n] * u[n]]
<1>1. IsFiniteSet(Used(plan)) /\ \A n \in Used(plan) : g[n] \in Nat /\ f[n] = g[n]
  <2>1. \A n \in Used(plan) : plan[n] \in Nat
    BY DEF Reported, Used
  <2> QED  BY <2>1, NatTimes DEF Reported
<1>2. Weighted(u) = SumFunctionOnSet(g, Used(plan))
  BY DEF Weighted
<1>3. Sum(f) = SumFunctionOnSet(f, Used(plan))
  BY DEF Sum, SumFunction
<1> HIDE DEF g
<1> QED  BY <1>1, <1>2, <1>3, SumEq, SumNat

\* Weights add up.
LEMMA WeightedAdd ==
  ASSUME Reported, NEW u, NEW v, NEW s,
         \A n \in Used(plan) : u[n] \in Nat /\ v[n] \in Nat /\ s[n] = u[n] + v[n]
  PROVE  Weighted(s) = Weighted(u) + Weighted(v)
<1> DEFINE f == [n \in Used(plan) |-> plan[n] * u[n]]
           g == [n \in Used(plan) |-> plan[n] * v[n]]
           h == [n \in Used(plan) |-> plan[n] * s[n]]
<1>1. IsFiniteSet(Used(plan)) /\ \A n \in Used(plan) : f[n] \in Int /\ g[n] \in Int /\ h[n] = f[n] + g[n]
  <2>1. \A n \in Used(plan) : plan[n] \in Nat
    BY DEF Reported, Used
  <2>2. \A a, b, c \in Nat : a * (b + c) = a * b + a * c /\ a * b \in Int
    OBVIOUS
  <2> QED  BY <2>1, <2>2 DEF Reported
<1>2. Weighted(s) = SumFunctionOnSet(h, Used(plan)) /\ Weighted(u) = SumFunctionOnSet(f, Used(plan))
      /\ Weighted(v) = SumFunctionOnSet(g, Used(plan))
  BY DEF Weighted
<1> HIDE DEF f, g, h
<1> QED  BY <1>1, <1>2, SumAdd

-----------------------------------------------------------------------------
(* What the columns take                                                   *)

\* A job takes at least each of the entries of its inputs.
LEMMA EntryTaken ==
  ASSUME NEW in, TypedEntries(in), NEW r, NEW a, \E i \in DOMAIN in : in[i] = <<r, a>>
  PROVE  a <= Amount(in, r)
<1>1. PICK i \in DOMAIN in : in[i] = <<r, a>>
  OBVIOUS
<1>2. in[i][1] = r /\ in[i][2] = a
  BY <1>1
<1> QED  BY <1>2, AmountSum

\* An entry of the second of two lists is among both.
LEMMA InSecond ==
  ASSUME NEW a, NEW b, NEW k \in DOMAIN b
  PROVE  \E i \in DOMAIN Together(<<a, b>>) : Together(<<a, b>>)[i] = b[k]
<1> DEFINE lists == <<a, b>>
<1>1. 2 \in DOMAIN lists /\ lists[2] = b
  OBVIOUS
<1> HIDE DEF lists
<1>2. <<2, k>> \in DOMAIN Together(lists) /\ Together(lists)[<<2, k>>] = b[k]
  BY <1>1, TogetherAt
<1> QED  BY <1>2 DEF lists

\* An entry of the third of three lists is among all of them.
LEMMA InThird ==
  ASSUME NEW a, NEW b, NEW c, NEW k \in DOMAIN c
  PROVE  \E i \in DOMAIN Together(<<a, b, c>>) : Together(<<a, b, c>>)[i] = c[k]
<1> DEFINE lists == <<a, b, c>>
<1>1. 3 \in DOMAIN lists /\ lists[3] = c
  OBVIOUS
<1> HIDE DEF lists
<1>2. <<3, k>> \in DOMAIN Together(lists) /\ Together(lists)[<<3, k>>] = c[k]
  BY <1>1, TogetherAt
<1> QED  BY <1>2 DEF lists

\* Producing takes the blueprint.
LEMMA ProduceTakes ==
  ASSUME NEW p, NEW eff, NEW resource, NEW amount
  PROVE  \E i \in DOMAIN ProduceIn(p, eff, resource, amount) :
           ProduceIn(p, eff, resource, amount)[i] = <<resource, amount>>
<1> DEFINE mats == Map(LAMBDA m : <<Item(m[1]), CeilPercent(eff[1] * m[2])>>, p.materials)
           rest == <<<<LineTime, eff[2] * p.time>>, <<resource, amount>>>>
<1>1. ProduceIn(p, eff, resource, amount) = Together(<<mats, rest>>)
  BY DEF ProduceIn
<1>2. 2 \in DOMAIN rest /\ rest[2] = <<resource, amount>>
  OBVIOUS
<1> HIDE DEF mats, rest
<1> QED  BY <1>1, <1>2, InSecond

\* Inventing takes the time of the laboratory, and a run of the copy where it
\* is not a relic that is studied.
LEMMA ResearchTakes ==
  ASSUME NEW r, NEW d
  PROVE  /\ \E i \in DOMAIN ResearchIn(r, d) : ResearchIn(r, d)[i] = <<LabTime, 100 * r.time>>
         /\ r.tier = "T2" =>
              \E i \in DOMAIN ResearchIn(r, d) : ResearchIn(r, d)[i] = <<BPC(r.bp, Plain), Run>>
<1> DEFINE mats == Items(r.materials)
           dec == IF d.id = "none" THEN <<>> ELSE <<<<Item(d.id), 1>>>>
           rest == <<IF r.tier = "T2" THEN <<BPC(r.bp, Plain), Run>> ELSE <<Item(r.bp), 1>>,
                     <<LabTime, 100 * r.time>>>>
<1>1. ResearchIn(r, d) = Together(<<mats, dec, rest>>)
  BY DEF ResearchIn
<1>2. /\ 2 \in DOMAIN rest /\ rest[2] = <<LabTime, 100 * r.time>>
      /\ 1 \in DOMAIN rest /\ (r.tier = "T2" => rest[1] = <<BPC(r.bp, Plain), Run>>)
  OBVIOUS
<1> HIDE DEF mats, dec, rest
<1> QED  BY <1>1, <1>2, InThird

\* A production is of the node that makes its product.
LEMMA ProductionColumn ==
  ASSUME Reported, NEW n \in DOMAIN columns, n[1] \in Levels
  PROVE  \E c \in Nodes(ws) :
           /\ CanManufacture(ws, c) /\ MakesFirst(c, n[4])
           /\ c.manufacturing.products[1].quantity \in Nat /\ c.manufacturing.time \in Nat
           /\ columns[n].out = <<<<Item(n[4]), c.manufacturing.products[1].quantity>>>>
           /\ n[1] = "T1" /\ n[2] = "BPC" => Run <= Takes(n, BPC(c.id, Plain))
           /\ n[1] = "T1" /\ n[2] = "BPO" => 100 * c.manufacturing.time <= Takes(n, BPO(c.id))
<1> DEFINE J == columns[n]
<1>1. J # Thrown /\ J.name = n /\ J \in Range(ManufacturingJobs(ws))
  BY ColumnForm DEF Reported, WorkspaceInv, Offers, Levels
<1>2. TypedWs(ws) /\ TypedEntries(J.in)
  BY DEF Reported, TypedJob
<1> HIDE DEF J
<1>3. PICK p \in Range(Products(ws)) :
        \E e \in Range(IF isT1BP(ws, p.bp) THEN <<Plain>> ELSE bpes) : J \in Range(Produce(ws, p, e))
  BY <1>1, ProductionForm
<1>4. PICK eff \in Range(IF isT1BP(ws, p.bp) THEN <<Plain>> ELSE bpes) : J \in Range(Produce(ws, p, eff))
  BY <1>3
<1>5. PICK c \in Nodes(ws) :
        /\ CanManufacture(ws, c)
        /\ p = [bp |-> c.id, product |-> c.manufacturing.products[1].type,
                quantity |-> c.manufacturing.products[1].quantity,
                materials |-> c.manufacturing.materials,
                skills |-> c.manufacturing.skills, time |-> c.manufacturing.time]
  BY ProductForm
<1>6. TypedRow(p)
  BY <1>2, ProductsAreProducts, ProductTyped
<1>7. /\ p.bp = c.id /\ p.product = c.manufacturing.products[1].type
      /\ p.quantity = c.manufacturing.products[1].quantity /\ p.time = c.manufacturing.time
  BY <1>5
<1>8. \/ J = Produced(ws, p, eff, "BPO", BPO(p.bp), eff[2] * p.time)
      \/ J = Produced(ws, p, eff, "BPC", BPC(p.bp, eff), Run)
  BY <1>1, <1>4, ProduceForm
<1>9. J.name[1] = TechLevel(ws, p.bp) /\ J.name[4] = p.product /\ J.out = <<<<Item(p.product), p.quantity>>>>
  BY <1>8 DEF Produced
<1>10. MakesFirst(c, n[4])
  <2>1. Len(c.manufacturing.products) = 1 /\ ProductsOf(c.manufacturing) = c.manufacturing.products
    BY <1>5 DEF CanManufacture, Defined, ProductsOf
  <2>2. c.manufacturing.products # <<>>
    <3>1. Len(<<>>) # 1
      OBVIOUS
    <3> QED  BY <2>1, <3>1, Zenon
  <2> QED  BY <1>1, <1>7, <1>9, <2>1, <2>2 DEF MakesFirst
<1>11. ASSUME n[1] = "T1"  PROVE eff = Plain
  <2>1. isT1BP(ws, p.bp)
    BY <1>1, <1>9, <1>11 DEF TechLevel
  <2> QED  BY <1>4, <2>1, RangeOne
<1>12. ASSUME n[1] = "T1", n[2] = "BPC"  PROVE Run <= Takes(n, BPC(c.id, Plain))
  <2>1. J = Produced(ws, p, eff, "BPC", BPC(p.bp, eff), Run)
    BY <1>1, <1>8, <1>12 DEF Produced
  <2>2. J.in = ProduceIn(p, eff, BPC(c.id, Plain), Run)
    BY <1>7, <1>11, <1>12, <2>1 DEF Produced
  <2> QED  BY <1>2, <2>2, ProduceTakes, EntryTaken DEF Takes, J
<1>13. ASSUME n[1] = "T1", n[2] = "BPO"  PROVE 100 * c.manufacturing.time <= Takes(n, BPO(c.id))
  <2>1. J = Produced(ws, p, eff, "BPO", BPO(p.bp), eff[2] * p.time)
    BY <1>1, <1>8, <1>13 DEF Produced
  <2>2. eff[2] = 100
    BY <1>11, <1>13 DEF Plain
  <2>3. J.in = ProduceIn(p, eff, BPO(c.id), 100 * c.manufacturing.time)
    BY <1>7, <2>1, <2>2 DEF Produced
  <2> QED  BY <1>2, <2>3, ProduceTakes, EntryTaken DEF Takes, J
<1>14. J.out = <<<<Item(n[4]), c.manufacturing.products[1].quantity>>>>
  BY <1>1, <1>7, <1>9
<1>15. c.manufacturing.products[1].quantity \in Nat /\ c.manufacturing.time \in Nat
  BY <1>6, <1>7 DEF TypedRow
<1> QED  BY <1>5, <1>10, <1>12, <1>13, <1>14, <1>15 DEF J

\* A column that invents takes at least the time of its blueprint's invention
\* and a run of its plain copy, and gives an improved copy.
LEMMA ResearchColumn ==
  ASSUME Reported, NEW n \in DOMAIN columns, n[1] = "Research"
  PROVE  /\ \E c \in Nodes(ws) :
              /\ c.id = n[2] /\ c.invention.time \in Nat
              /\ 100 * c.invention.time <= Takes(n, LabTime)
              /\ ~Sleeper(c) => Run <= Takes(n, BPC(c.id, Plain))
         /\ \E x : \E eff \in Range(bpes) : \E a \in Nat : columns[n].out = <<<<BPC(x, eff), a>>>>
<1> DEFINE J == columns[n]
<1>1. J # Thrown /\ J.name = n /\ \E tier \in {"T2", "T3"} : J \in Range(InventionJobs(ws, tier))
  BY ColumnForm DEF Reported, WorkspaceInv, Offers, Levels
<1>2. TypedWs(ws) /\ TypedEntries(J.in) /\ TypedJob(J)
  BY DEF Reported, TypedJob
<1> HIDE DEF J
<1>3. PICK tier \in {"T2", "T3"} : J \in Range(InventionJobs(ws, tier))
  BY <1>1
<1>4. PICK r \in Range(Inventions(ws, tier)) : \E d \in Range(decryptors) : J = Research(ws, r, d)
  BY <1>1, <1>3, ResearchForm
<1>5. PICK d \in Range(decryptors) : J = Research(ws, r, d)
  BY <1>4
<1>6. PICK c \in Nodes(ws) : \E m \in DOMAIN Likely(c) : CanInvent(ws, c) /\ r = InventionsOf(ws, c)[m]
  BY InventionForm
<1>7. PICK m \in DOMAIN Likely(c) : CanInvent(ws, c) /\ r = InventionsOf(ws, c)[m]
  BY <1>6
<1>8. r.bp = c.id /\ r.time = c.invention.time /\ r.tier = IF Sleeper(c) THEN "T3" ELSE "T2"
  BY <1>7 DEF InventionsOf
<1>9. /\ J.name = <<"Research", r.bp, d.id, r.product>> /\ J.in = ResearchIn(r, d)
      /\ \E a : J.out = <<<<BPC(r.product, d.eff), a>>>>
  BY <1>1, <1>5, ResearchFields
<1>10. c.id = n[2]
  BY <1>1, <1>8, <1>9
<1>11. c.invention.time \in Nat
  BY <1>2, <1>8, InventionTyped DEF TypedRow
<1>12. 100 * c.invention.time <= Takes(n, LabTime)
  BY <1>2, <1>8, <1>9, ResearchTakes, EntryTaken DEF Takes, J
<1>13. ~Sleeper(c) => Run <= Takes(n, BPC(c.id, Plain))
  BY <1>2, <1>8, <1>9, ResearchTakes, EntryTaken DEF Takes, J
<1>14. \E a \in Nat : J.out = <<<<BPC(r.product, d.eff), a>>>>
  <2>1. PICK a : J.out = <<<<BPC(r.product, d.eff), a>>>>
    BY <1>9
  <2>2. PICK x : \E b \in Nat : J.out = <<<<x, b>>>>
    BY <1>2, <2>1 DEF TypedJob
  <2> QED  BY <2>1, <2>2
<1>15. d.eff \in Range(bpes)
  BY InventedEfficiency
<1> QED  BY <1>10, <1>11, <1>12, <1>13, <1>14, <1>15 DEF J

\* A column that copies takes at least the time of its blueprint's copying
\* from the laboratory and from the original, and gives one run of its plain
\* copy.
LEMMA CopyColumn ==
  ASSUME Reported, NEW n \in DOMAIN columns, n[1] = "Copy"
  PROVE  \E c \in Nodes(ws) :
           /\ n = <<"Copy", c.id>> /\ c.copying.time \in Nat
           /\ columns[n].out = <<<<BPC(c.id, Plain), Run>>>>
           /\ 100 * c.copying.time <= Takes(n, LabTime)
           /\ 100 * c.copying.time <= Takes(n, BPO(c.id))
<1> DEFINE J == columns[n]
<1>1. J # Thrown /\ J.name = n /\ J \in Range(CopyJobs(ws))
  BY ColumnForm DEF Reported, WorkspaceInv, Offers, Levels
<1>2. TypedWs(ws) /\ TypedEntries(J.in)
  BY DEF Reported, TypedJob
<1> HIDE DEF J
<1>3. PICK c \in Nodes(ws) :
        /\ CanCopy(ws, c)
        /\ J.name = <<"Copy", c.id>> /\ J.out = <<<<BPC(c.id, Plain), Run>>>>
        /\ J.in = <<<<BPO(c.id), 100 * c.copying.time>>, <<LabTime, 100 * c.copying.time>>>>
  BY <1>1, CopyForm
<1>4. c.copying.time \in Nat
  BY <1>2, <1>3, NodeTyped DEF CanCopy, Defined
<1> DEFINE time == 100 * c.copying.time
<1>5. J.in = <<<<BPO(c.id), time>>, <<LabTime, time>>>>
  BY <1>3
<1> HIDE DEF time
<1>6. \A x, y : DOMAIN <<x, y>> = 1..2 /\ <<x, y>>[1] = x /\ <<x, y>>[2] = y
  OBVIOUS
<1>7. /\ \E i \in DOMAIN J.in : J.in[i] = <<BPO(c.id), time>>
      /\ \E i \in DOMAIN J.in : J.in[i] = <<LabTime, time>>
  BY <1>5, <1>6
<1>8. time <= Amount(J.in, BPO(c.id)) /\ time <= Amount(J.in, LabTime)
  BY <1>2, <1>7, EntryTaken
<1> QED  BY <1>1, <1>3, <1>4, <1>8 DEF Takes, J, time

\* A column that buys gives one of its item, and one that sells takes one.
LEMMA TradeColumn ==
  ASSUME Reported, NEW n \in DOMAIN columns
  PROVE  /\ n[1] = "Buy" => columns[n].out = <<<<Item(n[2]), 1>>>>
         /\ n[1] = "Sell" => columns[n].out = <<>> /\ 1 <= Takes(n, Item(n[2]))
<1> DEFINE J == columns[n]
<1>1. J # Thrown /\ J.name = n /\ TypedEntries(J.in)
  BY ColumnForm DEF Reported, WorkspaceInv, TypedJob
<1>2. ASSUME n[1] = "Buy"  PROVE J.out = <<<<Item(n[2]), 1>>>>
  <2>1. PICK o : J = Buy(ws, o)
    BY <1>2, ColumnForm DEF Reported, WorkspaceInv, Offers, Levels
  <2> HIDE DEF J
  <2> QED  BY <1>1, <2>1, BuyForm
<1>3. ASSUME n[1] = "Sell"  PROVE J.out = <<>> /\ 1 <= Takes(n, Item(n[2]))
  <2>1. PICK o : J = Sell(ws, o)
    BY <1>3, ColumnForm DEF Reported, WorkspaceInv, Offers, Levels
  <2> HIDE DEF J
  <2>2. J.name = <<"Sell", o.type, o.id>> /\ J.in = <<<<Item(o.type), 1>>>> /\ J.out = <<>>
    BY <1>1, <2>1, SellForm
  <2>3. Amount(J.in, Item(n[2])) = 1
    BY <1>1, <2>2, AmountOne
  <2> QED  BY <2>2, <2>3 DEF Takes, J
<1> QED  BY <1>2, <1>3

\* The job that builds a facility gives its time.
LEMMA BuildForm ==
  ASSUME NEW w, NEW i, NEW c, NEW e, Build(w, i, c, e) # Thrown
  PROVE  /\ Build(w, i, c, e).name = <<"Build", i>>
         /\ Build(w, i, c, e).out = <<<<Facility(i), w.settings.timeFrame>>>>
BY DEF Build, Job

\* The job that imports gives one of the item on the planet.
LEMMA ImportForm ==
  ASSUME NEW w, NEW t, Import(w, t) # Thrown
  PROVE  /\ Import(w, t).name = <<"Import", TierOf(w, t), t>>
         /\ Import(w, t).out = <<<<Planetary(t), 1>>>>
BY DEF Import, Job

\* The job that exports gives one of the item.
LEMMA ExportForm ==
  ASSUME NEW w, NEW t, Export(w, t) # Thrown
  PROVE  /\ Export(w, t).name = <<"Export", TierOf(w, t), t>>
         /\ Export(w, t).out = <<<<Item(t), 1>>>>
BY DEF Export, Job

\* The job that runs a schematic gives its product on the planet.
LEMMA ProcessForm ==
  ASSUME NEW w, NEW s, Process(w, s) # Thrown
  PROVE  /\ Process(w, s).name = <<"Process", s.tier + 1, s.product>>
         /\ Process(w, s).out = <<<<Planetary(s.product), s.quantity>>>>
BY DEF Process, Job

\* A column of the planets gives the time of a facility or an item on a
\* planet, unless it exports.
LEMMA OfferColumn ==
  ASSUME Reported, NEW n \in DOMAIN columns, n[1] \in Offers
  PROVE  \E x : \E a \in Nat :
           /\ columns[n].out = <<<<x, a>>>>
           /\ IF n[1] = "Export" THEN x = Item(n[3]) /\ a = 1
              ELSE x[1] \in {"IndustryTime", "planetary"}
<1> DEFINE J == columns[n]
<1>1. J # Thrown /\ J.name = n /\ J \in Range(PlanetaryJobs(ws)) /\ TypedJob(J)
  BY ColumnForm DEF Reported, WorkspaceInv, Offers, Levels
<1> HIDE DEF J
<1>2. \A x, a : J.out = <<<<x, a>>>> => a \in Nat
  <2> SUFFICES ASSUME NEW x, NEW a, J.out = <<<<x, a>>>>  PROVE a \in Nat
    OBVIOUS
  <2>1. PICK y : \E b \in Nat : J.out = <<<<y, b>>>>
    BY <1>1 DEF TypedJob
  <2> QED  BY <2>1
<1>3. CASE J \in {Build(ws, 1, 222, 815), Build(ws, 2, 522, 715), Build(ws, 3, 1122, 415)}
  <2>1. PICK i : J.name = <<"Build", i>> /\ J.out = <<<<Facility(i), ws.settings.timeFrame>>>>
    BY <1>1, <1>3, BuildForm
  <2>2. n[1] # "Export" /\ Facility(i)[1] = "IndustryTime"
    BY <1>1, <2>1 DEF Facility
  <2> QED  BY <1>2, <2>1, <2>2 DEF J
<1>4. ASSUME NEW t, J \in {Import(ws, t), Export(ws, t)}
      PROVE  \E x : \E a \in Nat :
               /\ J.out = <<<<x, a>>>>
               /\ IF n[1] = "Export" THEN x = Item(n[3]) /\ a = 1
                  ELSE x[1] \in {"IndustryTime", "planetary"}
  <2>1. CASE J = Import(ws, t)
    <3>1. n[1] # "Export" /\ Planetary(t)[1] = "planetary" /\ J.out = <<<<Planetary(t), 1>>>>
      BY <1>1, <2>1, ImportForm DEF Planetary
    <3> QED  BY <1>2, <3>1
  <2>2. CASE J = Export(ws, t)
    <3>1. n[1] = "Export" /\ n[3] = t /\ J.out = <<<<Item(t), 1>>>>
      BY <1>1, <2>2, ExportForm
    <3> QED  BY <1>2, <3>1
  <2> QED  BY <1>4, <2>1, <2>2
<1>5. ASSUME NEW s, J = Process(ws, s)
      PROVE  \E x : \E a \in Nat :
               /\ J.out = <<<<x, a>>>>
               /\ IF n[1] = "Export" THEN x = Item(n[3]) /\ a = 1
                  ELSE x[1] \in {"IndustryTime", "planetary"}
  <2>1. n[1] # "Export" /\ Planetary(s.product)[1] = "planetary"
        /\ J.out = <<<<Planetary(s.product), s.quantity>>>>
    BY <1>1, <1>5, ProcessForm DEF Planetary
  <2> QED  BY <1>2, <2>1
<1> QED  BY <1>1, <1>3, <1>4, <1>5, PlanetaryForm DEF J

-----------------------------------------------------------------------------
(* What the columns make                                                   *)

\* What a column makes, by its name.
MadeBy(n, x, a) ==
  \/ n[1] \in Offers \ {"Export"} /\ x[1] \in {"IndustryTime", "planetary"}
  \/ n[1] = "Export" /\ x = Item(n[3]) /\ a = 1
  \/ n[1] = "Buy" /\ x = Item(n[2]) /\ a = 1
  \/ n[1] \in Levels /\ x = Item(n[4])
     /\ \E c \in Nodes(ws) : CanManufacture(ws, c) /\ MakesFirst(c, n[4]) /\ a = c.manufacturing.products[1].quantity
  \/ n[1] = "Research" /\ \E y : \E eff \in Range(bpes) : x = BPC(y, eff)
  \/ n[1] = "Copy" /\ \E c \in Nodes(ws) : n = <<"Copy", c.id>> /\ x = BPC(c.id, Plain) /\ a = Run

\* So every column gives one resource at most, the one its name says.
LEMMA ColumnMakes ==
  ASSUME Reported, NEW n \in DOMAIN columns
  PROVE  \/ n[1] = "Sell" /\ \A r : Makes(n, r) = 0
         \/ \E x : \E a \in Nat : MadeBy(n, x, a) /\ \A r : Makes(n, r) = IF x = r THEN a ELSE 0
<1> DEFINE out == columns[n].out
<1>1. \A x : \A a \in Nat : out = <<<<x, a>>>> => \A r : Makes(n, r) = IF x = r THEN a ELSE 0
  BY AmountOne DEF Makes
<1>2. out = <<>> => \A r : Makes(n, r) = 0
  BY AmountOne DEF Makes
<1> HIDE DEF out
<1>3. SUFFICES \/ n[1] = "Sell" /\ out = <<>>
               \/ \E x : \E a \in Nat : MadeBy(n, x, a) /\ out = <<<<x, a>>>>
  BY <1>1, <1>2
<1>4. CASE n[1] \in Offers
  <2>1. PICK x : \E a \in Nat :
           /\ out = <<<<x, a>>>>
           /\ IF n[1] = "Export" THEN x = Item(n[3]) /\ a = 1 ELSE x[1] \in {"IndustryTime", "planetary"}
    BY <1>4, OfferColumn DEF out
  <2> QED  BY <1>4, <2>1 DEF MadeBy
<1>5. CASE n[1] = "Buy"
  BY <1>5, TradeColumn DEF MadeBy, out
<1>6. CASE n[1] = "Sell"
  BY <1>6, TradeColumn DEF out
<1>7. CASE n[1] \in Levels
  <2>1. PICK c \in Nodes(ws) :
          /\ CanManufacture(ws, c) /\ MakesFirst(c, n[4]) /\ c.manufacturing.products[1].quantity \in Nat
          /\ out = <<<<Item(n[4]), c.manufacturing.products[1].quantity>>>>
    BY <1>7, ProductionColumn DEF out
  <2> QED  BY <1>7, <2>1 DEF MadeBy
<1>8. CASE n[1] = "Research"
  <2>1. PICK x : \E eff \in Range(bpes) : \E a \in Nat : out = <<<<BPC(x, eff), a>>>>
    BY <1>8, ResearchColumn DEF out
  <2>2. PICK eff \in Range(bpes) : \E a \in Nat : out = <<<<BPC(x, eff), a>>>>
    BY <2>1
  <2>3. \A a : MadeBy(n, BPC(x, eff), a)
    BY <1>8 DEF MadeBy
  <2> QED  BY <2>2, <2>3
<1>9. CASE n[1] = "Copy"
  <2>1. PICK c \in Nodes(ws) : n = <<"Copy", c.id>> /\ out = <<<<BPC(c.id, Plain), Run>>>>
    BY <1>9, CopyColumn DEF out
  <2>2. MadeBy(n, BPC(c.id, Plain), Run) /\ Run \in Nat
    BY <1>9, <2>1 DEF MadeBy, Run
  <2> QED  BY <2>1, <2>2
<1> QED  BY <1>4, <1>5, <1>6, <1>7, <1>8, <1>9, ColumnForm DEF Reported, WorkspaceInv

\* An invented copy is not a plain one.
LEMMA NotPlain ==
  ASSUME NEW eff \in Range(bpes)
  PROVE  eff # Plain
<1>1. PICK k \in DOMAIN bpes : eff = bpes[k]
  BY DEF Range
<1>2. k \in 1..8
  BY DEF bpes
<1>3. bpes[1][1] # 100 /\ bpes[2][2] # 100 /\ bpes[3][1] # 100 /\ bpes[4][1] # 100
      /\ bpes[5][1] # 100 /\ bpes[6][1] # 100 /\ bpes[7][1] # 100 /\ bpes[8][1] # 100
  BY DEF bpes
<1>4. Plain[1] = 100 /\ Plain[2] = 100
  BY DEF Plain
<1> QED  BY <1>1, <1>2, <1>3, <1>4

\* No column gives the time of an original or of a laboratory.
LEMMA MakesNoTime ==
  ASSUME Reported, NEW n \in DOMAIN columns, NEW r, r[1] \in {"bpo", "LabTime"}
  PROVE  Makes(n, r) = 0
BY ColumnMakes DEF MadeBy, Item, BPC

\* Plain copies are given by the column that copies the blueprint only, one
\* run each.
LEMMA MakesCopies ==
  ASSUME Reported, NEW n \in DOMAIN columns, NEW id
  PROVE  Makes(n, BPC(id, Plain)) = IF n = <<"Copy", id>> THEN Run ELSE 0
<1> DEFINE r == BPC(id, Plain)
<1>1. r[1] = "bpc" /\ r[2] = id /\ r[3] = Plain
  BY DEF BPC
<1>2. \A y, eff : BPC(y, eff)[1] = "bpc" /\ BPC(y, eff)[2] = y /\ BPC(y, eff)[3] = eff
  BY DEF BPC
<1>3. \A t : Item(t)[1] = "item"
  BY DEF Item
<1>4. n[1] = "Sell" => n # <<"Copy", id>>
  OBVIOUS
<1> HIDE DEF r
<1>5. ASSUME NEW x, NEW a \in Nat, MadeBy(n, x, a), Makes(n, r) = IF x = r THEN a ELSE 0
      PROVE  Makes(n, r) = IF n = <<"Copy", id>> THEN Run ELSE 0
  <2>1. CASE n[1] = "Copy"
    <3>1. PICK c \in Nodes(ws) : n = <<"Copy", c.id>> /\ x = BPC(c.id, Plain) /\ a = Run
      BY <1>5, <2>1 DEF MadeBy, Offers, Levels
    <3>2. x = r <=> c.id = id
      BY <1>1, <1>2, <3>1 DEF r
    <3>3. n = <<"Copy", id>> <=> c.id = id
      BY <3>1
    <3> QED  BY <1>5, <3>1, <3>2, <3>3
  <2>2. CASE n[1] # "Copy"
    <3>1. x # r
      BY <1>1, <1>2, <1>3, <1>5, <2>2, NotPlain DEF MadeBy
    <3>2. n # <<"Copy", id>>
      BY <2>2
    <3> QED  BY <1>5, <3>1, <3>2
  <2> QED  BY <2>1, <2>2
<1> QED  BY <1>4, <1>5, ColumnMakes DEF r

\* With one maker for every product, what two blueprints make first is the
\* same only if the blueprints are.
LEMMA FirstMaker ==
  ASSUME NEW w, TypedWs(w), OneMaker(Nodes(w)), NEW b \in Nodes(w), NEW c \in Nodes(w), NEW t,
         MakesFirst(b, t), MakesFirst(c, t)
  PROVE  b = c
<1> DEFINE made == ProductsOf(b.manufacturing)
<1>1. made # <<>> /\ made[1].type = t
  BY DEF MakesFirst
<1>2. IsList(made)
  <2>1. Defined(b.manufacturing, {"products"})
    BY <1>1 DEF ProductsOf
  <2> QED  BY <2>1, NodeTyped DEF ProductsOf, Defined, TypedActivity
<1> HIDE DEF made
<1>3. made[1] \in Range(made)
  BY <1>1, <1>2 DEF IsList
<1> QED  BY <1>1, <1>3 DEF OneMaker, made

\* The weights of the four kinds of columns that touch an item: those that
\* sell it,
Sold(t, n) == IF n[1] = "Sell" /\ n[2] = t THEN 1 ELSE 0

\* those that buy it,
Bought(t, n) == IF n[1] = "Buy" /\ n[2] = t THEN 1 ELSE 0

\* those that bring it from the planets,
Exported(t, n) == IF n[1] = "Export" /\ n[3] = t THEN 1 ELSE 0

\* and those that produce it, by the quantity of its one maker.
Yield(t, n) ==
  IF n[1] \in Levels /\ n[4] = t THEN MakerOf(t).manufacturing.products[1].quantity ELSE 0

\* An item is given by the columns that buy it, produce it or export it, and
\* no other.
LEMMA MakesItem ==
  ASSUME Reported, OneMaker(Nodes(ws)), NEW n \in DOMAIN columns, NEW t
  PROVE  /\ Yield(t, n) \in Nat
         /\ Makes(n, Item(t)) = Bought(t, n) + Yield(t, n) + Exported(t, n)
<1> DEFINE r == Item(t)
<1>1. \A u : Item(u)[1] = "item" /\ Item(u)[2] = u
  BY DEF Item
<1>2. \A y, eff : BPC(y, eff)[1] = "bpc"
  BY DEF BPC
<1>3. TypedWs(ws)
  BY DEF Reported
<1>4. ASSUME NEW c \in Nodes(ws), CanManufacture(ws, c), MakesFirst(c, t)  PROVE MakerOf(t) = c
  <2>1. \A b \in Nodes(ws) : MakesFirst(b, t) /\ CanManufacture(ws, b) => b = c
    BY <1>3, <1>4, FirstMaker
  <2> QED  BY <1>4, <2>1 DEF MakerOf
<1>5. ASSUME NEW x, NEW a \in Nat, MadeBy(n, x, a), Makes(n, r) = IF x = r THEN a ELSE 0
      PROVE  Yield(t, n) \in Nat /\ Makes(n, r) = Bought(t, n) + Yield(t, n) + Exported(t, n)
  <2>1. CASE n[1] \in Levels
    <3>1. PICK c \in Nodes(ws) :
            x = Item(n[4]) /\ CanManufacture(ws, c) /\ MakesFirst(c, n[4]) /\ a = c.manufacturing.products[1].quantity
      BY <1>5, <2>1 DEF MadeBy, Offers, Levels
    <3>2. Bought(t, n) = 0 /\ Exported(t, n) = 0
      BY <2>1 DEF Bought, Exported, Levels
    <3>3. CASE n[4] = t
      <4>1. MakerOf(t) = c
        BY <1>4, <3>1, <3>3
      <4> QED  BY <1>5, <2>1, <3>1, <3>2, <3>3, <4>1 DEF Yield
    <3>4. CASE n[4] # t
      <4>1. x # r /\ Yield(t, n) = 0
        BY <1>1, <3>1, <3>4 DEF Yield
      <4> QED  BY <1>5, <3>2, <4>1
    <3> QED  BY <3>3, <3>4
  <2>2. CASE n[1] \notin Levels
    <3>1. Yield(t, n) = 0
      BY <2>2 DEF Yield
    <3>2. CASE n[1] = "Export"
      BY <1>1, <1>5, <2>2, <3>1, <3>2 DEF MadeBy, Offers, Bought, Exported
    <3>3. CASE n[1] = "Buy"
      BY <1>1, <1>5, <2>2, <3>1, <3>3 DEF MadeBy, Offers, Bought, Exported
    <3>4. CASE n[1] \notin {"Export", "Buy"}
      <4>1. x # r
        BY <1>1, <1>2, <1>5, <2>2, <3>4 DEF MadeBy
      <4> QED  BY <1>5, <3>1, <3>4, <4>1 DEF Bought, Exported
    <3> QED  BY <3>2, <3>3, <3>4
  <2> QED  BY <2>1, <2>2
<1>6. ASSUME n[1] = "Sell", Makes(n, r) = 0
      PROVE  Yield(t, n) \in Nat /\ Makes(n, r) = Bought(t, n) + Yield(t, n) + Exported(t, n)
  BY <1>6 DEF Yield, Bought, Exported, Levels
<1> QED  BY <1>5, <1>6, ColumnMakes

-----------------------------------------------------------------------------
(* What a column takes is made by others                                   *)

\* What is in the plan is a column, used so many times.
LEMMA UsedColumns ==
  ASSUME Reported
  PROVE  \A n \in Used(plan) : n \in DOMAIN columns /\ plan[n] \in Nat
BY DEF Reported, Used

\* The runs of plain copies the jobs use are copied or owned.
LEMMA CopiesCovered ==
  ASSUME Reported, OneMaker(Nodes(ws))
  PROVE  CopiesSuffice
<1> SUFFICES ASSUME NEW b \in Nodes(ws)
             PROVE  Units(LAMBDA n : n[1] = "T1" /\ n[2] = "BPC" /\ MakesFirst(b, n[4]), One)
                      + Units(LAMBDA n : n[1] = "Research" /\ n[2] = b.id /\ ~Sleeper(b), One)
                    <= RunsOf(ws, OwnedBPCs(ws, b.id)) + Units(LAMBDA n : n = <<"Copy", b.id>>, One)
  BY Zenon DEF CopiesSuffice
<1> DEFINE U == Used(plan)
           P(n) == n[1] = "T1" /\ n[2] = "BPC" /\ MakesFirst(b, n[4])
           Q(n) == n[1] = "Research" /\ n[2] = b.id /\ ~Sleeper(b)
           R(n) == n = <<"Copy", b.id>>
           f == [n \in U |-> IF P(n) THEN plan[n] * One(n) ELSE 0]
           g == [n \in U |-> IF Q(n) THEN plan[n] * One(n) ELSE 0]
           h == [n \in U |-> IF R(n) THEN plan[n] * One(n) ELSE 0]
           u == [n \in U |-> IF P(n) THEN 1 ELSE 0]
           v == [n \in U |-> IF Q(n) THEN 1 ELSE 0]
           m == [n \in U |-> IF R(n) THEN 1 ELSE 0]
           s == [n \in U |-> u[n] + v[n]]
           r == BPC(b.id, Plain)
           t == Runs(ws, b.id, Plain)
           have == RunsOf(ws, OwnedBPCs(ws, b.id))
<1>1. /\ Units(LAMBDA n : n[1] = "T1" /\ n[2] = "BPC" /\ MakesFirst(b, n[4]), One) = Sum(f)
      /\ Units(LAMBDA n : n[1] = "Research" /\ n[2] = b.id /\ ~Sleeper(b), One) = Sum(g)
      /\ Units(LAMBDA n : n = <<"Copy", b.id>>, One) = Sum(h)
  BY DEF Units
<1>2. SUFFICES Sum(f) + Sum(g) <= have + Sum(h)
  BY <1>1, Zenon
<1>3. \A n \in U : n \in DOMAIN columns /\ plan[n] \in Nat
  BY UsedColumns
<1>4. TypedWs(ws)
  BY DEF Reported
<1>5. t \in Nat /\ have \in Nat /\ t <= have /\ Stock(ws, r) = Run * t
  <2>1. t \in Nat /\ have \in Nat /\ t <= have
    BY <1>4, RunsTyped DEF Runs
  <2>2. r[1] = "bpc" /\ r[2] = b.id /\ r[3] = Plain
    BY DEF BPC
  <2>3. Stock(ws, r) = Run * Runs(ws, r[2], r[3])
    BY <2>2, StockForm
  <2> QED  BY <2>1, <2>2, <2>3
<1>6. ASSUME NEW n \in U  PROVE Run * s[n] <= Takes(n, r) /\ Makes(n, r) <= Run * m[n]
  <2>1. n \in DOMAIN columns /\ Takes(n, r) \in Nat /\ Run \in Nat
    BY <1>3 DEF Reported, Run
  <2>2. CASE P(n)
    <3>1. PICK c \in Nodes(ws) : MakesFirst(c, n[4]) /\ Run <= Takes(n, BPC(c.id, Plain))
      BY <2>1, <2>2, ProductionColumn DEF Levels
    <3>2. c = b
      BY <1>4, <2>2, <3>1, FirstMaker
    <3>3. ~Q(n) /\ s[n] = 1
      BY <2>2
    <3>4. Run <= Takes(n, r)
      BY <3>1, <3>2
    <3>5. Makes(n, r) = 0 /\ m[n] = 0
      BY <2>1, <2>2, MakesCopies
    <3> HIDE DEF s, m, r
    <3> QED  BY <2>1, <3>3, <3>4, <3>5
  <2>3. CASE Q(n)
    <3>1. PICK c \in Nodes(ws) : c.id = n[2] /\ (~Sleeper(c) => Run <= Takes(n, BPC(c.id, Plain)))
      BY <2>1, <2>3, ResearchColumn
    <3>2. c = b
      BY <1>4, <2>3, <3>1, NodesById
    <3>3. ~P(n) /\ s[n] = 1
      BY <2>3
    <3>4. Run <= Takes(n, r)
      BY <2>3, <3>1, <3>2
    <3>5. Makes(n, r) = 0 /\ m[n] = 0
      BY <2>1, <2>3, MakesCopies
    <3> HIDE DEF s, m, r
    <3> QED  BY <2>1, <3>3, <3>4, <3>5
  <2>4. CASE ~P(n) /\ ~Q(n)
    <3>1. s[n] = 0 /\ m[n] = IF R(n) THEN 1 ELSE 0
      BY <2>4
    <3>2. Makes(n, r) = IF R(n) THEN Run ELSE 0
      BY <2>1, MakesCopies
    <3> HIDE DEF s, m, r, R
    <3> QED  BY <2>1, <3>1, <3>2
  <2> QED  BY <2>2, <2>3, <2>4
<1>7. \A n \in U : /\ u[n] \in Nat /\ v[n] \in Nat /\ m[n] \in Nat /\ s[n] \in Nat /\ s[n] = u[n] + v[n]
                   /\ f[n] = plan[n] * u[n] /\ g[n] = plan[n] * v[n] /\ h[n] = plan[n] * m[n]
  BY <1>3 DEF One
<1>8. DOMAIN f = U /\ DOMAIN g = U /\ DOMAIN h = U /\ Run \in Nat \ {0}
  BY DEF Run
<1> HIDE DEF f, g, h, u, v, m, s, r, t, have, P, Q, R
<1>9. Sum(f) = Weighted(u) /\ Sum(g) = Weighted(v) /\ Sum(h) = Weighted(m) /\ Weighted(s) = Weighted(u) + Weighted(v)
  BY <1>7, <1>8, Tallied, WeightedAdd
<1>10. Weighted(s) <= t + Weighted(m) /\ Weighted(m) \in Nat /\ Weighted(s) \in Nat
  <2>1. \A n \in Used(plan) : /\ s[n] \in Nat /\ m[n] \in Nat
                               /\ Run * s[n] <= Takes(n, r) /\ Makes(n, r) <= Run * m[n]
    BY <1>6, <1>7
  <2> QED  BY <1>5, <1>8, <2>1, Covered
<1> QED  BY <1>5, <1>9, <1>10

\* What is sold is bought, produced, exported or owned.
LEMMA SoldCovered ==
  ASSUME Reported, OneMaker(Nodes(ws))
  PROVE  SoldIsHad
<1> SUFFICES ASSUME NEW x \in {o.type : o \in Range(market.buy)}
             PROVE  Units(LAMBDA n : n[1] = "Sell" /\ n[2] = x, One)
                    <= countAsset(ws, x) + Units(LAMBDA n : n[1] = "Buy" /\ n[2] = x, One)
                       + Units(LAMBDA n : n[1] \in Levels /\ n[4] = x,
                               LAMBDA n : MakerOf(x).manufacturing.products[1].quantity)
                       + Units(LAMBDA n : n[1] = "Export" /\ n[3] = x, One)
  BY DEF SoldIsHad
<1> DEFINE U == Used(plan)
           quantity == MakerOf(x).manufacturing.products[1].quantity
           e == [n \in U |-> IF n[1] = "Sell" /\ n[2] = x THEN plan[n] * One(n) ELSE 0]
           f == [n \in U |-> IF n[1] = "Buy" /\ n[2] = x THEN plan[n] * One(n) ELSE 0]
           g == [n \in U |-> IF n[1] \in Levels /\ n[4] = x THEN plan[n] * quantity ELSE 0]
           h == [n \in U |-> IF n[1] = "Export" /\ n[3] = x THEN plan[n] * One(n) ELSE 0]
           sold == [n \in U |-> Sold(x, n)]
           bought == [n \in U |-> Bought(x, n)]
           made == [n \in U |-> Yield(x, n)]
           exported == [n \in U |-> Exported(x, n)]
           two == [n \in U |-> bought[n] + made[n]]
           three == [n \in U |-> two[n] + exported[n]]
           r == Item(x)
           t == countAsset(ws, x)
<1>1. /\ Units(LAMBDA n : n[1] = "Sell" /\ n[2] = x, One) = Sum(e)
      /\ Units(LAMBDA n : n[1] = "Buy" /\ n[2] = x, One) = Sum(f)
      /\ Units(LAMBDA n : n[1] \in Levels /\ n[4] = x,
               LAMBDA n : MakerOf(x).manufacturing.products[1].quantity) = Sum(g)
      /\ Units(LAMBDA n : n[1] = "Export" /\ n[3] = x, One) = Sum(h)
  BY DEF Units
<1>2. SUFFICES Sum(e) <= t + Sum(f) + Sum(g) + Sum(h)
  BY <1>1, Zenon
<1>3. \A n \in U : n \in DOMAIN columns /\ plan[n] \in Nat
  BY UsedColumns
<1>4. t \in Nat /\ Stock(ws, r) = t
  <2>1. r[1] = "item" /\ r[2] = x
    BY DEF Item
  <2>2. Stock(ws, r) = countAsset(ws, r[2])
    BY <2>1, StockForm
  <2> QED  BY <2>1, <2>2, AssetsTyped DEF Reported
<1>5. \A n \in U : /\ sold[n] \in Nat /\ bought[n] \in Nat /\ exported[n] \in Nat
                   /\ e[n] = plan[n] * sold[n] /\ f[n] = plan[n] * bought[n] /\ h[n] = plan[n] * exported[n]
  BY <1>3 DEF One, Sold, Bought, Exported
<1>6. \A n \in U : made[n] \in Nat /\ Makes(n, r) = bought[n] + made[n] + exported[n]
  BY <1>3, MakesItem
<1>7. \A n \in U : g[n] = plan[n] * made[n]
  <2> HIDE DEF quantity
  <2>1. \A n \in U : plan[n] * 0 = 0
    BY <1>3
  <2> QED  BY <2>1 DEF Yield, quantity
<1>8. \A n \in U : Sold(x, n) <= Takes(n, r)
  <2>1. \A n \in U : Takes(n, r) \in Nat
    BY <1>3 DEF Reported
  <2>2. \A n \in U : n[1] = "Sell" /\ n[2] = x => 1 <= Takes(n, r)
    BY <1>3, TradeColumn
  <2> HIDE DEF r
  <2> QED  BY <2>1, <2>2 DEF Sold
<1>9. \A n \in U : two[n] = bought[n] + made[n] /\ three[n] = two[n] + exported[n] /\ sold[n] = Sold(x, n)
  OBVIOUS
<1>10. DOMAIN e = U /\ DOMAIN f = U /\ DOMAIN g = U /\ DOMAIN h = U
  OBVIOUS
<1> HIDE DEF e, f, g, h, sold, bought, made, exported, two, three, r, t, quantity
<1>11. \A n \in U : two[n] \in Nat /\ three[n] \in Nat /\ Makes(n, r) = three[n]
  BY <1>5, <1>6, <1>9
<1>12. /\ Sum(e) = Weighted(sold) /\ Sum(f) = Weighted(bought) /\ Sum(g) = Weighted(made)
       /\ Sum(h) = Weighted(exported)
       /\ Weighted(bought) \in Nat /\ Weighted(made) \in Nat /\ Weighted(exported) \in Nat
  BY <1>5, <1>6, <1>7, <1>10, Tallied
<1>13. Weighted(two) = Weighted(bought) + Weighted(made)
  BY <1>5, <1>6, <1>9, WeightedAdd
<1>14. Weighted(three) = Weighted(two) + Weighted(exported)
  BY <1>5, <1>9, <1>11, WeightedAdd
<1>15. Weighted(sold) <= t + Weighted(three) /\ Weighted(sold) \in Nat
  <2>1. \A n \in Used(plan) : /\ sold[n] \in Nat /\ three[n] \in Nat
                              /\ 1 * sold[n] <= Takes(n, r) /\ Makes(n, r) <= 1 * three[n]
    BY <1>5, <1>8, <1>9, <1>11
  <2>2. Stock(ws, r) = 1 * t /\ 1 \in Nat \ {0}
    BY <1>4
  <2> QED  BY <1>4, <2>1, <2>2, Covered
<1> QED  BY <1>4, <1>12, <1>13, <1>14, <1>15

\* The blueprint of a type is found by it.
LEMMA NodeOfId ==
  ASSUME TypedWs(ws), NEW c \in Nodes(ws)
  PROVE  NodeOf(c.id) = c
<1>1. \A b \in Nodes(ws) : b.id = c.id => b = c
  BY NodesById
<1> QED  BY <1>1 DEF NodeOf

\* The jobs in the laboratories take no more time than the user's
\* laboratories have.
LEMMA LabsCovered ==
  ASSUME Reported
  PROVE  Units(LAMBDA n : n[1] = "Copy", LAMBDA n : NodeOf(n[2]).copying.time)
           + Units(LAMBDA n : n[1] = "Research", LAMBDA n : NodeOf(n[2]).invention.time)
         <= W.settings.timeFrame * Labs(ws)
<1> DEFINE U == Used(plan)
           f == [n \in U |-> IF n[1] = "Copy" THEN plan[n] * NodeOf(n[2]).copying.time ELSE 0]
           g == [n \in U |-> IF n[1] = "Research" THEN plan[n] * NodeOf(n[2]).invention.time ELSE 0]
           u == [n \in U |-> IF n[1] = "Copy" THEN NodeOf(n[2]).copying.time ELSE 0]
           v == [n \in U |-> IF n[1] = "Research" THEN NodeOf(n[2]).invention.time ELSE 0]
           s == [n \in U |-> u[n] + v[n]]
           z == [n \in U |-> 0]
           t == W.settings.timeFrame * Labs(ws)
<1>1. /\ Units(LAMBDA n : n[1] = "Copy", LAMBDA n : NodeOf(n[2]).copying.time) = Sum(f)
      /\ Units(LAMBDA n : n[1] = "Research", LAMBDA n : NodeOf(n[2]).invention.time) = Sum(g)
  BY DEF Units
<1>2. SUFFICES Sum(f) + Sum(g) <= t
  BY <1>1, Zenon
<1>3. \A n \in U : n \in DOMAIN columns /\ plan[n] \in Nat
  BY UsedColumns
<1>4. TypedWs(ws)
  BY DEF Reported
<1>5. t \in Nat /\ Stock(ws, LabTime) = 100 * t
  <2>1. W.settings.timeFrame \in Nat /\ ws.settings = W.settings
    BY <1>4 DEF TypedWs, ws
  <2>2. Labs(ws) \in Nat
    BY <1>4, SlotsTyped
  <2>3. Stock(ws, LabTime) = 100 * ws.settings.timeFrame * Labs(ws)
    BY StockForm
  <2>4. \A a, b \in Nat : 100 * a * b = 100 * (a * b) /\ a * b \in Nat
    OBVIOUS
  <2> QED  BY <2>1, <2>2, <2>3, <2>4
<1>6. ASSUME NEW n \in U
      PROVE  u[n] \in Nat /\ v[n] \in Nat /\ 100 * s[n] <= Takes(n, LabTime)
  <2>1. n \in DOMAIN columns /\ Takes(n, LabTime) \in Nat
    BY <1>3 DEF Reported
  <2>2. CASE n[1] = "Copy"
    <3>1. PICK c \in Nodes(ws) :
            n = <<"Copy", c.id>> /\ c.copying.time \in Nat /\ 100 * c.copying.time <= Takes(n, LabTime)
      BY <2>1, <2>2, CopyColumn
    <3>2. u[n] = c.copying.time /\ v[n] = 0
      BY <1>4, <2>2, <3>1, NodeOfId
    <3>3. s[n] = u[n] + v[n]
      OBVIOUS
    <3> HIDE DEF u, v, s
    <3> QED  BY <3>1, <3>2, <3>3
  <2>3. CASE n[1] = "Research"
    <3>1. PICK c \in Nodes(ws) :
            c.id = n[2] /\ c.invention.time \in Nat /\ 100 * c.invention.time <= Takes(n, LabTime)
      BY <2>1, <2>3, ResearchColumn
    <3>2. u[n] = 0 /\ v[n] = c.invention.time
      BY <1>4, <2>3, <3>1, NodeOfId
    <3>3. s[n] = u[n] + v[n]
      OBVIOUS
    <3> HIDE DEF u, v, s
    <3> QED  BY <3>1, <3>2, <3>3
  <2>4. CASE n[1] \notin {"Copy", "Research"}
    <3>1. u[n] = 0 /\ v[n] = 0 /\ s[n] = u[n] + v[n]
      BY <2>4
    <3> HIDE DEF u, v, s
    <3> QED  BY <2>1, <3>1
  <2> QED  BY <2>2, <2>3, <2>4
<1>7. \A n \in U : Makes(n, LabTime) = 0
  <2>1. LabTime[1] = "LabTime"
    BY DEF LabTime
  <2> QED  BY <1>3, <2>1, MakesNoTime
<1>8. \A n \in U : /\ (n[1] = "Copy" => f[n] = plan[n] * u[n]) /\ (n[1] # "Copy" => f[n] = 0 /\ u[n] = 0)
                   /\ (n[1] = "Research" => g[n] = plan[n] * v[n]) /\ (n[1] # "Research" => g[n] = 0 /\ v[n] = 0)
                   /\ s[n] = u[n] + v[n] /\ z[n] = 0
  OBVIOUS
<1>9. DOMAIN f = U /\ DOMAIN g = U
  OBVIOUS
<1> HIDE DEF f, g, u, v, s, z, t
<1>10. \A n \in U : f[n] = plan[n] * u[n] /\ g[n] = plan[n] * v[n]
  <2>1. \A n \in U : plan[n] * 0 = 0
    BY <1>3
  <2> QED  BY <1>8, <2>1
<1>11. Sum(f) = Weighted(u) /\ Sum(g) = Weighted(v) /\ Weighted(s) = Weighted(u) + Weighted(v)
  BY <1>6, <1>8, <1>9, <1>10, Tallied, WeightedAdd
<1>12. Weighted(s) <= t + Weighted(z) /\ Weighted(s) \in Nat /\ Weighted(z) \in Nat
  <2>1. t \in Nat /\ Stock(ws, LabTime) = 100 * t
    BY <1>5
  <2>2. \A n \in Used(plan) : /\ s[n] \in Nat /\ z[n] \in Nat
                              /\ 100 * s[n] <= Takes(n, LabTime) /\ Makes(n, LabTime) <= 100 * z[n]
    BY <1>6, <1>7, <1>8
  <2>3. PICK c \in Nat \ {0} : c = 100
    OBVIOUS
  <2>4. Stock(ws, LabTime) = c * t
    BY <2>1, <2>3
  <2>5. \A n \in Used(plan) : /\ s[n] \in Nat /\ z[n] \in Nat
                              /\ c * s[n] <= Takes(n, LabTime) /\ Makes(n, LabTime) <= c * z[n]
    BY <2>2, <2>3
  <2> QED  BY <2>1, <2>4, <2>5, Covered
<1>13. Weighted(z) = 0
  <2> DEFINE nothing == [n \in Used(plan) |-> plan[n] * z[n]]
  <2>1. \A n \in Used(plan) : nothing[n] = 0
    BY <1>3, <1>8
  <2>2. Weighted(z) = SumFunctionOnSet(nothing, Used(plan))
    BY DEF Weighted
  <2> HIDE DEF nothing
  <2> QED  BY <2>1, <2>2, SumZero DEF Reported
<1> QED  BY <1>5, <1>11, <1>12, <1>13

\* The copying and the production from an original take no more time than it
\* has.
LEMMA OriginalsCovered ==
  ASSUME Reported, OneMaker(Nodes(ws)), NEW b \in Nodes(ws)
  PROVE  Units(LAMBDA n : n = <<"Copy", b.id>>, LAMBDA n : b.copying.time)
           + Units(LAMBDA n : n[1] = "T1" /\ n[2] = "BPO" /\ MakesFirst(b, n[4]),
                   LAMBDA n : b.manufacturing.time)
         <= W.settings.timeFrame
<1> DEFINE U == Used(plan)
           P(n) == n = <<"Copy", b.id>>
           Q(n) == n[1] = "T1" /\ n[2] = "BPO" /\ MakesFirst(b, n[4])
           f == [n \in U |-> IF P(n) THEN plan[n] * b.copying.time ELSE 0]
           g == [n \in U |-> IF Q(n) THEN plan[n] * b.manufacturing.time ELSE 0]
           u == [n \in U |-> IF P(n) THEN b.copying.time ELSE 0]
           v == [n \in U |-> IF Q(n) THEN b.manufacturing.time ELSE 0]
           s == [n \in U |-> u[n] + v[n]]
           z == [n \in U |-> 0]
           t == W.settings.timeFrame
           r == BPO(b.id)
<1>1. /\ Units(LAMBDA n : n = <<"Copy", b.id>>, LAMBDA n : b.copying.time) = Sum(f)
      /\ Units(LAMBDA n : n[1] = "T1" /\ n[2] = "BPO" /\ MakesFirst(b, n[4]),
               LAMBDA n : b.manufacturing.time) = Sum(g)
  BY DEF Units
<1>2. SUFFICES Sum(f) + Sum(g) <= t
  BY <1>1, Zenon
<1>3. \A n \in U : n \in DOMAIN columns /\ plan[n] \in Nat
  BY UsedColumns
<1>4. TypedWs(ws)
  BY DEF Reported
<1>5. r[1] = "bpo" /\ t \in Nat /\ Stock(ws, r) = 100 * t
  <2>1. W.settings.timeFrame \in Nat /\ ws.settings = W.settings
    BY <1>4 DEF TypedWs, ws
  <2>2. r[1] = "bpo"
    BY DEF BPO
  <2>3. Stock(ws, r) = 100 * ws.settings.timeFrame
    BY <2>2, StockForm
  <2> QED  BY <2>1, <2>2, <2>3
<1>6. ASSUME NEW n \in U
      PROVE  u[n] \in Nat /\ v[n] \in Nat /\ 100 * s[n] <= Takes(n, r)
  <2>1. n \in DOMAIN columns /\ Takes(n, r) \in Nat
    BY <1>3 DEF Reported
  <2>2. s[n] = u[n] + v[n] /\ u[n] = (IF P(n) THEN b.copying.time ELSE 0)
        /\ v[n] = (IF Q(n) THEN b.manufacturing.time ELSE 0)
    OBVIOUS
  <2>3. P(n) => ~Q(n) /\ b.copying.time \in Nat /\ 100 * b.copying.time <= Takes(n, r)
    <3> HAVE P(n)
    <3>1. n[1] = "Copy" /\ n[2] = b.id
      OBVIOUS
    <3>2. PICK c \in Nodes(ws) :
            n = <<"Copy", c.id>> /\ c.copying.time \in Nat /\ 100 * c.copying.time <= Takes(n, BPO(c.id))
      BY <2>1, <3>1, CopyColumn
    <3>3. c = b
      BY <1>4, <3>1, <3>2, NodesById
    <3> QED  BY <3>1, <3>2, <3>3
  <2>4. Q(n) => b.manufacturing.time \in Nat /\ 100 * b.manufacturing.time <= Takes(n, r)
    <3> HAVE Q(n)
    <3>1. PICK c \in Nodes(ws) :
            /\ MakesFirst(c, n[4]) /\ c.manufacturing.time \in Nat
            /\ n[1] = "T1" /\ n[2] = "BPO" => 100 * c.manufacturing.time <= Takes(n, BPO(c.id))
      BY <2>1, ProductionColumn DEF Levels
    <3>2. c = b
      BY <1>4, <3>1, FirstMaker
    <3> QED  BY <3>1, <3>2
  <2> HIDE DEF u, v, s, P, Q, r
  <2>5. CASE P(n)
    BY <2>2, <2>3, <2>5
  <2>6. CASE Q(n)
    BY <2>2, <2>3, <2>4, <2>6
  <2>7. CASE ~P(n) /\ ~Q(n)
    BY <2>1, <2>2, <2>7
  <2> QED  BY <2>5, <2>6, <2>7
<1>7. \A n \in U : Makes(n, r) = 0
  BY <1>3, <1>5, MakesNoTime
<1>8. \A n \in U : /\ (P(n) => f[n] = plan[n] * u[n]) /\ (~P(n) => f[n] = 0 /\ u[n] = 0)
                   /\ (Q(n) => g[n] = plan[n] * v[n]) /\ (~Q(n) => g[n] = 0 /\ v[n] = 0)
                   /\ s[n] = u[n] + v[n] /\ z[n] = 0
  OBVIOUS
<1>9. DOMAIN f = U /\ DOMAIN g = U
  OBVIOUS
<1> HIDE DEF f, g, u, v, s, z, t, r, P, Q
<1>10. \A n \in U : f[n] = plan[n] * u[n] /\ g[n] = plan[n] * v[n]
  <2>1. \A n \in U : plan[n] * 0 = 0
    BY <1>3
  <2> QED  BY <1>8, <2>1
<1>11. Sum(f) = Weighted(u) /\ Sum(g) = Weighted(v) /\ Weighted(s) = Weighted(u) + Weighted(v)
  BY <1>6, <1>8, <1>9, <1>10, Tallied, WeightedAdd
<1>12. Weighted(s) <= t + Weighted(z) /\ Weighted(s) \in Nat /\ Weighted(z) \in Nat
  <2>1. PICK c \in Nat \ {0} : c = 100
    OBVIOUS
  <2>2. t \in Nat /\ Stock(ws, r) = c * t
    BY <1>5, <2>1
  <2>3. \A n \in Used(plan) : /\ s[n] \in Nat /\ z[n] \in Nat
                              /\ c * s[n] <= Takes(n, r) /\ Makes(n, r) <= c * z[n]
    BY <1>6, <1>7, <1>8, <2>1
  <2> QED  BY <2>2, <2>3, Covered
<1>13. Weighted(z) = 0
  <2> DEFINE nothing == [n \in Used(plan) |-> plan[n] * z[n]]
  <2>1. \A n \in Used(plan) : nothing[n] = 0
    BY <1>3, <1>8
  <2>2. Weighted(z) = SumFunctionOnSet(nothing, Used(plan))
    BY DEF Weighted
  <2> HIDE DEF nothing
  <2> QED  BY <2>1, <2>2, SumZero DEF Reported
<1> QED  BY <1>5, <1>11, <1>12, <1>13

-----------------------------------------------------------------------------
(* The money                                                               *)

\* A job that buys comes from the sell order at some position.
LEMMA BuyPlace ==
  ASSUME NEW w, NEW J \in Range(MarketJobs(w)), J # Thrown, J.name[1] = "Buy"
  PROVE  \E j \in DOMAIN w.sell :
           J = Buy(w, w.sell[j]) /\ checkItem(w, w.sell[j].type) /\ ~isBP(w, w.sell[j].type)
<1> DEFINE buys == Map(LAMBDA o : IF checkItem(w, o.type) THEN Buy(w, o) ELSE Thrown, Tradable(w, w.sell))
           sells == Map(LAMBDA o : IF checkItem(w, o.type) THEN Sell(w, o) ELSE Thrown, Tradable(w, w.buy))
<1>1. ASSUME J \in Range(buys)
      PROVE  \E j \in DOMAIN w.sell :
               J = Buy(w, w.sell[j]) /\ checkItem(w, w.sell[j].type) /\ ~isBP(w, w.sell[j].type)
  BY <1>1 DEF Range, Map, Tradable, RestrictValues, Restrict
<1>2. ASSUME J \in Range(sells)  PROVE FALSE
  <2>1. PICK o : J = Sell(w, o)
    BY <1>2 DEF Range, Map, Tradable, RestrictValues, Restrict
  <2>2. J.name = <<"Sell", o.type, o.id>>
    BY <2>1, SellForm
  <2> QED  BY <2>2
<1>3. MarketJobs(w) = Together(<<buys, sells>>)
  BY DEF MarketJobs
<1> HIDE DEF buys, sells
<1>4. \E i \in DOMAIN <<buys, sells>> : J \in Range(<<buys, sells>>[i])
  BY <1>3, RangeTogether
<1> QED  BY <1>1, <1>2, <1>4

\* And the sell order at a position, if it is neither a blueprint nor
\* unknown, has its job.
LEMMA BuyAt ==
  ASSUME NEW w, NEW i \in DOMAIN w.sell, checkItem(w, w.sell[i].type), ~isBP(w, w.sell[i].type)
  PROVE  <<1, i>> \in DOMAIN MarketJobs(w) /\ MarketJobs(w)[<<1, i>>] = Buy(w, w.sell[i])
<1> DEFINE buys == Map(LAMBDA o : IF checkItem(w, o.type) THEN Buy(w, o) ELSE Thrown, Tradable(w, w.sell))
           sells == Map(LAMBDA o : IF checkItem(w, o.type) THEN Sell(w, o) ELSE Thrown, Tradable(w, w.buy))
<1>1. i \in DOMAIN buys /\ buys[i] = Buy(w, w.sell[i])
  BY DEF Map, Tradable, RestrictValues, Restrict
<1>2. MarketJobs(w) = Together(<<buys, sells>>)
  BY DEF MarketJobs
<1> HIDE DEF buys, sells
<1> DEFINE lists == <<buys, sells>>
<1>3. 1 \in DOMAIN lists /\ lists[1] = buys
  OBVIOUS
<1> HIDE DEF lists
<1>4. <<1, i>> \in DOMAIN Together(lists) /\ Together(lists)[<<1, i>>] = buys[i]
  BY <1>1, <1>3 DEF Together
<1> QED  BY <1>1, <1>2, <1>4 DEF lists

\* The column of the order at a position, and the units of it in the plan.
BuyName(i) == <<"Buy", market.sell[i].type, market.sell[i].id>>

\* How much of it the plan buys.
Filled(i) == IF BuyName(i) \in Used(plan) THEN plan[BuyName(i)] ELSE 0

\* The column of a sell order is the one of that order and no other.
LEMMA BuyColumn ==
  ASSUME Reported, NEW i \in DOMAIN market.sell, BuyName(i) \in DOMAIN columns
  PROVE  /\ columns[BuyName(i)] = Buy(ws, market.sell[i]) /\ Buy(ws, market.sell[i]) # Thrown
         /\ \A j \in DOMAIN market.sell : BuyName(i) = BuyName(j) => i = j
<1> DEFINE n == BuyName(i)
           o == market.sell[i]
<1>1. ws.sell = market.sell
  BY DEF ws
<1>2. ColumnsInv /\ HasColumns(MarketJobs(ws))
  BY DEF Reported, WorkspaceInv, ColumnsInv, FeedSteps, Since, Planning, JobsAt
<1>3. n[1] = "Buy" /\ n[2] = o.type /\ n[3] = o.id
  BY DEF BuyName
<1>4. columns[n] # Thrown /\ columns[n].name = n /\ columns[n] \in Range(MarketJobs(ws))
  BY <1>2, <1>3, ColumnForm DEF Offers, Levels
<1>5. PICK j \in DOMAIN market.sell :
        /\ columns[n] = Buy(ws, market.sell[j])
        /\ checkItem(ws, market.sell[j].type) /\ ~isBP(ws, market.sell[j].type)
  BY <1>1, <1>3, <1>4, BuyPlace
<1>6. market.sell[j].type = o.type
  <2>1. n = <<"Buy", market.sell[j].type, market.sell[j].id>>
    BY <1>4, <1>5, BuyForm
  <2> QED  BY <1>3, <2>1
<1>7. \A k \in DOMAIN market.sell : market.sell[k].type = o.type =>
        <<1, k>> \in DOMAIN MarketJobs(ws) /\ MarketJobs(ws)[<<1, k>>] = Buy(ws, market.sell[k])
  BY <1>1, <1>5, <1>6, BuyAt
<1>8. \A k \in DOMAIN market.sell : market.sell[k].type = o.type =>
        HasColumn(Buy(ws, market.sell[k])) /\ Buy(ws, market.sell[k]).name = BuyName(k)
  <2> SUFFICES ASSUME NEW k \in DOMAIN market.sell, market.sell[k].type = o.type
               PROVE  HasColumn(Buy(ws, market.sell[k])) /\ Buy(ws, market.sell[k]).name = BuyName(k)
    OBVIOUS
  <2>1. HasColumn(Buy(ws, market.sell[k]))
    BY <1>2, <1>7 DEF HasColumns
  <2> QED  BY <2>1, BuyForm DEF HasColumn, BuyName
<1>9. columns[n] = Buy(ws, o) /\ Buy(ws, o) # Thrown
  BY <1>8 DEF HasColumn
<1>10. ASSUME NEW k \in DOMAIN market.sell, BuyName(i) = BuyName(k)  PROVE i = k
  <2>1. market.sell[k].type = o.type
    BY <1>3, <1>10 DEF BuyName
  <2>2. <<1, i>> = <<1, k>>
    BY <1>2, <1>7, <1>8, <1>10, <2>1 DEF HasColumns
  <2> QED  BY <2>2
<1> QED  BY <1>9, <1>10

\* The units bought from an order are those the plan gives its column.
LEMMA FilledUnits ==
  ASSUME Reported, NEW i \in DOMAIN market.sell
  PROVE  /\ Filled(i) \in Nat
         /\ Units(LAMBDA n : n = <<"Buy", market.sell[i].type, market.sell[i].id>>, One) = Filled(i)
<1> DEFINE f == [n \in Used(plan) |-> IF n = BuyName(i) THEN plan[n] * One(n) ELSE 0]
<1>1. Units(LAMBDA n : n = <<"Buy", market.sell[i].type, market.sell[i].id>>, One) = Sum(f)
  BY DEF Units, BuyName
<1>2. SUFFICES Filled(i) \in Nat /\ Sum(f) = Filled(i)
  BY <1>1, Zenon
<1>3. DOMAIN f = Used(plan)
  OBVIOUS
<1>4. \A n \in Used(plan) : plan[n] \in Nat
  BY UsedColumns
<1>5. \A n \in Used(plan) : f[n] = IF n = BuyName(i) THEN plan[n] ELSE 0
  BY <1>4 DEF One
<1> HIDE DEF f
<1>6. Sum(f) = SumFunctionOnSet(f, Used(plan)) /\ IsFiniteSet(Used(plan))
  BY <1>3 DEF Sum, SumFunction, Reported
<1>7. CASE BuyName(i) \in Used(plan)
  <2>1. f[BuyName(i)] = plan[BuyName(i)] /\ plan[BuyName(i)] \in Nat
        /\ \A n \in Used(plan) \ {BuyName(i)} : f[n] = 0
    BY <1>4, <1>5, <1>7
  <2>2. f[BuyName(i)] \in Int
    BY <2>1
  <2>3. SumFunctionOnSet(f, Used(plan)) = f[BuyName(i)]
    BY <1>6, <1>7, <2>1, <2>2, SumSingle
  <2> QED  BY <1>6, <1>7, <2>1, <2>3 DEF Filled
<1>8. CASE BuyName(i) \notin Used(plan)
  <2>1. \A n \in Used(plan) : f[n] = 0
    BY <1>5, <1>8
  <2>2. SumFunctionOnSet(f, Used(plan)) = 0
    BY <1>6, <2>1, SumZero
  <2> QED  BY <1>6, <1>8, <2>2 DEF Filled
<1> QED  BY <1>7, <1>8

\* What is spent on an order is at least its price for every unit.
LEMMA Charged ==
  ASSUME NEW p \in Nat, NEW x \in Nat, NEW fee \in Nat, NEW cost, cost = -(100 * p * (100 + fee))
  PROVE  /\ cost \in Int /\ cost <= 0
         /\ cost < 0 => 10000 * (p * x) <= -(x * cost)
         /\ cost >= 0 => p * x = 0
<1>1. p * x \in Nat /\ p * fee \in Nat
  BY NatTimes
<1>2. (p * x) * fee \in Nat
  BY <1>1, NatTimes
<1>3. cost = -(10000 * p) - 100 * (p * fee)
  OBVIOUS
<1>4. -(x * cost) = 10000 * (p * x) + 100 * ((p * x) * fee)
  OBVIOUS
<1>5. cost >= 0 => p = 0
  BY <1>1, <1>3
<1>6. p = 0 => p * x = 0
  OBVIOUS
<1>7. cost \in Int /\ cost <= 0
  BY <1>1, <1>3
<1> HIDE <1>3
<1>8. 10000 * (p * x) <= -(x * cost)
  BY <1>1, <1>2, <1>4
<1> QED  BY <1>5, <1>6, <1>7, <1>8

\* What is bought costs no more than the money put aside for it.
LEMMA MoneyCovered ==
  ASSUME Reported
  PROVE  MoneySuffices
<1> DEFINE I == DOMAIN market.sell
           U == Used(plan)
           bill == [i \in I |-> market.sell[i].price * Filled(i)]
           h == [i \in I |-> [n \in U |-> IF n = BuyName(i) THEN market.sell[i].price * plan[n] ELSE 0]]
           rows == [i \in I |-> SumFunctionOnSet(h[i], U)]
           cols == [n \in U |-> SumFunctionOnSet([i \in I |-> h[i][n]], I)]
           scaled == [n \in U |-> 10000 * cols[n]]
           spent == [n \in U |-> IF columns[n].cost < 0 THEN -(plan[n] * columns[n].cost) ELSE 0]
<1>1. TypedWs(ws) /\ ws.sell = market.sell /\ ws.settings = W.settings /\ IsFiniteSet(U)
  BY DEF Reported, ws
<1>2. /\ IsFiniteSet(I) /\ W.settings.buyIn \in Nat /\ W.settings.brokersFee \in Nat
      /\ \A i \in I : market.sell[i].price \in Nat /\ market.sell[i].volume \in Nat
  BY <1>1 DEF TypedWs, TypedOrdersOf
<1>3. \A n \in U : n \in DOMAIN columns /\ plan[n] \in Nat /\ columns[n].cost \in Int
  BY UsedColumns DEF Reported, TypedJob
<1>4. \A i \in I : Filled(i) \in Nat /\ bill[i] \in Nat
  BY <1>2, FilledUnits, NatTimes
<1>5. ASSUME NEW i \in I  PROVE Filled(i) <= market.sell[i].volume
  <2>1. CASE BuyName(i) \in U
    <3>1. columns[BuyName(i)] = Buy(ws, market.sell[i]) /\ Buy(ws, market.sell[i]) # Thrown
      BY <1>3, <2>1, BuyColumn
    <3>2. columns[BuyName(i)].limit = market.sell[i].volume
      BY <3>1, BuyForm
    <3>3. plan[BuyName(i)] <= market.sell[i].volume
      BY <1>2, <1>3, <2>1, <3>2 DEF Reported, WorkspaceInv, PlanInv, Unlimited
    <3> QED  BY <2>1, <3>3 DEF Filled
  <2>2. CASE BuyName(i) \notin U
    BY <1>2, <2>2 DEF Filled
  <2> QED  BY <2>1, <2>2
<1>6. \A i \in I, n \in U :
        /\ n = BuyName(i) => h[i][n] = market.sell[i].price * plan[n]
        /\ n # BuyName(i) => h[i][n] = 0
  OBVIOUS
<1>7. /\ \A i \in I : bill[i] = market.sell[i].price * Filled(i) /\ rows[i] = SumFunctionOnSet(h[i], U)
      /\ \A n \in U : scaled[n] = 10000 * cols[n]
      /\ DOMAIN bill = I /\ DOMAIN spent = U
      /\ rows = [i \in I |-> SumFunctionOnSet(h[i], U)]
      /\ cols = [n \in U |-> SumFunctionOnSet([i \in I |-> h[i][n]], I)]
  OBVIOUS
<1>8. \A n \in U : spent[n] = IF columns[n].cost < 0 THEN -(plan[n] * columns[n].cost) ELSE 0
  OBVIOUS
<1>9. Spent(plan) = SumFunctionOnSet(spent, U)
  <2>1. Spent(plan) = Sum(spent)
    BY DEF Spent
  <2> HIDE DEF spent
  <2> QED  BY <1>7, <2>1 DEF Sum, SumFunction
<1> HIDE DEF bill, h, rows, cols, scaled, spent
<1>10. \A i \in I, n \in U : h[i][n] \in Nat
  BY <1>2, <1>3, <1>6, NatTimes
<1>11. ASSUME NEW i \in I  PROVE rows[i] = bill[i]
  <2> DEFINE f == h[i]
  <2>1. \A n \in U : f[n] \in Nat /\ (n = BuyName(i) => f[n] = market.sell[i].price * plan[n])
                     /\ (n # BuyName(i) => f[n] = 0)
    BY <1>6, <1>10
  <2>2. rows[i] = SumFunctionOnSet(f, U)
    BY <1>7
  <2> HIDE DEF f, U
  <2>3. CASE BuyName(i) \in U
    <3> DEFINE a == BuyName(i)
    <3>1. a \in U /\ f[a] \in Int /\ \A n \in U \ {a} : f[n] = 0
      BY <2>1, <2>3
    <3>2. f[a] = bill[i]
      BY <1>7, <2>1, <2>3 DEF Filled, U
    <3> HIDE DEF a
    <3>3. SumFunctionOnSet(f, U) = f[a]
      BY <1>1, <3>1, SumSingle
    <3> QED  BY <2>2, <3>2, <3>3
  <2>4. CASE BuyName(i) \notin U
    <3>1. \A n \in U : f[n] = 0
      BY <2>1, <2>4
    <3>2. SumFunctionOnSet(f, U) = 0
      BY <1>1, <3>1, SumZero
    <3>3. bill[i] = 0
      BY <1>2, <1>7, <2>4 DEF Filled, U
    <3> QED  BY <2>2, <3>2, <3>3
  <2> QED  BY <2>3, <2>4
<1>12. ASSUME NEW n \in U  PROVE cols[n] \in Nat /\ scaled[n] <= spent[n] /\ spent[n] \in Nat
  <2> DEFINE f == [i \in I |-> h[i][n]]
  <2>1. \A i \in I : f[i] \in Nat /\ (n = BuyName(i) => f[i] = market.sell[i].price * plan[n])
                     /\ (n # BuyName(i) => f[i] = 0)
    BY <1>6, <1>10
  <2>2. cols[n] = SumFunctionOnSet(f, I)
    BY <1>7
  <2> HIDE DEF f
  <2>3. cols[n] \in Nat
    BY <1>2, <2>1, <2>2, SumNat
  <2>4. spent[n] \in Nat
    <3>1. \A x \in Nat, c \in Int : c < 0 => -(x * c) \in Nat
      <4> SUFFICES ASSUME NEW x \in Nat, NEW c \in Int, c < 0  PROVE -(x * c) \in Nat
        OBVIOUS
      <4>1. x * (-c) \in Nat
        BY NatTimes
      <4>2. -(x * c) = x * (-c)
        OBVIOUS
      <4> QED  BY <4>1, <4>2
    <3> QED  BY <1>3, <1>8, <3>1
  <2>5. ASSUME NEW i \in I, n = BuyName(i)  PROVE 10000 * cols[n] <= spent[n]
    <3>1. /\ columns[n] = Buy(ws, market.sell[i]) /\ Buy(ws, market.sell[i]) # Thrown
          /\ \A j \in I : n = BuyName(j) => i = j
      BY <1>3, <2>5, BuyColumn
    <3>2. cols[n] = market.sell[i].price * plan[n]
      <4>1. f[i] \in Int /\ \A j \in I \ {i} : f[j] = 0
        BY <2>1, <3>1
      <4>2. SumFunctionOnSet(f, I) = f[i]
        BY <1>2, <4>1, SumSingle
      <4> QED  BY <2>1, <2>2, <2>5, <4>2
    <3>3. columns[n].cost = -(100 * market.sell[i].price * (100 + W.settings.brokersFee))
      BY <1>1, <3>1, BuyForm
    <3>4. /\ columns[n].cost < 0 => 10000 * cols[n] <= -(plan[n] * columns[n].cost)
          /\ columns[n].cost >= 0 => cols[n] = 0
      <4>1. PICK p \in Nat, x \in Nat, fee \in Nat, cost \in Int :
              /\ p = market.sell[i].price /\ x = plan[n] /\ fee = W.settings.brokersFee
              /\ cost = columns[n].cost
        BY <1>2, <1>3
      <4>2. cost = -(100 * p * (100 + fee)) /\ cols[n] = p * x
        BY <3>2, <3>3, <4>1
      <4>3. (cost < 0 => 10000 * (p * x) <= -(x * cost)) /\ (cost >= 0 => p * x = 0)
        BY <4>2, Charged
      <4> QED  BY <4>1, <4>2, <4>3
    <3> QED  BY <1>3, <1>8, <2>3, <3>4
  <2>6. CASE \A i \in I : n # BuyName(i)
    <3>1. \A i \in I : f[i] = 0
      BY <2>1, <2>6
    <3>2. cols[n] = 0
      BY <1>2, <2>2, <3>1, SumZero
    <3> QED  BY <1>7, <2>3, <2>4, <3>2
  <2> QED  BY <1>7, <2>3, <2>4, <2>5, <2>6
<1>13. SumFunctionOnSet(bill, I) = SumFunctionOnSet(cols, U)
  <2>1. SumFunctionOnSet(rows, I) = SumFunctionOnSet(cols, U)
    <3>1. \A i \in I, n \in U : h[i][n] \in Int
      BY <1>10
    <3>2. SumFunctionOnSet([i \in I |-> SumFunctionOnSet(h[i], U)], I)
            = SumFunctionOnSet([n \in U |-> SumFunctionOnSet([i \in I |-> h[i][n]], I)], U)
      <4> HIDE DEF I, U
      <4> QED  BY <1>1, <1>2, <3>1, SumExchange, Zenon
    <3> QED  BY <1>7, <3>2
  <2>2. \A i \in I : rows[i] \in Int /\ bill[i] = rows[i]
    BY <1>4, <1>11
  <2>3. SumFunctionOnSet(rows, I) = SumFunctionOnSet(bill, I)
    BY <1>2, <2>2, SumEq
  <2> QED  BY <2>1, <2>3
<1>14. 10000 * SumFunctionOnSet(cols, U) <= Spent(plan) /\ SumFunctionOnSet(cols, U) \in Nat
       /\ Spent(plan) \in Nat
  <2>1. \A n \in U : cols[n] \in Int /\ scaled[n] = 10000 * cols[n] /\ scaled[n] \in Int
                     /\ spent[n] \in Int /\ scaled[n] <= spent[n]
    BY <1>7, <1>12
  <2>2. SumFunctionOnSet(scaled, U) = 10000 * SumFunctionOnSet(cols, U)
    BY <1>1, <2>1, SumTimes
  <2>3. SumFunctionOnSet(scaled, U) <= SumFunctionOnSet(spent, U)
    BY <1>1, <2>1, SumLe
  <2>4. SumFunctionOnSet(cols, U) \in Nat /\ SumFunctionOnSet(spent, U) \in Nat
    BY <1>1, <1>12, SumNat
  <2> QED  BY <1>9, <2>2, <2>3, <2>4
<1>15. Spent(plan) <= 10000 * W.settings.buyIn
  BY DEF Reported, WorkspaceInv, PlanInv, BuyInHolds
<1>16. Sum(bill) <= W.settings.buyIn
  <2>1. Sum(bill) = SumFunctionOnSet(bill, I)
    BY <1>7 DEF Sum, SumFunction
  <2> QED  BY <1>2, <1>13, <1>14, <1>15, <2>1
<1>17. /\ Sum([i \in DOMAIN market.sell |-> market.sell[i].price * Filled(i)]) <= W.settings.buyIn
       /\ \A i \in DOMAIN market.sell : Filled(i) <= market.sell[i].volume
  BY <1>5, <1>16 DEF bill
<1>18. \A i \in DOMAIN market.sell :
         Units(LAMBDA n : n = <<"Buy", market.sell[i].type, market.sell[i].id>>, One) = Filled(i)
  BY FilledUnits
<1> QED  BY <1>17, <1>18 DEF MoneySuffices

-----------------------------------------------------------------------------
(* The plan is covered                                                     *)

\* Whatever the data, a reported plan is one the user can carry out: it
\* copies no more than the laboratories and the originals have time for, uses
\* no more runs of copies than there are, sells nothing that is not had and
\* spends no more than the user allows (the rows of the linear program, and
\* the signs and units with which each kind of job enters them), as long as
\* every product has one maker.
THEOREM PlanCovered == Spec => []PlanIsCovered
<1>1. WorkspaceInv => PlanIsCovered
  <2> SUFFICES ASSUME WorkspaceInv, pc = "reported", OneMaker(Nodes(ws))
               PROVE  CopiesSuffice /\ SoldIsHad /\ LabsSuffice /\ MoneySuffices
    BY DEF PlanIsCovered
  <2>1. Reported
    BY ReportedHolds
  <2>2. CopiesSuffice /\ SoldIsHad /\ MoneySuffices
    BY <2>1, CopiesCovered, SoldCovered, MoneyCovered
  <2>3. LabsSuffice
    BY <2>1, LabsCovered, OriginalsCovered, Zenon DEF LabsSuffice
  <2> QED  BY <2>2, <2>3
<1> QED  BY <1>1, Inductive, PTL

-----------------------------------------------------------------------------
(* Sound data: every resource has one maker                                *)

\* Sound, in terms of the workspace.
SoundKinds(w) ==
  /\ OneMaker(Nodes(w))
  /\ \A b, c \in Nodes(w) : ~MakesFirst(b, c.id)
  /\ \A b \in Nodes(w) : b.id \in w.relics =>
       /\ ProductsOf(b.manufacturing) = <<>>
       /\ \A c \in Nodes(w) : ~Invents(c, b.id)
       /\ \A c \in Nodes(w) : c.id \notin w.relics =>
            \A p \in Range(ProductsOf(b.invention)) : ~Invents(c, p.type)

\* Each place of the tuple is the truth of one kind, and only the k-th is true.
OnlyKind(f, k) == DOMAIN f = 1..8 /\ k \in 1..8 /\ \A i \in 1..8 : f[i] <=> i = k

\* A function that holds of one kind only holds of exactly one.
LEMMA OnlyOne ==
  ASSUME NEW f, NEW k, OnlyKind(f, k)
  PROVE  Cardinality({i \in DOMAIN f : f[i]}) = 1
<1>1. {i \in DOMAIN f : f[i]} = {k}
  BY DEF OnlyKind
<1> QED  BY <1>1, FS_Singleton

\* A blueprint is of exactly one kind: nothing invented is a relic, and nothing
\* is invented from a relic and from a blueprint.
LEMMA BlueprintKind ==
  ASSUME NEW w, SoundKinds(w), NEW t, isBP(w, t)
  PROVE  /\ isT2BP(w, t) => ~isT3BP(w, t) /\ ~isRelic(w, t)
         /\ isT3BP(w, t) => ~isRelic(w, t)
         /\ isT1BP(w, t) <=> ~isT2BP(w, t) /\ ~isT3BP(w, t) /\ ~isRelic(w, t)
<1>1. ASSUME isT2BP(w, t), isT3BP(w, t)  PROVE FALSE
  <2>1. PICK c \in Nodes(w) : c.id \notin w.relics /\ Invents(c, t)
    BY <1>1 DEF isT2BP
  <2>2. PICK b \in Nodes(w) : b.id \in w.relics /\ Invents(b, t)
    BY <1>1 DEF isT3BP
  <2> QED  BY <2>1, <2>2 DEF SoundKinds, Invents
<1>2. ASSUME isRelic(w, t), NEW c \in Nodes(w), Invents(c, t)  PROVE FALSE
  BY <1>2 DEF isRelic, SoundKinds
<1> QED  BY <1>1, <1>2 DEF isT2BP, isT3BP, isT1BP

\* In sound data what a blueprint makes first is made by that blueprint only,
\* and the kinds of the two are told apart.
LEMMA Makers1 ==
  ASSUME NEW w, TypedWs(w), SoundKinds(w), NEW b \in Nodes(w), NEW t, MakesFirst(b, t)
  PROVE  Makers(w, t) = {b.id} /\ isBP(w, b.id) /\ ~isRelic(w, b.id) /\ ~isBP(w, t)
<1> DEFINE S == {i \in DOMAIN w.blueprints : MakesFirst(w.blueprints[i], t)}
<1>1. isProduct(w, t) /\ isBP(w, b.id) /\ ~isBP(w, t)
  BY DEF isProduct, isBP, SoundKinds
<1>2. ~isRelic(w, b.id)
  <2>1. b.id \notin w.relics
    BY DEF SoundKinds, MakesFirst
  <2> QED  BY <2>1 DEF isRelic
<1>3. productToBP(w, t) = Max(S)
  BY DEF productToBP, LastPlace
<1>4. Max(S) \in S
  <2>1. S # {}
    BY DEF Nodes, Range
  <2>2. IsFiniteSet(S) /\ S \subseteq Int
    BY FS_Subset, ListFinite DEF TypedWs, TypedBlueprints
  <2> QED  BY <2>1, <2>2, MaxExists
<1>5. w.blueprints[Max(S)] = b
  <2>1. w.blueprints[Max(S)] \in Nodes(w) /\ MakesFirst(w.blueprints[Max(S)], t)
    BY <1>4 DEF Nodes, Range
  <2> QED  BY <2>1, FirstMaker DEF SoundKinds
<1> QED  BY <1>1, <1>2, <1>3, <1>5 DEF Makers

\* In sound data every type that is asked for is of at most one kind.
LEMMA ItemKind ==
  ASSUME NEW w, TypedWs(w), SoundKinds(w), NEW t
  PROVE  checkItem(w, t)
<1> DEFINE bp == isBP(w, t)
           kinds == <<~bp /\ ~isProduct(w, t),
                      \E m \in Makers(w, t) : isT1BP(w, m),
                      \E m \in Makers(w, t) : isT2BP(w, m),
                      \E m \in Makers(w, t) : isT3BP(w, m),
                      isT1BP(w, t), bp /\ isT2BP(w, t), bp /\ isT3BP(w, t),
                      bp /\ isRelic(w, t)>>
<1>1. /\ DOMAIN kinds = 1..8
      /\ kinds[1] <=> ~bp /\ ~isProduct(w, t)
      /\ kinds[2] <=> \E m \in Makers(w, t) : isT1BP(w, m)
      /\ kinds[3] <=> \E m \in Makers(w, t) : isT2BP(w, m)
      /\ kinds[4] <=> \E m \in Makers(w, t) : isT3BP(w, m)
      /\ kinds[5] <=> isT1BP(w, t)
      /\ kinds[6] <=> bp /\ isT2BP(w, t)
      /\ kinds[7] <=> bp /\ isT3BP(w, t)
      /\ kinds[8] <=> bp /\ isRelic(w, t)
  <2> HIDE DEF bp
  <2>1. DOMAIN kinds = 1..8
    OBVIOUS
  <2>2. /\ kinds[1] <=> ~bp /\ ~isProduct(w, t)
        /\ kinds[5] <=> isT1BP(w, t)
    OBVIOUS
  <2>3. kinds[2] <=> \E m \in Makers(w, t) : isT1BP(w, m)
    OBVIOUS
  <2>4. kinds[3] <=> \E m \in Makers(w, t) : isT2BP(w, m)
    OBVIOUS
  <2>5. kinds[4] <=> \E m \in Makers(w, t) : isT3BP(w, m)
    OBVIOUS
  <2>6. /\ kinds[6] <=> bp /\ isT2BP(w, t)
        /\ kinds[7] <=> bp /\ isT3BP(w, t)
        /\ kinds[8] <=> bp /\ isRelic(w, t)
    OBVIOUS
  <2> HIDE DEF kinds
  <2> QED  BY <2>1, <2>2, <2>3, <2>4, <2>5, <2>6
<1>2. checkItem(w, t) <=> Cardinality({k \in DOMAIN kinds : kinds[k]}) = 1
  BY DEF checkItem
<1> HIDE DEF kinds
<1>3. SUFFICES \E k : OnlyKind(kinds, k)
  BY <1>2, OnlyOne
<1>4. CASE ~isBP(w, t) /\ ~isProduct(w, t)
  <2>1. Makers(w, t) = {} /\ ~isT1BP(w, t)
    BY <1>4 DEF Makers, isT1BP
  <2>2. OnlyKind(kinds, 1)
    BY <1>1, <1>4, <2>1 DEF OnlyKind
  <2> QED  BY <2>2
<1>5. CASE isProduct(w, t)
  <2>1. PICK b \in Nodes(w) : MakesFirst(b, t)
    BY <1>5 DEF isProduct
  <2>2. Makers(w, t) = {b.id} /\ isBP(w, b.id) /\ ~isRelic(w, b.id) /\ ~isBP(w, t) /\ ~isT1BP(w, t)
    BY <2>1, Makers1 DEF isT1BP
  <2>3. /\ kinds[2] <=> isT1BP(w, b.id)
        /\ kinds[3] <=> isT2BP(w, b.id)
        /\ kinds[4] <=> isT3BP(w, b.id)
        /\ ~kinds[1] /\ ~kinds[5] /\ ~kinds[6] /\ ~kinds[7] /\ ~kinds[8]
    BY <1>1, <1>5, <2>2
  <2>4. /\ isT2BP(w, b.id) => ~isT3BP(w, b.id)
        /\ isT1BP(w, b.id) <=> ~isT2BP(w, b.id) /\ ~isT3BP(w, b.id)
    BY <2>2, BlueprintKind
  <2> QED  BY <1>1, <2>3, <2>4 DEF OnlyKind
<1>6. CASE isBP(w, t)
  <2>1. /\ isT2BP(w, t) => ~isT3BP(w, t) /\ ~isRelic(w, t)
        /\ isT3BP(w, t) => ~isRelic(w, t)
        /\ isT1BP(w, t) <=> ~isT2BP(w, t) /\ ~isT3BP(w, t) /\ ~isRelic(w, t)
    BY <1>6, BlueprintKind
  <2>2. ~isProduct(w, t) /\ Makers(w, t) = {}
    BY <1>6, Makers1 DEF isProduct, Makers
  <2>3. /\ kinds[5] <=> isT1BP(w, t)
        /\ kinds[6] <=> isT2BP(w, t)
        /\ kinds[7] <=> isT3BP(w, t)
        /\ kinds[8] <=> isRelic(w, t)
        /\ ~kinds[1] /\ ~kinds[2] /\ ~kinds[3] /\ ~kinds[4]
    BY <1>1, <1>6, <2>2
  <2> QED  BY <1>1, <2>1, <2>3 DEF OnlyKind
<1> QED  BY <1>4, <1>5, <1>6

-----------------------------------------------------------------------------
(* Lists without a resource made twice                                     *)

\* Orders of named types, none with the type and the id of another.
NamesOrders(w, orders) ==
  /\ \A i \in DOMAIN orders : orders[i].type \in w.names
  /\ \A i, j \in DOMAIN orders :
       orders[i].type = orders[j].type /\ orders[i].id = orders[j].id => i = j

\* What the planner needs of the data so as not to throw: every type that is
\* mentioned has a name, is of one kind, and is made in one way.
SoundWs(w) ==
  /\ TypedWs(w) /\ SoundKinds(w)
  /\ DOMAIN w.adj \subseteq w.names
  /\ \A b \in Nodes(w) :
       b.id \in w.names => Mentions(b) \subseteq DOMAIN w.adj /\ Outcomes(b) \subseteq w.names
  /\ \A d \in Range(decryptors) : d.id # "none" => d.id \in w.names
  /\ \A s \in Range(w.schematics) : {m[1] : m \in Range(s.materials)} \cup {s.product} \subseteq w.names
  /\ \A i, j \in DOMAIN w.schematics : w.schematics[i].product = w.schematics[j].product => i = j
  /\ NamesOrders(w, w.sell) /\ NamesOrders(w, w.buy)

\* A list of jobs that the planner accepts.
Clean(jobs) ==
  /\ \A k \in DOMAIN jobs : jobs[k] # Thrown
  /\ \A k, l \in DOMAIN jobs : jobs[k].name = jobs[l].name => k = l

\* Clean lists whose names do not meet are clean together.
LEMMA TogetherClean ==
  ASSUME NEW lists,
         \A i \in DOMAIN lists : Clean(lists[i]),
         \A i, j \in DOMAIN lists : \A k \in DOMAIN lists[i] : \A l \in DOMAIN lists[j] :
           lists[i][k].name = lists[j][l].name => i = j
  PROVE  Clean(Together(lists))
<1> DEFINE all == Together(lists)
<1>1. \A x \in DOMAIN all : \E i \in DOMAIN lists : \E k \in DOMAIN lists[i] :
        x = <<i, k>> /\ all[x] = lists[i][k]
  BY TogetherAt
<1> HIDE DEF all
<1>2. \A x \in DOMAIN all : all[x] # Thrown
  BY <1>1 DEF Clean
<1>3. ASSUME NEW x \in DOMAIN all, NEW y \in DOMAIN all, all[x].name = all[y].name  PROVE x = y
  <2>1. PICK i \in DOMAIN lists : \E k \in DOMAIN lists[i] : x = <<i, k>> /\ all[x] = lists[i][k]
    BY <1>1
  <2>2. PICK k \in DOMAIN lists[i] : x = <<i, k>> /\ all[x] = lists[i][k]
    BY <2>1
  <2>3. PICK j \in DOMAIN lists : \E l \in DOMAIN lists[j] : y = <<j, l>> /\ all[y] = lists[j][l]
    BY <1>1
  <2>4. PICK l \in DOMAIN lists[j] : y = <<j, l>> /\ all[y] = lists[j][l]
    BY <2>3
  <2>5. i = j
    BY <1>3, <2>2, <2>4
  <2>6. k = l
    BY <1>3, <2>2, <2>4, <2>5 DEF Clean
  <2> QED  BY <2>2, <2>4, <2>5, <2>6
<1> QED  BY <1>2, <1>3 DEF Clean, all

\* The resources of a named type are looked up without an exception.
LEMMA NamedExist ==
  ASSUME NEW w, TypedWs(w), SoundKinds(w), NEW t \in w.names
  PROVE  /\ Exists(w, Item(t)) /\ Exists(w, BPO(t)) /\ Exists(w, Planetary(t))
         /\ \A eff : Exists(w, BPC(t, eff))
BY ItemKind DEF Exists, Item, BPO, BPC, Planetary

\* So are those that have no type.
LEMMA OthersExist ==
  ASSUME NEW w
  PROVE  /\ Exists(w, LabTime) /\ Exists(w, LineTime) /\ Exists(w, CPU) /\ Exists(w, PowerGrid)
         /\ \A i : Exists(w, Facility(i))
BY DEF Exists, LabTime, LineTime, CPU, PowerGrid, Facility

\* A job whose resources exist is made.
LEMMA JobMade ==
  ASSUME NEW w, NEW ok, ok, NEW name, name[1] # "exception", NEW in, NEW out,
         \A e \in Range(in) : Exists(w, e[1]), \A e \in Range(out) : Exists(w, e[1]),
         NEW cost, NEW limit
  PROVE  Job(w, ok, name, in, out, cost, limit) # Thrown
<1> DEFINE J == Job(w, ok, name, in, out, cost, limit)
<1>1. J = [name |-> name, in |-> in, out |-> out, cost |-> cost, limit |-> limit]
  BY DEF Job
<1> HIDE DEF J
<1>2. J.name = name
  BY ONLY <1>1
<1>3. Thrown.name[1] = "exception"
  BY DEF Thrown
<1>4. J # Thrown
  BY <1>2, <1>3
<1> QED  BY <1>4 DEF J

\* The empty list has no entry.
LEMMA EmptyRange == Range(<<>>) = {}
BY DEF Range

\* Trading a named type throws nothing.
LEMMA TradeMade ==
  ASSUME NEW w, TypedWs(w), SoundKinds(w), NEW o, o.type \in w.names
  PROVE  Buy(w, o) # Thrown /\ Sell(w, o) # Thrown
<1> DEFINE one == <<<<Item(o.type), 1>>>>
<1>1. \A e \in Range(one) : Exists(w, e[1])
  BY RangeOne, NamedExist
<1>2. \A e \in Range(<<>>) : Exists(w, e[1])
  BY EmptyRange
<1>3. <<"Buy", o.type, o.id>>[1] # "exception" /\ <<"Sell", o.type, o.id>>[1] # "exception"
  OBVIOUS
<1> HIDE DEF one
<1>4. \A cost : Job(w, TRUE, <<"Buy", o.type, o.id>>, <<>>, one, cost, o.volume) # Thrown
  BY <1>1, <1>2, <1>3, JobMade
<1>5. \A cost : Job(w, TRUE, <<"Sell", o.type, o.id>>, one, <<>>, cost, o.volume) # Thrown
  BY <1>1, <1>2, <1>3, JobMade
<1> QED  BY <1>4, <1>5 DEF Buy, Sell, one

\* The jobs that trade are made, under names of their own.
LEMMA MarketClean ==
  ASSUME NEW w, SoundWs(w)
  PROVE  Clean(MarketJobs(w))
<1> DEFINE buys == Map(LAMBDA o : IF checkItem(w, o.type) THEN Buy(w, o) ELSE Thrown, Tradable(w, w.sell))
           sells == Map(LAMBDA o : IF checkItem(w, o.type) THEN Sell(w, o) ELSE Thrown, Tradable(w, w.buy))
           lists == <<buys, sells>>
<1>1. \A i \in DOMAIN buys : i \in DOMAIN w.sell /\ buys[i] = Buy(w, w.sell[i])
  BY ItemKind DEF Map, Tradable, RestrictValues, Restrict, SoundWs
<1>2. \A i \in DOMAIN sells : i \in DOMAIN w.buy /\ sells[i] = Sell(w, w.buy[i])
  BY ItemKind DEF Map, Tradable, RestrictValues, Restrict, SoundWs
<1>3. MarketJobs(w) = Together(lists)
  BY DEF MarketJobs
<1> HIDE DEF buys, sells
<1>4. \A i \in DOMAIN buys :
        /\ buys[i] # Thrown /\ buys[i].name = <<"Buy", w.sell[i].type, w.sell[i].id>>
        /\ w.sell[i].type \in w.names
  BY <1>1, TradeMade, BuyForm DEF SoundWs, NamesOrders
<1>5. \A i \in DOMAIN sells :
        /\ sells[i] # Thrown /\ sells[i].name = <<"Sell", w.buy[i].type, w.buy[i].id>>
        /\ w.buy[i].type \in w.names
  BY <1>2, TradeMade, SellForm DEF SoundWs, NamesOrders
<1>6. Clean(buys)
  BY <1>1, <1>4 DEF Clean, SoundWs, NamesOrders
<1>7. Clean(sells)
  BY <1>2, <1>5 DEF Clean, SoundWs, NamesOrders
<1>8. DOMAIN lists = {1, 2} /\ lists[1] = buys /\ lists[2] = sells
  OBVIOUS
<1> HIDE DEF lists
<1>9. \A i, j \in DOMAIN lists : \A k \in DOMAIN lists[i] : \A l \in DOMAIN lists[j] :
           lists[i][k].name = lists[j][l].name => i = j
  <2>1. \A k \in DOMAIN buys : \A l \in DOMAIN sells : buys[k].name # sells[l].name
    BY <1>4, <1>5
  <2> QED  BY <1>8, <2>1
<1> QED  BY <1>3, <1>6, <1>7, <1>8, <1>9, TogetherClean

\* The jobs that copy are made, under names of their own.
LEMMA CopyClean ==
  ASSUME NEW w, SoundWs(w)
  PROVE  Clean(CopyJobs(w))
<1> DEFINE kept == RestrictValues(Copies(w), LAMBDA b : HasValue(w, b.id))
           made(b) == Job(w, TRUE, <<"Copy", b.id>>,
                          <<<<BPO(b.id), 100 * b.copying.time>>, <<LabTime, 100 * b.copying.time>>>>,
                          <<<<BPC(b.id, Plain), Run>>>>,
                          -(JobValue(w, b.id) * w.settings.copyTax), Unlimited)
           jobs == Map(made, kept)
<1>1. CopyJobs(w) = jobs
  BY DEF CopyJobs
<1>2. \A i \in DOMAIN kept :
        i \in DOMAIN w.blueprints /\ kept[i] = w.blueprints[i] /\ w.blueprints[i].id \in w.names
  BY DEF Copies, Named, RestrictValues, Restrict
<1> HIDE DEF kept
<1>3. \A i \in DOMAIN jobs : i \in DOMAIN kept /\ jobs[i] = made(kept[i])
  BY DEF Map
<1> HIDE DEF jobs
<1>4. ASSUME NEW b, b.id \in w.names
      PROVE  made(b) # Thrown /\ made(b).name = <<"Copy", b.id>>
  <2> DEFINE time == 100 * b.copying.time
             in == <<<<BPO(b.id), time>>, <<LabTime, time>>>>
             out == <<<<BPC(b.id, Plain), Run>>>>
             cost == -(JobValue(w, b.id) * w.settings.copyTax)
  <2>1. made(b) = Job(w, TRUE, <<"Copy", b.id>>, in, out, cost, Unlimited)
    OBVIOUS
  <2>2. \A e \in Range(in) : Exists(w, e[1])
    BY <1>4, RangeTwo, NamedExist, OthersExist DEF SoundWs
  <2>3. \A e \in Range(out) : Exists(w, e[1])
    BY <1>4, RangeOne, NamedExist DEF SoundWs
  <2>4. <<"Copy", b.id>>[1] # "exception"
    OBVIOUS
  <2> HIDE DEF in, out, cost
  <2>5. Job(w, TRUE, <<"Copy", b.id>>, in, out, cost, Unlimited) # Thrown
    BY <2>2, <2>3, <2>4, JobMade
  <2>6. Job(w, TRUE, <<"Copy", b.id>>, in, out, cost, Unlimited).name = <<"Copy", b.id>>
    BY <2>5 DEF Job
  <2> QED  BY <2>1, <2>5, <2>6
<1> HIDE DEF made
<1>5. \A i, j \in DOMAIN w.blueprints : w.blueprints[i].id = w.blueprints[j].id => i = j
  BY DEF SoundWs, TypedWs, TypedBlueprints
<1> QED  BY <1>1, <1>2, <1>3, <1>4, <1>5 DEF Clean

\* What is in two lists taken together is in one of them.
LEMMA RangeBoth ==
  ASSUME NEW a, NEW b, NEW x \in Range(Together(<<a, b>>))
  PROVE  x \in Range(a) \/ x \in Range(b)
<1> DEFINE lists == <<a, b>>
<1>1. \A i \in DOMAIN lists : lists[i] = a \/ lists[i] = b
  OBVIOUS
<1> HIDE DEF lists
<1>2. PICK i \in DOMAIN lists : x \in Range(lists[i])
  BY RangeTogether DEF lists
<1> QED  BY <1>1, <1>2

\* What is in three lists taken together is in one of them.
LEMMA RangeThree ==
  ASSUME NEW a, NEW b, NEW c, NEW x \in Range(Together(<<a, b, c>>))
  PROVE  x \in Range(a) \/ x \in Range(b) \/ x \in Range(c)
<1> DEFINE lists == <<a, b, c>>
<1>1. \A i \in DOMAIN lists : lists[i] = a \/ lists[i] = b \/ lists[i] = c
  OBVIOUS
<1> HIDE DEF lists
<1>2. PICK i \in DOMAIN lists : x \in Range(lists[i])
  BY RangeTogether DEF lists
<1> QED  BY <1>1, <1>2

\* Building throws nothing.
LEMMA BuildMade ==
  ASSUME NEW w, NEW i, NEW c, NEW e
  PROVE  Build(w, i, c, e) # Thrown
<1> DEFINE in == <<<<CPU, c>>, <<PowerGrid, e>>>>
           out == <<<<Facility(i), w.settings.timeFrame>>>>
<1>1. Build(w, i, c, e) = Job(w, TRUE, <<"Build", i>>, in, out, 0, Unlimited)
  BY DEF Build
<1>2. \A x \in Range(in) : Exists(w, x[1])
  BY RangeTwo, OthersExist
<1>3. \A x \in Range(out) : Exists(w, x[1])
  BY RangeOne, OthersExist
<1>4. <<"Build", i>>[1] # "exception"
  OBVIOUS
<1> HIDE DEF in, out
<1> QED  BY <1>1, <1>2, <1>3, <1>4, JobMade

\* Carrying a named item throws nothing.
LEMMA TripMade ==
  ASSUME NEW w, TypedWs(w), SoundKinds(w), NEW t \in w.names
  PROVE  Import(w, t) # Thrown /\ Export(w, t) # Thrown
<1> DEFINE here == <<<<Planetary(t), 1>>>>
           there == <<<<Item(t), 1>>>>
           cost == -(Fee(w, t) \div 2)
<1>1. /\ Import(w, t) = Job(w, TRUE, <<"Import", TierOf(w, t), t>>, there, here, cost, Unlimited)
      /\ Export(w, t) = Job(w, TRUE, <<"Export", TierOf(w, t), t>>, here, there, -Fee(w, t), Unlimited)
  BY DEF Import, Export
<1>2. \A x \in Range(here) : Exists(w, x[1])
  BY RangeOne, NamedExist
<1>3. \A x \in Range(there) : Exists(w, x[1])
  BY RangeOne, NamedExist
<1>4. <<"Import", TierOf(w, t), t>>[1] # "exception" /\ <<"Export", TierOf(w, t), t>>[1] # "exception"
  OBVIOUS
<1> HIDE DEF here, there, cost
<1>5. Job(w, TRUE, <<"Import", TierOf(w, t), t>>, there, here, cost, Unlimited) # Thrown
  BY <1>2, <1>3, <1>4, JobMade
<1>6. Job(w, TRUE, <<"Export", TierOf(w, t), t>>, here, there, -Fee(w, t), Unlimited) # Thrown
  BY <1>2, <1>3, <1>4, JobMade
<1> QED  BY <1>1, <1>5, <1>6

\* A schematic on named items throws nothing.
LEMMA ProcessMade ==
  ASSUME NEW w, TypedWs(w), SoundKinds(w), NEW s,
         {m[1] : m \in Range(s.materials)} \cup {s.product} \subseteq w.names
  PROVE  Process(w, s) # Thrown
<1> DEFINE mats == Map(LAMBDA m : <<Planetary(m[1]), m[2]>>, s.materials)
           rest == <<<<Facility(<<1, 2, 2, 3>>[s.tier + 1]), s.time>>>>
           in == Together(<<mats, rest>>)
           out == <<<<Planetary(s.product), s.quantity>>>>
<1>1. Process(w, s) = Job(w, TRUE, <<"Process", s.tier + 1, s.product>>, in, out, 0, Unlimited)
  BY DEF Process
<1>2. \A x \in Range(mats) : \E m \in Range(s.materials) : x = <<Planetary(m[1]), m[2]>>
  BY DEF Map, Range
<1> HIDE DEF mats
<1>3. \A x \in Range(mats) : Exists(w, x[1])
  BY <1>2, NamedExist
<1>4. \A x \in Range(rest) : Exists(w, x[1])
  BY RangeOne, OthersExist
<1>5. \A x \in Range(out) : Exists(w, x[1])
  BY RangeOne, NamedExist
<1>6. <<"Process", s.tier + 1, s.product>>[1] # "exception"
  OBVIOUS
<1> HIDE DEF rest
<1>7. \A x \in Range(in) : Exists(w, x[1])
  BY <1>3, <1>4, RangeBoth
<1> HIDE DEF in, out
<1> QED  BY <1>1, <1>5, <1>6, <1>7, JobMade

\* The jobs on the planets are made, under names of their own.
LEMMA PlanetaryClean ==
  ASSUME NEW w, SoundWs(w)
  PROVE  Clean(PlanetaryJobs(w))
<1> DEFINE builds == <<Build(w, 1, 222, 815), Build(w, 2, 522, 715), Build(w, 3, 1122, 415)>>
           trips == [t \in PlanetaryItems(w) |-> <<Import(w, t), Export(w, t)>>]
           processes == Map(LAMBDA s : Process(w, s), w.schematics)
           lists == <<builds, Together(trips), processes>>
<1>1. PlanetaryJobs(w) = Together(lists)
  BY DEF PlanetaryJobs
<1>2. TypedWs(w) /\ SoundKinds(w)
  BY DEF SoundWs
<1>3. Clean(builds) /\ \A k \in DOMAIN builds : builds[k].name[1] = "Build"
  <2>1. DOMAIN builds = {1, 2, 3}
    OBVIOUS
  <2>2. builds[1] # Thrown /\ builds[1].name = <<"Build", 1>>
    BY BuildMade, BuildForm
  <2>3. builds[2] # Thrown /\ builds[2].name = <<"Build", 2>>
    BY BuildMade, BuildForm
  <2>4. builds[3] # Thrown /\ builds[3].name = <<"Build", 3>>
    BY BuildMade, BuildForm
  <2> HIDE DEF builds
  <2>5. <<"Build", 1>> # <<"Build", 2>> /\ <<"Build", 1>> # <<"Build", 3>> /\ <<"Build", 2>> # <<"Build", 3>>
    OBVIOUS
  <2>6. <<"Build", 1>>[1] = "Build" /\ <<"Build", 2>>[1] = "Build" /\ <<"Build", 3>>[1] = "Build"
    OBVIOUS
  <2> QED  BY <2>1, <2>2, <2>3, <2>4, <2>5, <2>6 DEF Clean
<1>4. \A t \in PlanetaryItems(w) : t \in w.names
  BY DEF SoundWs, PlanetaryItems
<1>5. ASSUME NEW t \in DOMAIN trips
      PROVE  /\ DOMAIN (trips[t]) = {1, 2} /\ trips[t][1] # Thrown /\ trips[t][2] # Thrown
             /\ trips[t][1].name = <<"Import", TierOf(w, t), t>>
             /\ trips[t][2].name = <<"Export", TierOf(w, t), t>>
  <2>1. trips[t] = <<Import(w, t), Export(w, t)>> /\ t \in w.names
    BY <1>4
  <2> HIDE DEF trips
  <2> QED  BY <1>2, <2>1, TripMade, ImportForm, ExportForm
<1> HIDE DEF trips
<1>6. Clean(Together(trips)) /\ \A k \in DOMAIN Together(trips) : Together(trips)[k].name[1] \in {"Import", "Export"}
  <2>1. ASSUME NEW t \in DOMAIN trips  PROVE Clean(trips[t])
    BY <1>5 DEF Clean
  <2>2. \A t, u \in DOMAIN trips : \A k \in DOMAIN trips[t] : \A l \in DOMAIN trips[u] :
          trips[t][k].name = trips[u][l].name => t = u
    BY <1>5
  <2>3. \A t \in DOMAIN trips : \A k \in DOMAIN trips[t] : trips[t][k].name[1] \in {"Import", "Export"}
    BY <1>5
  <2>4. Clean(Together(trips))
    BY <2>1, <2>2, TogetherClean
  <2>5. \A k \in DOMAIN Together(trips) : Together(trips)[k].name[1] \in {"Import", "Export"}
    BY <2>3, TogetherAt
  <2> QED  BY <2>4, <2>5
<1>7. \A k \in DOMAIN processes :
        /\ processes[k] # Thrown /\ k \in DOMAIN w.schematics
        /\ processes[k].name = <<"Process", w.schematics[k].tier + 1, w.schematics[k].product>>
  <2>1. \A k \in DOMAIN processes : k \in DOMAIN w.schematics /\ processes[k] = Process(w, w.schematics[k])
    BY DEF Map
  <2> HIDE DEF processes
  <2>2. \A k \in DOMAIN w.schematics : Process(w, w.schematics[k]) # Thrown
    <3>1. \A k \in DOMAIN w.schematics : w.schematics[k] \in Range(w.schematics)
      BY DEF Range
    <3> QED  BY <3>1, ProcessMade DEF SoundWs
  <2> QED  BY <2>1, <2>2, ProcessForm
<1> HIDE DEF processes
<1>8. Clean(processes) /\ \A k \in DOMAIN processes : processes[k].name[1] = "Process"
  BY <1>7 DEF Clean, SoundWs
<1> HIDE DEF builds
<1> DEFINE all == Together(trips)
<1>9. DOMAIN lists = {1, 2, 3} /\ lists[1] = builds /\ lists[2] = all /\ lists[3] = processes
  OBVIOUS
<1> HIDE DEF lists, all
<1>10. /\ Clean(all) /\ \A k \in DOMAIN all : all[k].name[1] \in {"Import", "Export"}
  BY <1>6 DEF all
<1>11. \A i, j \in DOMAIN lists : \A k \in DOMAIN lists[i] : \A l \in DOMAIN lists[j] :
           lists[i][k].name = lists[j][l].name => i = j
  BY <1>3, <1>8, <1>9, <1>10
<1>12. \A i \in DOMAIN lists : Clean(lists[i])
  BY <1>3, <1>8, <1>9, <1>10
<1> QED  BY <1>1, <1>11, <1>12, TogetherClean

\* A material of a blueprint is mentioned by it.
LEMMA Mentioned ==
  ASSUME NEW b, NEW a, a = b.manufacturing \/ a = b.invention, Defined(a, {"materials"}),
         NEW m \in Range(a.materials)
  PROVE  m[1] \in Mentions(b)
BY DEF Mentions

\* What is said of a production of data that is sound.
LEMMA ProductSound ==
  ASSUME NEW w, SoundWs(w), NEW p \in Range(Products(w))
  PROVE  /\ HasTechLevel(w, p.bp) /\ HasValue(w, p.product)
         /\ p.product \in w.names /\ p.bp \in w.names
         /\ \A m \in Range(p.materials) : m[1] \in w.names
<1>1. TypedWs(w) /\ SoundKinds(w)
  BY DEF SoundWs
<1>2. PICK b \in Nodes(w) :
        /\ b.id \in w.names /\ CanManufacture(w, b)
        /\ p = [bp |-> b.id, product |-> b.manufacturing.products[1].type,
                quantity |-> b.manufacturing.products[1].quantity,
                materials |-> b.manufacturing.materials,
                skills |-> b.manufacturing.skills, time |-> b.manufacturing.time]
  BY ProductForm
<1> DEFINE a == b.manufacturing
<1>3. /\ Defined(a, {"products", "materials", "time", "skills"}) /\ Len(a.products) = 1
      /\ p.bp = b.id /\ p.product = a.products[1].type /\ p.materials = a.materials
  BY <1>2 DEF CanManufacture
<1>4. Defined(a, {"products"}) /\ Defined(a, {"materials"})
  BY <1>3 DEF Defined
<1>5. ProductsOf(a) = a.products /\ IsList(a.products)
  BY <1>1, <1>4, NodeTyped DEF ProductsOf, Defined, TypedActivity
<1>6. a.products[1] \in Range(a.products) /\ a.products # <<>>
  <2>1. Len(<<>>) # 1
    OBVIOUS
  <2>2. a.products # <<>>
    BY <1>3, <2>1, Zenon
  <2>3. 1 \in DOMAIN a.products
    BY <1>3, <1>5 DEF IsList
  <2> QED  BY <2>2, <2>3 DEF Range
<1> HIDE DEF a
<1>7. MakesFirst(b, p.product)
  BY <1>3, <1>5, <1>6 DEF MakesFirst, a
<1>8. HasTechLevel(w, p.bp)
  <2>1. isBP(w, b.id) /\ ~isRelic(w, b.id)
    BY <1>1, <1>7, Makers1
  <2> QED  BY <1>1, <1>3, <2>1, BlueprintKind DEF HasTechLevel
<1>9. p.product \in w.names
  <2>1. p.product \in Outcomes(b)
    BY <1>3, <1>5, <1>6 DEF Outcomes, a
  <2> QED  BY <1>2, <2>1 DEF SoundWs
<1>10. \A m \in Range(p.materials) : m[1] \in DOMAIN w.adj
  <2>1. \A m \in Range(p.materials) : m[1] \in Mentions(b)
    BY <1>3, <1>4, Mentioned DEF a
  <2> QED  BY <1>2, <2>1 DEF SoundWs
<1>11. HasValue(w, p.product)
  <2>1. PICK k \in DOMAIN AllProducts(w) : p = AllProducts(w)[k]
    BY ProductsAreProducts DEF Range
  <2>2. k \in DOMAIN Valued(w) /\ Valued(w)[k] = p
    BY <1>10, <2>1 DEF Valued, RestrictValues, Restrict
  <2>3. p \in Range(Valued(w))
    BY <2>2 DEF Range
  <2>4. isProduct(w, p.product)
    BY <1>7 DEF isProduct
  <2> QED  BY <2>3, <2>4 DEF HasValue, ValuedProducts
<1>12. \A m \in Range(p.materials) : m[1] \in w.names
  BY <1>10 DEF SoundWs
<1> QED  BY <1>2, <1>3, <1>8, <1>9, <1>11, <1>12

\* Everything a job that produces takes exists.
LEMMA ProduceNeeds ==
  ASSUME NEW w, TypedWs(w), SoundKinds(w), NEW p, \A m \in Range(p.materials) : m[1] \in w.names,
         NEW eff, NEW resource, Exists(w, resource), NEW amount
  PROVE  \A x \in Range(ProduceIn(p, eff, resource, amount)) : Exists(w, x[1])
<1> DEFINE mats == Map(LAMBDA m : <<Item(m[1]), CeilPercent(eff[1] * m[2])>>, p.materials)
           rest == <<<<LineTime, eff[2] * p.time>>, <<resource, amount>>>>
<1>1. ProduceIn(p, eff, resource, amount) = Together(<<mats, rest>>)
  BY DEF ProduceIn
<1>2. \A i \in DOMAIN mats : i \in DOMAIN p.materials /\ mats[i][1] = Item(p.materials[i][1])
  BY DEF Map
<1>3. \A x \in Range(rest) : Exists(w, x[1])
  BY RangeTwo, OthersExist
<1> HIDE DEF mats, rest
<1>4. \A x \in Range(mats) : Exists(w, x[1])
  BY <1>2, NamedExist DEF Range
<1> QED  BY <1>1, <1>3, <1>4, RangeBoth

\* What produce() adds is made, and the two jobs are told apart by their
\* source.
LEMMA ProduceMade ==
  ASSUME NEW w, SoundWs(w), NEW p \in Range(Products(w)), NEW eff
  PROVE  /\ Clean(Produce(w, p, eff))
         /\ \A k \in DOMAIN Produce(w, p, eff) :
              \E tech, source : Produce(w, p, eff)[k].name = <<tech, source, eff, p.product>>
<1> DEFINE ok == HasTechLevel(w, p.bp) /\ HasValue(w, p.product) /\ p.product \in w.names
           out == <<<<Item(p.product), p.quantity>>>>
           cost == -(JobValue(w, p.product) * w.settings.productionTax)
           tech == TechLevel(w, p.bp)
           from(source, resource, amount) ==
             Job(w, ok, <<tech, source, eff, p.product>>,
                 ProduceIn(p, eff, resource, amount), out, cost, Unlimited)
           copy == from("BPC", BPC(p.bp, eff), Run)
           orig == from("BPO", BPO(p.bp), eff[2] * p.time)
           made == Produce(w, p, eff)
<1>1. made = IF FromOriginal(w, p.bp) THEN <<orig, copy>> ELSE <<copy>>
  BY DEF Produce, ProduceIn
<1>2. /\ ok /\ p.bp \in w.names /\ p.product \in w.names /\ \A m \in Range(p.materials) : m[1] \in w.names
      /\ TypedWs(w) /\ SoundKinds(w)
  BY ProductSound DEF SoundWs
<1>3. tech \in {"T1", "T2", "T3"}
  BY DEF TechLevel
<1>4. \A x \in Range(out) : Exists(w, x[1])
  BY <1>2, RangeOne, NamedExist
<1>5. \A resource, amount : Exists(w, resource) =>
        \A x \in Range(ProduceIn(p, eff, resource, amount)) : Exists(w, x[1])
  BY <1>2, ProduceNeeds
<1>6. Exists(w, BPC(p.bp, eff)) /\ Exists(w, BPO(p.bp))
  BY <1>2, NamedExist
<1> HIDE DEF out, cost, tech
<1>7. ASSUME NEW source, NEW resource, Exists(w, resource), NEW amount
      PROVE  from(source, resource, amount) # Thrown
             /\ from(source, resource, amount).name = <<tech, source, eff, p.product>>
  <2> DEFINE in == ProduceIn(p, eff, resource, amount)
             name == <<tech, source, eff, p.product>>
  <2>1. \A x \in Range(in) : Exists(w, x[1])
    BY <1>5, <1>7
  <2>2. name[1] # "exception"
    BY <1>3
  <2>3. from(source, resource, amount) = Job(w, ok, name, in, out, cost, Unlimited)
    OBVIOUS
  <2> HIDE DEF in, name, from
  <2>4. Job(w, ok, name, in, out, cost, Unlimited) # Thrown
    BY <1>2, <1>4, <2>1, <2>2, JobMade
  <2>5. Job(w, ok, name, in, out, cost, Unlimited).name = name
    BY <2>4 DEF Job
  <2> QED  BY <2>3, <2>4, <2>5 DEF name
<1> HIDE DEF from, ok
<1>8. /\ copy # Thrown /\ copy.name = <<tech, "BPC", eff, p.product>>
      /\ orig # Thrown /\ orig.name = <<tech, "BPO", eff, p.product>>
  BY <1>6, <1>7
<1> HIDE DEF copy, orig, made
<1>9. copy.name # orig.name
  BY <1>8
<1>10. \A k \in DOMAIN made : made[k] = copy \/ made[k] = orig
  BY <1>1
<1>11. \A k, l \in DOMAIN made : made[k].name = made[l].name => k = l
  BY <1>1, <1>9
<1> QED  BY <1>8, <1>10, <1>11 DEF Clean, made

\* No efficiency is in the table twice.
LEMMA BpesDistinct ==
  ASSUME NEW i \in DOMAIN bpes, NEW j \in DOMAIN bpes, bpes[i] = bpes[j]
  PROVE  i = j
<1>1. i \in 1..8 /\ j \in 1..8
  BY DEF bpes
<1>2. /\ bpes[1][1] = 98 /\ bpes[2][1] = 100 /\ bpes[3][1] = 96 /\ bpes[4][1] = 97
      /\ bpes[5][1] = 95 /\ bpes[6][1] = 96 /\ bpes[7][1] = 97 /\ bpes[8][1] = 99
      /\ bpes[3][2] = 96 /\ bpes[6][2] = 86 /\ bpes[4][2] = 88 /\ bpes[7][2] = 98
  BY DEF bpes
<1> QED  BY <1>1, <1>2

\* The names of the decryptors in the table, row by row.
NoDecryptor == "none"
Augmentation == "Augmentation"
OptimizedAugmentation == "Optimized Augmentation"
Symmetry == "Symmetry"
Processing == "Process"
Accelerant == "Accelerant"
Parity == "Parity"
Attainment == "Attainment"
OptimizedAttainment == "Optimized Attainment"

\* No decryptor is in the table twice.
LEMMA DecryptorsDistinct ==
  ASSUME NEW i \in DOMAIN decryptors, NEW j \in DOMAIN decryptors, decryptors[i].id = decryptors[j].id
  PROVE  i = j
<1>1. decryptors = <<Decryptor(NoDecryptor, 98, 96, 0, 10), Decryptor(Augmentation, 100, 94, 9, 6),
    Decryptor(OptimizedAugmentation, 96, 96, 7, 9), Decryptor(Symmetry, 97, 88, 2, 10),
    Decryptor(Processing, 95, 90, 0, 11), Decryptor(Accelerant, 96, 86, 1, 12),
    Decryptor(Parity, 97, 98, 3, 15), Decryptor(Attainment, 99, 92, 4, 18),
    Decryptor(OptimizedAttainment, 97, 98, 2, 19)>>
  BY Zenon DEF decryptors, NoDecryptor, Augmentation, OptimizedAugmentation, Symmetry, Processing,
    Accelerant, Parity, Attainment, OptimizedAttainment
<1>2. /\ decryptors[1].id = NoDecryptor /\ decryptors[2].id = Augmentation /\ decryptors[3].id = OptimizedAugmentation
      /\ decryptors[4].id = Symmetry /\ decryptors[5].id = Processing /\ decryptors[6].id = Accelerant
      /\ decryptors[7].id = Parity /\ decryptors[8].id = Attainment /\ decryptors[9].id = OptimizedAttainment
  BY <1>1 DEF Decryptor
<1>3. /\ NoDecryptor # Augmentation /\ NoDecryptor # OptimizedAugmentation
      /\ NoDecryptor # Symmetry /\ NoDecryptor # Processing
      /\ NoDecryptor # Accelerant /\ NoDecryptor # Parity /\ NoDecryptor # Attainment
      /\ NoDecryptor # OptimizedAttainment
      /\ Augmentation # OptimizedAugmentation /\ Augmentation # Symmetry
      /\ Augmentation # Processing /\ Augmentation # Accelerant
      /\ Augmentation # Parity /\ Augmentation # Attainment
      /\ Augmentation # OptimizedAttainment
      /\ OptimizedAugmentation # Symmetry /\ OptimizedAugmentation # Processing
      /\ OptimizedAugmentation # Accelerant /\ OptimizedAugmentation # Parity
      /\ OptimizedAugmentation # Attainment /\ OptimizedAugmentation # OptimizedAttainment
      /\ Symmetry # Processing /\ Symmetry # Accelerant /\ Symmetry # Parity
      /\ Symmetry # Attainment /\ Symmetry # OptimizedAttainment
      /\ Processing # Accelerant /\ Processing # Parity /\ Processing # Attainment
      /\ Processing # OptimizedAttainment
      /\ Accelerant # Parity /\ Accelerant # Attainment
      /\ Accelerant # OptimizedAttainment
      /\ Parity # Attainment /\ Parity # OptimizedAttainment
      /\ Attainment # OptimizedAttainment
  BY Zenon DEF NoDecryptor, Augmentation, OptimizedAugmentation, Symmetry, Processing, Accelerant,
    Parity, Attainment, OptimizedAttainment
<1>4. i \in 1..9 /\ j \in 1..9
  BY NineDecryptors
<1> QED  BY <1>2, <1>3, <1>4

\* No two rows of the products are about the same product.
LEMMA ProductionPlaces ==
  ASSUME NEW w, SoundWs(w), NEW i \in DOMAIN Products(w), NEW j \in DOMAIN Products(w),
         Products(w)[i].product = Products(w)[j].product
  PROVE  i = j
<1>1. ASSUME NEW k \in DOMAIN Products(w)
      PROVE  /\ k \in DOMAIN w.blueprints /\ w.blueprints[k] \in Nodes(w)
             /\ MakesFirst(w.blueprints[k], Products(w)[k].product)
  <2> DEFINE b == w.blueprints[k]
             row == [bp |-> b.id, product |-> b.manufacturing.products[1].type,
                     quantity |-> b.manufacturing.products[1].quantity,
                     materials |-> b.manufacturing.materials,
                     skills |-> b.manufacturing.skills, time |-> b.manufacturing.time]
  <2>1. k \in DOMAIN AllProducts(w) /\ Products(w)[k] = AllProducts(w)[k]
    BY <1>1 DEF Products, Skilled, RestrictValues, Restrict
  <2>2. k \in DOMAIN w.blueprints /\ CanManufacture(w, b) /\ Products(w)[k] = row
    BY <2>1 DEF AllProducts, Map, RestrictValues, Restrict, Named
  <2>3. b \in Nodes(w)
    BY <2>2 DEF Nodes, Range
  <2> HIDE DEF b
  <2> DEFINE a == b.manufacturing
  <2>4. Products(w)[k].product = a.products[1].type
    BY <2>2
  <2>5. Defined(a, {"products"}) /\ Len(a.products) = 1
    BY <2>2 DEF CanManufacture, Defined
  <2>6. Len(<<>>) # 1
    OBVIOUS
  <2>7. a.products # <<>>
    BY <2>5, <2>6, Zenon
  <2>8. ProductsOf(a) = a.products
    BY <2>5 DEF ProductsOf
  <2>9. MakesFirst(b, Products(w)[k].product)
    BY <2>4, <2>7, <2>8 DEF MakesFirst
  <2> QED  BY <2>2, <2>3, <2>9 DEF b
<1>2. w.blueprints[i] = w.blueprints[j]
  BY <1>1, FirstMaker DEF SoundWs, SoundKinds
<1> QED  BY <1>1, <1>2 DEF SoundWs, TypedWs, TypedBlueprints

\* The jobs that produce one product.
ProductionsOf(w, p, effs) == Together(Map(LAMBDA eff : Produce(w, p, eff), effs))

\* They are made, and are told apart by their efficiency and source.
LEMMA ProductionsClean ==
  ASSUME NEW w, SoundWs(w), NEW p \in Range(Products(w)), NEW effs, effs = <<Plain>> \/ effs = bpes
  PROVE  /\ Clean(ProductionsOf(w, p, effs))
         /\ \A k \in DOMAIN ProductionsOf(w, p, effs) :
              ProductionsOf(w, p, effs)[k].name[4] = p.product
<1> DEFINE lists == Map(LAMBDA eff : Produce(w, p, eff), effs)
<1>1. DOMAIN lists = DOMAIN effs /\ \A i \in DOMAIN lists : lists[i] = Produce(w, p, effs[i])
  BY DEF Map
<1>2. ProductionsOf(w, p, effs) = Together(lists)
  BY DEF ProductionsOf
<1> HIDE DEF lists
<1>3. \A i, j \in DOMAIN effs : effs[i] = effs[j] => i = j
  BY BpesDistinct
<1>4. ASSUME NEW i \in DOMAIN lists
      PROVE  /\ Clean(lists[i])
             /\ \A k \in DOMAIN lists[i] : lists[i][k].name[3] = effs[i] /\ lists[i][k].name[4] = p.product
  <2>1. Clean(lists[i])
    BY <1>1, ProduceMade
  <2>2. \A k \in DOMAIN lists[i] : \E tech, source : lists[i][k].name = <<tech, source, effs[i], p.product>>
    BY <1>1, ProduceMade
  <2> QED  BY <2>1, <2>2
<1>5. \A i, j \in DOMAIN lists : \A k \in DOMAIN lists[i] : \A l \in DOMAIN lists[j] :
           lists[i][k].name = lists[j][l].name => i = j
  <2> SUFFICES ASSUME NEW i \in DOMAIN lists, NEW j \in DOMAIN lists,
                      NEW k \in DOMAIN lists[i], NEW l \in DOMAIN lists[j],
                      lists[i][k].name = lists[j][l].name
               PROVE  i = j
    OBVIOUS
  <2>1. effs[i] = effs[j]
    BY <1>4
  <2> QED  BY <1>1, <1>3, <2>1
<1> DEFINE made == Together(lists)
<1>6. Clean(made)
  BY <1>4, <1>5, TogetherClean
<1>7. \A k \in DOMAIN made : made[k].name[4] = p.product
  BY <1>4, TogetherAt
<1> HIDE DEF made
<1> QED  BY <1>2, <1>6, <1>7 DEF made

\* The jobs that produce are made, under names of their own.
LEMMA ManufacturingClean ==
  ASSUME NEW w, SoundWs(w)
  PROVE  Clean(ManufacturingJobs(w))
<1> DEFINE kept == RestrictValues(Products(w), LAMBDA p : p.bp \notin w.settings.ignoreList)
           effs(p) == IF isT1BP(w, p.bp) THEN <<Plain>> ELSE bpes
           jobs(p) == IF ~checkItem(w, p.bp) THEN <<Thrown>> ELSE ProductionsOf(w, p, effs(p))
           lists == Map(jobs, kept)
<1>1. ManufacturingJobs(w) = Together(lists)
  BY DEF ManufacturingJobs, ProductionsOf
<1>2. \A i \in DOMAIN kept : i \in DOMAIN Products(w) /\ kept[i] = Products(w)[i]
  BY DEF RestrictValues, Restrict
<1> HIDE DEF kept
<1>3. \A i \in DOMAIN lists : i \in DOMAIN kept /\ lists[i] = jobs(kept[i])
  BY DEF Map
<1>4. ASSUME NEW p  PROVE jobs(p) = ProductionsOf(w, p, effs(p))
  <2>1. checkItem(w, p.bp)
    BY ItemKind DEF SoundWs
  <2> QED  BY <2>1
<1> HIDE DEF lists, jobs
<1>5. ASSUME NEW i \in DOMAIN lists
      PROVE  /\ i \in DOMAIN Products(w) /\ Clean(lists[i])
             /\ \A k \in DOMAIN lists[i] : lists[i][k].name[4] = Products(w)[i].product
  <2> DEFINE p == Products(w)[i]
             e == effs(p)
  <2>1. i \in DOMAIN Products(w) /\ lists[i] = ProductionsOf(w, p, e)
    BY <1>2, <1>3, <1>4
  <2>2. p \in Range(Products(w))
    BY <2>1 DEF Range
  <2>3. e = <<Plain>> \/ e = bpes
    OBVIOUS
  <2> HIDE DEF e, p
  <2>4. Clean(lists[i]) /\ \A k \in DOMAIN lists[i] : lists[i][k].name[4] = p.product
    BY <2>1, <2>2, <2>3, ProductionsClean
  <2> QED  BY <2>1, <2>4 DEF p
<1>6. \A i, j \in DOMAIN lists : \A k \in DOMAIN lists[i] : \A l \in DOMAIN lists[j] :
           lists[i][k].name = lists[j][l].name => i = j
  <2> SUFFICES ASSUME NEW i \in DOMAIN lists, NEW j \in DOMAIN lists,
                      NEW k \in DOMAIN lists[i], NEW l \in DOMAIN lists[j],
                      lists[i][k].name = lists[j][l].name
               PROVE  i = j
    OBVIOUS
  <2>1. Products(w)[i].product = Products(w)[j].product
    BY <1>5
  <2> QED  BY <1>5, <2>1, ProductionPlaces
<1> QED  BY <1>1, <1>5, <1>6, TogetherClean

\* What is said of an invention of data that is sound.
LEMMA InventionSound ==
  ASSUME NEW w, SoundWs(w), NEW b \in Nodes(w), b.id \in w.names, CanInvent(w, b),
         NEW n \in DOMAIN Likely(b)
  PROVE  LET r == InventionsOf(w, b)[n]
         IN  /\ r.bp = b.id /\ r.product = b.invention.products[n].type
             /\ r.tier = IF Sleeper(b) THEN "T3" ELSE "T2"
             /\ n \in DOMAIN ProductsOf(b.invention)
             /\ r.product \in w.names
             /\ \A m \in Range(r.materials) : m[1] \in w.names
<1> DEFINE r == InventionsOf(w, b)[n]
           i == b.invention
<1>1. /\ r.bp = b.id /\ r.product = i.products[n].type /\ r.materials = i.materials
      /\ r.tier = IF Sleeper(b) THEN "T3" ELSE "T2"
  BY DEF InventionsOf
<1> HIDE DEF r
<1>2. Defined(i, {"products"}) /\ Defined(i, {"materials"})
  BY DEF CanInvent, Defined
<1>3. ProductsOf(i) = i.products
  BY <1>2 DEF ProductsOf
<1>4. n \in DOMAIN ProductsOf(i)
  BY <1>3 DEF Likely, RestrictValues, Restrict
<1>5. r.product \in Outcomes(b)
  BY <1>1, <1>3, <1>4 DEF Outcomes, Range
<1>6. \A m \in Range(r.materials) : m[1] \in Mentions(b)
  BY <1>1, <1>2, Mentioned
<1>7. r.product \in w.names /\ \A m \in Range(r.materials) : m[1] \in w.names
  BY <1>5, <1>6 DEF SoundWs
<1> QED  BY <1>1, <1>4, <1>7 DEF r

\* Everything a job that invents takes exists.
LEMMA ResearchNeeds ==
  ASSUME NEW w, TypedWs(w), SoundKinds(w), NEW r, \A m \in Range(r.materials) : m[1] \in w.names,
         r.bp \in w.names, NEW d, d.id # "none" => d.id \in w.names
  PROVE  \A x \in Range(ResearchIn(r, d)) : Exists(w, x[1])
<1> DEFINE mats == Items(r.materials)
           dec == IF d.id = "none" THEN <<>> ELSE <<<<Item(d.id), 1>>>>
           rest == <<IF r.tier = "T2" THEN <<BPC(r.bp, Plain), Run>> ELSE <<Item(r.bp), 1>>,
                     <<LabTime, 100 * r.time>>>>
<1>1. ResearchIn(r, d) = Together(<<mats, dec, rest>>)
  BY DEF ResearchIn
<1>2. \A i \in DOMAIN mats : i \in DOMAIN r.materials /\ mats[i][1] = Item(r.materials[i][1])
  BY DEF Items, Map
<1>3. \A x \in Range(dec) : Exists(w, x[1])
  BY EmptyRange, RangeOne, NamedExist
<1>4. \A x \in Range(rest) : Exists(w, x[1])
  BY RangeTwo, NamedExist, OthersExist
<1> HIDE DEF mats, dec, rest
<1>5. \A x \in Range(mats) : Exists(w, x[1])
  BY <1>2, NamedExist DEF Range
<1>6. \A x \in Range(Together(<<mats, dec, rest>>)) : x \in Range(mats) \/ x \in Range(dec) \/ x \in Range(rest)
  BY RangeThree
<1> QED  BY <1>1, <1>3, <1>4, <1>5, <1>6

\* So the job is made, named by the blueprint, the decryptor and the outcome.
LEMMA ResearchMade ==
  ASSUME NEW w, TypedWs(w), SoundKinds(w), NEW r, \A m \in Range(r.materials) : m[1] \in w.names,
         r.bp \in w.names, r.product \in w.names, NEW d, d.id # "none" => d.id \in w.names
  PROVE  /\ Research(w, r, d) # Thrown
         /\ Research(w, r, d).name = <<"Research", r.bp, d.id, r.product>>
<1> DEFINE ok == d.id # "none" => d.id \in w.names
           name == <<"Research", r.bp, d.id, r.product>>
           in == ResearchIn(r, d)
           out == <<<<BPC(r.product, d.eff), d.probability * r.probability * (r.quantity + d.runs)>>>>
           cost == -(JobValue(w, r.product) * w.settings.inventionTax)
<1>1. Research(w, r, d) = Job(w, ok, name, in, out, cost, Unlimited)
  BY DEF Research, ResearchIn
<1>2. \A x \in Range(in) : Exists(w, x[1])
  BY ResearchNeeds
<1>3. \A x \in Range(out) : Exists(w, x[1])
  BY RangeOne, NamedExist
<1>4. name[1] # "exception"
  OBVIOUS
<1>5. ok
  OBVIOUS
<1> HIDE DEF ok, name, in, out, cost
<1>6. Research(w, r, d) # Thrown
  BY <1>1, <1>2, <1>3, <1>4, <1>5, JobMade
<1> QED  BY <1>6, ResearchFields

\* The jobs that invent one outcome.
ResearchesOf(w, r) == Map(LAMBDA d : Research(w, r, d), decryptors)

\* They are made, and are told apart by the decryptor.
LEMMA ResearchesClean ==
  ASSUME NEW w, SoundWs(w), NEW r, \A m \in Range(r.materials) : m[1] \in w.names,
         r.bp \in w.names, r.product \in w.names
  PROVE  /\ Clean(ResearchesOf(w, r))
         /\ \A k \in DOMAIN ResearchesOf(w, r) :
              /\ ResearchesOf(w, r)[k].name[2] = r.bp /\ ResearchesOf(w, r)[k].name[4] = r.product
<1> DEFINE made == ResearchesOf(w, r)
<1>1. \A k \in DOMAIN made : k \in DOMAIN decryptors /\ made[k] = Research(w, r, decryptors[k])
  BY DEF ResearchesOf, Map
<1> HIDE DEF made
<1>2. TypedWs(w) /\ SoundKinds(w)
  BY DEF SoundWs
<1>3. \A k \in DOMAIN decryptors : decryptors[k].id # "none" => decryptors[k].id \in w.names
  BY DEF SoundWs, Range
<1>4. ASSUME NEW k \in DOMAIN made
      PROVE  made[k] # Thrown /\ made[k].name = <<"Research", r.bp, decryptors[k].id, r.product>>
  <2> DEFINE d == decryptors[k]
  <2>1. d.id # "none" => d.id \in w.names
    BY <1>1, <1>3
  <2>2. made[k] = Research(w, r, d)
    BY <1>1
  <2> HIDE DEF d
  <2>3. Research(w, r, d) # Thrown /\ Research(w, r, d).name = <<"Research", r.bp, d.id, r.product>>
    BY <1>2, <2>1, ResearchMade
  <2> QED  BY <2>2, <2>3 DEF d
<1>5. ASSUME NEW k \in DOMAIN made, NEW l \in DOMAIN made, made[k].name = made[l].name  PROVE k = l
  <2>1. decryptors[k].id = decryptors[l].id
    BY <1>4, <1>5
  <2> QED  BY <1>1, <2>1, DecryptorsDistinct
<1>6. Clean(made)
  BY <1>4, <1>5 DEF Clean
<1>7. \A k \in DOMAIN made : made[k].name[2] = r.bp /\ made[k].name[4] = r.product
  BY <1>4
<1> QED  BY <1>6, <1>7 DEF made

\* Two outcomes of a node, or the outcomes of two nodes, are told apart.
LEMMA OutcomesDistinct ==
  ASSUME NEW w, SoundWs(w), NEW s, NEW t, NEW k \in DOMAIN Inventions(w, s), NEW l \in DOMAIN Inventions(w, t),
         Inventions(w, s)[k].bp = Inventions(w, t)[l].bp,
         Inventions(w, s)[k].product = Inventions(w, t)[l].product
  PROVE  k = l /\ s = t
<1>1. PICK i \in DOMAIN w.blueprints : \E n \in DOMAIN Likely(w.blueprints[i]) :
           LET b == w.blueprints[i]
           IN  /\ k = <<i, n>> /\ b.id \in w.names /\ CanInvent(w, b)
               /\ Inventions(w, s)[k] = InventionsOf(w, b)[n]
               /\ InventionsOf(w, b)[n].tier = s
  BY InventionPlace
<1>2. PICK j \in DOMAIN w.blueprints : \E n \in DOMAIN Likely(w.blueprints[j]) :
           LET b == w.blueprints[j]
           IN  /\ l = <<j, n>> /\ b.id \in w.names /\ CanInvent(w, b)
               /\ Inventions(w, t)[l] = InventionsOf(w, b)[n]
               /\ InventionsOf(w, b)[n].tier = t
  BY InventionPlace
<1> DEFINE b == w.blueprints[i]
           c == w.blueprints[j]
<1>3. PICK n \in DOMAIN Likely(b) :
        /\ k = <<i, n>> /\ b.id \in w.names /\ CanInvent(w, b)
        /\ Inventions(w, s)[k] = InventionsOf(w, b)[n] /\ InventionsOf(w, b)[n].tier = s
  BY <1>1
<1>4. PICK m \in DOMAIN Likely(c) :
        /\ l = <<j, m>> /\ c.id \in w.names /\ CanInvent(w, c)
        /\ Inventions(w, t)[l] = InventionsOf(w, c)[m] /\ InventionsOf(w, c)[m].tier = t
  BY <1>2
<1>5. b \in Nodes(w) /\ c \in Nodes(w)
  BY DEF Nodes, Range
<1>6. i = j => b = c
  OBVIOUS
<1>7. b.id = c.id => i = j
  BY DEF SoundWs, TypedWs, TypedBlueprints
<1> HIDE DEF b, c
<1>8. /\ InventionsOf(w, b)[n].bp = b.id /\ InventionsOf(w, b)[n].product = b.invention.products[n].type
      /\ InventionsOf(w, b)[n].tier = IF Sleeper(b) THEN "T3" ELSE "T2"
      /\ n \in DOMAIN ProductsOf(b.invention)
  BY <1>3, <1>5, InventionSound
<1>9. /\ InventionsOf(w, c)[m].bp = c.id /\ InventionsOf(w, c)[m].product = c.invention.products[m].type
      /\ InventionsOf(w, c)[m].tier = IF Sleeper(c) THEN "T3" ELSE "T2"
      /\ m \in DOMAIN ProductsOf(c.invention)
  BY <1>4, <1>5, InventionSound
<1>10. i = j /\ b = c
  BY <1>3, <1>4, <1>6, <1>7, <1>8, <1>9
<1>11. b.invention.products[n].type = b.invention.products[m].type
  BY <1>3, <1>4, <1>8, <1>9, <1>10
<1>12. n = m
  BY <1>5, <1>8, <1>9, <1>10, <1>11, NodeTyped DEF SoundWs
<1> QED  BY <1>3, <1>4, <1>8, <1>9, <1>10, <1>12

\* The jobs that invent at one tier are made, under names of their own.
LEMMA InventionClean ==
  ASSUME NEW w, SoundWs(w), NEW tier
  PROVE  Clean(InventionJobs(w, tier))
<1> DEFINE known == RestrictValues(Inventions(w, tier), LAMBDA r : HasValue(w, r.product))
           row(r) == ResearchesOf(w, r)
           lists == Map(row, known)
<1>1. InventionJobs(w, tier) = Together(lists)
  BY DEF InventionJobs, ResearchesOf
<1>2. \A k \in DOMAIN known : k \in DOMAIN Inventions(w, tier) /\ known[k] = Inventions(w, tier)[k]
  BY DEF RestrictValues, Restrict
<1> HIDE DEF known
<1>3. \A k \in DOMAIN lists : k \in DOMAIN known /\ lists[k] = ResearchesOf(w, known[k])
  BY DEF Map
<1> HIDE DEF lists
<1>4. ASSUME NEW k \in DOMAIN Inventions(w, tier)
      PROVE  LET r == Inventions(w, tier)[k]
             IN  /\ r.bp \in w.names /\ r.product \in w.names
                 /\ \A m \in Range(r.materials) : m[1] \in w.names
  <2>1. PICK i \in DOMAIN w.blueprints : \E n \in DOMAIN Likely(w.blueprints[i]) :
           LET b == w.blueprints[i]
           IN  /\ k = <<i, n>> /\ b.id \in w.names /\ CanInvent(w, b)
               /\ Inventions(w, tier)[k] = InventionsOf(w, b)[n]
               /\ InventionsOf(w, b)[n].tier = tier
    BY InventionPlace
  <2> DEFINE b == w.blueprints[i]
  <2>2. PICK n \in DOMAIN Likely(b) :
          /\ b.id \in w.names /\ CanInvent(w, b) /\ Inventions(w, tier)[k] = InventionsOf(w, b)[n]
    BY <2>1
  <2>3. b \in Nodes(w)
    BY DEF Nodes, Range
  <2> HIDE DEF b
  <2> QED  BY <2>2, <2>3, InventionSound
<1>5. ASSUME NEW k \in DOMAIN lists
      PROVE  /\ k \in DOMAIN Inventions(w, tier) /\ Clean(lists[k])
             /\ \A x \in DOMAIN lists[k] : /\ lists[k][x].name[2] = Inventions(w, tier)[k].bp
                                           /\ lists[k][x].name[4] = Inventions(w, tier)[k].product
  <2> DEFINE r == Inventions(w, tier)[k]
  <2>1. k \in DOMAIN Inventions(w, tier) /\ lists[k] = ResearchesOf(w, r)
    BY <1>2, <1>3
  <2>2. r.bp \in w.names /\ r.product \in w.names /\ \A m \in Range(r.materials) : m[1] \in w.names
    BY <1>4, <2>1
  <2> HIDE DEF r
  <2>3. /\ Clean(lists[k])
        /\ \A x \in DOMAIN lists[k] : lists[k][x].name[2] = r.bp /\ lists[k][x].name[4] = r.product
    BY <2>1, <2>2, ResearchesClean
  <2> QED  BY <2>1, <2>3 DEF r
<1>6. \A k, l \in DOMAIN lists : \A x \in DOMAIN lists[k] : \A y \in DOMAIN lists[l] :
           lists[k][x].name = lists[l][y].name => k = l
  <2> SUFFICES ASSUME NEW k \in DOMAIN lists, NEW l \in DOMAIN lists,
                      NEW x \in DOMAIN lists[k], NEW y \in DOMAIN lists[l],
                      lists[k][x].name = lists[l][y].name
               PROVE  k = l
    OBVIOUS
  <2>1. /\ Inventions(w, tier)[k].bp = Inventions(w, tier)[l].bp
        /\ Inventions(w, tier)[k].product = Inventions(w, tier)[l].product
    BY <1>5
  <2> QED  BY <1>5, <2>1, OutcomesDistinct
<1> QED  BY <1>1, <1>5, <1>6, TogetherClean

-----------------------------------------------------------------------------
(* The lists of the steps do not meet                                      *)

\* So is each of the lists the steps feed.
LEMMA ListsClean ==
  ASSUME NEW w, SoundWs(w), NEW step \in FeedSteps
  PROVE  Clean(JobsAt(w, step))
<1>1. /\ Clean(PlanetaryJobs(w)) /\ Clean(MarketJobs(w)) /\ Clean(ManufacturingJobs(w))
      /\ Clean(InventionJobs(w, "T2")) /\ Clean(InventionJobs(w, "T3")) /\ Clean(CopyJobs(w))
  BY PlanetaryClean, MarketClean, ManufacturingClean, InventionClean, CopyClean
<1> QED  BY <1>1 DEF JobsAt, FeedSteps

\* What the names of the jobs of a step begin with.
Tags ==
  [built |-> Offers, addMarket |-> {"Buy", "Sell"}, addProduction |-> Levels,
   addT2Invention |-> {"Research"}, addT3Invention |-> {"Research"}, addCopy |-> {"Copy"}]

\* The first part of a job's name tells the list it is in, but for the two
\* tiers of invention.
LEMMA TagOf ==
  ASSUME NEW w, NEW step \in FeedSteps, NEW J \in Range(JobsAt(w, step)), J # Thrown
  PROVE  J.name[1] \in Tags[step]
<1>1. CASE step = "built"
  BY <1>1, PlanetaryNames DEF JobsAt, Tags
<1>2. CASE step = "addMarket"
  BY <1>2, MarketForm, BuyForm, SellForm DEF JobsAt, Tags
<1>3. CASE step = "addProduction"
  BY <1>3, ProductionNames DEF JobsAt, Tags
<1>4. CASE step = "addT2Invention"
  BY <1>4, ResearchNames DEF JobsAt, Tags
<1>5. CASE step = "addT3Invention"
  BY <1>5, ResearchNames DEF JobsAt, Tags
<1>6. CASE step = "addCopy"
  BY <1>6, CopyForm DEF JobsAt, Tags
<1> QED  BY <1>1, <1>2, <1>3, <1>4, <1>5, <1>6 DEF FeedSteps

\* And no job is in the lists of both tiers.
LEMMA InventionsApart ==
  ASSUME NEW w, SoundWs(w), NEW s, NEW t,
         NEW J \in Range(InventionJobs(w, s)), NEW K \in Range(InventionJobs(w, t)),
         J # Thrown, K # Thrown, J.name = K.name
  PROVE  s = t
<1>1. ASSUME NEW u, NEW L \in Range(InventionJobs(w, u)), L # Thrown
      PROVE  \E k \in DOMAIN Inventions(w, u) :
               L.name[2] = Inventions(w, u)[k].bp /\ L.name[4] = Inventions(w, u)[k].product
  <2>1. PICK r \in Range(Inventions(w, u)) : \E d \in Range(decryptors) : L = Research(w, r, d)
    BY <1>1, ResearchForm
  <2>2. L.name[2] = r.bp /\ L.name[4] = r.product
    BY <1>1, <2>1, ResearchFields
  <2>3. PICK k \in DOMAIN Inventions(w, u) : r = Inventions(w, u)[k]
    BY DEF Range
  <2> QED  BY <2>2, <2>3
<1>2. PICK k \in DOMAIN Inventions(w, s) :
        J.name[2] = Inventions(w, s)[k].bp /\ J.name[4] = Inventions(w, s)[k].product
  BY <1>1
<1>3. PICK l \in DOMAIN Inventions(w, t) :
        K.name[2] = Inventions(w, t)[l].bp /\ K.name[4] = Inventions(w, t)[l].product
  BY <1>1
<1> QED  BY <1>2, <1>3, OutcomesDistinct

\* Jobs of two steps have two names.
LEMMA StepsApart ==
  ASSUME NEW w, SoundWs(w), NEW s \in FeedSteps, NEW t \in FeedSteps,
         NEW J \in Range(JobsAt(w, s)), NEW K \in Range(JobsAt(w, t)),
         J # Thrown, K # Thrown, J.name = K.name
  PROVE  s = t
<1>1. J.name[1] \in Tags[s] \cap Tags[t]
  BY TagOf
<1>2. s = t \/ {s, t} = {"addT2Invention", "addT3Invention"}
  BY <1>1 DEF Tags, FeedSteps, Offers, Levels
<1>3. CASE s = "addT2Invention" /\ t = "addT3Invention"
  <2>1. J \in Range(InventionJobs(w, "T2")) /\ K \in Range(InventionJobs(w, "T3"))
    BY <1>3 DEF JobsAt
  <2> QED  BY <2>1, InventionsApart
<1>4. CASE s = "addT3Invention" /\ t = "addT2Invention"
  <2>1. J \in Range(InventionJobs(w, "T3")) /\ K \in Range(InventionJobs(w, "T2"))
    BY <1>4 DEF JobsAt
  <2> QED  BY <2>1, InventionsApart
<1> QED  BY <1>2, <1>3, <1>4

\* While the planner is fed, every column comes from a step that is over.
OnlyFed ==
  pc \in FeedSteps =>
    \A n \in DOMAIN columns : \E step \in FeedSteps :
      pc \in Since[step] /\ columns[n] \in Range(JobsAt(ws, step))

\* What a feeding step adds comes from its list.
LEMMA FeedOnlyFed ==
  ASSUME LoadedInv, ColumnsInv, OnlyFed, NEW step \in FeedSteps, FeedsJobs(step)
  PROVE  OnlyFed'
<1> DEFINE jobs == JobsAt(ws, step)
           to == Following[step]
<1>1. Feed(step, jobs, to) /\ pc = step
  BY DEF FeedsJobs, Feed
<1>2. to \in Since[step] /\ to # "failed" /\ \A s \in FeedSteps : step \in Since[s] => to \in Since[s]
  BY DEF FeedSteps, Following, Since, Planning
<1>3. IsFiniteSet(DOMAIN jobs) /\ IsFiniteSet(DOMAIN columns)
  BY WsTyped, ListsFinite DEF ColumnsInv
<1>4. ws' = ws /\ pc' \in {to, "failed"}
  BY <1>1, <1>2, FeedKeepsRest, WsSame
<1> HIDE DEF jobs, to
<1>5. CASE pc' = "failed"
  BY <1>5 DEF OnlyFed, FeedSteps
<1>6. CASE pc' # "failed"
  <2>1. /\ pc' = to
        /\ \A n \in DOMAIN columns : n \in DOMAIN columns' /\ columns'[n] = columns[n]
        /\ \A n \in DOMAIN columns' \ DOMAIN columns : columns'[n] \in Range(jobs)
    BY <1>1, <1>3, <1>4, <1>6, FeedAdds
  <2>2. ASSUME NEW n \in DOMAIN columns'
        PROVE  \E s \in FeedSteps : pc' \in Since[s] /\ columns'[n] \in Range(JobsAt(ws', s))
    <3>1. CASE n \in DOMAIN columns
      BY <1>1, <1>2, <1>4, <2>1, <3>1 DEF OnlyFed
    <3>2. CASE n \notin DOMAIN columns
      BY <1>2, <1>4, <2>1, <3>2 DEF jobs
    <3> QED  BY <3>1, <3>2
  <2> QED  BY <2>2 DEF OnlyFed
<1> QED  BY <1>5, <1>6

\* Every step keeps the columns from lists that have been fed.
LEMMA OnlyFedStep ==
  ASSUME LoadedInv, ColumnsInv, OnlyFed, [Next]_vars
  PROVE  OnlyFed'
<1> USE DEF Goto, Write
<1>1. CASE pc' \notin FeedSteps
  BY <1>1 DEF OnlyFed
<1>2. CASE pc' = "built" /\ ColumnsInv'
  BY <1>2 DEF OnlyFed, ColumnsInv
<1>3. CASE UNCHANGED vars
  <2>1. ws' = ws /\ pc' = pc /\ columns' = columns
    BY <1>3, WsSame DEF vars, loaded
  <2> QED  BY <2>1 DEF OnlyFed
<1>4. ASSUME NEW step \in FeedSteps, FeedsJobs(step)  PROVE OnlyFed'
  BY <1>4, FeedOnlyFed
<1>5. CASE pc' \in FeedSteps \ {"built"} /\ Next
  <2>1. ~(\/ UpdateSources \/ Kill \/ Exit
          \/ \E f \in DOMAIN files : DeleteCache(f)
          \/ Start \/ ReadTypeIds \/ LoadYaml \/ OpenNames \/ OpenGroups \/ CloseGroups \/ CloseNames
          \/ CompareTypeIds \/ LoadFiles \/ ReadMarket \/ LoadOrdersFromDB \/ OpenMarket
          \/ CloseMarket \/ CompareMarket)
    BY <1>5 DEF UpdateSources, DeleteCache, Start, ReadTypeIds, LoadYaml, OpenNames, Kill, Exit, Stop,
       OpenGroups, CloseGroups, CloseNames, CompareTypeIds, LoadFiles, ReadMarket,
       LoadOrdersFromDB, OpenMarket, CloseMarket, CompareMarket, FeedSteps
  <2>2. ~Solve /\ ~Report /\ ~\E j \in DOMAIN columns : Choose(j)
    BY <1>5 DEF Solve, Report, Choose, FeedSteps
  <2> QED  BY <1>4, <1>5, <2>1, <2>2, FeedActions DEF Next
<1>6. ColumnsInv'
  BY ColumnsStep
<1> QED  BY <1>1, <1>2, <1>3, <1>5, <1>6

\* The planner refuses none of the jobs made of data that is sound.
LEMMA NoneRefused ==
  ASSUME LoadedInv, ColumnsInv, OnlyFed, SoundWs(ws), NEW step \in FeedSteps, FeedsJobs(step)
  PROVE  pc' # "failed"
<1> DEFINE jobs == JobsAt(ws, step)
           to == Following[step]
<1> SUFFICES ASSUME pc' = "failed" PROVE FALSE
  OBVIOUS
<1>1. Feed(step, jobs, to) /\ pc = step
  BY DEF FeedsJobs, Feed
<1>2. to # "failed"
  BY DEF FeedSteps, Following
<1>3. IsFiniteSet(DOMAIN jobs)
  BY WsTyped, ListsFinite
<1>4. Clean(jobs)
  BY ListsClean
<1>5. ASSUME NEW k \in DOMAIN jobs  PROVE jobs[k] # Thrown /\ jobs[k].name \notin DOMAIN columns
  <2>1. jobs[k] # Thrown /\ jobs[k] \in Range(JobsAt(ws, step))
    BY <1>4 DEF Clean, Range
  <2>2. SUFFICES ASSUME jobs[k].name \in DOMAIN columns PROVE FALSE
    BY <2>1
  <2> DEFINE J == jobs[k]
             K == columns[J.name]
  <2>3. K # Thrown /\ K.name = J.name
    BY <2>2 DEF ColumnsInv
  <2>4. PICK s \in FeedSteps : pc \in Since[s] /\ K \in Range(JobsAt(ws, s))
    BY <1>1, <2>2 DEF OnlyFed
  <2> HIDE DEF J, K
  <2>5. s = step
    BY <2>1, <2>3, <2>4, StepsApart DEF J
  <2>6. step \notin Since[step]
    BY DEF FeedSteps, Since, Planning
  <2> QED  BY <1>1, <2>4, <2>5, <2>6
<1> HIDE DEF jobs, to
<1>6. \/ \E k \in DOMAIN jobs : jobs[k] = Thrown \/ jobs[k].name \in DOMAIN columns
      \/ \E k, l \in DOMAIN jobs : jobs[k].name = jobs[l].name /\ k # l
  BY <1>1, <1>2, <1>3, FeedRefused
<1> QED  BY <1>4, <1>5, <1>6 DEF Clean

\* Orders that are sound stay so when those without a name are dropped.
LEMMA NamedOrdersSound ==
  ASSUME NEW w, NEW orders, NEW v, NEW kept, kept = NamedIn(w, orders, v),
         \A i, j \in DOMAIN orders :
           <<orders[i].type, orders[i].id>> = <<orders[j].type, orders[j].id>> => i = j
  PROVE  /\ \A i \in DOMAIN kept :
              kept[i].type \in w.versions[v].names \cup DOMAIN w.avg \cup DOMAIN w.adj
         /\ \A i, j \in DOMAIN kept : kept[i].type = kept[j].type /\ kept[i].id = kept[j].id => i = j
<1>1. \A i \in DOMAIN kept :
        /\ i \in DOMAIN orders /\ kept[i] = orders[i]
        /\ orders[i].type \in w.versions[v].names \cup DOMAIN w.avg \cup DOMAIN w.adj
  BY DEF NamedIn, RestrictValues, Restrict
<1> QED  BY <1>1

\* The workspace of sound data, when everything is as new as the sources.
LEMMA WsSound ==
  ASSUME LoadedInv, InMemory, Sound(version), names = version, pc \in FeedSteps,
         market # NoMarket => market.names = names
  PROVE  SoundWs(ws)
<1>1. IsMarket(W, version, market) /\ version \in Nat
  BY DEF LoadedInv
<1>2. market.names = version /\ market.version = version
  <2>1. market # NoMarket
    <3>1. market.names \in 1..market.version
      BY <1>1 DEF IsMarket
    <3> QED  BY <3>1 DEF NoMarket
  <2> QED  BY <1>1, <2>1 DEF IsMarket
<1>3. /\ ws.names = NamesOf(version) /\ ws.relics = At(version).relics
      /\ ws.blueprints = At(version).blueprints /\ ws.adj = W.adj /\ ws.schematics = W.schematics
      /\ ws.sell = market.sell /\ ws.buy = market.buy
  BY DEF ws, AllNames, InMemory
<1>4. Nodes(ws) = Range(At(version).blueprints)
  BY <1>3 DEF Nodes
<1>5. TypedWs(ws)
  BY WsTyped
<1> HIDE DEF ws
<1>6. SoundKinds(ws)
  BY <1>3, <1>4 DEF Sound, OneKind, SoundKinds
<1>7. NamesOf(version) = W.versions[version].names \cup DOMAIN W.avg \cup DOMAIN W.adj
  BY DEF NamesOf, At
<1>8. DOMAIN ws.adj \subseteq ws.names
  BY <1>3, <1>7
<1>9. market.sell = NamedIn(W, At(version).sell, version) /\ market.buy = NamedIn(W, At(version).buy, version)
  BY <1>1, <1>2 DEF IsMarket, At
<1>10. /\ \A i, j \in DOMAIN At(version).sell :
            <<At(version).sell[i].type, At(version).sell[i].id>>
              = <<At(version).sell[j].type, At(version).sell[j].id>> => i = j
       /\ \A i, j \in DOMAIN At(version).buy :
            <<At(version).buy[i].type, At(version).buy[i].id>>
              = <<At(version).buy[j].type, At(version).buy[j].id>> => i = j
  BY DEF Sound, ToldApart
<1>11. NamesOrders(ws, ws.sell)
  <2>1. ws.sell = NamedIn(W, At(version).sell, version)
    BY <1>3, <1>9
  <2>2. /\ \A i \in DOMAIN ws.sell :
             ws.sell[i].type \in W.versions[version].names \cup DOMAIN W.avg \cup DOMAIN W.adj
        /\ \A i, j \in DOMAIN ws.sell :
             ws.sell[i].type = ws.sell[j].type /\ ws.sell[i].id = ws.sell[j].id => i = j
    BY <1>10, <2>1, NamedOrdersSound
  <2> QED  BY <1>3, <1>7, <2>2 DEF NamesOrders
<1>12. NamesOrders(ws, ws.buy)
  <2>1. ws.buy = NamedIn(W, At(version).buy, version)
    BY <1>3, <1>9
  <2>2. /\ \A i \in DOMAIN ws.buy :
             ws.buy[i].type \in W.versions[version].names \cup DOMAIN W.avg \cup DOMAIN W.adj
        /\ \A i, j \in DOMAIN ws.buy :
             ws.buy[i].type = ws.buy[j].type /\ ws.buy[i].id = ws.buy[j].id => i = j
    BY <1>10, <2>1, NamedOrdersSound
  <2> QED  BY <1>3, <1>7, <2>2 DEF NamesOrders
<1>13. /\ \A b \in Nodes(ws) :
            b.id \in ws.names => Mentions(b) \subseteq DOMAIN ws.adj /\ Outcomes(b) \subseteq ws.names
       /\ \A d \in Range(decryptors) : d.id # "none" => d.id \in ws.names
       /\ \A s \in Range(ws.schematics) : {m[1] : m \in Range(s.materials)} \cup {s.product} \subseteq ws.names
  BY <1>3, <1>4 DEF Sound, MentionsNamed
<1>14. \A i, j \in DOMAIN ws.schematics : ws.schematics[i].product = ws.schematics[j].product => i = j
  BY <1>3 DEF Sound, ToldApart
<1> QED  BY <1>5, <1>6, <1>8, <1>11, <1>12, <1>13, <1>14 DEF SoundWs

-----------------------------------------------------------------------------
(* A refused column has a cause                                            *)

\* What may be the matter when the program fails: data that is not sound, a
\* cache that was cut off, or one that is older than the sources or than the
\* names it was read with.
Cause ==
  \/ ~Sound(version)
  \/ Partial \in {files.names, files.groups, files.market}
  \/ names # version
  \/ market # NoMarket /\ market.names # names

\* A step that leaves the files and what was loaded alone leaves the cause.
LEMMA CauseStays ==
  ASSUME UNCHANGED <<world, version, files, loaded>>, Cause
  PROVE  Cause'
<1>1. Sound(version)' <=> Sound(version)
  BY DEF Sound, RowsNamed, MentionsNamed, OneKind, ToldApart, NamesOf, At, W
<1> QED  BY <1>1 DEF Cause, loaded

\* The invariant the last theorem rests on.
FailureInv == CachesInv /\ LoadedInv /\ ColumnsInv /\ OnlyFed /\ FailureHasCause

\* A step that fails does so for one of the causes.
LEMMA FailureStep ==
  ASSUME FailureInv, [Next]_vars
  PROVE  FailureHasCause'
<1> USE DEF FailureInv, Goto, Write
<1> SUFFICES ASSUME pc' = "failed" PROVE Cause'
  BY DEF FailureHasCause, Cause
<1>1. CASE UNCHANGED vars
  BY <1>1, CauseStays DEF FailureHasCause, Cause, vars, loaded
<1>2. CASE ReadTypeIds
  BY <1>2 DEF ReadTypeIds, Cause
<1>3. CASE CompareTypeIds
  BY <1>3 DEF CompareTypeIds, LoadedInv, CachesInv, Written
<1>4. CASE LoadFiles
  <2>1. ~RowsNamed(version) \/ names # version
    BY <1>4 DEF LoadFiles, RowsNamed, SkillsNamed, AssetsNamed, CopiesNamed, LoadedNames
  <2>2. Cause
    BY <2>1 DEF Cause, Sound
  <2> QED  BY <1>4, <2>2, CauseStays DEF LoadFiles
<1>5. CASE ReadMarket
  BY <1>5 DEF ReadMarket, Cause
<1>6. CASE CompareMarket
  BY <1>6 DEF CompareMarket, LoadedInv
<1>7. ASSUME NEW step \in FeedSteps, FeedsJobs(step)  PROVE Cause'
  <2>1. pc = step /\ UNCHANGED <<world, version, files, loaded>>
    BY <1>7 DEF FeedsJobs, Feed
  <2>2. ~SoundWs(ws)
    BY <1>7, NoneRefused
  <2>3. Cause
    BY <2>1, <2>2, WsSound DEF Cause, CachesInv
  <2> QED  BY <2>1, <2>3, CauseStays
<1>8. CASE \/ UpdateSources \/ Kill \/ Exit
           \/ \E f \in DOMAIN files : DeleteCache(f)
           \/ Start \/ LoadYaml \/ OpenNames \/ OpenGroups \/ CloseGroups \/ CloseNames
           \/ LoadOrdersFromDB \/ OpenMarket \/ CloseMarket
           \/ Solve \/ (\E j \in DOMAIN columns : Choose(j)) \/ Report
  BY <1>8 DEF UpdateSources, Kill, Exit, Stop, DeleteCache, Start, LoadYaml, OpenNames, OpenGroups,
     CloseGroups, CloseNames, LoadOrdersFromDB, OpenMarket, CloseMarket, Solve, Choose, Report
<1> QED  BY <1>1, <1>2, <1>3, <1>4, <1>5, <1>6, <1>7, <1>8, FeedActions DEF Next

\* The program never fails without a cause outside it: on sound data, with
\* the caches whole and of the latest version, every job is made, none is
\* refused for its name, and every resource a job mentions is found (the
\* exceptions thrown by newJob, newResource and the tables' at()).
THEOREM FailureCaused == Spec => []FailureHasCause
<1>1. Init => OnlyFed /\ FailureHasCause
  BY DEF Init, OnlyFed, FailureHasCause, FeedSteps
<1>2. CachesInv /\ WorkspaceInv /\ OnlyFed /\ FailureHasCause /\ [Next]_vars => OnlyFed' /\ FailureHasCause'
  BY OnlyFedStep, FailureStep DEF WorkspaceInv, FailureInv
<1> QED  BY <1>1, <1>2, Inductive, CachesAgree, PTL DEF Spec
=============================================================================
