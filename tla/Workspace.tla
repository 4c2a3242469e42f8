----------------------------- MODULE Workspace ------------------------------
(* The planner's program (src/apps/main/src): the constructor of workspace    *)
(* with the two caches it keeps in the working directory, PlannerAndStuff     *)
(* feeding the planner, and the linear program the planner hands to soplex.   *)
(*                                                                            *)
(* The program may be killed at any step; while it is down its user may       *)
(* update the source files and delete a cache. A file that is being written   *)
(* is Partial until it is closed, and so it stays when the writer is killed.  *)
EXTENDS Industry

CONSTANTS
  Worlds,        \* name of a case -> what is in the files
  FeedsPlanner,  \* TRUE for the program without the return of workspace.cpp:198
  Absent, Partial,
  MaxKills,      \* bound: times the program is killed
  MaxUnits       \* bound: units of work in a plan

(***************************************************************************)
(* What is in the files                                                    *)
(***************************************************************************)
IsList(s) == s \in Seq(Range(s))
AreCounts(f) == \A x \in DOMAIN f : f[x] \in Nat

TypedActivity(a) ==
  a # Undefined =>
    /\ \A f \in {"products", "materials", "skills"} : a[f] # Undefined => IsList(a[f])
    /\ a.products # Undefined => \A p \in Range(a.products) : p.quantity \in Nat
    /\ a.materials # Undefined => \A m \in Range(a.materials) : m[2] \in Nat
    /\ a.skills # Undefined => \A r \in Range(a.skills) : r[2] \in Nat
    /\ a.time \in Nat \cup {Undefined}

\* blueprints.yaml is keyed by the blueprint; an invention lists an outcome once.
TypedBlueprints(nodes) ==
  /\ IsList(nodes)
  /\ \A i, j \in DOMAIN nodes : nodes[i].id = nodes[j].id => i = j
  /\ \A b \in Range(nodes) :
       /\ TypedActivity(b.manufacturing) /\ TypedActivity(b.invention)
       /\ b.copying # Undefined => b.copying.time \in Nat \cup {Undefined}
       /\ \A i, j \in DOMAIN ProductsOf(b.invention) :
            LET p == b.invention.products
            IN  /\ p[i].probability \in Nat \cup {Undefined}
                /\ p[i].type = p[j].type => i = j

TypedOrders(orders) ==
  IsList(orders) /\ \A o \in Range(orders) : o.price \in Nat /\ o.volume \in Nat

TypedWorld(w) ==
  /\ IsList(w.versions) /\ w.versions # <<>>
  /\ \A v \in Range(w.versions) :
       TypedBlueprints(v.blueprints) /\ TypedOrders(v.sell) /\ TypedOrders(v.buy)
  /\ AreCounts(w.avg) /\ AreCounts(w.adj)
  /\ \A s \in DOMAIN w.levels : w.levels[s] \in 0..5
  /\ IsList(w.assets) /\ \A a \in Range(w.assets) : a[2] \in Nat
  /\ IsList(w.owned) /\ \A o \in Range(w.owned) : IsCopy(o) => o.runs \in Nat
  /\ IsList(w.schematics)
  /\ \A s \in Range(w.schematics) :
       /\ IsList(s.materials) /\ \A m \in Range(s.materials) : m[2] \in Nat
       /\ s.tier \in 0..3 /\ s.time \in Nat /\ s.quantity \in Nat
  /\ \A f \in {"timeFrame", "lines", "labs", "buyIn", "brokersFee", "salesTax",
               "productionTax", "inventionTax", "copyTax"} : w.settings[f] \in Nat

ASSUME WorldsAssumption == \A c \in DOMAIN Worlds : TypedWorld(Worlds[c])

VARIABLES
  world,     \* the case
  version,   \* of typeIDs.yaml, blueprints.yaml and market_history.db
  files,     \* the caches: names.dat, groups.dat and market_data.dat
  pc,        \* the next step of the program
  override,  \* skills_.overrideSkills, which nothing initialises
  names,     \* version of names_
  groups,    \* version of groups_
  market,    \* the market data: [names, version, sell, buy]
  columns,   \* name -> job, the columns of the linear program
  plan,      \* the solution: units of each job
  kills

vars == <<world, version, files, pc, override, names, groups, market, columns, plan, kills>>
loaded == <<override, names, groups, market>>
planner == <<columns, plan>>

W == Worlds[world]
At(v) == W.versions[v]

\* names_ before and after loadPrices, which adds the types that have a price.
LoadedNames == At(names).names
NamesOf(v) == At(v).names \cup DOMAIN W.avg \cup DOMAIN W.adj
AllNames == NamesOf(names)

\* The members of the workspace once it is constructed.
ws == [names |-> AllNames, relics |-> At(groups).relics,
       blueprints |-> At(version).blueprints,
       sell |-> market.sell, buy |-> market.buy, override |-> override,
       avg |-> W.avg, adj |-> W.adj, schematics |-> W.schematics, assets |-> W.assets,
       owned |-> W.owned, levels |-> W.levels, settings |-> W.settings]

NoMarket == [names |-> 0, version |-> 0, sell |-> <<>>, buy |-> <<>>]

Init ==
  /\ world \in DOMAIN Worlds
  /\ version = 1
  /\ files = [names |-> Absent, groups |-> Absent, market |-> Absent]
  /\ pc = "down"
  /\ override = FALSE /\ names = 0 /\ groups = 0 /\ market = NoMarket
  /\ columns = <<>> /\ plan = <<>>
  /\ kills = 0

(***************************************************************************)
(* The user and the machine                                                *)
(***************************************************************************)
UpdateSources ==
  /\ pc = "down"
  /\ version < Len(W.versions)
  /\ version' = version + 1
  /\ UNCHANGED <<world, files, pc, loaded, planner, kills>>

DeleteCache(f) ==
  /\ pc = "down"
  /\ files[f] # Absent
  /\ files' = [files EXCEPT ![f] = Absent]
  /\ UNCHANGED <<world, version, pc, loaded, planner, kills>>

\* Whatever the program had in memory is gone.
Stop ==
  /\ pc' = "down"
  /\ override' = FALSE /\ names' = 0 /\ groups' = 0 /\ market' = NoMarket
  /\ columns' = <<>> /\ plan' = <<>>
  /\ UNCHANGED <<world, version, files>>

Kill ==
  /\ pc \notin {"down", "failed", "reported", "unsolved"}
  /\ kills < MaxKills
  /\ kills' = kills + 1
  /\ Stop

\* main returns, also with the exception caught.
Exit ==
  /\ \/ pc \in {"failed", "reported", "unsolved"}
     \/ pc = "built" /\ ~FeedsPlanner
  /\ UNCHANGED kills
  /\ Stop

(***************************************************************************)
(* The constructor                                                         *)
(***************************************************************************)
Goto(from, to) == pc = from /\ pc' = to
Write(from, to, f, content) == Goto(from, to) /\ files' = [files EXCEPT ![f] = content]

Start ==
  /\ Goto("down", "loadTypeIds")
  /\ override' \in BOOLEAN
  /\ UNCHANGED <<world, version, files, names, groups, market, planner, kills>>

\* Both caches are there, or both are written anew. A file that was cut off
\* cannot be read: the archive throws.
ReadTypeIds ==
  /\ pc = "loadTypeIds"
  /\ files.names # Absent /\ files.groups # Absent
  /\ IF Partial \in {files.names, files.groups}
     THEN Goto("loadTypeIds", "failed") /\ UNCHANGED <<names, groups>>
     ELSE Goto("loadTypeIds", "loadFiles") /\ names' = files.names /\ groups' = files.groups
  /\ UNCHANGED <<world, version, files, override, market, planner, kills>>

LoadYaml ==
  /\ Absent \in {files.names, files.groups}
  /\ Goto("loadTypeIds", "openNames")
  /\ names' = version /\ groups' = version
  /\ UNCHANGED <<world, version, files, override, market, planner, kills>>

\* Slip: each file is written and closed in turn, names first.
NamesWrittenFirst == /\ Write("openNames", "openGroups", "names", names)
                     /\ UNCHANGED <<world, version, loaded, planner, kills>>

\* The tail of an archive stays in the stream's buffer until the stream is
\* closed: at the end of the block, the groups' stream first.
OpenNames == /\ Write("openNames", "openGroups", "names", Partial)
             /\ UNCHANGED <<world, version, loaded, planner, kills>>
OpenGroups == /\ Write("openGroups", "closeGroups", "groups", Partial)
              /\ UNCHANGED <<world, version, loaded, planner, kills>>
CloseGroups == /\ Write("closeGroups", "closeNames", "groups", groups)
               /\ UNCHANGED <<world, version, loaded, planner, kills>>
CloseNames == /\ Write("closeNames", "compareTypeIds", "names", names)
              /\ UNCHANGED <<world, version, loaded, planner, kills>>

\* The files are read again and compared.
CompareTypeIds ==
  /\ pc = "compareTypeIds"
  /\ pc' = (IF files.names = names /\ files.groups = groups 
            THEN "loadFiles" ELSE "failed")
  /\ UNCHANGED <<world, version, files, loaded, planner, kills>>

\* The skills that loadSkillLevels looks up by name, whoever has them.
FixedSkills ==
  {"Industry", "Science", "Advanced Industry", "Command Center Upgrades",
   "Interplanetary Consolidation", "Mass Production", "Advanced Mass Production",
   "Laboratory Operation", "Advanced Laboratory Operation",
   "Advanced Small Ship Construction", "Advanced Medium Ship Construction",
   "Advanced Large Ship Construction", "Advanced Industrial Ship Construction"}
  \cup Racial \cup Science

\* loadSkillLevels, loadAssetsFromTsv and loadOwnedBPCsFromXml look up the name
\* of every row, before the prices have added theirs.
SkillsNamed == DOMAIN W.levels \cup FixedSkills \subseteq LoadedNames
AssetsNamed == \A a \in Range(W.assets) : a[1] \in LoadedNames
CopiesNamed == \A o \in Range(W.owned) : IsCopy(o) => o.type \in LoadedNames
LoadFiles ==
  /\ pc = "loadFiles"
  /\ pc' = (IF SkillsNamed /\ AssetsNamed /\ CopiesNamed THEN "loadMarket" ELSE "failed")
  /\ UNCHANGED <<world, version, files, loaded, planner, kills>>

NamedOrders(orders, v) == RestrictValues(orders, LAMBDA o : o.type \in NamesOf(v))

ReadMarket ==
  /\ pc = "loadMarket"
  /\ files.market # Absent
  /\ IF files.market = Partial
     THEN Goto("loadMarket", "failed") /\ UNCHANGED market
     ELSE Goto("loadMarket", "built") /\ market' = files.market
  /\ UNCHANGED <<world, version, files, override, names, groups, planner, kills>>

\* Orders of a type without a name are ignored.
LoadOrdersFromDB ==
  /\ Goto("loadMarket", "openMarket")
  /\ files.market = Absent
  /\ market' = [names |-> names, version |-> version,
                sell |-> NamedOrders(At(version).sell, names),
                buy |-> NamedOrders(At(version).buy, names)]
  /\ UNCHANGED <<world, version, files, override, names, groups, planner, kills>>

OpenMarket == /\ Write("openMarket", "closeMarket", "market", Partial)
              /\ UNCHANGED <<world, version, loaded, planner, kills>>
CloseMarket == /\ Write("closeMarket", "compareMarket", "market", market)
               /\ UNCHANGED <<world, version, loaded, planner, kills>>

\* Only the sell orders are compared.
CompareMarket ==
  /\ pc = "compareMarket"
  /\ pc' = (IF files.market.sell = market.sell THEN "built" ELSE "failed")
  /\ UNCHANGED <<world, version, files, loaded, planner, kills>>

(***************************************************************************)
(* Feeding the planner                                                     *)
(***************************************************************************)
\* The jobs are built before the first is added, and building one may throw. A
\* job whose name is taken is refused.
Feed(from, jobs, to) ==
  /\ pc = from
  /\ LET made == Range(jobs)
         taken == {job.name : job \in made}
         refused == \/ Thrown \in made
                    \/ Cardinality(taken) # Cardinality(DOMAIN jobs)
                    \/ taken \cap DOMAIN columns # {}
     IN  /\ pc' = IF refused THEN "failed" ELSE to
         /\ columns' = IF refused THEN columns
                       ELSE [n \in DOMAIN columns \cup taken |->
                               IF n \in taken THEN CHOOSE job \in made : job.name = n ELSE columns[n]]
  /\ UNCHANGED <<world, version, files, loaded, plan, kills>>

AddPlanetary == FeedsPlanner /\ Feed("built", PlanetaryJobs(ws), "addMarket")
AddMarket == Feed("addMarket", MarketJobs(ws), "addProduction")
AddProduction == Feed("addProduction", ManufacturingJobs(ws), "addT2Invention")
AddT2Invention == Feed("addT2Invention", InventionJobs(ws, "T2"), "addT3Invention")
AddT3Invention == Feed("addT3Invention", InventionJobs(ws, "T3"), "addCopy")
AddCopy == Feed("addCopy", CopyJobs(ws), "solve")

(***************************************************************************)
(* The linear program: a row for the money spent and one for each resource *)
(***************************************************************************)
Rows == UNION {{e[1] : e \in Range(columns[j].in) \cup Range(columns[j].out)} : j \in DOMAIN columns}

Amount(entries, r) ==
  Sum([i \in DOMAIN entries |-> IF entries[i][1] = r THEN entries[i][2] ELSE 0])

Used(x) == {n \in DOMAIN columns : x[n] > 0}

\* What the plan x takes of a resource, beyond what it makes of it.
Activity(x, r) ==
  Sum([n \in Used(x) |-> x[n] * (Amount(columns[n].in, r) - Amount(columns[n].out, r))])

\* A resource of which there is nothing to begin with is used up exactly.
RowHolds(x, r) ==
  IF Stock(ws, r) = 0 THEN Activity(x, r) = 0 ELSE Activity(x, r) <= Stock(ws, r)

Spent(x) == Sum([n \in Used(x) |-> IF columns[n].cost < 0 THEN -(x[n] * columns[n].cost) ELSE 0])
BuyInHolds(x) == Spent(x) <= 10000 * W.settings.buyIn

\* No plan takes less than nothing of a resource: a row that asks for it is
\* what makes the program infeasible.
Idle == [j \in DOMAIN columns |-> 0]
Infeasible == \E r \in Rows : Stock(ws, r) < 0

Solve ==
  /\ pc = "solve"
  /\ pc' = (IF Infeasible THEN "unsolved" ELSE "planning")
  /\ plan' = Idle
  /\ UNCHANGED <<world, version, files, loaded, columns, kills>>

\* soplex is not part of the program: any whole solution within the bound, one
\* unit at a time in an order in which each unit finds what it needs.
Choose(j) ==
  LET x == [plan EXCEPT ![j] = @ + 1]
  IN  /\ pc = "planning"
      /\ Sum(plan) < MaxUnits
      /\ columns[j].limit # Unlimited => x[j] <= columns[j].limit
      /\ BuyInHolds(x)
      /\ \A e \in Range(columns[j].in) : Activity(x, e[1]) <= Stock(ws, e[1])
      /\ plan' = x
      /\ UNCHANGED <<world, version, files, pc, loaded, columns, kills>>

Report ==
  /\ Goto("planning", "reported")
  /\ \A r \in Rows : RowHolds(plan, r)
  /\ UNCHANGED <<world, version, files, loaded, planner, kills>>

Next ==
  \/ UpdateSources \/ Kill \/ Exit
  \/ \E f \in DOMAIN files : DeleteCache(f)
  \/ Start \/ ReadTypeIds \/ LoadYaml \/ OpenNames \/ OpenGroups \/ CloseGroups \/ CloseNames
  \/ CompareTypeIds \/ LoadFiles \/ ReadMarket \/ LoadOrdersFromDB \/ OpenMarket
  \/ CloseMarket \/ CompareMarket
  \/ AddPlanetary \/ AddMarket \/ AddProduction \/ AddT2Invention \/ AddT3Invention \/ AddCopy
  \/ Solve \/ (\E j \in DOMAIN columns : Choose(j)) \/ Report

Spec == Init /\ [][Next]_vars
-----------------------------------------------------------------------------
(***************************************************************************)
(* The caches                                                              *)
(***************************************************************************)
\* The names and the groups in memory come from the same typeIDs.yaml, whatever
\* was killed, deleted and updated between the runs that wrote their files:
\* processBlueprints decides by the groups what the names then let it plan.
NamesMatchGroups == names = groups

\* Data the planner is written for. Every row of the character sheet, of the
\* assets and of the owned copies has a name, and so have the skills that the
\* program asks for by name: none was renamed.
RowsNamed(v) ==
  /\ DOMAIN W.levels \cup FixedSkills \subseteq At(v).names
  /\ \A a \in Range(W.assets) : a[1] \in At(v).names
  /\ \A o \in Range(W.owned) : IsCopy(o) => o.type \in At(v).names

\* What a named blueprint mentions has an adjusted price, and what it yields has
\* a name; so have the decryptors and what is made on planets.
Mentions(b) ==
  UNION {{m[1] : m \in Range(a.materials)} :
           a \in {c \in {b.manufacturing, b.invention} : Defined(c, {"materials"})}}
Outcomes(b) ==
  {p.type : p \in Range(ProductsOf(b.manufacturing)) \cup Range(ProductsOf(b.invention))}
MentionsNamed(v) ==
  /\ \A b \in Range(At(v).blueprints) :
       b.id \in NamesOf(v) => Mentions(b) \subseteq DOMAIN W.adj /\ Outcomes(b) \subseteq NamesOf(v)
  /\ \A d \in Range(decryptors) : d.id # "none" => d.id \in NamesOf(v)
  /\ \A s \in Range(W.schematics) :
       {m[1] : m \in Range(s.materials)} \cup {s.product} \subseteq NamesOf(v)

\* Nothing is made by two blueprints or by a relic, made as well as a blueprint,
\* or invented from both kinds.
OneMaker(nodes) ==
  \A b, c \in nodes : \A p \in Range(ProductsOf(b.manufacturing)) :
    MakesFirst(b, p.type) /\ MakesFirst(c, p.type) => b = c
OneKind(v) ==
  LET nodes == Range(At(v).blueprints)
  IN  /\ OneMaker(nodes)
      /\ \A b, c \in nodes : ~MakesFirst(b, c.id)
      /\ \A b \in nodes : b.id \in At(v).relics =>
           /\ ProductsOf(b.manufacturing) = <<>>
           /\ \A c \in nodes : ~Invents(c, b.id)
           /\ \A c \in nodes : c.id \notin At(v).relics =>
                \A p \in Range(ProductsOf(b.invention)) : ~Invents(c, p.type)

\* Orders are told apart by their number, schematics by their product.
ToldApart(v) ==
  /\ \A orders \in {At(v).sell, At(v).buy} : \A i, j \in DOMAIN orders :
       <<orders[i].type, orders[i].id>> = <<orders[j].type, orders[j].id>> => i = j
  /\ \A i, j \in DOMAIN W.schematics : W.schematics[i].product = W.schematics[j].product => i = j

Sound(v) == RowsNamed(v) /\ MentionsNamed(v) /\ OneKind(v) /\ ToldApart(v)

\* The program gives up only for a reason outside it: data that is not sound, a
\* cache that a killed run left cut off, or one that is older than the sources
\* or than the names: neither cache is ever found to be out of date.
FailureHasCause ==
  pc = "failed" => \/ ~Sound(version)
                   \/ Partial \in {files.names, files.groups, files.market}
                   \/ names # version
                   \/ market # NoMarket /\ market.names # names

(***************************************************************************)
(* The jobs                                                                *)
(***************************************************************************)
Fed == pc \in {"solve", "planning", "reported", "unsolved"}
Levels == {"T1", "T2", "T3"}

\* The skills that a job of the linear program needs are there, unless they are
\* overridden. Not so of the second and further outcomes of an invention: their
\* requirements were moved into the first (inventions.cpp:107).
FirstOutcome(b) == b.invention.products[Min(DOMAIN Likely(b))].type
UsesBlueprint(job, b) == \E e \in Range(job.in) : e[1][1] \in {"bpo", "bpc"} /\ e[1][2] = b.id
SkillsSuffice ==
  LET able(skills) ==
        \/ override
        \/ \A r \in Range(skills) :
             r[2] > 0 => r[1] \in DOMAIN W.levels /\ W.levels[r[1]] >= r[2]
  IN  \A n \in DOMAIN columns : \A b \in Nodes(ws) :
        /\ n[1] \in Levels /\ UsesBlueprint(columns[n], b) => able(b.manufacturing.skills)
        /\ n[1] = "Research" /\ n[2] = b.id /\ n[4] = FirstOutcome(b) => able(b.invention.skills)

\* Copies that an invention yields can be used: their efficiency is one that
\* some job of the blueprint takes. Otherwise a resource nobody has to begin
\* with could never be used up, and the invention never planned.
InventedIsUsable ==
  Fed => \A n \in DOMAIN columns : n[1] = "Research" =>
           LET made == columns[n].out[1][1]
           IN  (\E p \in Range(Products(ws)) : p.bp = made[2] /\ p.bp \notin W.settings.ignoreList)
                 => \E k \in DOMAIN columns : Amount(columns[k].in, made) > 0

\* Every run of a copy that is owned and that a job could use, a T1 one or one
\* of an efficiency the planner knows, stands behind the resource of that job.
OwnedRunsUsable ==
  Fed => \A r \in Rows : r[1] = "bpc" =>
    LET eff(i) == <<100 - W.owned[i].me, 100 - W.owned[i].te>>
    IN  Stock(ws, r) =
          Run * RunsOf(ws, {i \in OwnedBPCs(ws, r[2]) : isT1BP(ws, r[2]) \/ eff(i) = r[3]})

(***************************************************************************)
(* The plan, in terms of the files                                         *)
(***************************************************************************)
\* Units of the jobs whose name satisfies Test, each weighted.
Units(Test(_), Weight(_)) ==
  Sum([n \in Used(plan) |-> IF Test(n) THEN plan[n] * Weight(n) ELSE 0])
One(n) == 1

NodeOf(id) == CHOOSE b \in Nodes(ws) : b.id = id
MakerOf(t) == CHOOSE b \in Nodes(ws) : MakesFirst(b, t) /\ CanManufacture(ws, b)

\* A blueprint's copies, used to produce and to invent, are owned or copied.
CopiesSuffice ==
  \A b \in Nodes(ws) :
    Units(LAMBDA n : n[1] = "T1" /\ n[2] = "BPC" /\ MakesFirst(b, n[4]), One)
      + Units(LAMBDA n : n[1] = "Research" /\ n[2] = b.id /\ ~Sleeper(b), One)
    <= RunsOf(ws, OwnedBPCs(ws, b.id)) + Units(LAMBDA n : n = <<"Copy", b.id>>, One)

\* What is sold is owned, bought or produced.
SoldIsHad ==
  \A t \in {o.type : o \in Range(market.buy)} :
    Units(LAMBDA n : n[1] = "Sell" /\ n[2] = t, One)
    <= countAsset(ws, t) + Units(LAMBDA n : n[1] = "Buy" /\ n[2] = t, One)
       + Units(LAMBDA n : n[1] \in Levels /\ n[4] = t,
               LAMBDA n : MakerOf(t).manufacturing.products[1].quantity)
       + Units(LAMBDA n : n[1] = "Export" /\ n[3] = t, One)

\* The labs are free long enough, and each original as well.
LabsSuffice ==
  LET copying == Units(LAMBDA n : n[1] = "Copy", LAMBDA n : NodeOf(n[2]).copying.time)
      inventing == Units(LAMBDA n : n[1] = "Research", LAMBDA n : NodeOf(n[2]).invention.time)
  IN  /\ copying + inventing <= W.settings.timeFrame * Labs(ws)
      /\ \A b \in Nodes(ws) :
           Units(LAMBDA n : n = <<"Copy", b.id>>, LAMBDA n : b.copying.time)
           + Units(LAMBDA n : n[1] = "T1" /\ n[2] = "BPO" /\ MakesFirst(b, n[4]), LAMBDA n : b.manufacturing.time)
           <= W.settings.timeFrame

\* The orders that are filled cost no more than there is to spend, and none is
\* filled beyond its volume.
MoneySuffices ==
  LET price(o) == o.price * Units(LAMBDA n : n = <<"Buy", o.type, o.id>>, One)
  IN  /\ Sum([i \in DOMAIN market.sell |-> price(market.sell[i])]) <= W.settings.buyIn
      /\ \A i \in DOMAIN market.sell :
           Units(LAMBDA n : n = <<"Buy", market.sell[i].type, market.sell[i].id>>, One)
           <= market.sell[i].volume

\* A plan that satisfies the rows can be carried out with what the files say
\* there is: the copies, the goods, the labs and originals, and the money. With
\* two blueprints of one product it is not told which of them a job is of.
PlanIsCovered ==
  pc = "reported" /\ OneMaker(Nodes(ws)) =>
    CopiesSuffice /\ SoldIsHad /\ LabsSuffice /\ MoneySuffices

\* There is always something to plan, if only nothing, unless the character's
\* command centres are below their third level: the processors of the launch
\* pads are then subtracted from less than they take (skills.cpp:59), and the
\* planetary facilities are offered whatever the settings say.
NothingIsAPlan ==
  pc = "unsolved" => getSkillLevel(ws, "Command Center Upgrades") < 2
=============================================================================
