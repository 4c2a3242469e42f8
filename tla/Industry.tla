------------------------------ MODULE Industry ------------------------------
(* The jobs the planner chooses from, as operators of the workspace's members *)
(* (src/libs/industry_resources, src/libs/market_data, src/libs/assets).      *)
(*                                                                            *)
(* ws is the workspace after its constructor: ws.names and ws.relics are the  *)
(* types with a name and those in a relic group, ws.avg and ws.adj the prices *)
(* of the types that have one, ws.blueprints, ws.schematics, ws.sell, ws.buy, *)
(* ws.assets and ws.owned the rows of the files in their order, ws.levels the *)
(* character sheet, ws.override the uninitialised Skills::overrideSkills, and *)
(* ws.settings the settings. A type and a skill are known by their name.      *)
(*                                                                            *)
(* Efficiencies and taxes are in hundredths, money in ten-thousandths, times  *)
(* on lines and in labs in hundredths and runs of a copy in Run-ths, so that  *)
(* every coefficient of the linear program is an integer. How skills shorten  *)
(* a job is part of its time.                                                 *)
(*                                                                            *)
(* A list is a function of positions. What is picked from a list keeps its    *)
(* position, and lists are put together side by side: the order of the jobs   *)
(* means nothing to the planner.                                              *)
EXTENDS Integers, Sequences, FiniteSets, SequencesExt

CONSTANTS
  Undefined,   \* a YAML node that is not there
  Science      \* advancedScienceSkills

Run == 120000

Map(Op(_), f) == [i \in DOMAIN f |-> Op(f[i])]
Together(lists) ==
  [k \in UNION {{i} \X DOMAIN lists[i] : i \in DOMAIN lists} |-> lists[k[1]][k[2]]]
Sum(f) == SumFunction(f)
\* The last position that passes the test.
LastPlace(f, Test(_)) == Max({i \in DOMAIN f : Test(f[i])})

(***************************************************************************)
(* Skills                                                                  *)
(***************************************************************************)
Racial == {"Amarr Encryption Methods", "Caldari Encryption Methods",
           "Gallente Encryption Methods", "Minmatar Encryption Methods",
           "Sleeper Encryption Methods"}

getSkillLevel(ws, s) ==
  IF ws.override THEN 5 ELSE IF s \in DOMAIN ws.levels THEN ws.levels[s] ELSE 0

\* Lines and labs: what the settings ask for, at most what the skills allow.
Lines(ws) ==
  Min({ws.settings.lines, 1 + getSkillLevel(ws, "Mass Production")
                            + getSkillLevel(ws, "Advanced Mass Production")})
Labs(ws) ==
  Min({ws.settings.labs, 1 + getSkillLevel(ws, "Laboratory Operation")
                           + getSkillLevel(ws, "Advanced Laboratory Operation")})

\* Slip: an index off by one.
UpgradesShifted(ws) == Max({1, getSkillLevel(ws, "Command Center Upgrades")})

\* Power and processors left on each planet after the command centre's two
\* launch pads: below zero for the first levels.
Planets(ws) == 1 + getSkillLevel(ws, "Interplanetary Consolidation")
Upgrades(ws) == 1 + getSkillLevel(ws, "Command Center Upgrades")
Cpu(ws) == Planets(ws) * (<<1675, 7057, 12136, 17215, 21315, 25415>>[Upgrades(ws)] - 7244)
Power(ws) == Planets(ws) * (<<6000, 9000, 12000, 15000, 17000, 19000>>[Upgrades(ws)] - 1430)

\* Slip: one skill is enough.
SkilledInOne(ws, entries) ==
  RestrictValues(entries, LAMBDA e : \/ e.skills = <<>>
                                     \/ \E r \in Range(e.skills) : getSkillLevel(ws, r[1]) >= r[2])

\* filterBySkill, of productions and of inventions alike.
Skilled(ws, entries) ==
  RestrictValues(entries, LAMBDA e : \A r \in Range(e.skills) : getSkillLevel(ws, r[1]) >= r[2])

(***************************************************************************)
(* Types: what registerBlueprint makes of the blueprint nodes              *)
(***************************************************************************)
Nodes(ws) == Range(ws.blueprints)

Defined(activity, fields) ==
  activity # Undefined /\ \A f \in fields : activity[f] # Undefined

ProductsOf(activity) == IF Defined(activity, {"products"}) THEN activity.products ELSE <<>>

\* The first product of every node is registered, whatever else it lacks.
MakesFirst(b, t) ==
  LET made == ProductsOf(b.manufacturing) IN made # <<>> /\ made[1].type = t
Invents(b, t) == \E p \in Range(ProductsOf(b.invention)) : p.type = t

isBP(ws, t) == \E b \in Nodes(ws) : b.id = t
isProduct(ws, t) == \E b \in Nodes(ws) : MakesFirst(b, t)
isT2BP(ws, t) == \E b \in Nodes(ws) : b.id \notin ws.relics /\ Invents(b, t)
isT3BP(ws, t) == \E b \in Nodes(ws) : b.id \in ws.relics /\ Invents(b, t)
isRelic(ws, t) ==
  \E b \in Nodes(ws) : b.id = t /\ t \in ws.relics /\ ProductsOf(b.invention) # <<>>
isT1BP(ws, t) == isBP(ws, t) /\ ~isT2BP(ws, t) /\ ~isT3BP(ws, t) /\ ~isRelic(ws, t)

\* productToBP: the last node wins.
productToBP(ws, t) == LastPlace(ws.blueprints, LAMBDA b : MakesFirst(b, t))
Makers(ws, t) == IF isProduct(ws, t) THEN {ws.blueprints[productToBP(ws, t)].id} ELSE {}

\* Exactly one of the eight kinds, or an exception.
checkItem(ws, t) ==
  LET bp == isBP(ws, t)
      kinds == <<~bp /\ ~isProduct(ws, t),
                 \E m \in Makers(ws, t) : isT1BP(ws, m),
                 \E m \in Makers(ws, t) : isT2BP(ws, m),
                 \E m \in Makers(ws, t) : isT3BP(ws, m),
                 isT1BP(ws, t), bp /\ isT2BP(ws, t), bp /\ isT3BP(ws, t),
                 bp /\ isRelic(ws, t)>>
  IN  Cardinality({k \in DOMAIN kinds : kinds[k]}) = 1

\* getBPTechLevel throws for what is no blueprint, a relic included.
HasTechLevel(ws, t) == isT1BP(ws, t) \/ isT2BP(ws, t) \/ isT3BP(ws, t)
TechLevel(ws, t) ==
  IF isT1BP(ws, t) THEN "T1" ELSE IF isT2BP(ws, t) THEN "T2" ELSE "T3"

(***************************************************************************)
(* What can be made, invented and copied                                   *)
(***************************************************************************)
\* Slip: without the continue.
NamedOrNot(ws) == ws.blueprints

\* processBlueprints registers every node and then skips those without a name.
Named(ws) == RestrictValues(ws.blueprints, LAMBDA b : b.id \in ws.names)
Priced(ws, materials) == \A m \in Range(materials) : m[1] \in DOMAIN ws.avg

CanManufacture(ws, b) ==
  LET m == b.manufacturing
  IN  /\ Defined(m, {"products", "materials", "time", "skills"})
      /\ Len(m.products) = 1
      /\ Priced(ws, m.materials)

\* Every production, and those left by filter().
AllProducts(ws) ==
  Map(LAMBDA b : [bp |-> b.id, product |-> b.manufacturing.products[1].type,
                  quantity |-> b.manufacturing.products[1].quantity,
                  materials |-> b.manufacturing.materials,
                  skills |-> b.manufacturing.skills, time |-> b.manufacturing.time],
      RestrictValues(Named(ws), LAMBDA b : CanManufacture(ws, b)))
Products(ws) == Skilled(ws, AllProducts(ws))

Of(skills, S) == RestrictValues(skills, LAMBDA r : r[1] \in S)
LevelsOf(ws, skills) == Sum(Map(LAMBDA r : getSkillLevel(ws, r[1]), skills))

CanInvent(ws, b) ==
  LET i == b.invention
  IN  /\ Defined(i, {"products", "skills", "materials", "time"})
      /\ Cardinality(DOMAIN Of(i.skills, Science)) = 2
      /\ Cardinality(DOMAIN Of(i.skills, Racial)) = 1
      /\ Priced(ws, i.materials)

Likely(b) == RestrictValues(b.invention.products, LAMBDA p : p.probability # Undefined)
Sleeper(b) == "Sleeper Encryption Methods" \in {r[1] : r \in Range(b.invention.skills)}

\* addInventionData moves the required skills into the first invention of the
\* node: the further ones require none.
InventionsOf(ws, b) ==
  LET i == b.invention
      levels(S) == LevelsOf(ws, Of(i.skills, S))
      row(n) ==
        LET p == i.products[n]
        IN  [bp |-> b.id, product |-> p.type, quantity |-> p.quantity,
             materials |-> i.materials, time |-> i.time,
             skills |-> IF n = Min(DOMAIN Likely(b)) THEN i.skills ELSE <<>>,
             tier |-> IF Sleeper(b) THEN "T3" ELSE "T2",
             probability |-> p.probability * (120 + 4 * levels(Science) + 3 * levels(Racial))]
  IN  [n \in DOMAIN Likely(b) |-> row(n)]

Inventions(ws, tier) ==
  LET all == Together(Map(LAMBDA b : InventionsOf(ws, b),
                          RestrictValues(Named(ws), LAMBDA b : CanInvent(ws, b))))
  IN  Skilled(ws, RestrictValues(all, LAMBDA r : r.tier = tier))

\* Copies of the originals that can be bought, and for no more than the limit.
CanCopy(ws, b) == Defined(b.copying, {"time"}) /\ b.id \in DOMAIN ws.avg
CheapEnough(ws, id) == id \in DOMAIN ws.avg /\ ws.avg[id] <= ws.settings.bpoPriceLimit
Copies(ws) == RestrictValues(Named(ws), LAMBDA b : CanCopy(ws, b) /\ CheapEnough(ws, b.id))

(***************************************************************************)
(* Job values, from the productions before they are filtered               *)
(***************************************************************************)
Valued(ws) ==
  RestrictValues(AllProducts(ws),
                 LAMBDA p : \A m \in Range(p.materials) : m[1] \in DOMAIN ws.adj)
inputValue(ws, t) ==
  LET v == Valued(ws)
      p == v[LastPlace(v, LAMBDA q : q.product = t)]
  IN  Sum([i \in DOMAIN p.materials |-> p.materials[i][2] * ws.adj[p.materials[i][1]]])

\* The product of a blueprint; bpToProduct has one for each of them.
ValuedProducts(ws, t) ==
  {p \in {q.product : q \in Range(Valued(ws))} :
     isProduct(ws, p) /\ (p = t \/ \E b \in Nodes(ws) : b.id = t /\ MakesFirst(b, p))}
HasValue(ws, t) == ValuedProducts(ws, t) # {}
\* In hundredths: all of the product's value, a fiftieth for its blueprint.
JobValue(ws, t) ==
  LET p == CHOOSE q \in ValuedProducts(ws, t) : TRUE
  IN  (IF p = t THEN 100 ELSE 2) * inputValue(ws, p)

(***************************************************************************)
(* Owned things                                                            *)
(***************************************************************************)
countAsset(ws, t) ==
  Sum([i \in DOMAIN ws.assets |-> IF ws.assets[i][1] = t THEN ws.assets[i][2] ELSE 0])

\* The row of a blueprint in blueprints.xml that is loaded: quantity -2.
IsCopy(o) == o.quantity = -2

\* 0.01 * n is not the double that n hundredths is written as, for these n.
Inexact == {35, 41, 47, 57, 69, 70, 82, 83, 94, 95}
SameEfficiency(o, eff) ==
  /\ <<100 - o.me, 100 - o.te>> = eff
  /\ {eff[1], eff[2]} \cap Inexact = {}

\* The rows with copies of a blueprint.
OwnedBPCs(ws, bp) == {i \in DOMAIN ws.owned : IsCopy(ws.owned[i]) /\ ws.owned[i].type = bp}
RunsOf(ws, rows) == Sum([i \in rows |-> ws.owned[i].runs])

\* getBPC: of a T1 blueprint the copies of every efficiency count.
Runs(ws, bp, eff) ==
  RunsOf(ws, {i \in OwnedBPCs(ws, bp) : isT1BP(ws, bp) \/ SameEfficiency(ws.owned[i], eff)})

(***************************************************************************)
(* Resources                                                               *)
(***************************************************************************)
Item(t) == <<"item", t>>
BPO(bp) == <<"bpo", bp>>
BPC(bp, eff) == <<"bpc", bp, eff>>
LabTime == <<"LabTime">>
LineTime == <<"ProductionLineTime">>
CPU == <<"CPU">>
PowerGrid == <<"Power">>
Facility(i) == <<"IndustryTime", i>>
Planetary(t) == <<"planetary", t>>

\* getResource, getBPO and getBPC look the name up, getBPC the kind as well.
Exists(ws, r) ==
  /\ r[1] \in {"item", "bpo", "bpc", "planetary"} => r[2] \in ws.names
  /\ r[1] = "bpc" => checkItem(ws, r[2])

\* Minus the lower limit of the resource: what there is of it to begin with.
Stock(ws, r) ==
  CASE r[1] = "item" -> countAsset(ws, r[2])
    [] r[1] = "bpo" -> 100 * ws.settings.timeFrame
    [] r[1] = "bpc" -> Run * Runs(ws, r[2], r[3])
    [] r = LabTime -> 100 * ws.settings.timeFrame * Labs(ws)
    [] r = LineTime -> 100 * ws.settings.timeFrame * Lines(ws)
    [] r = CPU -> Cpu(ws)
    [] r = PowerGrid -> Power(ws)
    [] OTHER -> 0

(***************************************************************************)
(* Jobs. Inputs and outputs are lists of resource and amount. Of a job      *)
(* whose resources or names cannot be looked up there is an exception.      *)
(***************************************************************************)
Unlimited == -1
Thrown == [name |-> <<"exception">>, in |-> <<>>, out |-> <<>>, cost |-> 0, limit |-> 0]

Job(ws, ok, name, in, out, cost, limit) ==
  IF ok /\ \A e \in Range(in) \cup Range(out) : Exists(ws, e[1])
  THEN [name |-> name, in |-> in, out |-> out, cost |-> cost, limit |-> limit]
  ELSE Thrown

Items(materials) == Map(LAMBDA m : <<Item(m[1]), m[2]>>, materials)

\* Blueprints are not traded; Buy jobs first, from the sell orders.
Buy(ws, o) == Job(ws, TRUE, <<"Buy", o.type, o.id>>, <<>>, <<<<Item(o.type), 1>>>>,
                  -(100 * o.price * (100 + ws.settings.brokersFee)), o.volume)
Sell(ws, o) == Job(ws, TRUE, <<"Sell", o.type, o.id>>, <<<<Item(o.type), 1>>>>, <<>>,
                   100 * o.price * (100 - ws.settings.brokersFee - ws.settings.salesTax), o.volume)
Tradable(ws, orders) ==
  RestrictValues(orders, LAMBDA o : ~checkItem(ws, o.type) \/ ~isBP(ws, o.type))
MarketJobs(ws) ==
  Together(<<Map(LAMBDA o : IF checkItem(ws, o.type) THEN Buy(ws, o) ELSE Thrown, Tradable(ws, ws.sell)),
             Map(LAMBDA o : IF checkItem(ws, o.type) THEN Sell(ws, o) ELSE Thrown, Tradable(ws, ws.buy))>>)

\* Slip: an efficiency is forgotten.
bpesWithoutLast == <<<<98, 96>>, <<100, 94>>, <<96, 96>>, <<97, 88>>,
                     <<95, 90>>, <<96, 86>>, <<97, 98>>>>

\* The efficiencies an invented copy can have.
bpes == <<<<98, 96>>, <<100, 94>>, <<96, 96>>, <<97, 88>>,
          <<95, 90>>, <<96, 86>>, <<97, 98>>, <<99, 92>>>>
Plain == <<100, 100>>

CeilPercent(n) == (n + 99) \div 100

\* From the original only if it is a T1 blueprint that is cheap enough to buy,
\* from a copy always.
FromOriginal(ws, bp) == isT1BP(ws, bp) /\ CheapEnough(ws, bp)

Produce(ws, p, eff) ==
  LET ok == HasTechLevel(ws, p.bp) /\ HasValue(ws, p.product) /\ p.product \in ws.names
      time == eff[2] * p.time
      in(resource, amount) ==
        Together(<<Map(LAMBDA m : <<Item(m[1]), CeilPercent(eff[1] * m[2])>>, p.materials),
                   <<<<LineTime, time>>, <<resource, amount>>>>>>)
      out == <<<<Item(p.product), p.quantity>>>>
      cost == -(JobValue(ws, p.product) * ws.settings.productionTax)
      from(source, resource, amount) ==
        Job(ws, ok, <<TechLevel(ws, p.bp), source, eff, p.product>>,
            in(resource, amount), out, cost, Unlimited)
      copy == from("BPC", BPC(p.bp, eff), Run)
  IN  IF FromOriginal(ws, p.bp) THEN <<from("BPO", BPO(p.bp), time), copy>> ELSE <<copy>>

ManufacturingJobs(ws) ==
  LET kept == RestrictValues(Products(ws), LAMBDA p : p.bp \notin ws.settings.ignoreList)
      jobs(p) ==
        IF ~checkItem(ws, p.bp) THEN <<Thrown>>
        ELSE Together(Map(LAMBDA eff : Produce(ws, p, eff),
                          IF isT1BP(ws, p.bp) THEN <<Plain>> ELSE bpes))
  IN  Together(Map(jobs, kept))

Decryptor(id, me, te, runs, probability) ==
  [id |-> id, eff |-> <<me, te>>, runs |-> runs, probability |-> probability]
decryptors ==
  <<Decryptor("none", 98, 96, 0, 10), Decryptor("Augmentation", 100, 94, 9, 6),
    Decryptor("Optimized Augmentation", 96, 96, 7, 9), Decryptor("Symmetry", 97, 88, 2, 10),
    Decryptor("Process", 95, 90, 0, 11), Decryptor("Accelerant", 96, 86, 1, 12),
    Decryptor("Parity", 97, 98, 3, 15), Decryptor("Attainment", 99, 92, 4, 18),
    Decryptor("Optimized Attainment", 97, 98, 2, 19)>>

\* Slip: the copy is forgotten.
ResearchWithoutCopy(ws, r, d) ==
  Job(ws, d.id # "none" => d.id \in ws.names, <<"Research", r.bp, d.id, r.product>>,
      Together(<<Items(r.materials), IF d.id = "none" THEN <<>> ELSE <<<<Item(d.id), 1>>>>,
                 IF r.tier = "T2" THEN <<>> ELSE <<<<Item(r.bp), 1>>>>,
                 <<<<LabTime, 100 * r.time>>>>>>),
      <<<<BPC(r.product, d.eff), d.probability * r.probability * (r.quantity + d.runs)>>>>,
      -(JobValue(ws, r.product) * ws.settings.inventionTax), Unlimited)

\* T2 takes a copy of the T1 blueprint, T3 the relic itself.
Research(ws, r, d) ==
  Job(ws, d.id # "none" => d.id \in ws.names, <<"Research", r.bp, d.id, r.product>>,
      Together(<<Items(r.materials), IF d.id = "none" THEN <<>> ELSE <<<<Item(d.id), 1>>>>,
                 <<IF r.tier = "T2" THEN <<BPC(r.bp, Plain), Run>> ELSE <<Item(r.bp), 1>>,
                   <<LabTime, 100 * r.time>>>>>>),
      <<<<BPC(r.product, d.eff), d.probability * r.probability * (r.quantity + d.runs)>>>>,
      -(JobValue(ws, r.product) * ws.settings.inventionTax), Unlimited)

InventionJobs(ws, tier) ==
  LET known == RestrictValues(Inventions(ws, tier), LAMBDA r : HasValue(ws, r.product))
  IN  Together(Map(LAMBDA r : Map(LAMBDA d : Research(ws, r, d), decryptors), known))

CopyJobs(ws) ==
  Map(LAMBDA b : Job(ws, TRUE, <<"Copy", b.id>>,
                     <<<<BPO(b.id), 100 * b.copying.time>>, <<LabTime, 100 * b.copying.time>>>>,
                     <<<<BPC(b.id, Plain), Run>>>>,
                     -(JobValue(ws, b.id) * ws.settings.copyTax), Unlimited),
      RestrictValues(Copies(ws), LAMBDA b : HasValue(ws, b.id)))

(***************************************************************************)
(* Planetary industry                                                      *)
(***************************************************************************)
\* The customs fee by tier, 0 for what no schematic makes; 17 percent of it.
BaseValue == <<5, 400, 7200, 60000, 1200000>>
TierOf(ws, t) ==
  LET made == {s \in Range(ws.schematics) : s.product = t}
  IN  IF made = {} THEN 0 ELSE 1 + (CHOOSE s \in made : TRUE).tier
Fee(ws, t) == 1700 * BaseValue[1 + TierOf(ws, t)]

Build(ws, i, cpu, power) ==
  Job(ws, TRUE, <<"Build", i>>, <<<<CPU, cpu>>, <<PowerGrid, power>>>>,
      <<<<Facility(i), ws.settings.timeFrame>>>>, 0, Unlimited)

\* The first use of an item on a planet adds its import and its export.
PlanetaryItems(ws) ==
  UNION {{m[1] : m \in Range(s.materials)} \cup {s.product} : s \in Range(ws.schematics)}
Import(ws, t) == Job(ws, TRUE, <<"Import", TierOf(ws, t), t>>, <<<<Item(t), 1>>>>,
                     <<<<Planetary(t), 1>>>>, -(Fee(ws, t) \div 2), Unlimited)
Export(ws, t) == Job(ws, TRUE, <<"Export", TierOf(ws, t), t>>, <<<<Planetary(t), 1>>>>,
                     <<<<Item(t), 1>>>>, -Fee(ws, t), Unlimited)
Process(ws, s) ==
  Job(ws, TRUE, <<"Process", s.tier + 1, s.product>>,
      Together(<<Map(LAMBDA m : <<Planetary(m[1]), m[2]>>, s.materials),
                 <<<<Facility(<<1, 2, 2, 3>>[s.tier + 1]), s.time>>>>>>),
      <<<<Planetary(s.product), s.quantity>>>>, 0, Unlimited)

PlanetaryJobs(ws) ==
  Together(<<<<Build(ws, 1, 222, 815), Build(ws, 2, 522, 715), Build(ws, 3, 1122, 415)>>,
             Together([t \in PlanetaryItems(ws) |-> <<Import(ws, t), Export(ws, t)>>]),
             Map(LAMBDA s : Process(ws, s), ws.schematics)>>)
=============================================================================
