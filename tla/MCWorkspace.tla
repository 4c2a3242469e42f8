---------------------------- MODULE MCWorkspace -----------------------------
(* Cases of Workspace for TLC: each is what the files hold.                   *)
EXTENDS Workspace

MCScience == {"Rocket Science", "Nuclear Physics"}

\* Parts of the files.
Skill(s, level) == <<s, level>>
Made(t, q) == <<[type |-> t, quantity |-> q]>>
Manufacturing(products, materials, skills) ==
  [products |-> products, materials |-> materials, time |-> 1, skills |-> skills]
Maybe(t, probability) == [type |-> t, quantity |-> 1, probability |-> probability]
Invention(products, materials, skills) ==
  [products |-> products, materials |-> materials, time |-> 2, skills |-> skills]
Blueprint(id, manufacturing, invention, copying) ==
  [id |-> id, manufacturing |-> manufacturing, invention |-> invention, copying |-> copying]
Copying == [time |-> 1]
Order(id, t, price, volume) == [id |-> id, type |-> t, price |-> price, volume |-> volume]
Owned(t, quantity, runs, me, te) ==
  [type |-> t, quantity |-> quantity, runs |-> runs, me |-> me, te |-> te]
Version(named, relics, blueprints, sell, buy) ==
  [names |-> named \cup {d.id : d \in Range(decryptors)} \cup FixedSkills \cup {"Frigates"},
   relics |-> relics, blueprints |-> blueprints, sell |-> sell, buy |-> buy]

Settings == [timeFrame |-> 4, lines |-> 3, labs |-> 1, buyIn |-> 20, bpoPriceLimit |-> 10,
             ignoreList |-> {}, brokersFee |-> 10, salesTax |-> 1, productionTax |-> 10,
             inventionTax |-> 5, copyTax |-> 5]
Trained == "Command Center Upgrades" :> 2 @@ "Mass Production" :> 1 @@ "Frigates" :> 1
World(versions, avg, adj) ==
  [versions |-> versions, avg |-> avg, adj |-> adj, schematics |-> <<>>, assets |-> <<>>,
   owned |-> <<>>, levels |-> Trained, settings |-> Settings]

\* Ships: a cheap blueprint and one that is too expensive to buy and asks for
\* too much skill, one without a name, one with two products; copies of two
\* efficiencies and an original; and an order for a blueprint and for a type
\* without a name. In the next version the cheap ship is gone.
Rifter == Blueprint("rifterBP", Manufacturing(Made("rifter", 1), <<<<"trit", 3>>>>, <<Skill("Frigates", 1)>>),
                    Undefined, Copying)
Titan == Blueprint("titanBP", Manufacturing(Made("titan", 1), <<<<"trit", 4>>>>, <<Skill("Frigates", 5)>>),
                   Undefined, Copying)
Ghost == Blueprint("ghostBP", Manufacturing(Made("ghost", 1), <<<<"trit", 1>>>>, <<>>),
                   Undefined, Copying)
Pair == Blueprint("pairBP", Manufacturing(Made("left", 1) \o Made("right", 1), <<<<"trit", 1>>>>, <<>>),
                  Undefined, Undefined)
Ships ==
  [World(<<Version({"trit", "rifter", "rifterBP", "titan", "titanBP", "pairBP", "left", "right"}, {},
                   <<Rifter, Titan, Ghost, Pair>>,
                   <<Order(1, "trit", 1, 2), Order(2, "rifterBP", 9, 1), Order(3, "ghost", 1, 1)>>,
                   <<Order(4, "rifter", 9, 2), Order(5, "titan", 20, 1)>>),
           Version({"trit", "titan", "titanBP", "rifterBP"}, {"titan"}, <<Titan>>,
                   <<Order(1, "trit", 1, 1)>>, <<>>)>>,
         [trit |-> 1, rifterBP |-> 3, titanBP |-> 30], [trit |-> 1])
   EXCEPT !.assets = <<<<"trit", 2>>, <<"trit", 2>>>>,
          !.owned = <<Owned("rifterBP", -2, 1, 10, 20), Owned("rifterBP", -2, 1, 0, 0),
                      Owned("rifterBP", -1, 1, 0, 0)>>]

\* Probes: a copy is made, the T2 blueprint invented from it and a probe
\* produced. One of the outcomes asks for skills the character lacks, two runs
\* of the T2 blueprint are owned.
ProbeSkills == <<Skill("Rocket Science", 3), Skill("Nuclear Physics", 3), Skill("Amarr Encryption Methods", 1)>>
Probe == Blueprint("probeBP", Manufacturing(Made("probe", 1), <<<<"trit", 1>>>>, <<>>),
                   Invention(<<Maybe("probe2BP", 75), Maybe("probe3BP", Undefined)>>,
                             <<<<"datacore", 1>>>>, ProbeSkills), Copying)
Probe2 == Blueprint("probe2BP", Manufacturing(Made("probe2", 1), <<<<"widget", 1>>>>, <<>>),
                    Undefined, Undefined)
Hard == Blueprint("hardBP", Undefined,
                  Invention(<<Maybe("hard2BP", 40), Maybe("hard3BP", 40)>>, <<<<"datacore", 1>>>>,
                            <<Skill("Rocket Science", 5)>> \o Tail(ProbeSkills)), Undefined)
Maker(bp, t) == Blueprint(bp, Manufacturing(Made(t, 1), <<<<"widget", 1>>>>, <<>>), Undefined, Undefined)
Probes ==
  [World(<<Version({"trit", "widget", "datacore", "probe", "probe2", "probe3", "hard2", "hard3",
                    "probeBP", "probe2BP", "probe3BP", "hardBP", "hard2BP", "hard3BP"}, {},
                   <<Probe, Probe2, Hard, Maker("hard2BP", "hard2")>>,
                   <<Order(1, "datacore", 1, 1), Order(2, "widget", 1, 2)>>,
                   <<Order(3, "probe2", 20, 2)>>)>>,
         [trit |-> 1, widget |-> 1, datacore |-> 1, probeBP |-> 1],
         [trit |-> 1, widget |-> 1, datacore |-> 1])
   EXCEPT !.levels = Trained @@ ("Rocket Science" :> 4 @@ "Nuclear Physics" :> 3
                                 @@ "Amarr Encryption Methods" :> 4)]
\* The same with runs of the T2 blueprint: (100, 94) and (96, 96) hundredths.
Stocked == [Probes EXCEPT !.owned = <<Owned("probe2BP", -2, 1, 0, 6), Owned("probe2BP", -2, 1, 4, 4)>>]

\* Hulls: a relic, of which one is owned, yields T3 runs.
Hull == Blueprint("hull", Undefined,
                  Invention(<<Maybe("legionBP", 75)>>, <<<<"datacore", 1>>>>,
                            <<Skill("Rocket Science", 3), Skill("Nuclear Physics", 3),
                              Skill("Sleeper Encryption Methods", 1)>>), Undefined)
Hulls ==
  [Probes EXCEPT
     !.versions = <<Version({"datacore", "widget", "hull", "legion", "legionBP"}, {"hull"},
                            <<Hull, Maker("legionBP", "legion")>>,
                            <<Order(1, "datacore", 1, 1), Order(2, "widget", 1, 1), Order(4, "hull", 1, 1)>>,
                            <<Order(3, "legion", 20, 1)>>)>>,
     !.assets = <<<<"hull", 1>>>>,
     !.levels = Trained @@ ("Rocket Science" :> 4 @@ "Nuclear Physics" :> 3
                            @@ "Sleeper Encryption Methods" :> 4)]

\* Colonies: algae are imported, processed and exported.
Colonies ==
  [World(<<Version({"algae", "bio"}, {}, <<>>, <<Order(1, "algae", 1, 1)>>,
                   <<Order(2, "bio", 9, 1)>>)>>, [algae |-> 1], [algae |-> 1])
   EXCEPT !.schematics = <<[product |-> "bio", quantity |-> 1, materials |-> <<<<"algae", 1>>>>,
                            time |-> 4, tier |-> 0]>>,
          !.settings.buyIn = 800]

\* A character without planetary skills; two blueprints of one product; a
\* material without an adjusted price; a product without a name; a skill that
\* has another name in the next version.
One1(blueprints, named, adj) ==
  World(<<Version({"trit", "rifter", "rifterBP"} \cup named, {}, blueprints, <<>>, <<>>)>>,
        [trit |-> 1, rifterBP |-> 3], adj)
Price == [trit |-> 1]
Novice == [One1(<<Rifter>>, {}, Price) EXCEPT !.levels = <<>>]
Twice == One1(<<Rifter, [Rifter EXCEPT !.id = "navyBP"]>>, {"navyBP"}, Price)
Unadjusted == One1(<<Rifter>>, {}, <<>>)
Nameless == One1(<<Maker("rifterBP", "ghost")>>, {}, Price)
Renamed ==
  LET now == Version({"trit"}, {}, <<>>, <<>>, <<>>)
      next == [now EXCEPT !.names = (@ \ {"Advanced Industry"}) \cup {"Industrial Science"}]
  IN  World(<<now, next>>, Price, Price)

MCWorlds ==
  [ships |-> Ships, probes |-> Probes, stocked |-> Stocked, hulls |-> Hulls, colonies |-> Colonies,
   novice |-> Novice, twice |-> Twice, unadjusted |-> Unadjusted, nameless |-> Nameless,
   renamed |-> Renamed]
=============================================================================
