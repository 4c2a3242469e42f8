--------------------------- MODULE MCEmdrRecorder ---------------------------
(* Values of EmdrRecorder's constants for TLC. *)
EXTENDS EmdrRecorder

CONSTANTS jita, citadel, perimeter, region, nowhere, ore, ship,
          oreHere, oreThere, oreCitadel, shipHere

MCRegionOf == [s \in Stations |-> IF s = citadel THEN nowhere ELSE region]
MCStationOf ==
  [o \in Orders |-> CASE o \in {oreHere, shipHere} -> jita
                      [] o = oreThere -> perimeter
                      [] o = oreCitadel -> citadel]
MCTypeOf == [o \in Orders |-> IF o = shipHere THEN ship ELSE ore]

Rows(type, time, orders, bad) ==
  [region |-> region, type |-> type, time |-> time, orders |-> orders, bad |-> bad]

\* Two states of the ore market with disjoint stations, one message of two
\* rowsets, one that breaks a constraint and one without orders.
MCMessages ==
  { <<Rows(ore, 1, {oreHere, oreCitadel}, FALSE)>>,
    <<Rows(ore, 3, {oreThere}, FALSE)>>,
    <<Rows(ship, 1, {shipHere}, FALSE), Rows(ore, 2, {oreHere}, FALSE)>>,
    <<Rows(ship, 4, {shipHere}, TRUE)>>,
    <<Rows(ore, 4, {}, FALSE)>> }

\* Fewer, for liveness.
MCFewMessages ==
  { <<Rows(ore, 1, {oreHere, oreCitadel}, FALSE)>>,
    <<Rows(ship, 4, {shipHere}, TRUE)>> }
=============================================================================
