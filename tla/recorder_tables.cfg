SPECIFICATION Spec
CONSTANTS
  jita = jita
  citadel = citadel
  perimeter = perimeter
  region = region
  nowhere = nowhere
  ore = ore
  ship = ship
  oreHere = oreHere
  oreThere = oreThere
  oreCitadel = oreCitadel
  shipHere = shipHere
  Regions = {region}
  Types = {ore, ship}
  Stations = {jita, perimeter, citadel}
  Orders = {oreHere, oreThere, oreCitadel, shipHere}
  NoRegion = nowhere
  RegionOf <- MCRegionOf
  StationOf <- MCStationOf
  TypeOf <- MCTypeOf
  Messages <- MCMessages
  Capacity = 2
  MaxReceived = 4
  MaxFailures = 1
INVARIANTS EachInOnePlace InOrderOfArrival LostToOverflowOnly MarketIsLatest
PROPERTIES Delivered Terminates
\* The program ends.
CHECK_DEADLOCK FALSE
