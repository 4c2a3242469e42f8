SPECIFICATION Spec
CONSTANTS
  Undefined = Undefined
  Absent = Absent
  Partial = Partial
  Science <- MCScience
  Worlds <- MCWorlds
  FeedsPlanner = TRUE
  MaxKills = 0
  MaxUnits = 0
INVARIANTS OwnedRunsUsable
CHECK_DEADLOCK FALSE
