SPECIFICATION Spec
CONSTANTS
  Undefined = Undefined
  Absent = Absent
  Partial = Partial
  Science <- MCScience
  Worlds <- MCWorlds
  FeedsPlanner = TRUE
  MaxKills = 1
  MaxUnits = 6
INVARIANTS NamesMatchGroups FailureHasCause SkillsSuffice InventedIsUsable PlanIsCovered NothingIsAPlan
\* A plan that is being chosen may have no whole solution left.
CHECK_DEADLOCK FALSE
