SPECIFICATION Spec
CONSTANTS
  O1 = O1
  O2 = O2
  Gone = Gone
  Odd = Odd
  Orders = {O1, O2, Gone, Odd}
  Unlocated = {Odd}
  Listing <- TwoPages
  MaxRuns = 2
INVARIANTS
  OnlyTheLastReportIsLate
  NothingDropped
  ActiveIsStored
  SnapshotIsListing
  ViewsHaveOrders
PROPERTIES
  Terminates
CHECK_DEADLOCK FALSE
