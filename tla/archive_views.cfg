SPECIFICATION AnalysisSpec
CONSTANTS
  Ids = {1, 2, 3}
  Watched = {1, 2}
  None = None
  Aborted = Aborted
  VolumeModulus = 4
  Quotes <- MCQuotes
  Tarballs <- MCTarballs
  MaxViews = 4
  MaxCount = 2
  SelfCheck = FALSE
INVARIANTS ReadsBack SlotsAccounted
PROPERTIES ImplementsLog VolumeAccounted
\* The source directory ends.
CHECK_DEADLOCK FALSE
