SPECIFICATION AnalysisSpec
CONSTANTS
  Ids = {1, 2, 3}
  Watched = {1, 2}
  None = None
  Aborted = Aborted
  VolumeModulus = 4
  Quotes <- MCQuotes
  Tarballs <- MCTarballs
  MaxViews = 2
  MaxCount = 2
  SelfCheck = TRUE
INVARIANT ChecksOnlyMismatches
\* The writer ends at its exception.
CHECK_DEADLOCK FALSE
