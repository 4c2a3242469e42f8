SPECIFICATION Spec
CONSTANTS
  r1 = r1
  r2 = r2
  None = None
  bank = bank
  trade = trade
  Requests = {r1, r2}
  asset = asset
  Names = {bank, trade}
  Types = {asset}
  Initial <- MCEmpty
  Schemas = {"created"}
  MaxAccounts = 2
  MaxSignals = 1
INVARIANTS ConflictMeansExists
\* The process ends.
CHECK_DEADLOCK FALSE
