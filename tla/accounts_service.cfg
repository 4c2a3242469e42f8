SPECIFICATION FairSpec
CONSTANTS
  r1 = r1
  r2 = r2
  None = None
  bank = bank
  trade = trade
  Requests = {r1, r2}
  asset = asset
  Names = {bank, trade}
  Types = {asset}
  Initial <- MCEmpty
  Schemas = {"created", "fitting"}
  MaxAccounts = 2
  MaxSignals = 2
INVARIANTS StackIsLive NothingDropped NeverTerminates CreatedIsStored ReadYourWrites
PROPERTIES Linearizable Answered Ends
\* The process ends.
CHECK_DEADLOCK FALSE
