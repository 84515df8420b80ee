SPECIFICATION InTurnSpec
CONSTANTS
  Users = {"ann"}
  BillIds = {"bet", "data", "gift", "again"}
  Claims = {"bonus"}
  Asked <- PlanOfIds
  Mixes = {{"bet", "data"}, {"gift", "again"}}
  Requests = {"r1", "r2"}
  MaxMishaps = 1
  InitWallet <- Cash
INVARIANTS TypeOK Evidence BooksBalance GiftOnce
PROPERTIES ProcessingEnds
\* Every payment that the bound allows may have ended.
CHECK_DEADLOCK FALSE
