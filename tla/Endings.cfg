SPECIFICATION EndingsSpec
CONSTANTS
  Users = {"ann"}
  DepositIds = {"bank", "momo"}
  Asked <- PlanOfIds
  Requests = {r1, r2}
  MaxLost = 1
  InitWallet <- Empty
  Handlers = {h1, h2}
  MaxApps = 1
  MaxMishaps = 1
INVARIANTS TypeOK Evidence BooksBalance
PROPERTIES PaidIsCredited FiatRowEnds KycEnds
\* Every deposit and trade that the bound allows may have ended.
CHECK_DEADLOCK FALSE
