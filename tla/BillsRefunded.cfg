SPECIFICATION Spec
CONSTANTS
  Users = {"ann"}
  BillIds = {"data"}
  Claims = {}
  Asked <- PlanOfIds
  Mixes = {{"data"}}
  Requests = {"r1", "r2"}
  MaxMishaps = 0
  InitWallet <- Cash
INVARIANTS SingleRefund
CHECK_DEADLOCK FALSE
