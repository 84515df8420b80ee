SPECIFICATION LedgerSpec
CONSTANTS
  Networks = {1, 2, 3, 4}
  Balances = {0, 1, 2, 3}
  Wanted = {1, 2, 3, 4, 5}
  Payments = {"trx", "usdt", "sweep"}
  Requests = {r1, r2}
  MaxNotices = 2
  MaxLost = 1
  MaxRare = 1
  Numbers = {n1, n2}
INVARIANTS
  PlanIsTheLoop AccountsReachable CoinBooks ConversionsBalance
  RewardGivenOnce SavedOnce ChargedAsShown
PROPERTIES AllocationCovers
SYMMETRY Alike
\* A pool that was allocated stops; so do the handlers.
CHECK_DEADLOCK FALSE
