SPECIFICATION Spec
CONSTANTS
  Users = {"ann"}
  CoinChain <- ChainOfCoin
  Tokens <- TokenCoins
  Payments = {"trx", "usdt", "unknown"}
  Payment <- PaymentOfIds
  Requests = {r}
  MaxNotices = 2
  MaxLost = 0
INVARIANTS ProcessedIsCredited
\* Every notice that the bound allows may have been handled.
CHECK_DEADLOCK FALSE
