SPECIFICATION HistorySpec
CONSTANTS
  Users = {"ann"}
  TradeIds = {"buy"}
  Deal <- OneBuy
  MaxAsked = 1
  Requests = {"r1"}
  MaxLost = 0
  InitWallet <- Cash
INVARIANT ListAndWalletConsistent
\* The buy may have been closed.
CHECK_DEADLOCK FALSE
