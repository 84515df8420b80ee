SPECIFICATION TraderSpec
CONSTANTS
  buy = buy
  again = again
  sell = sell
  coin = coin
  Users = {"ann"}
  TradeIds = {buy, again, sell, coin}
  Deal <- DealsOfIds
  MaxAsked = 2
  Requests = {r1, r2}
  MaxLost = 1
  InitWallet <- Cash
  Codes = {1, 2}
  Devices = {"phone"}
  MaxApps = 2
  MaxRare = 1
INVARIANTS
  TypeOK Evidence BooksBalance RowsAgree
  CodesOpenOnce SessionsFollowPassword TradesApproved QuotesHold
SYMMETRY Alike
\* Every trade that the bound allows may be closed.
CHECK_DEADLOCK FALSE
