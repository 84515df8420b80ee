SPECIFICATION ModeSpec
CONSTANTS
  Users = {"ann", "bob", "cid"}
  VAs <- Accounts
  Owner <- OwnerOf
  Ledger <- LedgerOf
  Stable <- Stablecoin
  Ads = {"sell", "buy", "sellPool", "buyPool"}
  AdRow <- Offers
  Customers <- Takers
  OrderIds <- Orders2
  Amounts = {1, 2}
  Requests = {"r1", "r2"}
  MaxLost = 1
  MaxTalk = 2
  MaxAdWrites = 2
  InitAccount <- Coins
  InitWallet <- Cash
INVARIANTS TypeOK Evidence RequestsSound SerialBooks StatementAgrees
  MarketKeepsItsWord NothingReadUnseen
PROPERTIES CoinMovesOnlyWhenPaid SerialLifecycle
\* Every order that the bound allows may be finished.
CHECK_DEADLOCK FALSE
