SPECIFICATION Spec
CONSTANTS
  Users = {"ann", "bob", "cid"}
  VAs <- Accounts
  Owner <- OwnerOf
  Ledger <- LedgerOf
  Stable <- Stablecoin
  Ads = {"sell", "buy", "sellPool", "buyPool"}
  AdRow <- Offers
  Customers <- Takers
  OrderIds <- Orders1
  Amounts = {1, 2}
  Requests = {r1}
  MaxLost = 0
  InitAccount <- Coins
  InitWallet <- Cash
INVARIANTS ReleaseFollowsPayment
\* Every order that the bound allows may be finished.
CHECK_DEADLOCK FALSE
