SPECIFICATION Spec
CONSTANTS
  Users = {"ann", "bob"}
  VAs <- Accounts
  Owner <- OwnerOf
  Ledger <- LedgerOf
  Stable <- Stablecoin
  Fiats = {"NGN", "KES"}
  Forms <- Payments
  TxIds <- Tx1
  MinFee = 1
  Requests = {r}
  MaxLost = 0
  InitAccount <- Coins
  InitWallet <- Cash
INVARIANTS VerifiedOnce
\* Every transfer that the bound allows may have ended.
CHECK_DEADLOCK FALSE
