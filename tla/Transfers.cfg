SPECIFICATION ModeSpec
CONSTANTS
  Users = {"ann", "bob"}
  VAs <- Accounts
  Owner <- OwnerOf
  Ledger <- LedgerOf
  Stable <- Stablecoin
  Fiats = {"NGN", "KES"}
  Forms <- AllForms
  TxIds <- Tx2
  MinFee = 1
  Requests = {"r1", "r2"}
  MaxLost = 1
  InitAccount <- Coins
  InitWallet <- Cash
INVARIANTS TypeOK Evidence SerialBooks
PROPERTIES SettlesInTurn
\* Every transfer that the bound allows may have ended.
CHECK_DEADLOCK FALSE
