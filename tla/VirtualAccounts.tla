--------------------------- MODULE VirtualAccounts ---------------------------
(***************************************************************************)
(* The crypto ledger rows of the users (virtual_accounts in                *)
(* prisma/schema.prisma) and how the services find the row that stands for *)
(* a user in a currency.                                                   *)
(***************************************************************************)
EXTENDS UnifiedStablecoin

CONSTANTS
  Users,         \* account holders
  VAs,           \* ids of the virtual accounts
  Owner,         \* Owner[va]: the user a virtual account belongs to
  Ledger,        \* Ledger[va]: its currency, e.g. USDT_TRON
  Stable         \* the currencies of the unified stablecoin; the others stand alone

ASSUME AccountAssumption ==
  /\ VAs \subseteq Nat \ {0} /\ IsFiniteSet(VAs)
  /\ Owner \in [VAs -> Users]
  /\ Users # {}

NoVA == 0

AccountsOf(u) == {va \in VAs : Owner[va] = u}
Unified(c) == c \in Stable
Family(u) == {va \in AccountsOf(u) : Unified(Ledger[va])}

\* The account of u in currency c, or the one an order in c falls back on.
ExactVA(u, c) ==
  LET exact == {va \in AccountsOf(u) : Ledger[va] = c}
  IN  IF exact = {} THEN NoVA ELSE Min(exact)
CurrencyVA(u, c) ==
  IF ExactVA(u, c) = NoVA /\ Unified(c) /\ Family(u) # {}
  THEN Min(Family(u)) ELSE ExactVA(u, c)
=============================================================================
