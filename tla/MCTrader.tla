------------------------------ MODULE MCTrader ------------------------------
(* BushaTrade on the instance of MCBushaTrade, and beside it what lets a user  *)
(* trade: the account that signs in and confirms with codes, the application   *)
(* to Busha, and the estimates, quotes and limits before a transfer.  Only the *)
(* chosen part moves.                                                          *)
EXTENDS MCBushaTrade

CONSTANTS
  Codes, Devices,   \* bounds: the codes an account is sent, and its devices
  MaxApps,          \* bound: applications of the user
  MaxRare           \* bound: the rare events of an account, and of an application
ASSUME CodesAssumption == 0 \notin Codes
ASSUME HandlersAssumption == IsFiniteSet(Requests)

VARIABLES part,
          user, code, pending, trusted, session, wallets, clock, authReq, opened,
          shared, authMet, mishaps, events,
          kyc, app, customer, remote, notices, kycReq, turn, kycLost, cut, kycMet,
          quoteMix, platform, profile, synced, recipients, orders, price, limits,
          transfers, trades, coins, quoteReq, sales, quoteMoves, quoteMet

accountVars == <<user, code, pending, trusted, session, wallets, clock, authReq, opened,
                 shared, authMet, mishaps, events>>
kycVars == <<kyc, app, customer, remote, notices, kycReq, turn, kycLost, cut, kycMet>>
quoteVars == <<quoteMix, platform, profile, synced, recipients, orders, price, limits,
               transfers, trades, coins, quoteReq, sales, quoteMoves, quoteMet>>

Auth == INSTANCE Account WITH MaxEvents <- MaxRare, req <- authReq, crossed <- authMet
Kyc == INSTANCE Kyc WITH MaxLost <- MaxRare, req <- kycReq, lost <- kycLost, crossed <- kycMet
\* Two networks Busha may list, of those it knows.
Takes(on, min, max, minDeposit) ==
  [on |-> on, min |-> min, max |-> max, minDeposit |-> minDeposit]
Quoted ==
  INSTANCE BushaQuotes WITH
    Prices <- {90, 100, 110}, MinPayout <- 100, Amounts <- {1, 2, 3},
    Limits <- {[TRX |-> Takes(TRUE, 2, 2, 2), BSC |-> Takes(TRUE, 1, 0, 0)],
               [TRX |-> Takes(TRUE, 0, 1, 0), BSC |-> Takes(FALSE, 0, 0, 3)]},
    Keys <- {"TRX", "bep20", "bnb", "polygon"},
    Mixes <- {[of |-> "sales", sales |-> 1, moves |-> 3],
              [of |-> "sales", sales |-> 2, moves |-> 1],
              [of |-> "coins", sales |-> 1, moves |-> 1]},
    mix <- quoteMix, req <- quoteReq, moves <- quoteMoves, crossed <- quoteMet

TraderInit ==
  /\ part \in {"trades", "account", "logins", "kyc", "quotes"}
  /\ Init /\ Auth!Init /\ Kyc!Init
  /\ user.exists = (part = "logins")
  \* Of quotes that are not asked for, one initial state is enough.
  /\ Quoted!Init /\ price = 110
  /\ quoteMix.of = "coins" => platform.mode = "palmpay_temp" /\ platform.bank /\ orders = <<>>
  /\ part # "quotes" \/ quoteMix.of = "sales" => limits["TRX"].min = 2
  /\ part # "quotes" => quoteMix.of = "coins"

\* Trades touch one another through the wallet alone: one that handlers meet on, that
\* one is lost on or that moves coin only is followed by itself.
TradesNext ==
  /\ Next
  /\ disturbed' # {} \/ ~Unused(coin)' => Cardinality({t \in TradeIds : ~Unused(t)}') <= 1
\* An account is followed until handlers have met, or one was lost with a code, and the
\* PIN is asked for only along with a code; of a user known from the start, the logins
\* and resets are followed.
AccountNext ==
  /\ shared = {} /\ authMet = {}
  /\ Auth!Next
  /\ user'.byPin => user'.byEmail
LoginsNext ==
  /\ AccountNext
  /\ ~(user'.pin \/ user'.byPin \/ user'.byEmail)
\* There is a last application only as long as nothing met or was cut short, and what
\* meets is followed where nothing was lost.
KycNext ==
  /\ Kyc!Next
  /\ kycMet' \/ cut' => app'[MaxApps].status = "none"
  /\ kycMet' => kycLost' = 0

TraderNext ==
  /\ UNCHANGED part
  /\ \/ part = "trades" /\ TradesNext /\ UNCHANGED <<accountVars, kycVars, quoteVars>>
     \/ part = "account" /\ AccountNext /\ UNCHANGED <<vars, kycVars, quoteVars>>
     \/ part = "logins" /\ LoginsNext /\ UNCHANGED <<vars, kycVars, quoteVars>>
     \/ part = "kyc" /\ KycNext /\ UNCHANGED <<vars, accountVars, quoteVars>>
     \/ part = "quotes" /\ Quoted!Next /\ UNCHANGED <<vars, accountVars, kycVars>>
TraderSpec ==
  TraderInit /\ [][TraderNext]_<<part, vars, accountVars, kycVars, quoteVars>>

\* A code opens what it was sent for once, and is used afterwards (Account's TypeOK and
\* CodesOpenOnce).
CodesOpenOnce == Auth!TypeOK /\ Auth!CodesOpenOnce
\* The sessions that are left after a reset were made since, with the new password or by
\* a device whose login had begun before (Account's SessionsFollowPassword).
SessionsFollowPassword == Auth!SessionsFollowPassword
\* A user may trade only once Busha has approved, with no application left open unless
\* handlers met or one was cut short (Kyc's TypeOK and TradesApproved).
TradesApproved == Kyc!TypeOK /\ Kyc!TradesApproved
\* A sale is paid into an account that waits for exactly its amount, coin moves within
\* the limits told of its network, and an estimate loses no news of the customer
\* (BushaQuotes' TypeOK, PayoutAligned, WithinLimits and ProfileKept).
QuotesHold ==
  part = "quotes" =>
    Quoted!TypeOK /\ Quoted!PayoutAligned /\ Quoted!WithinLimits /\ Quoted!ProfileKept
=============================================================================
