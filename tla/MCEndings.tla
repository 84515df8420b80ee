----------------------------- MODULE MCEndings -----------------------------
(* What has to end, checked side by side: the deposits of MCDeposit, a trade  *)
(* with Busha, which is a buy or a sell, and a user's application to Busha.   *)
(* Only the chosen part moves.                                                *)
EXTENDS MCDeposit

CONSTANTS Handlers, MaxApps, MaxMishaps

VARIABLES part,
          trade, fiat, cash, transfer, palmpay, tradeReq, tradeLost, tradeMet,
          kyc, app, customer, remote, notices, kycReq, turn, kycLost, cut, crossed

depositVars == vars
tradeVars == <<trade, fiat, cash, transfer, palmpay, tradeReq, tradeLost, tradeMet>>
kycVars == <<kyc, app, customer, remote, notices, kycReq, turn, kycLost, cut, crossed>>

Dealt ==
  [buy  |-> [user |-> "ann", side |-> "buy", amount |-> 2, viaPalmPay |-> FALSE],
   sell |-> [user |-> "ann", side |-> "sell", amount |-> 1, viaPalmPay |-> TRUE]]
Trades ==
  INSTANCE BushaTrade WITH
    TradeIds <- DOMAIN Dealt, Deal <- Dealt, MaxAsked <- 1, Requests <- Handlers,
    MaxLost <- 0, InitWallet <- [u \in Users |-> 2],
    wallet <- cash, req <- tradeReq, lost <- tradeLost, disturbed <- tradeMet
Identity ==
  INSTANCE Kyc WITH MaxLost <- MaxMishaps, req <- kycReq, lost <- kycLost

EndingsInit ==
  /\ part \in {"deposits", "trades", "kyc"}
  /\ Init /\ Trades!Init /\ Identity!Init

\* Deposits touch one another through the wallet alone: one that handlers meet on, or
\* that one is lost on, is followed by itself.
DepositsNext ==
  /\ Next
  /\ disturbed' # {} => Cardinality({d \in DepositIds : row[d] # "none"}') <= 1
\* No handler is cut short and nobody rejects the identity; a mishap is a call that fails,
\* where no other news of the customer came.
KycNext ==
  /\ Identity!Next
  /\ cut' = FALSE /\ kyc'.status # "rejected"
  /\ kycLost' # kycLost => kyc' = kyc /\ notices' = notices
  /\ crossed' => kycLost' = 0

EndingsNext ==
  /\ UNCHANGED part
  /\ \/ part = "deposits" /\ DepositsNext /\ UNCHANGED <<tradeVars, kycVars>>
     \/ part = "trades" /\ Trades!Next /\ UNCHANGED <<depositVars, kycVars>>
     \/ part = "kyc" /\ KycNext /\ UNCHANGED <<depositVars, tradeVars>>

\* The fairness of each part; of the applications, that the handlers run on, the poller
\* ticks for ever and Busha decides.
KycFairness ==
  /\ \A p \in Identity!Processes : WF_kycVars(part = "kyc" /\ Identity!Runs(p))
  /\ WF_kycVars(part = "kyc" /\ Identity!Polls)
  /\ WF_kycVars(part = "kyc" /\ Identity!Decide)
EndingsSpec ==
  /\ EndingsInit /\ [][EndingsNext]_<<part, depositVars, tradeVars, kycVars>>
  /\ Fairness /\ Trades!Fairness /\ KycFairness

\* The fiat row of a trade whose transfer has ended does not stay pending (BushaTrade's
\* FiatRowEnds).
FiatRowEnds == Trades!FiatRowEnds
\* Busha's decision on an application is made, and its approval is seen (Kyc's KycEnds).
KycEnds == Identity!KycEnds
=============================================================================
