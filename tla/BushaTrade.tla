----------------------------- MODULE BushaTrade -----------------------------
(***************************************************************************)
(* Trades with the exchange Busha (services/busha/busha.app.service.ts):   *)
(* a buy debits the fiat wallet and has PalmPay pay Busha; a sell has      *)
(* Busha pay PalmPay and credits the wallet; receiving and sending coin    *)
(* moves no fiat.  A trade ends when settleTrade, run by a poller, by the  *)
(* webhooks and by the user, sees that Busha's transfer has ended.         *)
(*                                                                         *)
(* A run of a handler is a process, and each awaited query or provider     *)
(* call is a step.  Wallets are only incremented and decremented.          *)
(***************************************************************************)
EXTENDS Integers, FiniteSets, Functions

CONSTANTS
  Users,         \* account holders
  TradeIds,      \* bound: the trades users may ask for
  Deal,          \* Deal[t]: who asks for trade t, its side and its amount in NGN
  MaxAsked,      \* bound: how many of them are asked for
  Requests,      \* the handlers in progress at the same time
  MaxLost,       \* bound: handlers cut short and answers lost
  InitWallet     \* the initial balance of each user's NGN wallet

NoId == "no trade"
Sides == {"buy", "sell", "crypto"}   \* crypto: cryptoRecv and cryptoSend

ASSUME DealAssumption ==
  /\ MaxLost \in Nat /\ MaxAsked \in Nat
  /\ InitWallet \in [Users -> Nat]
  /\ Deal \in [TradeIds -> [user : Users, side : Sides, amount : Nat \ {0},
                            viaPalmPay : BOOLEAN]]   \* a sell's payoutMode
  /\ IsFiniteSet(TradeIds) /\ NoId \notin TradeIds

VARIABLES
  trade,      \* busha_trade_logs
  fiat,       \* the status of each trade's row in transactions
  wallet,     \* wallets.balance in NGN
  transfer,   \* Busha's transfer of each trade, as Busha knows it
  palmpay,    \* PalmPay's order of each trade, as PalmPay knows it
  req,        \* the locals of each handler in progress
  lost,       \* how many handlers were cut short and answers lost
  disturbed   \* history: trades that handlers met on or that one was lost on

vars == <<trade, fiat, wallet, transfer, palmpay, req, lost, disturbed>>

\* Busha's transfer.  "completed" stands for the words of SUCCESS_STATUSES that are
\* final, "cancelled" for a failure before the funds came.  What Busha has received
\* it converts, and what it has converted it delivers, refunds or fails to deliver.
TransferFailed == {"cancelled", "funds_refunded", "funds_not_delivered"}
Converted == {"funds_converted", "completed", "funds_refunded", "funds_not_delivered"}
Funded == {"funds_received"} \cup Converted
TransferEnded == TransferFailed \cup {"completed"}
TransferStatus == {"none", "pending"} \cup Funded \cup TransferFailed
OrderStatus == {"none", "accepted", "completed", "failed", "cancelled"}

Closed == {"completed", "wallet_credited", "buy_reversed", "busha_failed",
           "palmpay_failed"}
Open == {"settling", "awaiting_busha", "awaiting_crypto_deposit", "awaiting_palmpay"}
TradeStatus == {"none"} \cup Open \cup Closed

\* A row of busha_trade_logs: account is payInAccountNumber being set, and seen
\* is bushaStatus, which is read for sells only and kept here for them.
TradeRow ==
  [status : TradeStatus, account : BOOLEAN, seen : TransferStatus]
FreshTrade(status, account) ==
  [status |-> status, account |-> account, seen |-> "pending"]
NoTrade == FreshTrade("none", FALSE)

BuySteps == {"fiatRow", "debit", "quote", "open", "payout", "payoutRow",
             "undo", "undoRow"}
ReverseSteps == {"reverse", "giveBack", "reverseFiat", "reversed"}
Steps == BuySteps \cup ReverseSteps \cup
  {"idle", "sellRow", "create", "ask", "seen", "creditRead", "credit",
   "creditFiat", "credited", "completeFiat", "complete", "failRead",
   "failTrade", "failFiat"}

\* The locals of a handler: its trade, what the provider told it, and whether
\* it is in the try block of executeBuy.
Locals(step, t, told, buying) ==
  [pc |-> step, t |-> t, told |-> told, buying |-> buying]
Idle == Locals("idle", NoId, "none", FALSE)

-----------------------------------------------------------------------------
Init ==
  /\ trade = [t \in TradeIds |-> NoTrade]
  /\ fiat = [t \in TradeIds |-> "none"]
  /\ wallet = InitWallet
  /\ transfer = [t \in TradeIds |-> "none"]
  /\ palmpay = [t \in TradeIds |-> "none"]
  /\ req = [p \in Requests |-> Idle]
  /\ lost = 0
  /\ disturbed = {}

At(p, step) == req[p].pc = step
Busy(p) == ~At(p, "idle")
Become(p, r) == req' = [req EXCEPT ![p] = r]
Hear(p, step, told) ==
  Become(p, Locals(step, req[p].t, told, req[p].buying))
Goto(p, step) == Hear(p, step, "none")
Finish(p) == Become(p, Idle)
Mine(p) == Deal[req[p].t]
Begin(p, step, t) == Become(p, Locals(step, t, "none", FALSE))

SetFiat(t, s) == fiat' = [fiat EXCEPT ![t] = s]
Status(t, s) == trade' = [trade EXCEPT ![t] = [@ EXCEPT !.status = s]]
Credit(p) == wallet' = [wallet EXCEPT ![Mine(p).user] = @ + Mine(p).amount]
\* Trade t is not in use, as a row or by a handler about to create it.
Unused(t) ==
  /\ trade[t].status = "none" /\ fiat[t] = "none"
  /\ transfer[t] = "none" /\ palmpay[t] = "none"
  /\ \A p \in Requests : req[p].t # t
Free(t) ==
  Unused(t) /\ Cardinality({k \in TradeIds : ~Unused(k)}) < MaxAsked
\* A handler starts on t: it has met another if one is there already.
Meet(p, t, others) ==
  disturbed' = IF \E q \in others \ {p} : Busy(q) THEN disturbed \cup {t} ELSE disturbed
OnTrade(t) == {q \in Requests : req[q].t = t}

-----------------------------------------------------------------------------
(* executeBuy                                                              *)

\* The balance is checked, and debited two queries later.
StartBuy(p) ==
  \E t \in TradeIds :
    /\ At(p, "idle") /\ Free(t) /\ Deal[t].side = "buy"
    /\ Deal[t].amount <= wallet[Deal[t].user]
    /\ Begin(p, "fiatRow", t)
    /\ Meet(p, t, {q \in Requests : /\ req[q].pc \in {"fiatRow", "debit"}
                                    /\ Mine(q).user = Deal[t].user})
    /\ UNCHANGED <<trade, fiat, wallet, transfer, palmpay, lost>>

InsertFiat(p) ==
  /\ At(p, "fiatRow")
  /\ SetFiat(req[p].t, "pending")
  /\ Goto(p, "debit")
  /\ UNCHANGED <<trade, wallet, transfer, palmpay, lost, disturbed>>

DebitWallet(p) ==
  /\ At(p, "debit")
  /\ wallet' = [wallet EXCEPT ![Mine(p).user] = @ - Mine(p).amount]
  /\ Become(p, Locals("quote", req[p].t, "none", TRUE))
  /\ UNCHANGED <<trade, fiat, transfer, palmpay, lost, disturbed>>

\* Busha quotes and opens a transfer, or refuses: then the catch block runs.
AskBusha(p) ==
  /\ At(p, "quote")
  /\ \/ Goto(p, "undo") /\ UNCHANGED transfer
     \/ Goto(p, "open") /\ transfer' = [transfer EXCEPT ![req[p].t] = "pending"]
  /\ UNCHANGED <<trade, fiat, wallet, palmpay, lost, disturbed>>

\* The trade's row; without an account to pay into the buy is reversed.
OpenBuy(p) ==
  \E account \in BOOLEAN :
    /\ At(p, "open")
    /\ trade' = [trade EXCEPT ![req[p].t] =
                                FreshTrade("awaiting_palmpay", account)]
    /\ Goto(p, IF account THEN "payout" ELSE "reverse")
    /\ UNCHANGED <<fiat, wallet, transfer, palmpay, lost, disturbed>>

\* PalmPay refuses the payout, or takes it, or ends it at once; or it takes it
\* and the answer is lost, which the code cannot tell from a refusal.
AskPalmPay(p) ==
  LET t == req[p].t
      Order(s) == palmpay' = [palmpay EXCEPT ![t] = s]
  IN  /\ At(p, "payout")
      /\ \/ Goto(p, "undo") /\ UNCHANGED <<palmpay, lost, disturbed>>
         \/ \E s \in {"accepted", "failed", "cancelled"} :
              Order(s) /\ Hear(p, "payoutRow", s) /\ UNCHANGED <<lost, disturbed>>
         \/ /\ lost < MaxLost /\ lost' = lost + 1
            /\ disturbed' = disturbed \cup {t}
            /\ Order("accepted") /\ Goto(p, "undo")
      /\ UNCHANGED <<trade, fiat, wallet, transfer>>

\* Mutant: only a completed payout counts as taken.
RecordPayoutHasty(p) ==
  LET t == req[p].t
  IN  /\ At(p, "payoutRow")
      /\ Status(t, "palmpay_failed")
      /\ Goto(p, "reverse")
      /\ UNCHANGED <<fiat, wallet, transfer, palmpay, lost, disturbed>>

\* Only a failed payout reverses the buy: one cancelled at once is left to Busha.
RecordPayout(p) ==
  LET t    == req[p].t
      over == req[p].told = "failed"
  IN  /\ At(p, "payoutRow")
      /\ Status(t, IF over THEN "palmpay_failed" ELSE "awaiting_busha")
      /\ IF over THEN Goto(p, "reverse") ELSE Finish(p)
      /\ UNCHANGED <<fiat, wallet, transfer, palmpay, lost, disturbed>>

\* The catch block, unless the buy was reversed: whatever has become of the
\* rows, the wallet is given the amount back and the fiat row fails.
UndoDebit(p) ==
  /\ At(p, "undo")
  /\ Credit(p)
  /\ Goto(p, "undoRow")
  /\ UNCHANGED <<trade, fiat, transfer, palmpay, lost, disturbed>>
UndoFiat(p) ==
  /\ At(p, "undoRow")
  /\ SetFiat(req[p].t, "failed")
  /\ Finish(p)
  /\ UNCHANGED <<trade, wallet, transfer, palmpay, lost, disturbed>>

-----------------------------------------------------------------------------
(* reverseBuy                                                              *)

\* Mutant: the fiat row is not looked at.
StartReverseBlind(p) ==
  /\ At(p, "reverse")
  /\ Goto(p, "giveBack")
  /\ UNCHANGED <<trade, fiat, wallet, transfer, palmpay, lost, disturbed>>

\* A buy whose fiat row has failed was given back already.
StartReverse(p) ==
  /\ At(p, "reverse")
  /\ IF fiat[req[p].t] = "failed" THEN Finish(p) ELSE Goto(p, "giveBack")
  /\ UNCHANGED <<trade, fiat, wallet, transfer, palmpay, lost, disturbed>>
GiveBack(p) ==
  /\ At(p, "giveBack")
  /\ Credit(p)
  /\ Goto(p, "reverseFiat")
  /\ UNCHANGED <<trade, fiat, transfer, palmpay, lost, disturbed>>
ReverseFiat(p) ==
  /\ At(p, "reverseFiat")
  /\ SetFiat(req[p].t, "failed")
  /\ Goto(p, "reversed")
  /\ UNCHANGED <<trade, wallet, transfer, palmpay, lost, disturbed>>
MarkReversed(p) ==
  /\ At(p, "reversed")
  /\ Status(req[p].t, "buy_reversed")
  /\ Finish(p)
  /\ UNCHANGED <<fiat, wallet, transfer, palmpay, lost, disturbed>>

-----------------------------------------------------------------------------
(* executeSell, createReceive and executeSend                              *)

\* Busha has opened the transfer, and for a sell through PalmPay there is an
\* account for it to pay into, before the first row is written.
StartSell(p) ==
  \E t \in TradeIds :
    /\ At(p, "idle") /\ Free(t) /\ Deal[t].side = "sell"
    /\ transfer' = [transfer EXCEPT ![t] = "pending"]
    /\ palmpay' = [palmpay EXCEPT ![t] = IF Deal[t].viaPalmPay THEN "accepted" ELSE @]
    /\ Begin(p, "sellRow", t)
    /\ UNCHANGED <<trade, fiat, wallet, lost, disturbed>>
InsertSellFiat(p) ==
  /\ At(p, "sellRow")
  /\ SetFiat(req[p].t, "pending")
  /\ Goto(p, "create")
  /\ UNCHANGED <<trade, wallet, transfer, palmpay, lost, disturbed>>

StartCrypto(p) ==
  \E t \in TradeIds :
    /\ At(p, "idle") /\ Free(t) /\ Deal[t].side = "crypto"
    /\ transfer' = [transfer EXCEPT ![t] = "pending"]
    /\ Begin(p, "create", t)
    /\ UNCHANGED <<trade, fiat, wallet, palmpay, lost, disturbed>>

CreateTrade(p) ==
  LET t      == req[p].t
      opened == IF Deal[t].side = "sell" THEN {"settling"}
                ELSE {"awaiting_crypto_deposit", "awaiting_busha"}
  IN  /\ At(p, "create")
      /\ \E s \in opened : trade' = [trade EXCEPT ![t] = FreshTrade(s, FALSE)]
      /\ Finish(p)
      /\ UNCHANGED <<fiat, wallet, transfer, palmpay, lost, disturbed>>

-----------------------------------------------------------------------------
(* settleTrade                                                             *)

\* The poller, the user, Busha's webhook and PalmPay's all start it; a trade
\* that is closed is left alone.
StartSettle(p, t) ==
  /\ At(p, "idle")
  /\ trade[t].status \in Open
  /\ Begin(p, "ask", t)
  /\ Meet(p, t, OnTrade(t))
  /\ UNCHANGED <<trade, fiat, wallet, transfer, palmpay, lost>>

AskTransfer(p) ==
  /\ At(p, "ask")
  /\ Hear(p, "seen", transfer[req[p].t])
  /\ UNCHANGED <<trade, fiat, wallet, transfer, palmpay, lost, disturbed>>

\* Mutant: for a sell, too, funds received count as success.
SuccessEarly(told, side) == told \in {"completed", "funds_converted", "funds_received"}

\* Funds converted count as success before they are delivered; funds received do
\* too, except for a sell.
Success(told, side) ==
  \/ told \in {"completed", "funds_converted"}
  \/ told = "funds_received" /\ side # "sell"

\* What was seen is written down and decides how the handler goes on.
RecordSeen(p) ==
  LET t    == req[p].t
      told == req[p].told
      side == Mine(p).side
  IN  /\ At(p, "seen")
      /\ IF side = "sell" THEN trade' = [trade EXCEPT ![t] = [@ EXCEPT !.seen = told]]
         ELSE UNCHANGED trade
      /\ IF Success(told, side)
         THEN Goto(p, CASE side = "sell" -> "creditRead"
                        [] side = "buy" -> "completeFiat"
                        [] side = "crypto" -> "complete")
         ELSE IF told \in TransferFailed /\ side = "buy" THEN Goto(p, "reverse")
         ELSE IF told \in TransferFailed THEN Hear(p, "failRead", told)
         ELSE Finish(p)
      /\ UNCHANGED <<fiat, wallet, transfer, palmpay, lost, disturbed>>

CompleteFiat(p) ==
  /\ At(p, "completeFiat")
  /\ SetFiat(req[p].t, "completed")
  /\ Goto(p, "complete")
  /\ UNCHANGED <<trade, wallet, transfer, palmpay, lost, disturbed>>
MarkCompleted(p) ==
  /\ At(p, "complete")
  /\ Status(req[p].t, "completed")
  /\ Finish(p)
  /\ UNCHANGED <<fiat, wallet, transfer, palmpay, lost, disturbed>>

\* creditSell: a sell whose fiat row is completed was credited already.
ReadCredit(p) ==
  /\ At(p, "creditRead")
  /\ Goto(p, IF fiat[req[p].t] = "completed" THEN "credited" ELSE "credit")
  /\ UNCHANGED <<trade, fiat, wallet, transfer, palmpay, lost, disturbed>>
CreditWallet(p) ==
  /\ At(p, "credit")
  /\ Credit(p)
  /\ Goto(p, "creditFiat")
  /\ UNCHANGED <<trade, fiat, transfer, palmpay, lost, disturbed>>
CreditFiat(p) ==
  /\ At(p, "creditFiat")
  /\ SetFiat(req[p].t, "completed")
  /\ Goto(p, "credited")
  /\ UNCHANGED <<trade, wallet, transfer, palmpay, lost, disturbed>>
\* Mutant: the status is one the code does not know.
MarkCreditedWrong(p) ==
  /\ At(p, "credited")
  /\ Status(req[p].t, "credited")
  /\ Finish(p)
  /\ UNCHANGED <<fiat, wallet, transfer, palmpay, lost, disturbed>>
MarkCredited(p) ==
  /\ At(p, "credited")
  /\ Status(req[p].t, "wallet_credited")
  /\ Finish(p)
  /\ UNCHANGED <<fiat, wallet, transfer, palmpay, lost, disturbed>>

\* PalmPay's word, by webhook or poll, that a sell's order failed or was cancelled:
\* the sell fails with it only if Busha is known to have failed.
StartFailure(p, t) ==
  /\ At(p, "idle")
  /\ Deal[t].side = "sell" /\ Deal[t].viaPalmPay
  /\ trade[t].status \in Open \cup {"busha_failed"}
  /\ palmpay[t] \in {"failed", "cancelled"}
  /\ trade[t].seen \in TransferFailed \/ trade[t].status = "busha_failed"
  /\ Become(p, Locals("failRead", t, trade[t].seen, FALSE))
  /\ Meet(p, t, OnTrade(t))
  /\ UNCHANGED <<trade, fiat, wallet, transfer, palmpay, lost>>

\* markSellFailed
ReadFailed(p) ==
  /\ At(p, "failRead")
  /\ IF trade[req[p].t].status \in {"wallet_credited", "completed"}
     THEN Finish(p) ELSE Hear(p, "failTrade", req[p].told)
  /\ UNCHANGED <<trade, fiat, wallet, transfer, palmpay, lost, disturbed>>
MarkFailed(p) ==
  LET t == req[p].t
  IN  /\ At(p, "failTrade")
      /\ IF Deal[t].side = "sell"
         THEN /\ trade' = [trade EXCEPT ![t] = [@ EXCEPT !.status = "busha_failed",
                                                         !.seen = req[p].told]]
              /\ Goto(p, "failFiat")
         ELSE Status(t, "busha_failed") /\ Finish(p)
      /\ UNCHANGED <<fiat, wallet, transfer, palmpay, lost, disturbed>>

\* Mutant: the fiat row is left pending.
FailFiatNot(p) ==
  /\ At(p, "failFiat")
  /\ Finish(p)
  /\ UNCHANGED <<trade, fiat, wallet, transfer, palmpay, lost, disturbed>>

\* The fiat row is read and, if it has not ended, failed; nothing ends a row of
\* this sell in between except another markSellFailed.
FailFiat(p) ==
  LET t == req[p].t
  IN  /\ At(p, "failFiat")
      /\ IF fiat[t] = "pending" THEN SetFiat(t, "failed") ELSE UNCHANGED fiat
      /\ Finish(p)
      /\ UNCHANGED <<trade, wallet, transfer, palmpay, lost, disturbed>>

-----------------------------------------------------------------------------
(* The providers                                                           *)

\* A buy's transfer is funded by its payout.  Before it is funded a transfer can be
\* cancelled, after that refunded, and one that was converted can be undeliverable.
TransferMoves(t) ==
  /\ \/ /\ transfer[t] = "pending"
        /\ Deal[t].side = "buy" => palmpay[t] = "completed"
        /\ transfer' = [transfer EXCEPT ![t] = "funds_received"]
     \/ /\ transfer[t] = "pending"
        /\ transfer' = [transfer EXCEPT ![t] = "cancelled"]
     \/ /\ transfer[t] = "funds_received"
        /\ \E s \in {"funds_converted", "completed", "funds_refunded"} :
             transfer' = [transfer EXCEPT ![t] = s]
     \/ /\ transfer[t] = "funds_converted"
        /\ \E s \in {"completed", "funds_refunded", "funds_not_delivered"} :
             transfer' = [transfer EXCEPT ![t] = s]
  /\ UNCHANGED <<trade, fiat, wallet, palmpay, req, lost, disturbed>>

\* A sell's order is completed by Busha's payment.
OrderEnds(t) ==
  /\ palmpay[t] = "accepted"
  /\ \E s \in {"failed", "cancelled", "completed"} :
       /\ s = "completed" /\ Deal[t].side = "sell" => transfer[t] = "completed"
       /\ palmpay' = [palmpay EXCEPT ![t] = s]
  /\ UNCHANGED <<trade, fiat, wallet, transfer, req, lost, disturbed>>

\* A query fails: executeBuy goes to its catch block, from inside the catch
\* block or elsewhere the handler ends.  Or the server restarts, and it ends.
RequestLost(p) ==
  /\ lost < MaxLost /\ Busy(p)
  /\ lost' = lost + 1
  /\ disturbed' = disturbed \cup {req[p].t}
  /\ \/ Finish(p)
     \/ /\ req[p].buying /\ req[p].pc \notin {"undo", "undoRow"}
        /\ Goto(p, "undo")
  /\ UNCHANGED <<trade, fiat, wallet, transfer, palmpay>>

Advance(p) ==
  \/ InsertFiat(p) \/ DebitWallet(p) \/ AskBusha(p) \/ OpenBuy(p)
  \/ AskPalmPay(p) \/ RecordPayout(p) \/ UndoDebit(p) \/ UndoFiat(p)
  \/ StartReverse(p) \/ GiveBack(p) \/ ReverseFiat(p) \/ MarkReversed(p)
  \/ InsertSellFiat(p) \/ CreateTrade(p)
  \/ AskTransfer(p) \/ RecordSeen(p) \/ CompleteFiat(p) \/ MarkCompleted(p)
  \/ ReadCredit(p) \/ CreditWallet(p) \/ CreditFiat(p) \/ MarkCredited(p)
  \/ ReadFailed(p) \/ MarkFailed(p) \/ FailFiat(p)

Next ==
  \/ \E p \in Requests : StartBuy(p) \/ StartSell(p) \/ StartCrypto(p)
  \/ \E p \in Requests, t \in TradeIds : StartSettle(p, t) \/ StartFailure(p, t)
  \/ \E p \in Requests : Advance(p) \/ RequestLost(p)
  \/ \E t \in TradeIds : TransferMoves(t) \/ OrderEnds(t)

Spec == Init /\ [][Next]_vars

\* Node runs a handler on, and the poller comes round to every open trade: it
\* takes those not updated the longest, and looking at one updates it.
Fairness ==
  /\ \A p \in Requests : WF_vars(Advance(p))
  /\ \A t \in TradeIds : SF_vars(\E p \in Requests : StartSettle(p, t))
FairSpec == Spec /\ Fairness

-----------------------------------------------------------------------------
(* Properties                                                              *)

\* Every variable has its type.
TypeOK ==
  /\ trade \in [TradeIds -> TradeRow]
  /\ fiat \in [TradeIds -> {"none", "pending", "completed", "failed"}]
  /\ wallet \in [Users -> Int]
  /\ transfer \in [TradeIds -> TransferStatus]
  /\ palmpay \in [TradeIds -> OrderStatus]
  /\ req \in [Requests -> [pc : Steps, t : TradeIds \cup {NoId},
                           told : TransferStatus \cup OrderStatus, buying : BOOLEAN]]
  /\ lost \in 0 .. MaxLost
  /\ disturbed \subseteq TradeIds

\* No trade gets ahead of its evidence, however pollers, webhooks and requests
\* interleave or fail: a sell is credited only when Busha has converted its coin, a
\* trade is completed only when it was funded, and it is failed or reversed only when
\* Busha's transfer has failed, the payout failed or there was nothing to pay.  That
\* Busha delivers what it converted is not said: a sell is credited before.
Evidence ==
  \A t \in TradeIds :
    LET s == trade[t].status
    IN  /\ Deal[t].side = "sell" /\ fiat[t] = "completed" => transfer[t] \in Converted
        /\ s = "wallet_credited" => fiat[t] = "completed"
        /\ s = "completed" => transfer[t] \in Funded
        /\ s = "busha_failed" => transfer[t] \in TransferFailed
        /\ s = "buy_reversed" =>
             \/ transfer[t] \in TransferFailed
             \/ palmpay[t] = "failed"
             \/ ~trade[t].account

\* All handlers have ended.
Quiet == \A p \in Requests : At(p, "idle")
\* Handlers have met on none of the user's trades, and none was cut short.
TradesOf(u) == {t \in TradeIds : Deal[t].user = u}
Undisturbed(u) == disturbed \cap TradesOf(u) = {}

\* No wallet is overdrawn and, when all is quiet, it is what the fiat rows say: less
\* every buy that has not failed, plus every sell that is completed.
Amounts == [t \in TradeIds |-> Deal[t].amount]
Total(S) == SumFunctionOnSet(Amounts, S)
PaidIn(t) == Deal[t].side = "buy" /\ fiat[t] \in {"pending", "completed"}
PaidOut(t) == Deal[t].side = "sell" /\ fiat[t] = "completed"
BooksBalance ==
  \A u \in Users :
    Undisturbed(u) =>
      /\ wallet[u] >= 0
      /\ Quiet => wallet[u] = InitWallet[u] + Total({t \in TradesOf(u) : PaidOut(t)})
                                            - Total({t \in TradesOf(u) : PaidIn(t)})

\* When all is quiet, a closed trade and its fiat row tell the same story, and
\* nobody has both the money of a buy and its coin.
RowsAgree ==
  Quiet =>
    \A t \in TradeIds \ disturbed :
      /\ Deal[t].side # "crypto" =>
           /\ trade[t].status \in {"completed", "wallet_credited"} => fiat[t] = "completed"
           /\ trade[t].status \in Closed \ {"completed", "wallet_credited"} =>
                fiat[t] = "failed"
      /\ Deal[t].side = "buy" /\ fiat[t] = "failed" =>
           transfer[t] \notin Funded \ TransferFailed

\* "Busha cancel/fail poller will close the crypto_sell tx": once Busha's transfer
\* has ended, the fiat row of the trade does not stay pending.
FiatRowEnds ==
  \A t \in TradeIds :
    transfer[t] \in TransferEnded /\ fiat[t] = "pending" ~>
      fiat[t] # "pending" \/ t \in disturbed
=============================================================================
