--------------------------- MODULE BushaTradeProofs ---------------------------
(***************************************************************************)
(* TypeOK, Evidence, BooksBalance and RowsAgree hold of trades with Busha  *)
(* for any number of users, trades and handlers, however they interleave   *)
(* and whichever are lost.  Types come first.  The inductive invariant for *)
(* Evidence adds what each handler knows of its trade, and that two        *)
(* handlers never create the same trade.  The one for the books says, of a *)
(* trade that no handlers met on, how its row and its fiat row stand at    *)
(* every step of its one handler; that a buy given up gets no coin; and    *)
(* that the wallet is what these say at every step, not only when all is   *)
(* quiet.                                                                  *)
(*   Who may trade is Kyc's to say: TypeOK and TradesApproved of it hold   *)
(* for any number of handlers and applications.  Its invariant says that   *)
(* nobody takes news of an approval from anyone but Busha, and which       *)
(* handler will close an application that is open.                         *)
(***************************************************************************)
EXTENDS MCTrader, Sums, FiniteSetTheorems, TLAPS

(* Types                                                                   *)

Told == TransferStatus \cup OrderStatus
Local == [pc : Steps, t : TradeIds \cup {NoId}, told : Told, buying : BOOLEAN]

\* The steps that use what Busha told.
Heeding == {"seen", "failRead", "failTrade"}

\* Locals of their type: a handler in progress has a trade, and what it was told
\* is a status of the provider that it asked.
LocalOK(r) ==
  /\ r \in Local
  /\ r.pc # "idle" => r.t \in TradeIds
  /\ r.pc \in Heeding => r.told \in TransferStatus

Typed == TypeOK /\ \A p \in Requests : LocalOK(req[p])

LEMMA StatusWritten ==
  ASSUME NEW r \in TradeRow, NEW st \in TradeStatus, NEW s,
         s = [r EXCEPT !.status = st]
  PROVE  /\ s \in TradeRow /\ s.status = st /\ s.account = r.account
         /\ s.seen = r.seen
BY DEF TradeRow
LEMMA SeenWritten ==
  ASSUME NEW r \in TradeRow, NEW told \in TransferStatus, NEW s,
         s = [r EXCEPT !.seen = told]
  PROVE  /\ s \in TradeRow /\ s.status = r.status /\ s.account = r.account
         /\ s.seen = told
BY DEF TradeRow
LEMMA FailureWritten ==
  ASSUME NEW r \in TradeRow, NEW told \in TransferStatus, NEW s,
         s = [r EXCEPT !.status = "busha_failed", !.seen = told]
  PROVE  /\ s \in TradeRow /\ s.status = "busha_failed" /\ s.account = r.account
         /\ s.seen = told
BY DEF TradeRow, TradeStatus, Closed

\* A step of p that leaves it locals of their type.
LEMMA TypedStep ==
  ASSUME Typed, NEW p \in Requests, NEW r, LocalOK(r),
         req' = [req EXCEPT ![p] = r],
         trade' \in [TradeIds -> TradeRow],
         fiat' \in [TradeIds -> {"none", "pending", "completed", "failed"}],
         wallet' \in [Users -> Int],
         transfer' \in [TradeIds -> TransferStatus],
         palmpay' \in [TradeIds -> OrderStatus],
         lost' \in 0 .. MaxLost, disturbed' \subseteq TradeIds
  PROVE  Typed'
<1>1. TypeOK'
  BY DEF Typed, TypeOK, Local, LocalOK, Told
<1>2. \A q \in Requests : req'[q] = IF q = p THEN r ELSE req[q]
  BY DEF Typed, TypeOK
<1>3. \A q \in Requests : LocalOK(req'[q])
  BY <1>2 DEF Typed
<1> QED BY <1>1, <1>3 DEF Typed

\* A handler that goes on or ends, on a trade of its own.
LEMMA TypedMove ==
  ASSUME Typed, NEW p \in Requests, Busy(p),
         \/ Finish(p)
         \/ \E step \in Steps, told \in Told :
              /\ Hear(p, step, told)
              /\ step \in Heeding => told \in TransferStatus,
         trade' \in [TradeIds -> TradeRow],
         fiat' \in [TradeIds -> {"none", "pending", "completed", "failed"}],
         wallet' \in [Users -> Int],
         transfer' \in [TradeIds -> TransferStatus],
         palmpay' \in [TradeIds -> OrderStatus],
         lost' \in 0 .. MaxLost, disturbed' \subseteq TradeIds
  PROVE  Typed'
<1>1. CASE Finish(p)
  <2>1. req' = [req EXCEPT ![p] = Idle]
    BY <1>1 DEF Finish, Become
  <2>2. LocalOK(Idle)
    BY DEF Idle, Locals, Local, LocalOK, Heeding, Steps, Told, OrderStatus
  <2> HIDE DEF Idle
  <2> QED BY <2>1, <2>2, TypedStep
<1>2. CASE \E step \in Steps, told \in Told :
             Hear(p, step, told) /\ (step \in Heeding => told \in TransferStatus)
  <2>1. PICK step \in Steps, told \in Told :
          Hear(p, step, told) /\ (step \in Heeding => told \in TransferStatus)
    BY <1>2
  <2> DEFINE r == Locals(step, req[p].t, told, req[p].buying)
  <2>2. req' = [req EXCEPT ![p] = r]
    BY <2>1 DEF Hear, Become
  <2>3. LocalOK(r)
    BY <2>1 DEF Typed, TypeOK, Local, LocalOK, Locals, Told, Busy, At
  <2> HIDE DEF r
  <2> QED BY <2>2, <2>3, TypedStep
<1> QED BY <1>1, <1>2

\* A handler that starts on trade t.
LEMMA TypedBegin ==
  ASSUME Typed, NEW p \in Requests, NEW t \in TradeIds, NEW step \in Steps,
         NEW told \in Told, NEW buying \in BOOLEAN,
         step \in Heeding => told \in TransferStatus,
         Become(p, Locals(step, t, told, buying)), UNCHANGED <<trade, fiat, lost>>,
         wallet' \in [Users -> Int],
         transfer' \in [TradeIds -> TransferStatus],
         palmpay' \in [TradeIds -> OrderStatus],
         disturbed' \subseteq TradeIds
  PROVE  Typed'
<1> DEFINE r == Locals(step, t, told, buying)
<1>1. LocalOK(r)
  BY DEF Local, LocalOK, Locals
<1>2. req' = [req EXCEPT ![p] = r]
  BY DEF Become
<1>3. /\ trade' \in [TradeIds -> TradeRow]
      /\ fiat' \in [TradeIds -> {"none", "pending", "completed", "failed"}]
      /\ lost' \in 0 .. MaxLost
  BY DEF Typed, TypeOK
<1> HIDE DEF r
<1> QED BY <1>1, <1>2, <1>3, TypedStep

LEMMA TypedStart ==
  ASSUME Typed, NEW p \in Requests,
         \/ StartBuy(p) \/ StartSell(p) \/ StartCrypto(p)
         \/ \E t \in TradeIds : StartSettle(p, t) \/ StartFailure(p, t)
  PROVE  Typed'
<1> USE DEF Begin, Told, Heeding, Steps, BuySteps, OrderStatus, TransferStatus
<1>1. wallet \in [Users -> Int] /\ transfer \in [TradeIds -> TransferStatus]
      /\ palmpay \in [TradeIds -> OrderStatus] /\ disturbed \subseteq TradeIds
  BY DEF Typed, TypeOK
<1>2. CASE StartBuy(p)
  <2>1. PICK t \in TradeIds : Begin(p, "fiatRow", t) /\ disturbed' \subseteq TradeIds
    BY <1>1, <1>2 DEF StartBuy, Meet
  <2>2. UNCHANGED <<trade, fiat, lost, wallet, transfer, palmpay>>
    BY <1>2 DEF StartBuy
  <2> QED BY <1>1, <2>1, <2>2, TypedBegin
<1>3. CASE StartSell(p)
  <2>1. PICK t \in TradeIds : /\ Begin(p, "sellRow", t)
                              /\ transfer' = [transfer EXCEPT ![t] = "pending"]
                              /\ palmpay' = [palmpay EXCEPT ![t] =
                                   IF Deal[t].viaPalmPay THEN "accepted" ELSE @]
    BY <1>3 DEF StartSell
  <2>2. UNCHANGED <<trade, fiat, lost, wallet, disturbed>>
    BY <1>3 DEF StartSell
  <2>3. transfer' \in [TradeIds -> TransferStatus] /\ palmpay' \in [TradeIds -> OrderStatus]
    BY <1>1, <2>1
  <2> QED BY <1>1, <2>1, <2>2, <2>3, TypedBegin
<1>4. CASE StartCrypto(p)
  <2>1. PICK t \in TradeIds : /\ Begin(p, "create", t)
                              /\ transfer' = [transfer EXCEPT ![t] = "pending"]
    BY <1>4 DEF StartCrypto
  <2>2. UNCHANGED <<trade, fiat, lost, wallet, palmpay, disturbed>>
    BY <1>4 DEF StartCrypto
  <2>3. transfer' \in [TradeIds -> TransferStatus]
    BY <1>1, <2>1
  <2> QED BY <1>1, <2>1, <2>2, <2>3, TypedBegin
<1>5. CASE \E t \in TradeIds : StartSettle(p, t)
  <2>1. PICK t \in TradeIds : StartSettle(p, t)
    BY <1>5
  <2>2. Begin(p, "ask", t) /\ disturbed' \subseteq TradeIds
    BY <1>1, <2>1 DEF StartSettle, Meet
  <2>3. UNCHANGED <<trade, fiat, lost, wallet, transfer, palmpay>>
    BY <2>1 DEF StartSettle
  <2> QED BY <1>1, <2>2, <2>3, TypedBegin
<1>6. CASE \E t \in TradeIds : StartFailure(p, t)
  <2>1. PICK t \in TradeIds : StartFailure(p, t)
    BY <1>6
  <2>2. /\ Become(p, Locals("failRead", t, trade[t].seen, FALSE))
        /\ disturbed' \subseteq TradeIds
    BY <1>1, <2>1 DEF StartFailure, Meet
  <2>3. UNCHANGED <<trade, fiat, lost, wallet, transfer, palmpay>>
    BY <2>1 DEF StartFailure
  <2>4. trade[t].seen \in TransferStatus
    BY DEF Typed, TypeOK, TradeRow
  <2> QED BY <1>1, <2>2, <2>3, <2>4, TypedBegin
<1> QED BY <1>2, <1>3, <1>4, <1>5, <1>6

\* A query that leaves the tables and the providers as they are.
LEMMA TypedRead ==
  ASSUME Typed, NEW p \in Requests, Busy(p),
         \/ AskBusha(p) \/ AskPalmPay(p) \/ StartReverse(p) \/ AskTransfer(p)
         \/ ReadCredit(p) \/ ReadFailed(p) \/ RequestLost(p)
  PROVE  Typed'
<1> USE DEF Goto, Told, Heeding, Steps, BuySteps, ReverseSteps, OrderStatus,
            TransferStatus
<1>1. /\ trade \in [TradeIds -> TradeRow]
      /\ fiat \in [TradeIds -> {"none", "pending", "completed", "failed"}]
      /\ wallet \in [Users -> Int] /\ lost \in 0 .. MaxLost
      /\ transfer \in [TradeIds -> TransferStatus]
      /\ palmpay \in [TradeIds -> OrderStatus] /\ disturbed \subseteq TradeIds
  BY DEF Typed, TypeOK
<1>2. req[p].t \in TradeIds
  BY DEF Typed, LocalOK, Busy, At
<1>3. lost < MaxLost => lost + 1 \in 0 .. MaxLost
  BY <1>1, DealAssumption
<1>4. CASE AskBusha(p)
  BY <1>1, <1>2, <1>4, TypedMove DEF AskBusha
<1>5. CASE AskPalmPay(p)
  <2>1. /\ palmpay' \in [TradeIds -> OrderStatus]
        /\ lost' \in 0 .. MaxLost /\ disturbed' \subseteq TradeIds
    BY <1>1, <1>2, <1>3, <1>5 DEF AskPalmPay
  <2>2. \E step \in Steps, told \in Told :
          Hear(p, step, told) /\ (step \in Heeding => told \in TransferStatus)
    BY <1>5 DEF AskPalmPay
  <2> QED BY <1>1, <1>5, <2>1, <2>2, TypedMove DEF AskPalmPay
<1>6. CASE StartReverse(p)
  BY <1>1, <1>6, TypedMove DEF StartReverse
<1>7. CASE AskTransfer(p)
  BY <1>1, <1>2, <1>7, TypedMove DEF AskTransfer
<1>8. CASE ReadCredit(p)
  BY <1>1, <1>8, TypedMove DEF ReadCredit
<1>9. CASE ReadFailed(p)
  <2>1. req[p].told \in TransferStatus
    BY <1>9 DEF ReadFailed, Typed, LocalOK, At
  <2> QED BY <1>1, <1>9, <2>1, TypedMove DEF ReadFailed
<1>10. CASE RequestLost(p)
  <2>1. lost' \in 0 .. MaxLost /\ disturbed' \subseteq TradeIds
    BY <1>1, <1>2, <1>3, <1>10 DEF RequestLost
  <2>2. Finish(p) \/ Hear(p, "undo", "none")
    BY <1>10 DEF RequestLost
  <2> QED BY <1>1, <1>10, <2>1, <2>2, TypedMove DEF RequestLost
<1> QED BY <1>4, <1>5, <1>6, <1>7, <1>8, <1>9, <1>10

\* A query that writes a wallet or a fiat row.
LEMMA TypedMoney ==
  ASSUME Typed, NEW p \in Requests, Busy(p),
         \/ InsertFiat(p) \/ DebitWallet(p) \/ UndoDebit(p) \/ UndoFiat(p)
         \/ GiveBack(p) \/ ReverseFiat(p) \/ InsertSellFiat(p)
         \/ CompleteFiat(p) \/ CreditWallet(p) \/ CreditFiat(p) \/ FailFiat(p)
  PROVE  Typed'
<1> USE DEF Goto, Told, Heeding, Steps, BuySteps, ReverseSteps, OrderStatus,
            TransferStatus
<1>1. /\ trade \in [TradeIds -> TradeRow]
      /\ fiat \in [TradeIds -> {"none", "pending", "completed", "failed"}]
      /\ wallet \in [Users -> Int] /\ lost \in 0 .. MaxLost
      /\ transfer \in [TradeIds -> TransferStatus]
      /\ palmpay \in [TradeIds -> OrderStatus] /\ disturbed \subseteq TradeIds
  BY DEF Typed, TypeOK
<1>2. req[p].t \in TradeIds /\ Mine(p).user \in Users /\ Mine(p).amount \in Int
  BY DealAssumption DEF Typed, LocalOK, Busy, At, Mine
<1>3. CASE DebitWallet(p)
  <2>1. wallet' \in [Users -> Int]
    BY <1>1, <1>2, <1>3 DEF DebitWallet
  <2>2. UNCHANGED <<trade, fiat, transfer, palmpay, lost, disturbed>>
        /\ Become(p, Locals("quote", req[p].t, "none", TRUE))
    BY <1>3 DEF DebitWallet
  <2> QED BY <1>1, <1>2, <2>1, <2>2, TypedBegin
<1>4. CASE UndoDebit(p) \/ GiveBack(p) \/ CreditWallet(p)
  <2>1. wallet' \in [Users -> Int]
    BY <1>1, <1>2, <1>4 DEF UndoDebit, GiveBack, CreditWallet, Credit
  <2> QED BY <1>1, <1>4, <2>1, TypedMove DEF UndoDebit, GiveBack, CreditWallet
<1>5. CASE \/ InsertFiat(p) \/ UndoFiat(p) \/ ReverseFiat(p) \/ InsertSellFiat(p)
           \/ CompleteFiat(p) \/ CreditFiat(p) \/ FailFiat(p)
  <2>1. fiat' \in [TradeIds -> {"none", "pending", "completed", "failed"}]
    BY <1>1, <1>2, <1>5 DEF InsertFiat, UndoFiat, ReverseFiat, InsertSellFiat,
                          CompleteFiat, CreditFiat, FailFiat, SetFiat
  <2> QED BY <1>1, <1>5, <2>1, TypedMove
          DEF InsertFiat, UndoFiat, ReverseFiat, InsertSellFiat, CompleteFiat,
              CreditFiat, FailFiat
<1> QED BY <1>3, <1>4, <1>5

\* A query that writes a trade's row.
LEMMA TypedRow ==
  ASSUME Typed, NEW p \in Requests, Busy(p),
         \/ OpenBuy(p) \/ RecordPayout(p) \/ MarkReversed(p) \/ CreateTrade(p)
         \/ RecordSeen(p) \/ MarkCompleted(p) \/ MarkCredited(p) \/ MarkFailed(p)
  PROVE  Typed'
<1> USE DEF Goto, Told, Heeding, Steps, BuySteps, ReverseSteps, OrderStatus,
            TransferStatus
<1>1. /\ trade \in [TradeIds -> TradeRow]
      /\ fiat \in [TradeIds -> {"none", "pending", "completed", "failed"}]
      /\ wallet \in [Users -> Int] /\ lost \in 0 .. MaxLost
      /\ transfer \in [TradeIds -> TransferStatus]
      /\ palmpay \in [TradeIds -> OrderStatus] /\ disturbed \subseteq TradeIds
  BY DEF Typed, TypeOK
<1>2. req[p].t \in TradeIds /\ (req[p].pc \in Heeding => req[p].told \in TransferStatus)
  BY DEF Typed, LocalOK, Busy, At
<1>3. ASSUME NEW st \in TradeStatus, Status(req[p].t, st)
      PROVE  trade' \in [TradeIds -> TradeRow]
  <2>1. [trade[req[p].t] EXCEPT !.status = st] \in TradeRow
    BY <1>1, <1>2, StatusWritten
  <2> QED BY <1>1, <1>2, <1>3, <2>1 DEF Status
<1>4. ASSUME NEW st \in TradeStatus, NEW account \in BOOLEAN,
             trade' = [trade EXCEPT ![req[p].t] = FreshTrade(st, account)]
      PROVE  trade' \in [TradeIds -> TradeRow]
  <2>1. FreshTrade(st, account) \in TradeRow
    BY DEF FreshTrade, TradeRow
  <2> HIDE DEF FreshTrade
  <2> QED BY <1>1, <1>2, <1>4, <2>1
<1>5. Open \cup Closed \subseteq TradeStatus
  BY DEF TradeStatus
<1> HIDE DEF TradeStatus
<1>6. CASE OpenBuy(p)
  <2>1. PICK account \in BOOLEAN :
          trade' = [trade EXCEPT ![req[p].t] = FreshTrade("awaiting_palmpay", account)]
          /\ Goto(p, IF account THEN "payout" ELSE "reverse")
    BY <1>6 DEF OpenBuy
  <2>2. trade' \in [TradeIds -> TradeRow]
    BY <1>4, <1>5, <2>1 DEF Open
  <2>3. \E step \in {"payout", "reverse"} : Goto(p, step)
    BY <2>1
  <2> QED BY <1>1, <1>6, <2>2, <2>3, TypedMove DEF OpenBuy
<1>7. CASE RecordPayout(p)
  <2>1. trade' \in [TradeIds -> TradeRow]
    BY <1>3, <1>5, <1>7 DEF RecordPayout, Open, Closed
  <2> QED BY <1>1, <1>7, <2>1, TypedMove DEF RecordPayout
<1>8. CASE MarkReversed(p) \/ MarkCompleted(p) \/ MarkCredited(p)
  <2>1. trade' \in [TradeIds -> TradeRow]
    BY <1>3, <1>5, <1>8 DEF MarkReversed, MarkCompleted, MarkCredited, Closed
  <2> QED BY <1>1, <1>8, <2>1, TypedMove DEF MarkReversed, MarkCompleted, MarkCredited
<1>9. CASE CreateTrade(p)
  <2>1. trade' \in [TradeIds -> TradeRow]
    BY <1>4, <1>5, <1>9 DEF CreateTrade, Open
  <2> QED BY <1>1, <1>9, <2>1, TypedMove DEF CreateTrade
<1>10. CASE RecordSeen(p)
  <2>1. req[p].told \in TransferStatus
    BY <1>2, <1>10 DEF RecordSeen, At
  <2>2. trade' \in [TradeIds -> TradeRow]
    <3>1. [trade[req[p].t] EXCEPT !.seen = req[p].told] \in TradeRow
      BY <1>1, <1>2, <2>1, SeenWritten
    <3> QED BY <1>1, <1>2, <1>10, <3>1 DEF RecordSeen
  <2>3. Mine(p).side \in Sides
    BY <1>2, DealAssumption DEF Mine
  <2>4. Finish(p) \/ \E step \in Steps, told \in Told :
          Hear(p, step, told) /\ (step \in Heeding => told \in TransferStatus)
    BY <1>10, <2>1, <2>3 DEF RecordSeen, Sides
  <2> QED BY <1>1, <1>10, <2>2, <2>4, TypedMove DEF RecordSeen
<1>11. CASE MarkFailed(p)
  <2>1. req[p].told \in TransferStatus
    BY <1>2, <1>11 DEF MarkFailed, At
  <2>2. trade' \in [TradeIds -> TradeRow]
    <3>1. [trade[req[p].t] EXCEPT !.status = "busha_failed", !.seen = req[p].told]
            \in TradeRow
      BY <1>1, <1>2, <2>1, FailureWritten
    <3> QED BY <1>1, <1>2, <1>3, <1>5, <1>11, <3>1 DEF MarkFailed, Closed
  <2> QED BY <1>1, <1>11, <2>2, TypedMove DEF MarkFailed
<1> QED BY <1>6, <1>7, <1>8, <1>9, <1>10, <1>11

LEMMA AdvanceBusy ==
  ASSUME NEW p \in Requests, Advance(p) \/ RequestLost(p)
  PROVE  Busy(p)
BY DEF Advance, RequestLost, Busy, At, InsertFiat, DebitWallet, AskBusha, OpenBuy,
       AskPalmPay, RecordPayout, UndoDebit, UndoFiat, StartReverse, GiveBack,
       ReverseFiat, MarkReversed, InsertSellFiat, CreateTrade, AskTransfer,
       RecordSeen, CompleteFiat, MarkCompleted, ReadCredit, CreditWallet,
       CreditFiat, MarkCredited, ReadFailed, MarkFailed, FailFiat

LEMMA TypedProvider ==
  ASSUME Typed, NEW t \in TradeIds, TransferMoves(t) \/ OrderEnds(t)
  PROVE  Typed'
<1>1. transfer' \in [TradeIds -> TransferStatus] /\ palmpay' \in [TradeIds -> OrderStatus]
  <2>1. CASE TransferMoves(t)
    <3>1. PICK s \in TransferStatus : transfer' = [transfer EXCEPT ![t] = s]
      BY <2>1 DEF TransferMoves, TransferStatus, Funded, Converted, TransferFailed
    <3> QED BY <2>1, <3>1 DEF TransferMoves, Typed, TypeOK
  <2>2. CASE OrderEnds(t)
    BY <2>2 DEF OrderEnds, Typed, TypeOK, OrderStatus
  <2> QED BY <2>1, <2>2
<1>2. UNCHANGED <<trade, fiat, wallet, req, lost, disturbed>>
  BY DEF TransferMoves, OrderEnds
<1> QED BY <1>1, <1>2 DEF Typed, TypeOK

LEMMA TypedInit == Init => Typed
<1> SUFFICES ASSUME Init PROVE Typed
  OBVIOUS
<1>1. NoTrade \in TradeRow
  BY DEF NoTrade, FreshTrade, TradeRow, TradeStatus, TransferStatus
<1>2. LocalOK(Idle)
  BY DEF Idle, Locals, LocalOK, Local, Steps, Told, OrderStatus, Heeding
<1>3. \A p \in Requests : LocalOK(req[p])
  BY <1>2 DEF Init
<1>4. wallet \in [Users -> Int] /\ lost \in 0 .. MaxLost
  BY DealAssumption DEF Init
<1>5. req \in [Requests -> Local]
  BY <1>2 DEF Init, LocalOK
<1> HIDE DEF NoTrade
<1>6. trade \in [TradeIds -> TradeRow]
  BY <1>1 DEF Init
<1>7. /\ fiat \in [TradeIds -> {"none", "pending", "completed", "failed"}]
      /\ transfer \in [TradeIds -> TransferStatus]
      /\ palmpay \in [TradeIds -> OrderStatus] /\ disturbed \subseteq TradeIds
  BY DEF Init, TransferStatus, OrderStatus
<1> QED BY <1>3, <1>4, <1>5, <1>6, <1>7 DEF Typed, TypeOK, Local, Told

LEMMA TypedNext == Typed /\ [Next]_vars => Typed'
<1> SUFFICES ASSUME Typed, [Next]_vars PROVE Typed'
  OBVIOUS
<1>1. CASE UNCHANGED vars
  BY <1>1 DEF vars, Typed, TypeOK
<1>2. CASE \E p \in Requests :
             \/ StartBuy(p) \/ StartSell(p) \/ StartCrypto(p)
             \/ \E t \in TradeIds : StartSettle(p, t) \/ StartFailure(p, t)
  BY <1>2, TypedStart
<1>3. CASE \E p \in Requests : Advance(p) \/ RequestLost(p)
  <2>1. PICK p \in Requests : Advance(p) \/ RequestLost(p)
    BY <1>3
  <2>2. Busy(p)
    BY <2>1, AdvanceBusy
  <2> QED BY <2>1, <2>2, TypedRead, TypedMoney, TypedRow DEF Advance
<1>4. CASE \E t \in TradeIds : TransferMoves(t) \/ OrderEnds(t)
  BY <1>4, TypedProvider
<1> QED BY <1>1, <1>2, <1>3, <1>4 DEF Next

\* Every variable has its type, whatever the handlers of executeBuy,
\* executeSell, settleTrade and markSellFailed do and however they are cut short.
THEOREM BushaTypesHold == Spec => []TypeOK
<1>1. Typed => TypeOK
  BY DEF Typed
<1> QED BY TypedInit, TypedNext, <1>1, PTL DEF Spec

-----------------------------------------------------------------------------
(* What holds of a trade, and what a handler knows of its own               *)

\* Steps before Busha is asked, before the trade has a row, before PalmPay is
\* asked, and those that need the row.
PreQuote == {"fiatRow", "debit", "quote"}
PreOpen == PreQuote \cup {"open", "sellRow", "create"}
Early == PreOpen \cup {"payout"}
RowSteps == Steps \ (PreOpen \cup {"idle", "undo", "undoRow"})
CreditSteps == {"creditRead", "credit", "creditFiat", "credited"}
SellSteps == CreditSteps \cup {"sellRow", "failFiat"}
FailSteps == {"failRead", "failTrade", "failFiat"}

\* Why a buy may be reversed, from its row, its transfer and its order.
Reversible(row, s, o) ==
  \/ s \in TransferFailed
  \/ o = "failed"
  \/ row.status # "none" /\ ~row.account

\* What was said of a transfer still holds of it.
Past(told, s) ==
  /\ told \in TransferEnded => s = told
  /\ told \in Converted => s \in Converted
  /\ told = "funds_received" => s \in Funded

Sound(side, row, f, s, o) ==
  /\ side = "sell" /\ f = "completed" => s \in Converted
  /\ row.status = "wallet_credited" => side = "sell" /\ f = "completed"
  /\ row.status = "completed" => s \in Funded
  /\ row.status = "busha_failed" => s \in TransferFailed
  /\ row.status = "buy_reversed" => Reversible(row, s, o)
  /\ row.seen \in TransferFailed => s \in TransferFailed

Known(r, side, row, f, s, o) ==
  /\ r.pc \in BuySteps \cup ReverseSteps \cup {"completeFiat"} => side = "buy"
  /\ r.buying => side = "buy"
  /\ r.pc \in SellSteps => side = "sell"
  /\ r.pc \in PreQuote => s = "none"
  /\ r.pc \in PreOpen => row.status = "none"
  /\ r.pc \in Early /\ side = "buy" => o = "none"
  /\ r.pc \in RowSteps => row.status # "none"
  /\ r.pc = "seen" => Past(r.told, s)
  /\ r.pc = "payoutRow" /\ r.told = "failed" => o = "failed"
  /\ r.pc \in ReverseSteps => Reversible(row, s, o)
  /\ r.pc \in {"completeFiat", "complete"} => s \in Funded
  /\ r.pc \in CreditSteps => s \in Converted
  /\ r.pc = "credited" => f = "completed"
  /\ r.pc \in FailSteps => s \in TransferFailed

SoundAt(t) == Sound(Deal[t].side, trade[t], fiat[t], transfer[t], palmpay[t])
KnownAt(p) ==
  LET t == req[p].t
  IN  Known(req[p], Deal[t].side, trade[t], fiat[t], transfer[t], palmpay[t])

\* No two handlers are creating the same trade.
Alone ==
  \A p, q \in Requests :
    p # q /\ req[p].pc \in Early /\ req[q].pc \in Early => req[p].t # req[q].t

IInv ==
  /\ Typed
  /\ \A t \in TradeIds : SoundAt(t)
  /\ \A p \in Requests : Busy(p) => KnownAt(p)
  /\ Alone

\* How a trade may change under a handler that is not creating it.
Later(side, row, f, s, o, row2, f2, s2, o2) ==
  /\ row.status # "none" => row2.status # "none" /\ row2.account = row.account
  /\ s \in TransferEnded => s2 = s
  /\ s \in Funded => s2 \in Funded
  /\ s \in Converted => s2 \in Converted
  /\ o = "failed" => o2 = "failed"
  /\ side = "sell" /\ f = "completed" /\ row.status # "none" => f2 = "completed"
\* How it may change, too, under one that is.
Calm(r, row, s, o, row2, s2, o2) ==
  /\ r.pc \in PreOpen => row2 = row
  /\ r.pc \in PreQuote /\ s = "none" => s2 = "none"
  /\ r.pc \in Early /\ o = "none" => o2 = "none"

LEMMA KnownKept ==
  ASSUME NEW r, NEW side, NEW row, NEW f, NEW s, NEW o, NEW row2, NEW f2, NEW s2,
         NEW o2, Known(r, side, row, f, s, o),
         Later(side, row, f, s, o, row2, f2, s2, o2),
         Calm(r, row, s, o, row2, s2, o2)
  PROVE  Known(r, side, row2, f2, s2, o2)
<1>1. Reversible(row, s, o) /\ row.status # "none" => Reversible(row2, s2, o2)
  BY DEF Later, Reversible, TransferEnded
<1>2. Past(r.told, s) => Past(r.told, s2)
  BY DEF Later, Past
<1>3. r.pc \in ReverseSteps => r.pc \in RowSteps
  BY DEF ReverseSteps, RowSteps, PreOpen, PreQuote, Steps
<1>4. /\ s \in Converted => s2 \in Converted
      /\ s \in TransferFailed => s2 \in TransferFailed
      /\ s \in Funded => s2 \in Funded
  BY DEF Later, TransferEnded
<1>5. r.pc = "credited" => r.pc \in SellSteps /\ r.pc \in RowSteps
  BY DEF SellSteps, CreditSteps, RowSteps, PreOpen, PreQuote, Steps
<1> HIDE DEF Reversible, Past
<1> QED BY <1>1, <1>2, <1>3, <1>4, <1>5 DEF Known, Later, Calm

-----------------------------------------------------------------------------
(* Steps                                                                   *)

Same(t) ==
  /\ trade'[t] = trade[t] /\ fiat'[t] = fiat[t]
  /\ transfer'[t] = transfer[t] /\ palmpay'[t] = palmpay[t]
LaterAt(t) ==
  Later(Deal[t].side, trade[t], fiat[t], transfer[t], palmpay[t],
        trade'[t], fiat'[t], transfer'[t], palmpay'[t])
CalmAt(q, t) ==
  Calm(req[q], trade[t], transfer[t], palmpay[t], trade'[t], transfer'[t], palmpay'[t])

\* A step on trade t leaves handler q knowing what it has to.
Follows(q, t) ==
  Busy(q)' => \/ KnownAt(q)'
              \/ /\ req'[q] = req[q]
                 /\ req[q].t = t => LaterAt(t) /\ CalmAt(q, t)

LEMMA TradeStep ==
  ASSUME IInv, Typed', Alone', NEW t \in TradeIds, SoundAt(t)',
         \A u \in TradeIds \ {t} : Same(u),
         \A q \in Requests : Follows(q, t)
  PROVE  IInv'
<1>1. ASSUME NEW u \in TradeIds PROVE SoundAt(u)'
  BY DEF IInv, SoundAt, Same
<1>2. ASSUME NEW q \in Requests, Busy(q)' PROVE KnownAt(q)'
  <2>1. CASE req'[q] = req[q] /\ (req[q].t = t => LaterAt(t) /\ CalmAt(q, t))
    <3>1. Busy(q) /\ KnownAt(q) /\ req[q].t \in TradeIds
      BY <1>2, <2>1 DEF IInv, Typed, LocalOK, Busy, At
    <3>2. CASE req[q].t = t
      BY <2>1, <3>1, <3>2, KnownKept DEF KnownAt, LaterAt, CalmAt
    <3>3. CASE req[q].t # t
      BY <2>1, <3>1, <3>3 DEF KnownAt, Same
    <3> QED BY <3>2, <3>3
  <2> QED BY <1>2, <2>1 DEF Follows
<1> QED BY <1>1, <1>2 DEF IInv

\* A step of a handler on its own trade.
LEMMA OwnStep ==
  ASSUME IInv, Typed', NEW p \in Requests, NEW t \in TradeIds, req[p].t = t, Busy(p),
         \A q \in Requests \ {p} : req'[q] = req[q],
         \A u \in TradeIds \ {t} : Same(u),
         req'[p].pc = "idle" \/ req'[p].t = t,
         req'[p].pc \in Early => req[p].pc \in Early,
         LaterAt(t), SoundAt(t)', Busy(p)' => KnownAt(p)',
         req[p].pc \notin Early =>
           transfer'[t] = transfer[t] /\ palmpay'[t] = palmpay[t],
         req[p].pc \in {"undo", "undoRow"} => trade'[t] = trade[t]
  PROVE  IInv'
<1>1. req[p].pc \in Steps
  BY DEF IInv, Typed, LocalOK, Local, Busy, At
<1>2. "idle" \notin Early
  BY DEF Early, PreOpen, PreQuote
<1>3. Alone'
  BY <1>2 DEF IInv, Alone
<1>4. ASSUME NEW q \in Requests \ {p}, Busy(q), req[q].t = t
      PROVE  CalmAt(q, t)
  <2>1. KnownAt(q) /\ KnownAt(p)
    BY <1>4 DEF IInv
  <2>2. CASE req[p].pc \in Early
    <3>1. req[q].pc \notin Early
      BY <1>4, <2>2 DEF IInv, Alone
    <3> QED BY <3>1 DEF CalmAt, Calm, Early, PreOpen
  <2>3. CASE req[p].pc \in {"undo", "undoRow"}
    <3>1. req[p].pc \notin Early
      BY <2>3 DEF Early, PreOpen, PreQuote
    <3> QED BY <2>3, <3>1 DEF CalmAt, Calm
  <2>4. CASE req[p].pc \in RowSteps /\ req[p].pc \notin Early
    <3>1. req[q].pc \notin PreOpen
      BY <1>4, <2>1, <2>4 DEF KnownAt, Known
    <3> QED BY <2>4, <3>1 DEF CalmAt, Calm, PreOpen
  <2> QED BY <1>1, <2>2, <2>3, <2>4 DEF RowSteps, Early, Busy, At
<1>5. ASSUME NEW q \in Requests PROVE Follows(q, t)
  <2>1. q # p /\ Busy(q)' => req'[q] = req[q] /\ Busy(q)
    BY DEF Busy, At
  <2> QED BY <1>4, <2>1 DEF Follows
<1> QED BY <1>3, <1>5, TradeStep

\* A handler that starts, alone on a trade not in use, or as a settlement or a
\* failure that so far changes nothing.
LEMMA BeginStep ==
  ASSUME IInv, Typed', NEW p \in Requests, NEW t \in TradeIds,
         \A q \in Requests \ {p} : req'[q] = req[q],
         \A u \in TradeIds \ {t} : Same(u), req'[p].t = t,
         \/ \A q \in Requests : req[q].t # t
         \/ Same(t) /\ req'[p].pc \notin Early,
         SoundAt(t)', KnownAt(p)'
  PROVE  IInv'
<1>1. Alone'
  BY DEF IInv, Alone
<1>2. ASSUME NEW q \in Requests PROVE Follows(q, t)
  <2>1. CASE q = p
    BY <2>1 DEF Follows
  <2>2. CASE q # p /\ req[q].t # t
    BY <2>2 DEF Follows
  <2>3. CASE q # p /\ Same(t)
    <3>1. LaterAt(t) /\ CalmAt(q, t)
      BY <2>3 DEF Same, LaterAt, Later, CalmAt, Calm
    <3> QED BY <2>3, <3>1 DEF Follows
  <2> QED BY <2>1, <2>2, <2>3
<1> QED BY <1>1, <1>2, TradeStep

\* A query that changes no trade.
LEMMA LocalStep ==
  ASSUME IInv, Typed', NEW p \in Requests, NEW t \in TradeIds, req[p].t = t, Busy(p),
         UNCHANGED <<trade, fiat, transfer, palmpay>>,
         NEW r, req' = [req EXCEPT ![p] = r],
         r.pc = "idle" \/ r.t = t,
         r.pc \in Early => req[p].pc \in Early,
         r.pc # "idle" =>
           Known(r, Deal[t].side, trade[t], fiat[t], transfer[t], palmpay[t])
  PROVE  IInv'
<1>1. req'[p] = r /\ \A q \in Requests \ {p} : req'[q] = req[q]
  BY DEF IInv, Typed, TypeOK
<1>2. \A u \in TradeIds : Same(u) /\ LaterAt(u)
  BY DEF Same, LaterAt, Later
<1>3. SoundAt(t)'
  BY DEF IInv, SoundAt
<1>4. Busy(p)' => KnownAt(p)'
  BY <1>1 DEF Busy, At, KnownAt
<1> QED BY <1>1, <1>2, <1>3, <1>4, OwnStep

\* A query that writes a fiat row.
LEMMA FiatStep ==
  ASSUME IInv, Typed', NEW p \in Requests, NEW t \in TradeIds, req[p].t = t, Busy(p),
         UNCHANGED <<trade, transfer, palmpay>>,
         NEW f, SetFiat(t, f), NEW r, req' = [req EXCEPT ![p] = r],
         r.pc = "idle" \/ r.t = t,
         r.pc \in Early => req[p].pc \in Early,
         r.pc # "idle" =>
           Known(r, Deal[t].side, trade[t], f, transfer[t], palmpay[t]),
         Deal[t].side = "sell" /\ fiat[t] = "completed" /\ trade[t].status # "none"
           => f = "completed",
         Deal[t].side = "sell" /\ f = "completed" => transfer[t] \in Converted
  PROVE  IInv'
<1>1. req'[p] = r /\ \A q \in Requests \ {p} : req'[q] = req[q]
  BY DEF IInv, Typed, TypeOK
<1>2. fiat'[t] = f /\ \A u \in TradeIds \ {t} : fiat'[u] = fiat[u]
  BY DEF SetFiat, IInv, Typed, TypeOK
<1>3. LaterAt(t) /\ \A u \in TradeIds \ {t} : Same(u)
  BY <1>2 DEF Same, LaterAt, Later
<1>4. SoundAt(t)'
  BY <1>2 DEF IInv, SoundAt, Sound
<1>5. Busy(p)' => KnownAt(p)'
  BY <1>1, <1>2 DEF Busy, At, KnownAt
<1> QED BY <1>1, <1>3, <1>4, <1>5, OwnStep

LEMMA FiatEnd ==
  ASSUME IInv, Typed', NEW p \in Requests, NEW t \in TradeIds, req[p].t = t, Busy(p),
         UNCHANGED <<trade, transfer, palmpay>>, NEW f, SetFiat(t, f), Finish(p),
         Deal[t].side = "sell" /\ fiat[t] = "completed" /\ trade[t].status # "none"
           => f = "completed",
         Deal[t].side = "sell" /\ f = "completed" => transfer[t] \in Converted
  PROVE  IInv'
<1>1. req'[p].pc = "idle" /\ \A q \in Requests \ {p} : req'[q] = req[q]
  BY DEF Finish, Become, Idle, Locals, IInv, Typed, TypeOK
<1>2. fiat'[t] = f /\ \A u \in TradeIds \ {t} : fiat'[u] = fiat[u]
  BY DEF SetFiat, IInv, Typed, TypeOK
<1>3. LaterAt(t) /\ \A u \in TradeIds \ {t} : Same(u)
  BY <1>2 DEF Same, LaterAt, Later
<1>4. SoundAt(t)'
  BY <1>2 DEF IInv, SoundAt, Sound
<1>5. ~Busy(p)' /\ req'[p].pc \notin Early
  BY <1>1 DEF Busy, At, Early, PreOpen, PreQuote
<1> QED BY <1>1, <1>3, <1>4, <1>5, OwnStep

\* A query that writes a trade's row, which is there or is being created.
LEMMA RowStep ==
  ASSUME IInv, Typed', NEW p \in Requests, NEW t \in TradeIds, req[p].t = t, Busy(p),
         UNCHANGED <<fiat, transfer, palmpay>>,
         NEW row, trade' = [trade EXCEPT ![t] = row],
         NEW r, req' = [req EXCEPT ![p] = r],
         r.pc = "idle" \/ r.t = t,
         r.pc \in Early => req[p].pc \in Early,
         req[p].pc \notin {"undo", "undoRow"},
         r.pc # "idle" =>
           Known(r, Deal[t].side, row, fiat[t], transfer[t], palmpay[t]),
         trade[t].status # "none" => row.status # "none" /\ row.account = trade[t].account,
         Sound(Deal[t].side, row, fiat[t], transfer[t], palmpay[t])
  PROVE  IInv'
<1>1. req'[p] = r /\ \A q \in Requests \ {p} : req'[q] = req[q]
  BY DEF IInv, Typed, TypeOK
<1>2. trade'[t] = row /\ \A u \in TradeIds \ {t} : trade'[u] = trade[u]
  BY DEF IInv, Typed, TypeOK
<1>3. LaterAt(t) /\ \A u \in TradeIds \ {t} : Same(u)
  BY <1>2 DEF Same, LaterAt, Later
<1>4. SoundAt(t)'
  BY <1>2 DEF SoundAt
<1>5. Busy(p)' => KnownAt(p)'
  BY <1>1, <1>2 DEF Busy, At, KnownAt
<1> QED BY <1>1, <1>3, <1>4, <1>5, OwnStep

-----------------------------------------------------------------------------
(* Every step keeps the invariant                                          *)

\* What a handler in progress knows of its trade.
LEMMA Knows ==
  ASSUME IInv, NEW p \in Requests, Busy(p)
  PROVE  /\ req[p].t \in TradeIds
         /\ LET t == req[p].t
            IN  /\ Known(req[p], Deal[t].side, trade[t], fiat[t], transfer[t], palmpay[t])
                /\ Sound(Deal[t].side, trade[t], fiat[t], transfer[t], palmpay[t])
                /\ trade[t] \in TradeRow /\ Deal[t].side \in Sides
BY DealAssumption DEF IInv, Typed, LocalOK, Busy, At, KnownAt, SoundAt, TypeOK

\* Queries that leave the trade as it is.
LEMMA LocalKept ==
  ASSUME IInv, Typed', NEW p \in Requests, Busy(p),
         \/ DebitWallet(p) \/ UndoDebit(p) \/ StartReverse(p) \/ GiveBack(p)
         \/ AskTransfer(p) \/ ReadCredit(p) \/ CreditWallet(p) \/ ReadFailed(p)
         \/ RequestLost(p)
  PROVE  IInv'
<1>1. PICK t \in TradeIds : req[p].t = t
  BY Knows
<1> DEFINE K(r) == Known(r, Deal[t].side, trade[t], fiat[t], transfer[t], palmpay[t])
           Then(step, told) == Locals(step, t, told, req[p].buying)
<1>2. K(req[p])
  BY <1>1, Knows
<1> USE DEF Locals, BuySteps, ReverseSteps, RowSteps, Steps, PreQuote, PreOpen,
            Early, SellSteps, CreditSteps, FailSteps
<1>3. UNCHANGED <<trade, fiat, transfer, palmpay>>
  BY DEF DebitWallet, UndoDebit, StartReverse, GiveBack, AskTransfer, ReadCredit,
         CreditWallet, ReadFailed, RequestLost
<1>4. ASSUME Finish(p) PROVE IInv'
  <2>1. Idle.pc = "idle" /\ req' = [req EXCEPT ![p] = Idle]
    BY <1>4 DEF Idle, Finish, Become
  <2>2. "idle" \notin Early
    OBVIOUS
  <2> HIDE DEF Idle, Early
  <2> QED BY <1>1, <1>3, <2>1, <2>2, LocalStep
<1>5. ASSUME NEW r, Become(p, r), r.t = t, K(r),
             r.pc \in {"quote"} \cup (Steps \ Early),
             r.pc = "quote" => req[p].pc \in Early
      PROVE  IInv'
  <2>1. req' = [req EXCEPT ![p] = r] /\ (r.pc \in Early => req[p].pc \in Early)
    BY <1>5 DEF Become
  <2> HIDE DEF Early
  <2> QED BY <1>1, <1>3, <1>5, <2>1, LocalStep
<1>6. ASSUME NEW step, NEW told, Hear(p, step, told)
      PROVE  Become(p, Then(step, told)) /\ Then(step, told).t = t
             /\ Then(step, told).pc = step
  BY <1>1, <1>6 DEF Hear
<1>7. CASE DebitWallet(p)
  <2> DEFINE r == Locals("quote", t, "none", TRUE)
  <2>1. r.t = t /\ r.pc = "quote" /\ Become(p, r) /\ req[p].pc \in Early
    BY <1>1, <1>7 DEF DebitWallet, At
  <2>2. K(r)
    BY <1>2, <1>7 DEF DebitWallet, At, Known
  <2> HIDE DEF r, K, Early
  <2> QED BY <1>5, <2>1, <2>2 DEF Steps
<1>8. CASE UndoDebit(p)
  <2>1. Hear(p, "undoRow", "none") /\ K(Then("undoRow", "none"))
    BY <1>2, <1>8 DEF UndoDebit, At, Known, Goto
  <2> HIDE DEF K, Then
  <2> QED BY <1>5, <1>6, <2>1
<1>9. CASE StartReverse(p)
  <2>1. \/ Finish(p)
        \/ Hear(p, "giveBack", "none") /\ K(Then("giveBack", "none"))
    BY <1>2, <1>9 DEF StartReverse, At, Known, Goto
  <2> HIDE DEF K, Then
  <2> QED BY <1>4, <1>5, <1>6, <2>1
<1>10. CASE GiveBack(p)
  <2>1. Hear(p, "reverseFiat", "none") /\ K(Then("reverseFiat", "none"))
    BY <1>2, <1>10 DEF GiveBack, At, Known, Goto
  <2> HIDE DEF K, Then
  <2> QED BY <1>5, <1>6, <2>1
<1>11. CASE AskTransfer(p)
  <2>1. Hear(p, "seen", transfer[t]) /\ K(Then("seen", transfer[t]))
    BY <1>1, <1>2, <1>11 DEF AskTransfer, At, Known, Past, Funded
  <2> HIDE DEF K, Then
  <2> QED BY <1>5, <1>6, <2>1
<1>12. CASE ReadCredit(p)
  <2>1. \/ Hear(p, "credit", "none") /\ K(Then("credit", "none"))
        \/ Hear(p, "credited", "none") /\ K(Then("credited", "none"))
    BY <1>1, <1>2, <1>12 DEF ReadCredit, At, Known, Goto
  <2> HIDE DEF K, Then
  <2> QED BY <1>5, <1>6, <2>1
<1>13. CASE CreditWallet(p)
  <2>1. Hear(p, "creditFiat", "none") /\ K(Then("creditFiat", "none"))
    BY <1>2, <1>13 DEF CreditWallet, At, Known, Goto
  <2> HIDE DEF K, Then
  <2> QED BY <1>5, <1>6, <2>1
<1>14. CASE ReadFailed(p)
  <2>1. \/ Finish(p)
        \/ Hear(p, "failTrade", req[p].told) /\ K(Then("failTrade", req[p].told))
    BY <1>2, <1>14 DEF ReadFailed, At, Known
  <2> HIDE DEF K, Then
  <2> QED BY <1>4, <1>5, <1>6, <2>1
<1>15. CASE RequestLost(p)
  <2>1. Finish(p) \/ (req[p].buying /\ Hear(p, "undo", "none"))
    BY <1>15 DEF RequestLost, Goto
  <2>2. ASSUME req[p].buying PROVE K(Then("undo", "none"))
    <3>1. Deal[t].side = "buy"
      BY <1>2, <2>2 DEF Known
    <3>2. \A r : r.pc = "undo" /\ Deal[t].side = "buy" => K(r)
      BY DEF Known
    <3> QED BY <3>1, <3>2
  <2> HIDE DEF K, Then
  <2> QED BY <1>4, <1>5, <1>6, <2>1, <2>2
<1> QED BY <1>7, <1>8, <1>9, <1>10, <1>11, <1>12, <1>13, <1>14, <1>15

\* Queries that write the fiat row.
LEMMA FiatKept ==
  ASSUME IInv, Typed', NEW p \in Requests, Busy(p),
         \/ InsertFiat(p) \/ UndoFiat(p) \/ ReverseFiat(p) \/ InsertSellFiat(p)
         \/ CompleteFiat(p) \/ CreditFiat(p) \/ FailFiat(p)
  PROVE  IInv'
<1>1. PICK t \in TradeIds : req[p].t = t
  BY Knows
<1> DEFINE K(r, f) == Known(r, Deal[t].side, trade[t], f, transfer[t], palmpay[t])
           Then(step) == Locals(step, t, "none", req[p].buying)
           Writable(f) ==
             /\ Deal[t].side = "sell" /\ fiat[t] = "completed"
                  /\ trade[t].status # "none" => f = "completed"
             /\ Deal[t].side = "sell" /\ f = "completed" => transfer[t] \in Converted
<1>2. K(req[p], fiat[t]) /\ (Deal[t].side = "sell" /\ fiat[t] = "completed"
                               => transfer[t] \in Converted)
  BY <1>1, Knows DEF Sound
<1> USE DEF Locals, BuySteps, ReverseSteps, RowSteps, Steps, PreQuote, PreOpen,
            Early, SellSteps, CreditSteps, FailSteps
<1>3. UNCHANGED <<trade, transfer, palmpay>>
  BY DEF InsertFiat, UndoFiat, ReverseFiat, InsertSellFiat, CompleteFiat,
         CreditFiat, FailFiat
<1>4. ASSUME NEW f, SetFiat(t, f), Writable(f), Finish(p) PROVE IInv'
  BY <1>1, <1>3, <1>4, FiatEnd
<1>5. ASSUME NEW f, SetFiat(t, f), Writable(f), NEW step, Goto(p, step),
             K(Then(step), f), step # "idle",
             step \in Early => req[p].pc \in Early
      PROVE  IInv'
  <2>1. /\ req' = [req EXCEPT ![p] = Then(step)]
        /\ Then(step).t = t /\ Then(step).pc = step
    BY <1>1, <1>5 DEF Become, Goto, Hear
  <2> HIDE DEF Early, Then
  <2> QED BY <1>1, <1>3, <1>5, <2>1, FiatStep
<1>6. CASE InsertFiat(p)
  <2>1. SetFiat(t, "pending") /\ Goto(p, "debit") /\ req[p].pc \in Early
    BY <1>1, <1>6 DEF InsertFiat, At
  <2>2. K(Then("debit"), "pending") /\ Writable("pending")
    BY <1>2, <1>6 DEF InsertFiat, At, Known
  <2> HIDE DEF K, Then, Early, Writable
  <2> QED BY <1>5, <2>1, <2>2
<1>7. CASE InsertSellFiat(p)
  <2>1. SetFiat(t, "pending") /\ Goto(p, "create") /\ req[p].pc \in Early
    BY <1>1, <1>7 DEF InsertSellFiat, At
  <2>2. K(Then("create"), "pending") /\ Writable("pending")
    BY <1>2, <1>7 DEF InsertSellFiat, At, Known
  <2> HIDE DEF K, Then, Early, Writable
  <2> QED BY <1>5, <2>1, <2>2
<1>8. CASE UndoFiat(p)
  <2>1. SetFiat(t, "failed") /\ Finish(p) /\ Writable("failed")
    BY <1>1, <1>2, <1>8 DEF UndoFiat, At, Known
  <2> HIDE DEF Writable
  <2> QED BY <1>4, <2>1
<1>9. CASE ReverseFiat(p)
  <2>1. SetFiat(t, "failed") /\ Goto(p, "reversed") /\ Writable("failed")
    BY <1>1, <1>2, <1>9 DEF ReverseFiat, At, Known
  <2>2. K(Then("reversed"), "failed")
    BY <1>2, <1>9 DEF ReverseFiat, At, Known
  <2>3. "reversed" \notin Early
    OBVIOUS
  <2> HIDE DEF K, Then, Early, Writable
  <2> QED BY <1>5, <2>1, <2>2, <2>3
<1>10. CASE CompleteFiat(p)
  <2>1. SetFiat(t, "completed") /\ Goto(p, "complete") /\ Writable("completed")
    BY <1>1, <1>2, <1>10 DEF CompleteFiat, At, Known
  <2>2. K(Then("complete"), "completed")
    BY <1>2, <1>10 DEF CompleteFiat, At, Known
  <2>3. "complete" \notin Early
    OBVIOUS
  <2> HIDE DEF K, Then, Early, Writable
  <2> QED BY <1>5, <2>1, <2>2, <2>3
<1>11. CASE CreditFiat(p)
  <2>1. SetFiat(t, "completed") /\ Goto(p, "credited") /\ Writable("completed")
    BY <1>1, <1>2, <1>11 DEF CreditFiat, At, Known
  <2>2. K(Then("credited"), "completed")
    BY <1>2, <1>11 DEF CreditFiat, At, Known
  <2>3. "credited" \notin Early
    OBVIOUS
  <2> HIDE DEF K, Then, Early, Writable
  <2> QED BY <1>5, <2>1, <2>2, <2>3
<1>12. CASE FailFiat(p)
  <2>1. PICK f : SetFiat(t, f) /\ Writable(f)
    <3>1. CASE fiat[t] = "pending"
      BY <1>1, <1>12, <3>1 DEF FailFiat
    <3>2. CASE fiat[t] # "pending"
      <4>1. SetFiat(t, fiat[t])
        BY <1>1, <1>12, <3>2 DEF FailFiat, SetFiat, IInv, Typed, TypeOK
      <4> QED BY <1>2, <4>1
    <3> QED BY <3>1, <3>2
  <2>2. Finish(p)
    BY <1>12 DEF FailFiat
  <2> HIDE DEF Writable
  <2> QED BY <1>4, <2>1, <2>2
<1> QED BY <1>6, <1>7, <1>8, <1>9, <1>10, <1>11, <1>12

\* Queries that write the trade's row.
LEMMA RowKept ==
  ASSUME IInv, Typed', NEW p \in Requests, Busy(p),
         \/ OpenBuy(p) \/ RecordPayout(p) \/ MarkReversed(p) \/ CreateTrade(p)
         \/ RecordSeen(p) \/ MarkCompleted(p) \/ MarkCredited(p) \/ MarkFailed(p)
  PROVE  IInv'
<1>1. PICK t \in TradeIds : req[p].t = t
  BY Knows
<1> DEFINE K(r, row) == Known(r, Deal[t].side, row, fiat[t], transfer[t], palmpay[t])
           Then(step, told) == Locals(step, t, told, req[p].buying)
           S(row) == Sound(Deal[t].side, row, fiat[t], transfer[t], palmpay[t])
           Writable(row) ==
             /\ S(row)
             /\ trade[t].status # "none" =>
                  row.status # "none" /\ row.account = trade[t].account
<1>2. /\ K(req[p], trade[t]) /\ S(trade[t]) /\ trade[t] \in TradeRow
      /\ Deal[t].side \in Sides
  BY <1>1, Knows
<1> USE DEF Locals, BuySteps, ReverseSteps, RowSteps, Steps, PreQuote, PreOpen,
            Early, SellSteps, CreditSteps, FailSteps
<1>3. UNCHANGED <<fiat, transfer, palmpay>> /\ req[p].pc \notin {"undo", "undoRow"}
  BY DEF OpenBuy, RecordPayout, MarkReversed, CreateTrade, RecordSeen,
         MarkCompleted, MarkCredited, MarkFailed, At
<1>4. ASSUME NEW row, trade' = [trade EXCEPT ![t] = row], Writable(row), Finish(p)
      PROVE  IInv'
  <2>1. Idle.pc = "idle" /\ req' = [req EXCEPT ![p] = Idle]
    BY <1>4 DEF Idle, Finish, Become
  <2>2. "idle" \notin Early
    OBVIOUS
  <2> HIDE DEF Idle, Early
  <2> QED BY <1>1, <1>3, <1>4, <2>1, <2>2, RowStep
<1>5. ASSUME NEW row, trade' = [trade EXCEPT ![t] = row], Writable(row),
             NEW step, NEW told, Hear(p, step, told), K(Then(step, told), row),
             step \in Early => req[p].pc \in Early
      PROVE  IInv'
  <2>1. /\ req' = [req EXCEPT ![p] = Then(step, told)]
        /\ Then(step, told).t = t /\ Then(step, told).pc = step
    BY <1>1, <1>5 DEF Become, Hear
  <2> HIDE DEF Early, Then
  <2> QED BY <1>1, <1>3, <1>5, <2>1, RowStep
\* Writing a status that there is evidence for, and nothing else of the row.
<1>6. ASSUME NEW st \in Open \cup Closed, Status(t, st),
             st = "wallet_credited" => Deal[t].side = "sell" /\ fiat[t] = "completed",
             st = "completed" => transfer[t] \in Funded,
             st = "busha_failed" => transfer[t] \in TransferFailed,
             st = "buy_reversed" =>
               trade[t].status # "none" /\ Reversible(trade[t], transfer[t], palmpay[t])
      PROVE  \E row : trade' = [trade EXCEPT ![t] = row] /\ Writable(row)
                       /\ row.status = st /\ row.account = trade[t].account
  <2> DEFINE row == [trade[t] EXCEPT !.status = st]
  <2>1. st \in TradeStatus /\ st # "none"
    BY DEF TradeStatus, Open, Closed
  <2>2. row.status = st /\ row.account = trade[t].account /\ row.seen = trade[t].seen
    BY <1>2, <2>1, StatusWritten
  <2>3. trade' = [trade EXCEPT ![t] = row]
    BY <1>6 DEF Status
  <2> HIDE DEF row
  <2>4. S(row)
    BY <1>2, <1>6, <2>2 DEF Sound, Reversible
  <2> QED BY <2>1, <2>2, <2>3, <2>4
<1>7. CASE OpenBuy(p)
  <2>1. PICK account \in BOOLEAN :
          /\ trade' = [trade EXCEPT ![t] = FreshTrade("awaiting_palmpay", account)]
          /\ Goto(p, IF account THEN "payout" ELSE "reverse")
    BY <1>1, <1>7 DEF OpenBuy
  <2> DEFINE row == FreshTrade("awaiting_palmpay", account)
  <2>2. row.status = "awaiting_palmpay" /\ row.account = account /\ row.seen = "pending"
    BY DEF FreshTrade
  <2>3. At(p, "open")
    BY <1>7 DEF OpenBuy
  <2>4. trade[t].status = "none" /\ Deal[t].side = "buy" /\ palmpay[t] = "none"
    BY <1>2, <2>3 DEF Known, At
  <2>5. trade' = [trade EXCEPT ![t] = row]
    BY <2>1
  <2> HIDE DEF row
  <2>6. Writable(row)
    BY <1>2, <2>2, <2>4 DEF Sound, TransferFailed
  <2>7. CASE account
    <3>1. Hear(p, "payout", "none") /\ K(Then("payout", "none"), row)
      BY <1>2, <2>1, <2>2, <2>3, <2>4, <2>7 DEF Known, At, Goto
    <3>2. req[p].pc \in Early
      BY <2>3 DEF At
    <3> HIDE DEF K, Then, Early, Writable
    <3> QED BY <1>5, <2>5, <2>6, <3>1, <3>2
  <2>8. CASE ~account
    <3>1. Reversible(row, transfer[t], palmpay[t])
      BY <2>2, <2>8 DEF Reversible
    <3>2. Hear(p, "reverse", "none") /\ K(Then("reverse", "none"), row)
      BY <1>2, <2>1, <2>2, <2>3, <2>4, <2>8, <3>1 DEF Known, At, Goto
    <3>3. "reverse" \notin Early
      OBVIOUS
    <3> HIDE DEF K, Then, Early, Writable
    <3> QED BY <1>5, <2>5, <2>6, <3>2, <3>3
  <2> QED BY <2>7, <2>8
<1>8. CASE RecordPayout(p)
  <2>1. At(p, "payoutRow")
    BY <1>8 DEF RecordPayout
  <2>2. CASE req[p].told = "failed"
    <3>1. PICK row : /\ trade' = [trade EXCEPT ![t] = row] /\ Writable(row)
                     /\ row.status = "palmpay_failed" /\ row.account = trade[t].account
      BY <1>1, <1>6, <1>8, <2>2 DEF RecordPayout, Closed
    <3>2. Reversible(row, transfer[t], palmpay[t])
      BY <1>2, <2>1, <2>2 DEF Known, At, Reversible
    <3>3. Hear(p, "reverse", "none") /\ K(Then("reverse", "none"), row)
      BY <1>2, <1>8, <2>1, <2>2, <3>1, <3>2 DEF RecordPayout, Known, At, Goto
    <3>4. "reverse" \notin Early
      OBVIOUS
    <3> HIDE DEF K, Then, Early, Writable
    <3> QED BY <1>5, <3>1, <3>3, <3>4
  <2>3. CASE req[p].told # "failed"
    <3>1. PICK row : trade' = [trade EXCEPT ![t] = row] /\ Writable(row)
      BY <1>1, <1>6, <1>8, <2>3 DEF RecordPayout, Open
    <3>2. Finish(p)
      BY <1>8, <2>3 DEF RecordPayout
    <3> HIDE DEF Writable
    <3> QED BY <1>4, <3>1, <3>2
  <2> QED BY <2>2, <2>3
<1>9. CASE MarkReversed(p)
  <2>1. Reversible(trade[t], transfer[t], palmpay[t]) /\ trade[t].status # "none"
    BY <1>2, <1>9 DEF MarkReversed, Known, At
  <2>2. \E row : trade' = [trade EXCEPT ![t] = row] /\ Writable(row)
    BY <1>1, <1>6, <1>9, <2>1 DEF MarkReversed, Closed
  <2> HIDE DEF Writable
  <2> QED BY <1>4, <1>9, <2>2 DEF MarkReversed
<1>10. CASE CreateTrade(p)
  <2>1. PICK st \in {"settling", "awaiting_crypto_deposit", "awaiting_busha"} :
          trade' = [trade EXCEPT ![t] = FreshTrade(st, FALSE)]
    BY <1>1, <1>10 DEF CreateTrade
  <2> DEFINE row == FreshTrade(st, FALSE)
  <2>2. row.status = st /\ row.seen = "pending" /\ trade[t].status = "none"
    BY <1>2, <1>10 DEF FreshTrade, CreateTrade, Known, At
  <2> HIDE DEF row
  <2>3. Writable(row)
    BY <1>2, <2>2 DEF Sound, TransferFailed
  <2> HIDE DEF Writable
  <2> QED BY <1>4, <1>10, <2>1, <2>3 DEF CreateTrade, row
<1>11. CASE MarkCompleted(p)
  <2>1. transfer[t] \in Funded
    BY <1>2, <1>11 DEF MarkCompleted, Known, At
  <2>2. \E row : trade' = [trade EXCEPT ![t] = row] /\ Writable(row)
    BY <1>1, <1>6, <1>11, <2>1 DEF MarkCompleted, Closed
  <2> HIDE DEF Writable
  <2> QED BY <1>4, <1>11, <2>2 DEF MarkCompleted
<1>12. CASE MarkCredited(p)
  <2>1. Deal[t].side = "sell" /\ fiat[t] = "completed"
    BY <1>2, <1>12 DEF MarkCredited, Known, At
  <2>2. \E row : trade' = [trade EXCEPT ![t] = row] /\ Writable(row)
    BY <1>1, <1>6, <1>12, <2>1 DEF MarkCredited, Closed
  <2> HIDE DEF Writable
  <2> QED BY <1>4, <1>12, <2>2 DEF MarkCredited
<1>13. CASE MarkFailed(p)
  <2>1. At(p, "failTrade") /\ transfer[t] \in TransferFailed
        /\ req[p].told \in TransferStatus /\ trade[t].status # "none"
    BY <1>2, <1>13 DEF MarkFailed, Known, At, IInv, Typed, LocalOK, Heeding
  <2>2. CASE Deal[t].side = "sell"
    <3> DEFINE row == [trade[t] EXCEPT !.status = "busha_failed", !.seen = req[p].told]
    <3>1. /\ row.status = "busha_failed" /\ row.account = trade[t].account
          /\ row.seen = req[p].told
      BY <1>2 DEF TradeRow
    <3>2. trade' = [trade EXCEPT ![t] = row] /\ Goto(p, "failFiat")
      BY <1>1, <1>13, <2>2 DEF MarkFailed
    <3> HIDE DEF row
    <3>3. Writable(row)
      BY <1>2, <2>1, <3>1 DEF Sound
    <3>4. Hear(p, "failFiat", "none") /\ K(Then("failFiat", "none"), row)
      BY <1>2, <2>1, <2>2, <3>1, <3>2 DEF Known, At, Goto
    <3>5. "failFiat" \notin Early
      OBVIOUS
    <3> HIDE DEF K, Then, Early, Writable
    <3> QED BY <1>5, <3>2, <3>3, <3>4, <3>5
  <2>3. CASE Deal[t].side # "sell"
    <3>1. \E row : trade' = [trade EXCEPT ![t] = row] /\ Writable(row)
      BY <1>1, <1>6, <1>13, <2>1, <2>3 DEF MarkFailed, Closed
    <3>2. Finish(p)
      BY <1>1, <1>13, <2>3 DEF MarkFailed
    <3> HIDE DEF Writable
    <3> QED BY <1>4, <3>1, <3>2
  <2> QED BY <2>2, <2>3
<1>14. CASE RecordSeen(p)
  <2> DEFINE told == req[p].told
  <2>1. At(p, "seen") /\ Past(told, transfer[t]) /\ trade[t].status # "none"
        /\ told \in TransferStatus
    BY <1>2, <1>14 DEF RecordSeen, Known, At, IInv, Typed, LocalOK, Heeding
  <2>2. /\ told \in TransferFailed => transfer[t] \in TransferFailed
        /\ told \in Told /\ "none" \in Told
    BY <2>1 DEF Past, TransferEnded, Told, OrderStatus
  <2>3. PICK row : /\ trade' = [trade EXCEPT ![t] = row] /\ Writable(row)
                   /\ row.status # "none"
    <3>1. CASE Deal[t].side = "sell"
      <4> DEFINE row == [trade[t] EXCEPT !.seen = told]
      <4>1. /\ row.status = trade[t].status /\ row.account = trade[t].account
            /\ row.seen = told
        BY <1>2, <2>1, SeenWritten
      <4>2. trade' = [trade EXCEPT ![t] = row]
        BY <1>1, <1>14, <3>1 DEF RecordSeen, Mine
      <4> HIDE DEF row
      <4>3. Writable(row)
        BY <1>2, <2>1, <2>2, <4>1 DEF Sound, Reversible
      <4> QED BY <2>1, <4>1, <4>2, <4>3
    <3>2. CASE Deal[t].side # "sell"
      <4>1. trade' = [trade EXCEPT ![t] = trade[t]]
        BY <1>1, <1>14, <3>2 DEF RecordSeen, Mine, IInv, Typed, TypeOK
      <4> QED BY <1>2, <2>1, <4>1
    <3> QED BY <3>1, <3>2
  <2>4. Success(told, Deal[t].side) =>
          /\ transfer[t] \in Funded
          /\ Deal[t].side = "sell" => transfer[t] \in Converted
    BY <2>1 DEF Success, Past, Funded, Converted
  <2>5. \/ Finish(p)
        \/ \E step \in Steps \ Early, heard \in Told :
              Hear(p, step, heard) /\ K(Then(step, heard), row)
    <3>1. CASE Success(told, Deal[t].side) /\ Deal[t].side = "sell"
      <4>1. Hear(p, "creditRead", "none") /\ K(Then("creditRead", "none"), row)
        BY <1>1, <1>2, <1>14, <2>1, <2>3, <2>4, <3>1 DEF RecordSeen, Mine, Goto, Known, At
      <4> HIDE DEF K, Then
      <4> QED BY <2>2, <4>1
    <3>2. CASE Success(told, Deal[t].side) /\ Deal[t].side = "buy"
      <4>1. Hear(p, "completeFiat", "none") /\ K(Then("completeFiat", "none"), row)
        BY <1>1, <1>2, <1>14, <2>1, <2>3, <2>4, <3>2 DEF RecordSeen, Mine, Goto, Known, At
      <4> HIDE DEF K, Then
      <4> QED BY <2>2, <4>1
    <3>3. CASE Success(told, Deal[t].side) /\ Deal[t].side = "crypto"
      <4>1. Hear(p, "complete", "none") /\ K(Then("complete", "none"), row)
        BY <1>1, <1>2, <1>14, <2>1, <2>3, <2>4, <3>3 DEF RecordSeen, Mine, Goto, Known, At
      <4> HIDE DEF K, Then
      <4> QED BY <2>2, <4>1
    <3>4. CASE ~Success(told, Deal[t].side) /\ told \in TransferFailed
               /\ Deal[t].side = "buy"
      <4>1. Hear(p, "reverse", "none") /\ K(Then("reverse", "none"), row)
        BY <1>1, <1>2, <1>14, <2>1, <2>2, <2>3, <3>4
        DEF RecordSeen, Mine, Goto, Known, At, Reversible
      <4> HIDE DEF K, Then
      <4> QED BY <2>2, <4>1
    <3>5. CASE ~Success(told, Deal[t].side) /\ told \in TransferFailed
               /\ Deal[t].side # "buy"
      <4>1. Hear(p, "failRead", told) /\ K(Then("failRead", told), row)
        BY <1>1, <1>2, <1>14, <2>1, <2>2, <2>3, <3>5
        DEF RecordSeen, Mine, Known, At
      <4> HIDE DEF K, Then
      <4> QED BY <2>2, <4>1
    <3>6. CASE ~Success(told, Deal[t].side) /\ told \notin TransferFailed
      BY <1>1, <1>14, <3>6 DEF RecordSeen, Mine
    <3> QED BY <1>2, <3>1, <3>2, <3>3, <3>4, <3>5, <3>6 DEF Sides
  <2> HIDE DEF K, Then, Early, Writable
  <2> QED BY <1>4, <1>5, <2>3, <2>5
<1> QED BY <1>7, <1>8, <1>9, <1>10, <1>11, <1>12, <1>13, <1>14

\* What was asked of Busha and PalmPay may change the transfer and the order.
LEMMA AskKept ==
  ASSUME IInv, Typed', NEW p \in Requests, Busy(p), AskBusha(p) \/ AskPalmPay(p)
  PROVE  IInv'
<1>1. PICK t \in TradeIds : req[p].t = t
  BY Knows
<1>2. /\ Known(req[p], Deal[t].side, trade[t], fiat[t], transfer[t], palmpay[t])
      /\ Sound(Deal[t].side, trade[t], fiat[t], transfer[t], palmpay[t])
  BY <1>1, Knows
<1> USE DEF Locals, BuySteps, ReverseSteps, RowSteps, Steps, PreQuote, PreOpen,
            Early, SellSteps, CreditSteps, FailSteps
<1>3. UNCHANGED <<trade, fiat>> /\ req[p].pc \in {"quote", "payout"}
  BY DEF AskBusha, AskPalmPay, At
<1>4. PICK step \in {"undo", "open", "payoutRow"}, told \in Told :
        /\ Hear(p, step, told)
        /\ step = "open" => AskBusha(p)
        /\ step = "payoutRow" => AskPalmPay(p) /\ palmpay'[t] = told
  BY <1>1 DEF AskBusha, AskPalmPay, Goto, IInv, Typed, TypeOK, Told, OrderStatus
<1> DEFINE r == Locals(step, t, told, req[p].buying)
<1>5. /\ req'[p] = r /\ r.t = t /\ r.pc = step /\ r.told = told
      /\ r.buying = req[p].buying
      /\ \A q \in Requests \ {p} : req'[q] = req[q]
  BY <1>1, <1>4 DEF Hear, Become, IInv, Typed, TypeOK
<1> HIDE DEF r
<1>6. CASE AskBusha(p)
  <2>1. /\ trade[t].status = "none" /\ transfer[t] = "none" /\ palmpay[t] = "none"
        /\ Deal[t].side = "buy" /\ req[p].pc = "quote"
    BY <1>2, <1>6 DEF AskBusha, Known, At
  <2>2. /\ transfer'[t] \in {"none", "pending"} /\ UNCHANGED palmpay
        /\ \A u \in TradeIds \ {t} : Same(u)
    BY <1>1, <1>3, <1>6, <2>1 DEF AskBusha, Same, IInv, Typed, TypeOK
  <2>3. LaterAt(t)
    BY <1>3, <2>1, <2>2 DEF LaterAt, Later, TransferEnded, TransferFailed, Funded, Converted
  <2>4. SoundAt(t)'
    BY <1>2, <1>3, <2>1, <2>2 DEF SoundAt, Sound, TransferFailed
  <2>5. step \in {"undo", "open"}
    BY <1>4, <1>6, <2>1 DEF AskPalmPay, At
  <2>6. KnownAt(p)'
    BY <1>3, <1>5, <2>1, <2>2, <2>5 DEF KnownAt, Known
  <2>7. req[p].pc \in Early
    BY <2>1
  <2> HIDE DEF Early
  <2> QED BY <1>1, <1>5, <2>1, <2>2, <2>3, <2>4, <2>6, <2>7, OwnStep
<1>7. CASE AskPalmPay(p)
  <2>1. /\ trade[t].status # "none" /\ palmpay[t] = "none"
        /\ Deal[t].side = "buy" /\ req[p].pc = "payout"
    BY <1>2, <1>7 DEF AskPalmPay, Known, At
  <2>2. UNCHANGED transfer /\ \A u \in TradeIds \ {t} : Same(u)
    BY <1>1, <1>3, <1>7, <2>1 DEF AskPalmPay, Same, IInv, Typed, TypeOK
  <2>3. LaterAt(t)
    BY <1>3, <2>1, <2>2 DEF LaterAt, Later
  <2>4. SoundAt(t)'
    BY <1>2, <1>3, <2>1, <2>2 DEF SoundAt, Sound, Reversible
  <2>5. step \in {"undo", "payoutRow"}
    BY <1>4, <1>7, <2>1 DEF AskBusha, At
  <2>6. KnownAt(p)'
    BY <1>3, <1>4, <1>5, <2>1, <2>2, <2>5 DEF KnownAt, Known
  <2>7. req[p].pc \in Early /\ step \notin Early
    BY <2>1, <2>5
  <2> HIDE DEF Early
  <2> QED BY <1>1, <1>5, <2>1, <2>2, <2>3, <2>4, <2>6, <2>7, OwnStep
<1> QED BY <1>6, <1>7

\* Handlers that start.
LEMMA StartKept ==
  ASSUME IInv, Typed', NEW p \in Requests,
         \/ StartBuy(p) \/ StartSell(p) \/ StartCrypto(p)
         \/ \E t \in TradeIds : StartSettle(p, t) \/ StartFailure(p, t)
  PROVE  IInv'
<1> USE DEF Locals, BuySteps, ReverseSteps, RowSteps, Steps, PreQuote, PreOpen,
            Early, SellSteps, CreditSteps, FailSteps
<1>1. CASE StartBuy(p) \/ StartSell(p) \/ StartCrypto(p)
  <2>1. PICK t \in TradeIds, step \in {"fiatRow", "sellRow", "create"} :
          /\ Unused(t) /\ Begin(p, step, t)
          /\ \/ step = "fiatRow" /\ UNCHANGED <<transfer, palmpay>> /\ Deal[t].side = "buy"
             \/ /\ step # "fiatRow" /\ Deal[t].side # "buy"
                /\ step = "sellRow" => Deal[t].side = "sell"
                /\ transfer' = [transfer EXCEPT ![t] = "pending"]
                /\ \A u \in TradeIds \ {t} : palmpay'[u] = palmpay[u]
    BY <1>1 DEF StartBuy, StartSell, StartCrypto, Free, IInv, Typed, TypeOK
  <2>2. UNCHANGED <<trade, fiat>>
    BY <1>1 DEF StartBuy, StartSell, StartCrypto
  <2> DEFINE r == Locals(step, t, "none", FALSE)
  <2>3. /\ req'[p] = r /\ \A q \in Requests \ {p} : req'[q] = req[q]
        /\ r.pc = step /\ r.t = t /\ r.told = "none" /\ r.buying = FALSE
    BY <2>1 DEF Begin, Become, IInv, Typed, TypeOK
  <2> HIDE DEF r
  <2>4. /\ transfer'[t] = IF step = "fiatRow" THEN "none" ELSE "pending"
        /\ step = "fiatRow" => palmpay'[t] = "none"
        /\ trade[t].status = "none" /\ fiat[t] = "none" /\ transfer[t] = "none"
    BY <2>1 DEF Unused, IInv, Typed, TypeOK
  <2>5. trade[t].seen \notin TransferFailed
    BY <2>4 DEF IInv, SoundAt, Sound, TransferFailed
  <2>6. SoundAt(t)'
    BY <2>2, <2>4, <2>5 DEF SoundAt, Sound
  <2>7. KnownAt(p)'
    BY <2>1, <2>2, <2>3, <2>4 DEF KnownAt, Known
  <2>8. \A u \in TradeIds \ {t} : Same(u)
    BY <2>1, <2>2 DEF Same, IInv, Typed, TypeOK
  <2>9. \A q \in Requests : req[q].t # t
    BY <2>1 DEF Unused
  <2> QED BY <2>3, <2>6, <2>7, <2>8, <2>9, BeginStep
<1>2. CASE \E t \in TradeIds : StartSettle(p, t) \/ StartFailure(p, t)
  <2>1. PICK t \in TradeIds : StartSettle(p, t) \/ StartFailure(p, t)
    BY <1>2
  <2>2. UNCHANGED <<trade, fiat, transfer, palmpay>> /\ trade[t].status # "none"
    BY <2>1 DEF StartSettle, StartFailure, Open
  <2>3. PICK step \in {"ask", "failRead"}, told \in Told :
          /\ Become(p, Locals(step, t, told, FALSE))
          /\ step = "failRead" => StartFailure(p, t)
    BY <2>1 DEF StartSettle, StartFailure, Begin, Told, OrderStatus, IInv, Typed,
               TypeOK, TradeRow
  <2> DEFINE r == Locals(step, t, told, FALSE)
  <2>4. /\ req'[p] = r /\ \A q \in Requests \ {p} : req'[q] = req[q]
        /\ r.pc = step /\ r.t = t /\ r.buying = FALSE
    BY <2>3 DEF Become, IInv, Typed, TypeOK
  <2> HIDE DEF r
  <2>5. step = "failRead" => transfer[t] \in TransferFailed
    BY <2>3 DEF StartFailure, IInv, SoundAt, Sound
  <2>6. SoundAt(t)'
    BY <2>2 DEF IInv, SoundAt
  <2>7. KnownAt(p)'
    BY <2>2, <2>4, <2>5 DEF KnownAt, Known
  <2>8. \A u \in TradeIds : Same(u)
    BY <2>2 DEF Same
  <2>9. step \notin Early
    OBVIOUS
  <2> HIDE DEF Early
  <2> QED BY <2>4, <2>6, <2>7, <2>8, <2>9, BeginStep
<1> QED BY <1>1, <1>2

\* The providers only move a trade on.
LEMMA ProviderKept ==
  ASSUME IInv, Typed', NEW t \in TradeIds, TransferMoves(t) \/ OrderEnds(t)
  PROVE  IInv'
<1>1. UNCHANGED <<trade, fiat, req>>
  BY DEF TransferMoves, OrderEnds
<1>2. /\ palmpay' # palmpay => palmpay[t] = "accepted"
      /\ \/ transfer' = transfer
         \/ transfer[t] = "pending" /\ transfer'[t] \in {"funds_received", "cancelled"}
         \/ /\ transfer[t] \in {"funds_received", "funds_converted"}
            /\ transfer'[t] \in Converted
      /\ \A u \in TradeIds \ {t} : Same(u)
  <2>1. \A u \in TradeIds \ {t} : Same(u)
    BY <1>1 DEF TransferMoves, OrderEnds, Same, IInv, Typed, TypeOK
  <2>2. CASE OrderEnds(t)
    BY <2>1, <2>2 DEF OrderEnds, IInv, Typed, TypeOK
  <2>3. CASE TransferMoves(t)
    <3>1. transfer \in [TradeIds -> TransferStatus] /\ UNCHANGED palmpay
      BY <2>3 DEF TransferMoves, IInv, Typed, TypeOK
    <3>2. \A s : transfer' = [transfer EXCEPT ![t] = s] => transfer'[t] = s
      BY <3>1
    <3> QED BY <2>1, <2>3, <3>1, <3>2 DEF TransferMoves, Converted
  <2> QED BY <2>2, <2>3
<1>3. LaterAt(t)
  BY <1>1, <1>2 DEF LaterAt, Later, TransferEnded, TransferFailed, Funded, Converted
<1>4. SoundAt(t)'
  <2>1. SoundAt(t) /\ trade'[t] = trade[t] /\ fiat'[t] = fiat[t]
    BY <1>1 DEF IInv
  <2>2. /\ transfer[t] \in Converted => transfer'[t] \in Converted
        /\ transfer[t] \in Funded => transfer'[t] \in Funded
        /\ transfer[t] \in TransferFailed => transfer'[t] \in TransferFailed
        /\ palmpay[t] = "failed" => palmpay'[t] = "failed"
    BY <1>2 DEF Funded, Converted, TransferFailed
  <2> QED BY <2>1, <2>2 DEF SoundAt, Sound, Reversible
<1>5. ASSUME NEW q \in Requests PROVE Follows(q, t)
  <2>1. CalmAt(q, t)
    BY <1>1, <1>2 DEF CalmAt, Calm
  <2> QED BY <1>1, <1>3, <2>1 DEF Follows
<1>6. Alone'
  BY <1>1 DEF IInv, Alone
<1> QED BY <1>2, <1>4, <1>5, <1>6, TradeStep

LEMMA EvidenceInit == Init => IInv
<1> SUFFICES ASSUME Init PROVE IInv
  OBVIOUS
<1>1. Typed
  BY TypedInit
<1>2. \A p \in Requests : req[p].pc = "idle"
  BY DEF Init, Idle, Locals
<1>3. \A t \in TradeIds : SoundAt(t)
  BY DEF Init, SoundAt, Sound, NoTrade, FreshTrade, TransferFailed
<1> QED BY <1>1, <1>2, <1>3 DEF IInv, Busy, At, Alone, Early, PreOpen, PreQuote

LEMMA EvidenceNext == IInv /\ [Next]_vars => IInv'
<1> SUFFICES ASSUME IInv, [Next]_vars PROVE IInv'
  OBVIOUS
<1>1. Typed'
  BY TypedNext DEF IInv
<1>2. CASE UNCHANGED vars
  BY <1>1, <1>2 DEF vars, IInv, SoundAt, KnownAt, Alone, Busy, At
<1>3. CASE \E p \in Requests :
             \/ StartBuy(p) \/ StartSell(p) \/ StartCrypto(p)
             \/ \E t \in TradeIds : StartSettle(p, t) \/ StartFailure(p, t)
  BY <1>1, <1>3, StartKept
<1>4. CASE \E p \in Requests : Advance(p) \/ RequestLost(p)
  <2>1. PICK p \in Requests : Advance(p) \/ RequestLost(p)
    BY <1>4
  <2>2. Busy(p)
    BY <2>1, AdvanceBusy
  <2> QED BY <1>1, <2>1, <2>2, LocalKept, FiatKept, RowKept, AskKept DEF Advance
<1>5. CASE \E t \in TradeIds : TransferMoves(t) \/ OrderEnds(t)
  BY <1>1, <1>5, ProviderKept
<1> QED BY <1>2, <1>3, <1>4, <1>5 DEF Next

\* The inductive invariant of settleTrade and the handlers it meets: what each
\* knows of its trade stays true of it whatever the others and the providers do.
THEOREM BushaKnowledgeHolds == Spec => []IInv
BY EvidenceInit, EvidenceNext, PTL DEF Spec

\* settleTrade, reverseBuy, creditSell and markSellFailed never close a trade
\* that Busha and PalmPay give no ground for closing in that way.
THEOREM BushaEvidenceHolds == Spec => []Evidence
<1>1. IInv => Evidence
  <2> SUFFICES ASSUME IInv, NEW t \in TradeIds
               PROVE  LET s == trade[t].status
                      IN  /\ Deal[t].side = "sell" /\ fiat[t] = "completed" =>
                               transfer[t] \in Converted
                          /\ s = "wallet_credited" => fiat[t] = "completed"
                          /\ s = "completed" => transfer[t] \in Funded
                          /\ s = "busha_failed" => transfer[t] \in TransferFailed
                          /\ s = "buy_reversed" =>
                               \/ transfer[t] \in TransferFailed
                               \/ palmpay[t] = "failed"
                               \/ ~trade[t].account
    BY DEF Evidence
  <2> QED BY DEF IInv, SoundAt, Sound, Reversible
<1> QED BY BushaKnowledgeHolds, <1>1, PTL

-----------------------------------------------------------------------------
(* The books                                                               *)

\* A handler that has ended is on no trade, and two on one trade have disturbed it.
Once ==
  /\ \A p \in Requests : At(p, "idle") => req[p].t = NoId
  /\ \A p, q \in Requests :
       p # q /\ req[p].t = req[q].t /\ req[p].t \in TradeIds => req[p].t \in disturbed

\* How the fiat row f and the status s of a trade that no handler is on tell the same
\* story.
Story(side, f, s) ==
  /\ side = "buy" => \/ s = "none" /\ f \in {"none", "failed"}
                     \/ s \in Open /\ f \in {"pending", "failed"}
                     \/ s = "completed" /\ f = "completed"
                     \/ s = "buy_reversed" /\ f = "failed"
  /\ side = "sell" => \/ s = "none" /\ f = "none"
                      \/ s \in Open /\ f = "pending"
                      \/ s = "wallet_credited" /\ f = "completed"
                      \/ s = "busha_failed" /\ f = "failed"
  /\ side = "crypto" => f = "none"

\* How they stand while its only handler has the locals r.
Doing(side, r, f, s) ==
  /\ r.pc \in {"fiatRow", "sellRow"} => s = "none" /\ f = "none"
  /\ r.pc \in {"debit", "quote", "open"} => s = "none" /\ f = "pending"
  /\ r.pc = "create" =>
       s = "none" /\ side # "buy" /\ f = (IF side = "sell" THEN "pending" ELSE "none")
  /\ r.pc \in {"payout", "payoutRow"} => s \in Open /\ f = "pending"
  /\ r.pc \in {"undo", "undoRow"} => s \in Open \cup {"none"} /\ f = "pending"
  /\ r.pc = "reverse" => \/ s = "palmpay_failed" /\ f = "pending"
                         \/ s \in Open /\ f \in {"pending", "failed"}
  /\ r.pc \in {"giveBack", "reverseFiat"} => f = "pending"
  /\ r.pc = "reversed" => f = "failed"
  /\ r.pc \in {"ask", "seen"} => s \in Open /\ Story(side, f, s)
  /\ r.pc = "seen" /\ side = "buy" /\ Success(r.told, side) => f = "pending"
  /\ r.pc = "completeFiat" => s \in Open /\ f = "pending"
  /\ r.pc = "complete" =>
       s \in Open /\ side # "sell" /\ f = (IF side = "buy" THEN "completed" ELSE "none")
  /\ r.pc \in {"creditRead", "credit", "creditFiat"} => s \in Open /\ f = "pending"
  /\ r.pc = "credited" => s \in Open /\ f = "completed"
  /\ r.pc \in {"failRead", "failTrade"} =>
       s \in Open \cup {"busha_failed"} /\ side # "buy" /\ Story(side, f, s)
  /\ r.pc = "failFiat" => s = "busha_failed" /\ f \in {"pending", "failed"}
Fits(side, r, f, s) == IF r.pc = "idle" THEN Story(side, f, s) ELSE Doing(side, r, f, s)

\* A buy is funded by its payout alone; one given up, or failed, never will be.
GivingUp == {"undo", "undoRow"} \cup ReverseSteps
Fundable(side, s, o) == side = "buy" /\ s \in Funded => o = "completed"
Doomed(s, o) == s \in TransferFailed \/ o \in {"none", "failed"}
Lost(side, pc, f, s, o) ==
  side = "buy" /\ (f = "failed" \/ pc \in GivingUp) => Doomed(s, o)

\* What a trade has taken from the wallet, or given to it, when its handler stands at pc.
Took(side, pc, f) ==
  side = "buy" /\ f \in {"pending", "completed"} /\ pc \notin {"debit", "undoRow", "reverseFiat"}
Gave(side, pc, f) == side = "sell" /\ (f = "completed" \/ pc = "creditFiat")

Stands(t, S) == \E p \in Requests : req[p].t = t /\ req[p].pc \in S
Taken(t) == PaidIn(t) /\ ~Stands(t, {"debit", "undoRow", "reverseFiat"})
Given(t) == PaidOut(t) \/ (Deal[t].side = "sell" /\ Stands(t, {"creditFiat"}))

StoryAt(t) ==
  /\ (\A p \in Requests : req[p].t # t) =>
       /\ Story(Deal[t].side, fiat[t], trade[t].status)
       /\ Lost(Deal[t].side, "idle", fiat[t], transfer[t], palmpay[t])
  /\ \A p \in Requests : req[p].t = t =>
       /\ Doing(Deal[t].side, req[p], fiat[t], trade[t].status)
       /\ Lost(Deal[t].side, req[p].pc, fiat[t], transfer[t], palmpay[t])
Stories == \A t \in TradeIds \ disturbed : StoryAt(t)
Funding == \A t \in TradeIds : Fundable(Deal[t].side, transfer[t], palmpay[t])

\* The wallet, at every step; and of the handlers about to debit it only one is not
\* disturbed, for which it suffices.
Buying == {"fiatRow", "debit"}
BooksOf(u) ==
  /\ wallet[u] = InitWallet[u] + Total({t \in TradesOf(u) : Given(t)})
                               - Total({t \in TradesOf(u) : Taken(t)})
  /\ wallet[u] >= 0
  /\ \A p \in Requests :
       req[p].pc \in Buying /\ Mine(p).user = u => Mine(p).amount <= wallet[u]
  /\ \A p, q \in Requests :
       p # q /\ req[p].pc \in Buying /\ req[q].pc \in Buying /\ Mine(p).user = u
         => Mine(q).user # u
Running == \A u \in Users : Undisturbed(u) => BooksOf(u)

BInv == IInv /\ Once /\ Funding /\ Stories /\ Running

-----------------------------------------------------------------------------
(* A step of a handler                                                     *)

\* The step takes handler p, on trade t or starting on it alone, to locals r.
Moves(p, t, r) ==
  /\ req' = [req EXCEPT ![p] = r]
  /\ r.pc = "idle" => r.t = NoId
  /\ r.pc # "idle" => r.t = t
  /\ \A u \in TradeIds \ {t} : Same(u)
  /\ \A u \in Users \ {Deal[t].user} : wallet'[u] = wallet[u]
  /\ disturbed \subseteq disturbed'
  /\ \/ req[p].t = t
     \/ At(p, "idle") /\ (t \in disturbed' \/ \A q \in Requests : req[q].t # t)

Pay(t) == wallet' = [wallet EXCEPT ![Deal[t].user] = @ - Deal[t].amount]
Refund(t) == wallet' = [wallet EXCEPT ![Deal[t].user] = @ + Deal[t].amount]
\* The wallet moves as what the trade has taken and given does.
Booked(side, t, pc, r, f) ==
  \/ /\ wallet' = wallet
     /\ Took(side, r.pc, f) <=> Took(side, pc, fiat[t])
     /\ Gave(side, r.pc, f) <=> Gave(side, pc, fiat[t])
  \/ /\ Pay(t) /\ pc = "debit"
     /\ Took(side, r.pc, f) /\ ~Took(side, pc, fiat[t])
     /\ Gave(side, r.pc, f) <=> Gave(side, pc, fiat[t])
  \/ /\ Refund(t)
     /\ ~Took(side, r.pc, f) /\ Took(side, pc, fiat[t])
     /\ Gave(side, r.pc, f) <=> Gave(side, pc, fiat[t])
  \/ /\ Refund(t)
     /\ Took(side, r.pc, f) <=> Took(side, pc, fiat[t])
     /\ Gave(side, r.pc, f) /\ ~Gave(side, pc, fiat[t])

\* It starts to buy only with the wallet sufficing and no other buy about to debit.
Covered(p, t, r) ==
  r.pc \in Buying =>
    /\ wallet' = wallet
    /\ \/ req[p].pc \in Buying /\ req[p].t = t
       \/ /\ Deal[t].amount <= wallet[Deal[t].user]
          /\ \/ t \in disturbed'
             \/ \A q \in Requests \ {p} :
                  req[q].pc \in Buying => Mine(q).user # Deal[t].user

Right(p, t, r) ==
  t \notin disturbed' =>
    /\ Fits(Deal[t].side, r, fiat'[t], trade'[t].status)
    /\ Lost(Deal[t].side, r.pc, fiat'[t], transfer'[t], palmpay'[t])
    /\ Booked(Deal[t].side, t, req[p].pc, r, fiat'[t])

\* The others stay off the trade, and the other trades stay as they are.
LEMMA Others ==
  ASSUME Typed, Once, NEW p \in Requests, NEW t \in TradeIds, NEW r, Moves(p, t, r)
  PROVE  /\ req'[p] = r /\ \A q \in Requests \ {p} : req'[q] = req[q]
         /\ t \notin disturbed' => \A q \in Requests \ {p} : req[q].t # t
         /\ req[p].t \in {t, NoId} /\ r.t \in {t, NoId}
         /\ \A u \in TradeIds \ {t} : (Taken(u)' <=> Taken(u)) /\ (Given(u)' <=> Given(u))
<1>1. req'[p] = r /\ \A q \in Requests \ {p} : req'[q] = req[q]
  BY DEF Typed, TypeOK, Moves
<1>2. req[p].t \in {t, NoId} /\ r.t \in {t, NoId}
  BY DEF Moves, Once
<1>3. t \notin disturbed' => \A q \in Requests \ {p} : req[q].t # t
  BY DEF Moves, Once
<1>4. ASSUME NEW u \in TradeIds \ {t}, NEW S PROVE Stands(u, S)' <=> Stands(u, S)
  BY <1>1, <1>2, DealAssumption DEF Stands
<1>5. ASSUME NEW u \in TradeIds \ {t}
      PROVE  (Taken(u)' <=> Taken(u)) /\ (Given(u)' <=> Given(u))
  <2>1. fiat'[u] = fiat[u]
    BY DEF Moves, Same
  <2> QED BY <1>4, <2>1 DEF Taken, Given, PaidIn, PaidOut
<1> QED BY <1>1, <1>2, <1>3, <1>5

\* What the trade has taken and given, when p is its only handler.
LEMMA OnlyHandler ==
  ASSUME NEW p \in Requests, NEW t \in TradeIds, req[p].t \in {t, NoId},
         At(p, "idle") <=> req[p].t = NoId, \A q \in Requests \ {p} : req[q].t # t
  PROVE  /\ Taken(t) <=> Took(Deal[t].side, req[p].pc, fiat[t])
         /\ Given(t) <=> Gave(Deal[t].side, req[p].pc, fiat[t])
<1>1. ASSUME NEW S, "idle" \notin S PROVE Stands(t, S) <=> req[p].pc \in S
  BY <1>1, DealAssumption DEF Stands, At
<1>2. /\ Stands(t, {"debit", "undoRow", "reverseFiat"}) <=>
           req[p].pc \in {"debit", "undoRow", "reverseFiat"}
      /\ Stands(t, {"creditFiat"}) <=> req[p].pc \in {"creditFiat"}
  BY <1>1
<1> QED BY <1>2 DEF Taken, Given, Took, Gave, PaidIn, PaidOut

\* The parts of the invariant, one by one.
LEMMA OnceStep ==
  ASSUME Typed, Once, NEW p \in Requests, NEW t \in TradeIds, NEW r, Moves(p, t, r)
  PROVE  Once'
<1>1. /\ req'[p] = r /\ \A q \in Requests \ {p} : req'[q] = req[q]
      /\ t \notin disturbed' => \A q \in Requests \ {p} : req[q].t # t
      /\ r.t \in {t, NoId}
  BY Others
<1>2. \A q \in Requests : At(q, "idle")' => req'[q].t = NoId
  BY <1>1 DEF Once, At, Moves
<1>3. ASSUME NEW q1 \in Requests, NEW q2 \in Requests, q1 # q2,
             req'[q1].t = req'[q2].t, req'[q1].t \in TradeIds
      PROVE  req'[q1].t \in disturbed'
  <2>1. CASE q1 # p /\ q2 # p
    BY <1>1, <1>3, <2>1 DEF Once, Moves
  <2>2. CASE q1 = p \/ q2 = p
    BY <1>1, <1>3, <2>2, DealAssumption
  <2> QED BY <2>1, <2>2
<1> QED BY <1>2, <1>3 DEF Once

LEMMA StoriesStep ==
  ASSUME Typed, Once, Stories, NEW p \in Requests, NEW t \in TradeIds, NEW r,
         Moves(p, t, r), Right(p, t, r)
  PROVE  Stories'
<1>1. /\ req'[p] = r /\ \A q \in Requests \ {p} : req'[q] = req[q]
      /\ t \notin disturbed' => \A q \in Requests \ {p} : req[q].t # t
      /\ req[p].t \in {t, NoId} /\ r.t \in {t, NoId}
  BY Others
<1> SUFFICES ASSUME NEW u \in TradeIds, u \notin disturbed' PROVE StoryAt(u)'
  BY DEF Stories
<1>2. CASE u # t
  <2>1. StoryAt(u) /\ Same(u)
    BY <1>2 DEF Stories, Moves
  <2>2. \A q \in Requests : (req'[q].t = u <=> req[q].t = u) /\ (req[q].t = u => q # p)
    BY <1>1, <1>2, DealAssumption
  <2>3. \A q \in Requests : req[q].t = u => req'[q] = req[q]
    BY <1>1, <2>2
  <2> QED BY <2>1, <2>2, <2>3 DEF StoryAt, Same
<1>3. CASE u = t
  <2>1. /\ Fits(Deal[t].side, r, fiat'[t], trade'[t].status)
        /\ Lost(Deal[t].side, r.pc, fiat'[t], transfer'[t], palmpay'[t])
    BY <1>3 DEF Right
  <2>2. \A q \in Requests : req'[q].t = t => q = p
    BY <1>1, <1>3
  <2>3. CASE r.pc = "idle"
    <3>1. \A q \in Requests : req'[q].t # t
      BY <1>1, <2>2, <2>3, DealAssumption DEF Moves
    <3> QED BY <1>3, <2>1, <2>3, <3>1 DEF StoryAt, Fits
  <2>4. CASE r.pc # "idle"
    <3>1. req'[p].t = t
      BY <1>1, <2>4 DEF Moves
    <3> QED BY <1>1, <1>3, <2>1, <2>2, <2>4, <3>1 DEF StoryAt, Fits
  <2> QED BY <2>3, <2>4
<1> QED BY <1>2, <1>3

\* The wallet follows what the trade has taken and given.
LEMMA TotalsStep ==
  ASSUME Typed, Once, NEW p \in Requests, NEW t \in TradeIds, NEW r,
         Moves(p, t, r), Right(p, t, r), t \notin disturbed', NEW u \in Users,
         u = Deal[t].user,
         wallet[u] = InitWallet[u] + Total({x \in TradesOf(u) : Given(x)})
                                   - Total({x \in TradesOf(u) : Taken(x)})
  PROVE  /\ wallet'[u] = InitWallet[u] + Total({x \in TradesOf(u) : Given(x)}')
                                       - Total({x \in TradesOf(u) : Taken(x)}')
         /\ \/ wallet'[u] >= wallet[u]
            \/ req[p].pc = "debit" /\ wallet'[u] = wallet[u] - Deal[t].amount
<1> DEFINE G == {x \in TradesOf(u) : Given(x)}
           T == {x \in TradesOf(u) : Taken(x)}
<1>1. /\ req'[p] = r /\ \A q \in Requests \ {p} : req'[q] = req[q]
      /\ \A q \in Requests \ {p} : req[q].t # t
      /\ req[p].t \in {t, NoId} /\ r.t \in {t, NoId}
      /\ \A x \in TradeIds \ {t} : (Taken(x)' <=> Taken(x)) /\ (Given(x)' <=> Given(x))
  BY Others
<1>2. /\ Taken(t) <=> Took(Deal[t].side, req[p].pc, fiat[t])
      /\ Given(t) <=> Gave(Deal[t].side, req[p].pc, fiat[t])
  <2>1. At(p, "idle") <=> req[p].t = NoId
    BY DealAssumption DEF Once, Moves, At, Typed, LocalOK
  <2> QED BY <1>1, <2>1, OnlyHandler
<1>3. /\ Taken(t)' <=> Took(Deal[t].side, r.pc, fiat'[t])
      /\ Given(t)' <=> Gave(Deal[t].side, r.pc, fiat'[t])
  <2>1. ASSUME NEW S, "idle" \notin S PROVE Stands(t, S)' <=> r.pc \in S
    <3>1. r.pc # "idle" => r.t = t
      BY DEF Moves
    <3> QED BY <1>1, <2>1, <3>1 DEF Stands, Moves
  <2>2. /\ Stands(t, {"debit", "undoRow", "reverseFiat"})' <=>
             r.pc \in {"debit", "undoRow", "reverseFiat"}
        /\ Stands(t, {"creditFiat"})' <=> r.pc \in {"creditFiat"}
    BY <2>1
  <2> QED BY <2>2 DEF Taken, Given, Took, Gave, PaidIn, PaidOut
<1>4. Booked(Deal[t].side, t, req[p].pc, r, fiat'[t])
  BY DEF Right
<1>5. /\ IsFiniteSet(G) /\ IsFiniteSet(G') /\ G \ {t} = G' \ {t}
      /\ IsFiniteSet(T) /\ IsFiniteSet(T') /\ T \ {t} = T' \ {t}
      /\ G \subseteq TradeIds /\ G' \subseteq TradeIds
      /\ T \subseteq TradeIds /\ T' \subseteq TradeIds
  <2>1. /\ G \subseteq TradeIds /\ G' \subseteq TradeIds
        /\ T \subseteq TradeIds /\ T' \subseteq TradeIds
    BY DEF TradesOf
  <2>2. IsFiniteSet(G) /\ IsFiniteSet(G') /\ IsFiniteSet(T) /\ IsFiniteSet(T')
    BY <2>1, DealAssumption, FS_Subset
  <2>3. G \ {t} = G' \ {t} /\ T \ {t} = T' \ {t}
    BY <1>1 DEF TradesOf
  <2> QED BY <2>1, <2>2, <2>3
<1>6. Amounts[t] = Deal[t].amount /\ \A x \in TradeIds : Amounts[x] \in Int
  BY DealAssumption DEF Amounts
<1>7. /\ t \in G <=> Given(t)
      /\ t \in G' <=> Given(t)'
      /\ t \in T <=> Taken(t)
      /\ t \in T' <=> Taken(t)'
  BY DEF TradesOf
<1>8. /\ Total(G) \in Int /\ (t \in G' /\ t \notin G => Total(G') = Total(G) + Amounts[t])
      /\ t \in G /\ t \notin G' => Total(G') = Total(G) - Amounts[t]
      /\ (t \in G <=> t \in G') => Total(G') = Total(G)
  <2> HIDE DEF G
  <2>1. Amounts[t] \in Int /\ \A x \in G \cup G' : Amounts[x] \in Int
    BY <1>5, <1>6
  <2> QED BY <1>5, <2>1, SumDiffers DEF Total
<1>9. /\ Total(T) \in Int /\ (t \in T' /\ t \notin T => Total(T') = Total(T) + Amounts[t])
      /\ t \in T /\ t \notin T' => Total(T') = Total(T) - Amounts[t]
      /\ (t \in T <=> t \in T') => Total(T') = Total(T)
  <2> HIDE DEF T
  <2>1. Amounts[t] \in Int /\ \A x \in T \cup T' : Amounts[x] \in Int
    BY <1>5, <1>6
  <2> QED BY <1>5, <2>1, SumDiffers DEF Total
<1>10. InitWallet[u] \in Int /\ wallet[u] \in Int /\ Amounts[t] \in Nat
  BY <1>6, DealAssumption DEF Typed, TypeOK
<1>11. /\ Pay(t) => wallet'[u] = wallet[u] - Amounts[t]
       /\ Refund(t) => wallet'[u] = wallet[u] + Amounts[t]
  BY <1>6 DEF Pay, Refund, Typed, TypeOK
<1> HIDE DEF G, T
<1>12. /\ wallet'[u] = InitWallet[u] + Total(G') - Total(T')
       /\ wallet'[u] >= wallet[u] \/ (req[p].pc = "debit" /\ Pay(t))
  <2>1. wallet[u] = InitWallet[u] + Total(G) - Total(T)
    BY DEF G, T
  <2> HIDE DEF Total
  <2> QED BY <1>2, <1>3, <1>4, <1>7, <1>8, <1>9, <1>10, <1>11, <2>1 DEF Booked
<1> QED BY <1>6, <1>11, <1>12 DEF G, T

LEMMA RunningStep ==
  ASSUME Typed, Typed', Once, Running, NEW p \in Requests, NEW t \in TradeIds, NEW r,
         Moves(p, t, r), Right(p, t, r), Covered(p, t, r)
  PROVE  Running'
<1>1. /\ req'[p] = r /\ \A q \in Requests \ {p} : req'[q] = req[q]
      /\ \A x \in TradeIds \ {t} : (Taken(x)' <=> Taken(x)) /\ (Given(x)' <=> Given(x))
  BY Others
<1>2. r.pc \in Buying => r.t = t
  BY DEF Moves, Buying
<1>3. req[p].pc \in Buying => req[p].t = t
  BY DealAssumption DEF Moves, At, Buying, Typed, LocalOK
<1> SUFFICES ASSUME NEW u \in Users, Undisturbed(u)' PROVE BooksOf(u)'
  BY DEF Running
<1>4. BooksOf(u)
  BY DEF Running, Undisturbed, TradesOf, Moves
<1>5. /\ wallet[u] \in Int /\ wallet'[u] \in Int
      /\ \A q \in Requests : req[q].pc \in Buying => Mine(q).amount \in Nat
      /\ Deal[t].amount \in Nat
  BY DealAssumption DEF Typed, TypeOK, LocalOK, Mine, Buying
<1>6. \A q \in Requests \ {p} : Mine(q)' = Mine(q)
  BY <1>1 DEF Mine
<1>7. /\ r.pc \in Buying => Mine(p)' = Deal[t]
      /\ req[p].pc \in Buying => Mine(p) = Deal[t]
  BY <1>1, <1>2, <1>3 DEF Mine
<1>8. CASE u # Deal[t].user
  <2>1. wallet'[u] = wallet[u]
    BY <1>8 DEF Moves
  <2>2. t \notin TradesOf(u) /\ TradesOf(u)' = TradesOf(u) /\ TradesOf(u) \subseteq TradeIds
    BY <1>8 DEF TradesOf
  <2>3. /\ {x \in TradesOf(u) : Given(x)}' = {x \in TradesOf(u) : Given(x)}
        /\ {x \in TradesOf(u) : Taken(x)}' = {x \in TradesOf(u) : Taken(x)}
    BY <1>1, <2>2
  <2>4. /\ \A q \in Requests : req'[q].pc \in Buying /\ Mine(q)'.user = u =>
             Mine(q)'.amount <= wallet[u]
        /\ \A q1, q2 \in Requests :
             q1 # q2 /\ req'[q1].pc \in Buying /\ req'[q2].pc \in Buying
               /\ Mine(q1)'.user = u => Mine(q2)'.user # u
    BY <1>1, <1>4, <1>6, <1>7, <1>8 DEF BooksOf
  <2> QED BY <1>4, <2>1, <2>3, <2>4 DEF BooksOf
<1>9. CASE u = Deal[t].user
  <2>1. t \notin disturbed'
    BY <1>9 DEF Undisturbed, TradesOf
  <2>2. /\ wallet'[u] = InitWallet[u] + Total({x \in TradesOf(u) : Given(x)}')
                                      - Total({x \in TradesOf(u) : Taken(x)}')
        /\ \/ wallet'[u] >= wallet[u]
           \/ req[p].pc = "debit" /\ wallet'[u] = wallet[u] - Deal[t].amount
    <3>1. wallet[u] = InitWallet[u] + Total({x \in TradesOf(u) : Given(x)})
                                    - Total({x \in TradesOf(u) : Taken(x)})
      BY <1>4 DEF BooksOf
    <3> HIDE DEF Total
    <3> QED BY <1>9, <2>1, <3>1, TotalsStep
  <2>3. ASSUME req[p].pc = "debit"
        PROVE  /\ Deal[t].amount <= wallet[u]
               /\ \A q \in Requests \ {p} : req[q].pc \in Buying => Mine(q).user # u
    BY <1>4, <1>7, <1>9, <2>3 DEF BooksOf, Buying
  <2>4. wallet'[u] >= 0
    BY <1>4, <1>5, <2>2, <2>3 DEF BooksOf
  <2>5. \A q \in Requests \ {p} : req[q].pc \in Buying /\ Mine(q).user = u =>
          Mine(q).amount <= wallet'[u]
    <3> SUFFICES ASSUME NEW q \in Requests \ {p}, req[q].pc \in Buying, Mine(q).user = u
                 PROVE  Mine(q).amount <= wallet'[u]
      OBVIOUS
    <3>1. Mine(q).amount <= wallet[u] /\ Mine(q).amount \in Nat
      BY <1>4, <1>5 DEF BooksOf
    <3>2. wallet'[u] >= wallet[u]
      BY <2>2, <2>3
    <3> QED BY <1>5, <3>1, <3>2
  <2>6. r.pc \in Buying => Deal[t].amount <= wallet'[u]
    BY <1>4, <1>7, <1>9 DEF Covered, BooksOf
  <2>7. ASSUME r.pc \in Buying
        PROVE  \A q \in Requests \ {p} : req[q].pc \in Buying => Mine(q).user # u
    BY <1>4, <1>7, <1>9, <2>1, <2>7 DEF Covered, BooksOf
  <2>8. \A q \in Requests : req'[q].pc \in Buying /\ Mine(q)'.user = u =>
          Mine(q)'.amount <= wallet'[u]
    BY <1>1, <1>6, <1>7, <2>5, <2>6
  <2>9. \A q1, q2 \in Requests :
          q1 # q2 /\ req'[q1].pc \in Buying /\ req'[q2].pc \in Buying
            /\ Mine(q1)'.user = u => Mine(q2)'.user # u
    BY <1>1, <1>4, <1>6, <1>7, <2>7 DEF BooksOf
  <2> HIDE DEF Total
  <2> QED BY <2>2, <2>4, <2>8, <2>9 DEF BooksOf
<1> QED BY <1>8, <1>9

\* A step of a handler on its trade, or starting on one.
LEMMA OwnBooks ==
  ASSUME BInv, IInv', NEW p \in Requests, NEW t \in TradeIds, NEW r, Moves(p, t, r),
         Fundable(Deal[t].side, transfer'[t], palmpay'[t]), Right(p, t, r),
         Covered(p, t, r)
  PROVE  BInv'
<1>1. Once'
  BY OnceStep DEF BInv, IInv
<1>2. Stories'
  BY StoriesStep DEF BInv, IInv
<1>3. Running'
  BY RunningStep DEF BInv, IInv
<1>4. Funding'
  BY DEF BInv, Funding, Moves, Same
<1> QED BY <1>1, <1>2, <1>3, <1>4 DEF BInv

-----------------------------------------------------------------------------
(* Every step keeps the invariant                                          *)

\* What holds of the trade that a handler is at work on.
WorksOn(p, t) ==
  /\ req[p].t = t /\ req[p].pc \in Steps /\ trade[t] \in TradeRow
  /\ Deal[t].side \in Sides
  /\ Known(req[p], Deal[t].side, trade[t], fiat[t], transfer[t], palmpay[t])
  /\ Fundable(Deal[t].side, transfer[t], palmpay[t])
  /\ t \notin disturbed =>
       /\ Doing(Deal[t].side, req[p], fiat[t], trade[t].status)
       /\ Lost(Deal[t].side, req[p].pc, fiat[t], transfer[t], palmpay[t])
LEMMA Works ==
  ASSUME BInv, NEW p \in Requests, Busy(p)
  PROVE  \E t \in TradeIds : WorksOn(p, t)
<1>1. PICK t \in TradeIds : req[p].t = t
  BY Knows DEF BInv
<1>2. /\ Known(req[p], Deal[t].side, trade[t], fiat[t], transfer[t], palmpay[t])
      /\ trade[t] \in TradeRow /\ Deal[t].side \in Sides
  BY <1>1, Knows DEF BInv
<1>3. req[p].pc \in Steps
  BY DEF BInv, IInv, Typed, LocalOK, Local, Busy, At
<1>4. Fundable(Deal[t].side, transfer[t], palmpay[t])
  BY DEF BInv, Funding
<1>5. t \notin disturbed => StoryAt(t)
  BY DEF BInv, Stories
<1> QED BY <1>1, <1>2, <1>3, <1>4, <1>5 DEF StoryAt, WorksOn

\* The locals that a handler goes on or ends with.
LEMMA Heard ==
  ASSUME NEW p \in Requests, NEW t \in TradeIds, req[p].t = t, NEW step, NEW told,
         step # "idle", Hear(p, step, told)
  PROVE  \E r : req' = [req EXCEPT ![p] = r] /\ r.pc = step /\ r.t = t /\ r.told = told
<1> DEFINE r == Locals(step, t, told, req[p].buying)
<1>1. req' = [req EXCEPT ![p] = r] /\ r.pc = step /\ r.t = t /\ r.told = told
  BY DEF Hear, Become, Locals
<1> QED BY <1>1
LEMMA Finished ==
  ASSUME NEW p \in Requests, Finish(p)
  PROVE  \E r : req' = [req EXCEPT ![p] = r] /\ r.pc = "idle" /\ r.t = NoId
<1>1. req' = [req EXCEPT ![p] = Idle] /\ Idle.pc = "idle" /\ Idle.t = NoId
  BY DEF Finish, Become, Idle, Locals
<1> QED BY <1>1

\* A step of a handler on the trade it is at work on.
LEMMA WorkBooks ==
  ASSUME BInv, IInv', NEW p \in Requests, NEW t \in TradeIds, req[p].t = t, NEW r,
         req' = [req EXCEPT ![p] = r],
         \/ r.pc = "idle" /\ r.t = NoId
         \/ r.pc # "idle" /\ r.t = t,
         r.pc \in Buying => req[p].pc \in Buying /\ wallet' = wallet,
         \A u \in TradeIds \ {t} : Same(u),
         wallet' = wallet \/ Pay(t) \/ Refund(t), disturbed \subseteq disturbed',
         Fundable(Deal[t].side, transfer'[t], palmpay'[t]), Right(p, t, r)
  PROVE  BInv'
<1>1. \A u \in Users \ {Deal[t].user} : wallet'[u] = wallet[u]
  BY DEF Pay, Refund, BInv, IInv, Typed, TypeOK
<1>2. Moves(p, t, r)
  BY <1>1 DEF Moves
<1>3. Covered(p, t, r)
  BY DEF Covered
<1> QED BY <1>2, <1>3, OwnBooks

\* One that changes neither trade nor wallet.
LEMMA ReadBooks ==
  ASSUME BInv, IInv', NEW p \in Requests, NEW t \in TradeIds, req[p].t = t, NEW r,
         req' = [req EXCEPT ![p] = r],
         \/ r.pc = "idle" /\ r.t = NoId
         \/ r.pc # "idle" /\ r.t = t,
         UNCHANGED <<trade, fiat, wallet, transfer, palmpay>>, disturbed \subseteq disturbed',
         r.pc \notin Buying,
         t \notin disturbed' =>
           /\ Fits(Deal[t].side, r, fiat[t], trade[t].status)
           /\ Lost(Deal[t].side, r.pc, fiat[t], transfer[t], palmpay[t])
           /\ Took(Deal[t].side, r.pc, fiat[t]) <=> Took(Deal[t].side, req[p].pc, fiat[t])
           /\ Gave(Deal[t].side, r.pc, fiat[t]) <=> Gave(Deal[t].side, req[p].pc, fiat[t])
  PROVE  BInv'
<1>1. Right(p, t, r)
  BY DEF Right, Booked
<1>2. Fundable(Deal[t].side, transfer'[t], palmpay'[t])
  BY DEF BInv, Funding
<1>3. \A u \in TradeIds \ {t} : Same(u)
  BY DEF Same
<1> QED BY <1>1, <1>2, <1>3, WorkBooks

LEMMA StartReverseBooks ==
  ASSUME BInv, IInv', NEW p \in Requests, StartReverse(p)
  PROVE  BInv'
<1>1. Busy(p) /\ req[p].pc = "reverse"
  BY DEF StartReverse, Busy, At
<1>2. PICK t \in TradeIds : WorksOn(p, t)
  BY <1>1, Works
<1>3. Deal[t].side = "buy" /\ req[p].t = t
  BY <1>1, <1>2 DEF WorksOn, Known, BuySteps, ReverseSteps
<1>4. PICK r : /\ req' = [req EXCEPT ![p] = r]
               /\ \/ fiat[t] = "failed" /\ r.pc = "idle" /\ r.t = NoId
                  \/ fiat[t] # "failed" /\ r.pc = "giveBack" /\ r.t = t
  <2>1. CASE fiat[t] = "failed"
    BY <1>3, <2>1, Finished DEF StartReverse
  <2>2. CASE fiat[t] # "failed"
    <3>1. Hear(p, "giveBack", "none")
      BY <1>3, <2>2 DEF StartReverse, Goto
    <3> QED BY <1>3, <2>2, <3>1, Heard
  <2> QED BY <2>1, <2>2
<1>5. ASSUME t \notin disturbed
      PROVE  /\ Fits(Deal[t].side, r, fiat[t], trade[t].status)
             /\ Lost(Deal[t].side, r.pc, fiat[t], transfer[t], palmpay[t])
             /\ Took(Deal[t].side, r.pc, fiat[t]) <=> Took(Deal[t].side, req[p].pc, fiat[t])
             /\ Gave(Deal[t].side, r.pc, fiat[t]) <=> Gave(Deal[t].side, req[p].pc, fiat[t])
  BY <1>1, <1>2, <1>3, <1>4, <1>5
  DEF WorksOn, Fits, Doing, Story, Lost, Took, Gave, GivingUp, ReverseSteps
<1>6. UNCHANGED <<trade, fiat, wallet, transfer, palmpay>> /\ disturbed' = disturbed
  BY DEF StartReverse
<1> QED BY <1>3, <1>4, <1>5, <1>6, ReadBooks DEF Buying

\* What Busha says of a buy that has failed is never a success.
LEMMA AskTransferBooks ==
  ASSUME BInv, IInv', NEW p \in Requests, AskTransfer(p)
  PROVE  BInv'
<1>1. Busy(p) /\ req[p].pc = "ask"
  BY DEF AskTransfer, Busy, At
<1>2. PICK t \in TradeIds : WorksOn(p, t)
  BY <1>1, Works
<1>3. req[p].t = t
  BY <1>2 DEF WorksOn
<1>4. PICK r : /\ req' = [req EXCEPT ![p] = r]
               /\ r.pc = "seen" /\ r.t = t /\ r.told = transfer[t]
  <2>1. Hear(p, "seen", transfer[t])
    BY <1>3 DEF AskTransfer
  <2> QED BY <1>3, <2>1, Heard
<1>5. ASSUME t \notin disturbed
      PROVE  /\ Fits(Deal[t].side, r, fiat[t], trade[t].status)
             /\ Lost(Deal[t].side, r.pc, fiat[t], transfer[t], palmpay[t])
             /\ Took(Deal[t].side, r.pc, fiat[t]) <=> Took(Deal[t].side, req[p].pc, fiat[t])
             /\ Gave(Deal[t].side, r.pc, fiat[t]) <=> Gave(Deal[t].side, req[p].pc, fiat[t])
  <2>1. Deal[t].side = "buy" /\ fiat[t] = "failed" => ~Success(transfer[t], "buy")
    <3> SUFFICES ASSUME Deal[t].side = "buy", fiat[t] = "failed", Success(transfer[t], "buy")
                 PROVE  FALSE
      OBVIOUS
    <3>1. transfer[t] \in Funded \ TransferFailed
      BY DEF Success, Funded, Converted, TransferFailed
    <3> QED BY <1>2, <1>5, <3>1 DEF WorksOn, Lost, Doomed, Fundable
  <2> QED BY <1>1, <1>2, <1>4, <1>5, <2>1
          DEF WorksOn, Fits, Doing, Story, Lost, Took, Gave, GivingUp, ReverseSteps, Open
<1>6. UNCHANGED <<trade, fiat, wallet, transfer, palmpay>> /\ disturbed' = disturbed
  BY DEF AskTransfer
<1> QED BY <1>3, <1>4, <1>5, <1>6, ReadBooks DEF Buying

LEMMA ReadCreditBooks ==
  ASSUME BInv, IInv', NEW p \in Requests, ReadCredit(p)
  PROVE  BInv'
<1>1. Busy(p) /\ req[p].pc = "creditRead"
  BY DEF ReadCredit, Busy, At
<1>2. PICK t \in TradeIds : WorksOn(p, t)
  BY <1>1, Works
<1>3. Deal[t].side = "sell" /\ req[p].t = t
  BY <1>1, <1>2 DEF WorksOn, Known, SellSteps, CreditSteps
<1>4. PICK r : /\ req' = [req EXCEPT ![p] = r] /\ r.t = t
               /\ r.pc = IF fiat[t] = "completed" THEN "credited" ELSE "credit"
  <2>1. Hear(p, IF fiat[t] = "completed" THEN "credited" ELSE "credit", "none")
    BY <1>3 DEF ReadCredit, Goto
  <2> QED BY <1>3, <2>1, Heard
<1>5. ASSUME t \notin disturbed
      PROVE  /\ Fits(Deal[t].side, r, fiat[t], trade[t].status)
             /\ Lost(Deal[t].side, r.pc, fiat[t], transfer[t], palmpay[t])
             /\ Took(Deal[t].side, r.pc, fiat[t]) <=> Took(Deal[t].side, req[p].pc, fiat[t])
             /\ Gave(Deal[t].side, r.pc, fiat[t]) <=> Gave(Deal[t].side, req[p].pc, fiat[t])
  BY <1>1, <1>2, <1>3, <1>4, <1>5
  DEF WorksOn, Fits, Doing, Story, Lost, Took, Gave, GivingUp, ReverseSteps
<1>6. UNCHANGED <<trade, fiat, wallet, transfer, palmpay>> /\ disturbed' = disturbed
  BY DEF ReadCredit
<1> QED BY <1>3, <1>4, <1>5, <1>6, ReadBooks DEF Buying

LEMMA ReadFailedBooks ==
  ASSUME BInv, IInv', NEW p \in Requests, ReadFailed(p)
  PROVE  BInv'
<1>1. Busy(p) /\ req[p].pc = "failRead"
  BY DEF ReadFailed, Busy, At
<1>2. PICK t \in TradeIds : WorksOn(p, t)
  BY <1>1, Works
<1>3. req[p].t = t
  BY <1>2 DEF WorksOn
<1>4. PICK r : /\ req' = [req EXCEPT ![p] = r]
               /\ \/ /\ trade[t].status \in {"wallet_credited", "completed"}
                     /\ r.pc = "idle" /\ r.t = NoId
                  \/ r.pc = "failTrade" /\ r.t = t
  <2>1. CASE trade[t].status \in {"wallet_credited", "completed"}
    BY <1>3, <2>1, Finished DEF ReadFailed
  <2>2. CASE trade[t].status \notin {"wallet_credited", "completed"}
    <3>1. Hear(p, "failTrade", req[p].told)
      BY <1>3, <2>2 DEF ReadFailed
    <3> QED BY <1>3, <3>1, Heard
  <2> QED BY <2>1, <2>2
<1>5. ASSUME t \notin disturbed
      PROVE  /\ Fits(Deal[t].side, r, fiat[t], trade[t].status)
             /\ Lost(Deal[t].side, r.pc, fiat[t], transfer[t], palmpay[t])
             /\ Took(Deal[t].side, r.pc, fiat[t]) <=> Took(Deal[t].side, req[p].pc, fiat[t])
             /\ Gave(Deal[t].side, r.pc, fiat[t]) <=> Gave(Deal[t].side, req[p].pc, fiat[t])
  BY <1>1, <1>2, <1>4, <1>5
  DEF WorksOn, Fits, Doing, Story, Lost, Took, Gave, GivingUp, ReverseSteps, Open
<1>6. UNCHANGED <<trade, fiat, wallet, transfer, palmpay>> /\ disturbed' = disturbed
  BY DEF ReadFailed
<1> QED BY <1>3, <1>4, <1>5, <1>6, ReadBooks DEF Buying

LEMMA RequestLostBooks ==
  ASSUME BInv, IInv', NEW p \in Requests, RequestLost(p)
  PROVE  BInv'
<1>1. PICK t \in TradeIds : WorksOn(p, t)
  BY Works DEF RequestLost
<1>2. req[p].t = t
  BY <1>1 DEF WorksOn
<1>3. PICK r : /\ req' = [req EXCEPT ![p] = r]
               /\ \/ r.pc = "idle" /\ r.t = NoId
                  \/ r.pc = "undo" /\ r.t = t
  <2>1. Finish(p) \/ Hear(p, "undo", "none")
    BY DEF RequestLost, Goto
  <2>2. CASE Finish(p)
    BY <2>2, Finished
  <2>3. CASE Hear(p, "undo", "none")
    BY <1>2, <2>3, Heard
  <2> QED BY <2>1, <2>2, <2>3
<1>4. /\ UNCHANGED <<trade, fiat, wallet, transfer, palmpay>>
      /\ disturbed \subseteq disturbed' /\ t \in disturbed'
  BY <1>2 DEF RequestLost
<1> QED BY <1>2, <1>3, <1>4, ReadBooks DEF Buying

\* One that writes the fiat row f or the wallet, or both.
LEMMA MoneyBooks ==
  ASSUME BInv, IInv', NEW p \in Requests, NEW t \in TradeIds, req[p].t = t, NEW r,
         req' = [req EXCEPT ![p] = r],
         \/ r.pc = "idle" /\ r.t = NoId
         \/ r.pc # "idle" /\ r.t = t,
         r.pc \in Buying => req[p].pc \in Buying /\ wallet' = wallet,
         UNCHANGED <<trade, transfer, palmpay, disturbed>>, NEW f,
         fiat' = [fiat EXCEPT ![t] = f], wallet' = wallet \/ Pay(t) \/ Refund(t),
         t \notin disturbed =>
           /\ Fits(Deal[t].side, r, f, trade[t].status)
           /\ Lost(Deal[t].side, r.pc, f, transfer[t], palmpay[t])
           /\ Booked(Deal[t].side, t, req[p].pc, r, f)
  PROVE  BInv'
<1>1. fiat'[t] = f /\ \A u \in TradeIds \ {t} : Same(u)
  BY DEF Same, BInv, IInv, Typed, TypeOK
<1>2. Right(p, t, r)
  BY <1>1 DEF Right
<1>3. Fundable(Deal[t].side, transfer'[t], palmpay'[t])
  BY DEF BInv, Funding
<1> QED BY <1>1, <1>2, <1>3, WorkBooks

LEMMA DebitWalletBooks ==
  ASSUME BInv, IInv', NEW p \in Requests, DebitWallet(p)
  PROVE  BInv'
<1>1. Busy(p) /\ req[p].pc = "debit"
  BY DEF DebitWallet, Busy, At
<1>2. PICK t \in TradeIds : WorksOn(p, t)
  BY <1>1, Works
<1>3. req[p].t = t /\ Deal[t].side = "buy"
  BY <1>1, <1>2 DEF WorksOn, Known, BuySteps
<1>4. PICK r : req' = [req EXCEPT ![p] = r] /\ r.pc = "quote" /\ r.t = t
  <2> DEFINE r == Locals("quote", t, "none", TRUE)
  <2>1. req' = [req EXCEPT ![p] = r] /\ r.pc = "quote" /\ r.t = t
    BY <1>3 DEF DebitWallet, Become, Locals
  <2> QED BY <2>1
<1>5. UNCHANGED <<fiat, trade, transfer, palmpay, disturbed>> /\ Pay(t)
  BY <1>3 DEF DebitWallet, Pay, Mine
<1>6. fiat' = [fiat EXCEPT ![t] = fiat[t]]
  BY <1>5 DEF BInv, IInv, Typed, TypeOK
<1>7. ASSUME t \notin disturbed
      PROVE  /\ Fits(Deal[t].side, r, fiat[t], trade[t].status)
             /\ Lost(Deal[t].side, r.pc, fiat[t], transfer[t], palmpay[t])
             /\ Booked(Deal[t].side, t, req[p].pc, r, fiat[t])
  BY <1>1, <1>2, <1>3, <1>4, <1>5, <1>7
  DEF WorksOn, Fits, Doing, Story, Lost, Took, Gave, GivingUp, ReverseSteps, Booked
<1> QED BY <1>3, <1>4, <1>5, <1>6, <1>7, MoneyBooks DEF Buying

LEMMA UndoDebitBooks ==
  ASSUME BInv, IInv', NEW p \in Requests, UndoDebit(p)
  PROVE  BInv'
<1>1. Busy(p) /\ req[p].pc = "undo"
  BY DEF UndoDebit, Busy, At
<1>2. PICK t \in TradeIds : WorksOn(p, t)
  BY <1>1, Works
<1>3. req[p].t = t /\ Deal[t].side = "buy"
  BY <1>1, <1>2 DEF WorksOn, Known, BuySteps, ReverseSteps, SellSteps, CreditSteps
<1>4. PICK r : req' = [req EXCEPT ![p] = r] /\ r.pc = "undoRow" /\ r.t = t
  BY <1>3, Heard DEF UndoDebit, Goto
<1>5. UNCHANGED <<trade, transfer, palmpay, disturbed>> /\ fiat' = fiat /\ Refund(t)
  BY <1>3 DEF UndoDebit, Credit, Pay, Refund, Mine
<1>6. fiat' = [fiat EXCEPT ![t] = fiat[t]]
  BY <1>5 DEF BInv, IInv, Typed, TypeOK
<1>7. ASSUME t \notin disturbed
      PROVE  /\ Fits(Deal[t].side, r, fiat[t], trade[t].status)
             /\ Lost(Deal[t].side, r.pc, fiat[t], transfer[t], palmpay[t])
             /\ Booked(Deal[t].side, t, req[p].pc, r, fiat[t])
  BY <1>1, <1>2, <1>3, <1>4, <1>5, <1>7
  DEF WorksOn, Fits, Doing, Story, Lost, Took, Gave, GivingUp, ReverseSteps, Booked
<1> QED BY <1>3, <1>4, <1>5, <1>6, <1>7, MoneyBooks DEF Buying

LEMMA GiveBackBooks ==
  ASSUME BInv, IInv', NEW p \in Requests, GiveBack(p)
  PROVE  BInv'
<1>1. Busy(p) /\ req[p].pc = "giveBack"
  BY DEF GiveBack, Busy, At
<1>2. PICK t \in TradeIds : WorksOn(p, t)
  BY <1>1, Works
<1>3. req[p].t = t /\ Deal[t].side = "buy"
  BY <1>1, <1>2 DEF WorksOn, Known, BuySteps, ReverseSteps, SellSteps, CreditSteps
<1>4. PICK r : req' = [req EXCEPT ![p] = r] /\ r.pc = "reverseFiat" /\ r.t = t
  BY <1>3, Heard DEF GiveBack, Goto
<1>5. UNCHANGED <<trade, transfer, palmpay, disturbed>> /\ fiat' = fiat /\ Refund(t)
  BY <1>3 DEF GiveBack, Credit, Pay, Refund, Mine
<1>6. fiat' = [fiat EXCEPT ![t] = fiat[t]]
  BY <1>5 DEF BInv, IInv, Typed, TypeOK
<1>7. ASSUME t \notin disturbed
      PROVE  /\ Fits(Deal[t].side, r, fiat[t], trade[t].status)
             /\ Lost(Deal[t].side, r.pc, fiat[t], transfer[t], palmpay[t])
             /\ Booked(Deal[t].side, t, req[p].pc, r, fiat[t])
  BY <1>1, <1>2, <1>3, <1>4, <1>5, <1>7
  DEF WorksOn, Fits, Doing, Story, Lost, Took, Gave, GivingUp, ReverseSteps, Booked
<1> QED BY <1>3, <1>4, <1>5, <1>6, <1>7, MoneyBooks DEF Buying

LEMMA CreditWalletBooks ==
  ASSUME BInv, IInv', NEW p \in Requests, CreditWallet(p)
  PROVE  BInv'
<1>1. Busy(p) /\ req[p].pc = "credit"
  BY DEF CreditWallet, Busy, At
<1>2. PICK t \in TradeIds : WorksOn(p, t)
  BY <1>1, Works
<1>3. req[p].t = t /\ Deal[t].side = "sell"
  BY <1>1, <1>2 DEF WorksOn, Known, BuySteps, ReverseSteps, SellSteps, CreditSteps
<1>4. PICK r : req' = [req EXCEPT ![p] = r] /\ r.pc = "creditFiat" /\ r.t = t
  BY <1>3, Heard DEF CreditWallet, Goto
<1>5. UNCHANGED <<trade, transfer, palmpay, disturbed>> /\ fiat' = fiat /\ Refund(t)
  BY <1>3 DEF CreditWallet, Credit, Pay, Refund, Mine
<1>6. fiat' = [fiat EXCEPT ![t] = fiat[t]]
  BY <1>5 DEF BInv, IInv, Typed, TypeOK
<1>7. ASSUME t \notin disturbed
      PROVE  /\ Fits(Deal[t].side, r, fiat[t], trade[t].status)
             /\ Lost(Deal[t].side, r.pc, fiat[t], transfer[t], palmpay[t])
             /\ Booked(Deal[t].side, t, req[p].pc, r, fiat[t])
  BY <1>1, <1>2, <1>3, <1>4, <1>5, <1>7
  DEF WorksOn, Fits, Doing, Story, Lost, Took, Gave, GivingUp, ReverseSteps, Booked
<1> QED BY <1>3, <1>4, <1>5, <1>6, <1>7, MoneyBooks DEF Buying

LEMMA InsertFiatBooks ==
  ASSUME BInv, IInv', NEW p \in Requests, InsertFiat(p)
  PROVE  BInv'
<1>1. Busy(p) /\ req[p].pc = "fiatRow"
  BY DEF InsertFiat, Busy, At
<1>2. PICK t \in TradeIds : WorksOn(p, t)
  BY <1>1, Works
<1>3. req[p].t = t /\ Deal[t].side = "buy"
  BY <1>1, <1>2 DEF WorksOn, Known, BuySteps, ReverseSteps, SellSteps, CreditSteps
<1>4. PICK r : req' = [req EXCEPT ![p] = r] /\ r.pc = "debit" /\ r.t = t
  BY <1>3, Heard DEF InsertFiat, Goto
<1>5. /\ UNCHANGED <<wallet, trade, transfer, palmpay, disturbed>>
      /\ fiat' = [fiat EXCEPT ![t] = "pending"]
  BY <1>3 DEF InsertFiat, SetFiat
<1>6. ASSUME t \notin disturbed
      PROVE  /\ Fits(Deal[t].side, r, "pending", trade[t].status)
             /\ Lost(Deal[t].side, r.pc, "pending", transfer[t], palmpay[t])
             /\ Booked(Deal[t].side, t, req[p].pc, r, "pending")
  BY <1>1, <1>2, <1>3, <1>4, <1>5, <1>6
  DEF WorksOn, Fits, Doing, Story, Lost, Took, Gave, GivingUp, ReverseSteps, Booked
<1> QED BY <1>1, <1>3, <1>4, <1>5, <1>6, MoneyBooks DEF Buying

LEMMA UndoFiatBooks ==
  ASSUME BInv, IInv', NEW p \in Requests, UndoFiat(p)
  PROVE  BInv'
<1>1. Busy(p) /\ req[p].pc = "undoRow"
  BY DEF UndoFiat, Busy, At
<1>2. PICK t \in TradeIds : WorksOn(p, t)
  BY <1>1, Works
<1>3. req[p].t = t /\ Deal[t].side = "buy"
  BY <1>1, <1>2 DEF WorksOn, Known, BuySteps, ReverseSteps, SellSteps, CreditSteps
<1>4. PICK r : req' = [req EXCEPT ![p] = r] /\ r.pc = "idle" /\ r.t = NoId
  BY Finished DEF UndoFiat
<1>5. /\ UNCHANGED <<wallet, trade, transfer, palmpay, disturbed>>
      /\ fiat' = [fiat EXCEPT ![t] = "failed"]
  BY <1>3 DEF UndoFiat, SetFiat
<1>6. ASSUME t \notin disturbed
      PROVE  /\ Fits(Deal[t].side, r, "failed", trade[t].status)
             /\ Lost(Deal[t].side, r.pc, "failed", transfer[t], palmpay[t])
             /\ Booked(Deal[t].side, t, req[p].pc, r, "failed")
  BY <1>1, <1>2, <1>3, <1>4, <1>5, <1>6
  DEF WorksOn, Fits, Doing, Story, Lost, Took, Gave, GivingUp, ReverseSteps, Booked
<1> QED BY <1>1, <1>3, <1>4, <1>5, <1>6, MoneyBooks DEF Buying

LEMMA ReverseFiatBooks ==
  ASSUME BInv, IInv', NEW p \in Requests, ReverseFiat(p)
  PROVE  BInv'
<1>1. Busy(p) /\ req[p].pc = "reverseFiat"
  BY DEF ReverseFiat, Busy, At
<1>2. PICK t \in TradeIds : WorksOn(p, t)
  BY <1>1, Works
<1>3. req[p].t = t /\ Deal[t].side = "buy"
  BY <1>1, <1>2 DEF WorksOn, Known, BuySteps, ReverseSteps, SellSteps, CreditSteps
<1>4. PICK r : req' = [req EXCEPT ![p] = r] /\ r.pc = "reversed" /\ r.t = t
  BY <1>3, Heard DEF ReverseFiat, Goto
<1>5. /\ UNCHANGED <<wallet, trade, transfer, palmpay, disturbed>>
      /\ fiat' = [fiat EXCEPT ![t] = "failed"]
  BY <1>3 DEF ReverseFiat, SetFiat
<1>6. ASSUME t \notin disturbed
      PROVE  /\ Fits(Deal[t].side, r, "failed", trade[t].status)
             /\ Lost(Deal[t].side, r.pc, "failed", transfer[t], palmpay[t])
             /\ Booked(Deal[t].side, t, req[p].pc, r, "failed")
  BY <1>1, <1>2, <1>3, <1>4, <1>5, <1>6
  DEF WorksOn, Fits, Doing, Story, Lost, Took, Gave, GivingUp, ReverseSteps, Booked
<1> QED BY <1>1, <1>3, <1>4, <1>5, <1>6, MoneyBooks DEF Buying

LEMMA InsertSellFiatBooks ==
  ASSUME BInv, IInv', NEW p \in Requests, InsertSellFiat(p)
  PROVE  BInv'
<1>1. Busy(p) /\ req[p].pc = "sellRow"
  BY DEF InsertSellFiat, Busy, At
<1>2. PICK t \in TradeIds : WorksOn(p, t)
  BY <1>1, Works
<1>3. req[p].t = t /\ Deal[t].side = "sell"
  BY <1>1, <1>2 DEF WorksOn, Known, BuySteps, ReverseSteps, SellSteps, CreditSteps
<1>4. PICK r : req' = [req EXCEPT ![p] = r] /\ r.pc = "create" /\ r.t = t
  BY <1>3, Heard DEF InsertSellFiat, Goto
<1>5. /\ UNCHANGED <<wallet, trade, transfer, palmpay, disturbed>>
      /\ fiat' = [fiat EXCEPT ![t] = "pending"]
  BY <1>3 DEF InsertSellFiat, SetFiat
<1>6. ASSUME t \notin disturbed
      PROVE  /\ Fits(Deal[t].side, r, "pending", trade[t].status)
             /\ Lost(Deal[t].side, r.pc, "pending", transfer[t], palmpay[t])
             /\ Booked(Deal[t].side, t, req[p].pc, r, "pending")
  BY <1>1, <1>2, <1>3, <1>4, <1>5, <1>6
  DEF WorksOn, Fits, Doing, Story, Lost, Took, Gave, GivingUp, ReverseSteps, Booked
<1> QED BY <1>1, <1>3, <1>4, <1>5, <1>6, MoneyBooks DEF Buying

LEMMA CompleteFiatBooks ==
  ASSUME BInv, IInv', NEW p \in Requests, CompleteFiat(p)
  PROVE  BInv'
<1>1. Busy(p) /\ req[p].pc = "completeFiat"
  BY DEF CompleteFiat, Busy, At
<1>2. PICK t \in TradeIds : WorksOn(p, t)
  BY <1>1, Works
<1>3. req[p].t = t /\ Deal[t].side = "buy"
  BY <1>1, <1>2 DEF WorksOn, Known, BuySteps, ReverseSteps, SellSteps, CreditSteps
<1>4. PICK r : req' = [req EXCEPT ![p] = r] /\ r.pc = "complete" /\ r.t = t
  BY <1>3, Heard DEF CompleteFiat, Goto
<1>5. /\ UNCHANGED <<wallet, trade, transfer, palmpay, disturbed>>
      /\ fiat' = [fiat EXCEPT ![t] = "completed"]
  BY <1>3 DEF CompleteFiat, SetFiat
<1>6. ASSUME t \notin disturbed
      PROVE  /\ Fits(Deal[t].side, r, "completed", trade[t].status)
             /\ Lost(Deal[t].side, r.pc, "completed", transfer[t], palmpay[t])
             /\ Booked(Deal[t].side, t, req[p].pc, r, "completed")
  BY <1>1, <1>2, <1>3, <1>4, <1>5, <1>6
  DEF WorksOn, Fits, Doing, Story, Lost, Took, Gave, GivingUp, ReverseSteps, Booked
<1> QED BY <1>1, <1>3, <1>4, <1>5, <1>6, MoneyBooks DEF Buying

LEMMA CreditFiatBooks ==
  ASSUME BInv, IInv', NEW p \in Requests, CreditFiat(p)
  PROVE  BInv'
<1>1. Busy(p) /\ req[p].pc = "creditFiat"
  BY DEF CreditFiat, Busy, At
<1>2. PICK t \in TradeIds : WorksOn(p, t)
  BY <1>1, Works
<1>3. req[p].t = t /\ Deal[t].side = "sell"
  BY <1>1, <1>2 DEF WorksOn, Known, BuySteps, ReverseSteps, SellSteps, CreditSteps
<1>4. PICK r : req' = [req EXCEPT ![p] = r] /\ r.pc = "credited" /\ r.t = t
  BY <1>3, Heard DEF CreditFiat, Goto
<1>5. /\ UNCHANGED <<wallet, trade, transfer, palmpay, disturbed>>
      /\ fiat' = [fiat EXCEPT ![t] = "completed"]
  BY <1>3 DEF CreditFiat, SetFiat
<1>6. ASSUME t \notin disturbed
      PROVE  /\ Fits(Deal[t].side, r, "completed", trade[t].status)
             /\ Lost(Deal[t].side, r.pc, "completed", transfer[t], palmpay[t])
             /\ Booked(Deal[t].side, t, req[p].pc, r, "completed")
  BY <1>1, <1>2, <1>3, <1>4, <1>5, <1>6
  DEF WorksOn, Fits, Doing, Story, Lost, Took, Gave, GivingUp, ReverseSteps, Booked
<1> QED BY <1>1, <1>3, <1>4, <1>5, <1>6, MoneyBooks DEF Buying

LEMMA FailFiatBooks ==
  ASSUME BInv, IInv', NEW p \in Requests, FailFiat(p)
  PROVE  BInv'
<1>1. Busy(p) /\ req[p].pc = "failFiat"
  BY DEF FailFiat, Busy, At
<1>2. PICK t \in TradeIds : WorksOn(p, t)
  BY <1>1, Works
<1>3. req[p].t = t /\ Deal[t].side = "sell"
  BY <1>1, <1>2 DEF WorksOn, Known, SellSteps
<1>4. PICK r : req' = [req EXCEPT ![p] = r] /\ r.pc = "idle" /\ r.t = NoId
  BY Finished DEF FailFiat
<1>5. PICK f : /\ fiat' = [fiat EXCEPT ![t] = f]
               /\ f = IF fiat[t] = "pending" THEN "failed" ELSE fiat[t]
  BY <1>3 DEF FailFiat, SetFiat, BInv, IInv, Typed, TypeOK
<1>6. UNCHANGED <<wallet, trade, transfer, palmpay, disturbed>>
  BY DEF FailFiat
<1>7. ASSUME t \notin disturbed
      PROVE  /\ Fits(Deal[t].side, r, f, trade[t].status)
             /\ Lost(Deal[t].side, r.pc, f, transfer[t], palmpay[t])
             /\ Booked(Deal[t].side, t, req[p].pc, r, f)
  BY <1>1, <1>2, <1>3, <1>4, <1>5, <1>6, <1>7
  DEF WorksOn, Fits, Doing, Story, Lost, Took, Gave, GivingUp, ReverseSteps, Booked
<1> QED BY <1>3, <1>4, <1>5, <1>6, <1>7, MoneyBooks DEF Buying

\* A status written leaves a row with that status.
LEMMA StatusRow ==
  ASSUME NEW t \in TradeIds, trade[t] \in TradeRow, NEW s, Status(t, s)
  PROVE  \E row : trade' = [trade EXCEPT ![t] = row] /\ row.status = s
<1> DEFINE row == [trade[t] EXCEPT !.status = s]
<1>1. row.status = s
  BY DEF TradeRow
<1>2. trade' = [trade EXCEPT ![t] = row]
  BY DEF Status
<1> HIDE DEF row
<1> QED BY <1>1, <1>2

\* One that writes the trade's row.
LEMMA RowBooks ==
  ASSUME BInv, IInv', NEW p \in Requests, NEW t \in TradeIds, req[p].t = t, NEW r,
         req' = [req EXCEPT ![p] = r],
         \/ r.pc = "idle" /\ r.t = NoId
         \/ r.pc # "idle" /\ r.t = t,
         r.pc \notin Buying,
         UNCHANGED <<fiat, wallet, transfer, palmpay, disturbed>>, NEW row,
         trade' = [trade EXCEPT ![t] = row],
         t \notin disturbed =>
           /\ Fits(Deal[t].side, r, fiat[t], row.status)
           /\ Lost(Deal[t].side, r.pc, fiat[t], transfer[t], palmpay[t])
           /\ Took(Deal[t].side, r.pc, fiat[t]) <=> Took(Deal[t].side, req[p].pc, fiat[t])
           /\ Gave(Deal[t].side, r.pc, fiat[t]) <=> Gave(Deal[t].side, req[p].pc, fiat[t])
  PROVE  BInv'
<1>1. trade'[t] = row /\ \A u \in TradeIds \ {t} : Same(u)
  BY DEF Same, BInv, IInv, Typed, TypeOK
<1>2. Right(p, t, r)
  BY <1>1 DEF Right, Booked
<1>3. Fundable(Deal[t].side, transfer'[t], palmpay'[t])
  BY DEF BInv, Funding
<1> QED BY <1>1, <1>2, <1>3, WorkBooks

LEMMA MarkReversedBooks ==
  ASSUME BInv, IInv', NEW p \in Requests, MarkReversed(p)
  PROVE  BInv'
<1>1. Busy(p) /\ req[p].pc = "reversed"
  BY DEF MarkReversed, Busy, At
<1>2. PICK t \in TradeIds : WorksOn(p, t)
  BY <1>1, Works
<1>3. req[p].t = t /\ Deal[t].side = "buy"
  BY <1>1, <1>2 DEF WorksOn, Known, BuySteps, ReverseSteps, SellSteps, CreditSteps
<1>4. PICK r : req' = [req EXCEPT ![p] = r] /\ r.pc = "idle" /\ r.t = NoId
  BY Finished DEF MarkReversed
<1>5. PICK row : trade' = [trade EXCEPT ![t] = row] /\ row.status = "buy_reversed"
  BY <1>2, <1>3, StatusRow DEF MarkReversed, WorksOn
<1>6. UNCHANGED <<fiat, wallet, transfer, palmpay, disturbed>>
  BY DEF MarkReversed
<1>7. ASSUME t \notin disturbed
      PROVE  /\ Fits(Deal[t].side, r, fiat[t], row.status)
             /\ Lost(Deal[t].side, r.pc, fiat[t], transfer[t], palmpay[t])
             /\ Took(Deal[t].side, r.pc, fiat[t]) <=> Took(Deal[t].side, req[p].pc, fiat[t])
             /\ Gave(Deal[t].side, r.pc, fiat[t]) <=> Gave(Deal[t].side, req[p].pc, fiat[t])
  BY <1>1, <1>2, <1>3, <1>4, <1>5, <1>7
  DEF WorksOn, Fits, Doing, Story, Lost, Took, Gave, GivingUp, ReverseSteps, Sides
<1> QED BY <1>3, <1>4, <1>5, <1>6, <1>7, RowBooks DEF Buying

LEMMA MarkCompletedBooks ==
  ASSUME BInv, IInv', NEW p \in Requests, MarkCompleted(p)
  PROVE  BInv'
<1>1. Busy(p) /\ req[p].pc = "complete"
  BY DEF MarkCompleted, Busy, At
<1>2. PICK t \in TradeIds : WorksOn(p, t)
  BY <1>1, Works
<1>3. req[p].t = t /\ Deal[t].side \in Sides
  BY <1>1, <1>2 DEF WorksOn, Known, BuySteps, ReverseSteps, SellSteps, CreditSteps
<1>4. PICK r : req' = [req EXCEPT ![p] = r] /\ r.pc = "idle" /\ r.t = NoId
  BY Finished DEF MarkCompleted
<1>5. PICK row : trade' = [trade EXCEPT ![t] = row] /\ row.status = "completed"
  BY <1>2, <1>3, StatusRow DEF MarkCompleted, WorksOn
<1>6. UNCHANGED <<fiat, wallet, transfer, palmpay, disturbed>>
  BY DEF MarkCompleted
<1>7. ASSUME t \notin disturbed
      PROVE  /\ Fits(Deal[t].side, r, fiat[t], row.status)
             /\ Lost(Deal[t].side, r.pc, fiat[t], transfer[t], palmpay[t])
             /\ Took(Deal[t].side, r.pc, fiat[t]) <=> Took(Deal[t].side, req[p].pc, fiat[t])
             /\ Gave(Deal[t].side, r.pc, fiat[t]) <=> Gave(Deal[t].side, req[p].pc, fiat[t])
  BY <1>1, <1>2, <1>3, <1>4, <1>5, <1>7
  DEF WorksOn, Fits, Doing, Story, Lost, Took, Gave, GivingUp, ReverseSteps, Sides
<1> QED BY <1>3, <1>4, <1>5, <1>6, <1>7, RowBooks DEF Buying

LEMMA MarkCreditedBooks ==
  ASSUME BInv, IInv', NEW p \in Requests, MarkCredited(p)
  PROVE  BInv'
<1>1. Busy(p) /\ req[p].pc = "credited"
  BY DEF MarkCredited, Busy, At
<1>2. PICK t \in TradeIds : WorksOn(p, t)
  BY <1>1, Works
<1>3. req[p].t = t /\ Deal[t].side = "sell"
  BY <1>1, <1>2 DEF WorksOn, Known, BuySteps, ReverseSteps, SellSteps, CreditSteps
<1>4. PICK r : req' = [req EXCEPT ![p] = r] /\ r.pc = "idle" /\ r.t = NoId
  BY Finished DEF MarkCredited
<1>5. PICK row : trade' = [trade EXCEPT ![t] = row] /\ row.status = "wallet_credited"
  BY <1>2, <1>3, StatusRow DEF MarkCredited, WorksOn
<1>6. UNCHANGED <<fiat, wallet, transfer, palmpay, disturbed>>
  BY DEF MarkCredited
<1>7. ASSUME t \notin disturbed
      PROVE  /\ Fits(Deal[t].side, r, fiat[t], row.status)
             /\ Lost(Deal[t].side, r.pc, fiat[t], transfer[t], palmpay[t])
             /\ Took(Deal[t].side, r.pc, fiat[t]) <=> Took(Deal[t].side, req[p].pc, fiat[t])
             /\ Gave(Deal[t].side, r.pc, fiat[t]) <=> Gave(Deal[t].side, req[p].pc, fiat[t])
  BY <1>1, <1>2, <1>3, <1>4, <1>5, <1>7
  DEF WorksOn, Fits, Doing, Story, Lost, Took, Gave, GivingUp, ReverseSteps, Sides
<1> QED BY <1>3, <1>4, <1>5, <1>6, <1>7, RowBooks DEF Buying

LEMMA OpenBuyBooks ==
  ASSUME BInv, IInv', NEW p \in Requests, OpenBuy(p)
  PROVE  BInv'
<1>1. Busy(p) /\ req[p].pc = "open"
  BY DEF OpenBuy, Busy, At
<1>2. PICK t \in TradeIds : WorksOn(p, t)
  BY <1>1, Works
<1>3. req[p].t = t /\ Deal[t].side = "buy"
  BY <1>1, <1>2 DEF WorksOn, Known, BuySteps, ReverseSteps, SellSteps, CreditSteps
<1>4. PICK r, row :
        /\ req' = [req EXCEPT ![p] = r] /\ r.pc \in {"payout", "reverse"} /\ r.t = t
        /\ trade' = [trade EXCEPT ![t] = row] /\ row.status = "awaiting_palmpay"
  <2>1. PICK account \in BOOLEAN :
          /\ trade' = [trade EXCEPT ![t] = FreshTrade("awaiting_palmpay", account)]
          /\ Hear(p, IF account THEN "payout" ELSE "reverse", "none")
    BY <1>3 DEF OpenBuy, Goto
  <2>2. FreshTrade("awaiting_palmpay", account).status = "awaiting_palmpay"
    BY DEF FreshTrade
  <2>3. \E r : req' = [req EXCEPT ![p] = r] /\ r.pc \in {"payout", "reverse"} /\ r.t = t
    <3>1. (IF account THEN "payout" ELSE "reverse") \in {"payout", "reverse"}
      OBVIOUS
    <3> QED BY <1>3, <2>1, <3>1, Heard
  <2> QED BY <2>1, <2>2, <2>3
<1>5. UNCHANGED <<fiat, wallet, transfer, palmpay, disturbed>>
  BY DEF OpenBuy
<1>6. ASSUME t \notin disturbed
      PROVE  /\ Fits(Deal[t].side, r, fiat[t], row.status)
             /\ Lost(Deal[t].side, r.pc, fiat[t], transfer[t], palmpay[t])
             /\ Took(Deal[t].side, r.pc, fiat[t]) <=> Took(Deal[t].side, req[p].pc, fiat[t])
             /\ Gave(Deal[t].side, r.pc, fiat[t]) <=> Gave(Deal[t].side, req[p].pc, fiat[t])
  BY <1>1, <1>2, <1>3, <1>4, <1>6
  DEF WorksOn, Fits, Doing, Story, Lost, Took, Gave, GivingUp, ReverseSteps, Open, Known,
      Early, PreOpen, PreQuote, Doomed
<1> QED BY <1>3, <1>4, <1>5, <1>6, RowBooks DEF Buying

LEMMA RecordPayoutBooks ==
  ASSUME BInv, IInv', NEW p \in Requests, RecordPayout(p)
  PROVE  BInv'
<1>1. Busy(p) /\ req[p].pc = "payoutRow"
  BY DEF RecordPayout, Busy, At
<1>2. PICK t \in TradeIds : WorksOn(p, t)
  BY <1>1, Works
<1>3. req[p].t = t /\ Deal[t].side = "buy"
  BY <1>1, <1>2 DEF WorksOn, Known, BuySteps, ReverseSteps, SellSteps, CreditSteps
<1>4. PICK r, row :
        /\ req' = [req EXCEPT ![p] = r] /\ trade' = [trade EXCEPT ![t] = row]
        /\ \/ /\ req[p].told = "failed" /\ row.status = "palmpay_failed"
              /\ r.pc = "reverse" /\ r.t = t
           \/ row.status = "awaiting_busha" /\ r.pc = "idle" /\ r.t = NoId
  <2>1. trade[t] \in TradeRow
    BY <1>2 DEF WorksOn
  <2>2. CASE req[p].told = "failed"
    <3>1. Hear(p, "reverse", "none") /\ Status(t, "palmpay_failed")
      BY <1>3, <2>2 DEF RecordPayout, Goto
    <3>2. \E r : req' = [req EXCEPT ![p] = r] /\ r.pc = "reverse" /\ r.t = t
      BY <1>3, <3>1, Heard
    <3>3. \E row : trade' = [trade EXCEPT ![t] = row] /\ row.status = "palmpay_failed"
      BY <2>1, <3>1, StatusRow
    <3> QED BY <2>2, <3>2, <3>3
  <2>3. CASE req[p].told # "failed"
    <3>1. Finish(p) /\ Status(t, "awaiting_busha")
      BY <1>3, <2>3 DEF RecordPayout
    <3>2. \E row : trade' = [trade EXCEPT ![t] = row] /\ row.status = "awaiting_busha"
      BY <2>1, <3>1, StatusRow
    <3> QED BY <3>1, <3>2, Finished
  <2> QED BY <2>2, <2>3
<1>5. UNCHANGED <<fiat, wallet, transfer, palmpay, disturbed>>
  BY DEF RecordPayout
<1>6. ASSUME t \notin disturbed
      PROVE  /\ Fits(Deal[t].side, r, fiat[t], row.status)
             /\ Lost(Deal[t].side, r.pc, fiat[t], transfer[t], palmpay[t])
             /\ Took(Deal[t].side, r.pc, fiat[t]) <=> Took(Deal[t].side, req[p].pc, fiat[t])
             /\ Gave(Deal[t].side, r.pc, fiat[t]) <=> Gave(Deal[t].side, req[p].pc, fiat[t])
  BY <1>1, <1>2, <1>3, <1>4, <1>6
  DEF WorksOn, Fits, Doing, Story, Lost, Took, Gave, GivingUp, ReverseSteps, Open, Known, Doomed
<1> QED BY <1>3, <1>4, <1>5, <1>6, RowBooks DEF Buying

LEMMA CreateTradeBooks ==
  ASSUME BInv, IInv', NEW p \in Requests, CreateTrade(p)
  PROVE  BInv'
<1>1. Busy(p) /\ req[p].pc = "create"
  BY DEF CreateTrade, Busy, At
<1>2. PICK t \in TradeIds : WorksOn(p, t)
  BY <1>1, Works
<1>3. req[p].t = t /\ Deal[t].side \in Sides
  BY <1>1, <1>2 DEF WorksOn, Known, BuySteps, ReverseSteps, SellSteps, CreditSteps
<1>4. PICK r, row :
        /\ req' = [req EXCEPT ![p] = r] /\ r.pc = "idle" /\ r.t = NoId
        /\ trade' = [trade EXCEPT ![t] = row] /\ row.status \in Open
  <2>1. PICK s \in Open : trade' = [trade EXCEPT ![t] = FreshTrade(s, FALSE)]
    BY <1>3 DEF CreateTrade, Open
  <2>2. FreshTrade(s, FALSE).status = s
    BY DEF FreshTrade
  <2>3. \E r : req' = [req EXCEPT ![p] = r] /\ r.pc = "idle" /\ r.t = NoId
    BY Finished DEF CreateTrade
  <2>4. \E row : trade' = [trade EXCEPT ![t] = row] /\ row.status \in Open
    BY <2>1, <2>2
  <2> QED BY <2>3, <2>4
<1>5. UNCHANGED <<fiat, wallet, transfer, palmpay, disturbed>>
  BY DEF CreateTrade
<1>6. ASSUME t \notin disturbed
      PROVE  /\ Fits(Deal[t].side, r, fiat[t], row.status)
             /\ Lost(Deal[t].side, r.pc, fiat[t], transfer[t], palmpay[t])
             /\ Took(Deal[t].side, r.pc, fiat[t]) <=> Took(Deal[t].side, req[p].pc, fiat[t])
             /\ Gave(Deal[t].side, r.pc, fiat[t]) <=> Gave(Deal[t].side, req[p].pc, fiat[t])
  BY <1>1, <1>2, <1>3, <1>4, <1>6
  DEF WorksOn, Fits, Doing, Story, Lost, Took, Gave, GivingUp, ReverseSteps, Sides
<1> QED BY <1>3, <1>4, <1>5, <1>6, RowBooks DEF Buying

LEMMA MarkFailedBooks ==
  ASSUME BInv, IInv', NEW p \in Requests, MarkFailed(p)
  PROVE  BInv'
<1>1. Busy(p) /\ req[p].pc = "failTrade"
  BY DEF MarkFailed, Busy, At
<1>2. PICK t \in TradeIds : WorksOn(p, t)
  BY <1>1, Works
<1>3. req[p].t = t /\ Deal[t].side \in Sides
  BY <1>1, <1>2 DEF WorksOn, Known, BuySteps, ReverseSteps, SellSteps, CreditSteps
<1>4. PICK r, row :
        /\ req' = [req EXCEPT ![p] = r]
        /\ \/ Deal[t].side = "sell" /\ r.pc = "failFiat" /\ r.t = t
           \/ Deal[t].side # "sell" /\ r.pc = "idle" /\ r.t = NoId
        /\ trade' = [trade EXCEPT ![t] = row] /\ row.status = "busha_failed"
  <2>1. CASE Deal[t].side = "sell"
    <3>1. /\ Hear(p, "failFiat", "none")
          /\ trade' = [trade EXCEPT ![t] = [@ EXCEPT !.status = "busha_failed",
                                                     !.seen = req[p].told]]
      BY <1>3, <2>1 DEF MarkFailed, Goto
    <3>2. \E r : req' = [req EXCEPT ![p] = r] /\ r.pc = "failFiat" /\ r.t = t
      BY <1>3, <3>1, Heard
    <3>3. [trade[t] EXCEPT !.status = "busha_failed", !.seen = req[p].told].status
            = "busha_failed"
      BY <1>2 DEF WorksOn, TradeRow
    <3> QED BY <2>1, <3>1, <3>2, <3>3
  <2>2. CASE Deal[t].side # "sell"
    <3>1. Finish(p) /\ Status(t, "busha_failed")
      BY <1>3, <2>2 DEF MarkFailed
    <3>2. \E row : trade' = [trade EXCEPT ![t] = row] /\ row.status = "busha_failed"
      BY <1>2, <3>1, StatusRow DEF WorksOn
    <3> QED BY <2>2, <3>1, <3>2, Finished
  <2> QED BY <2>1, <2>2
<1>5. UNCHANGED <<fiat, wallet, transfer, palmpay, disturbed>>
  BY DEF MarkFailed
<1>6. ASSUME t \notin disturbed
      PROVE  /\ Fits(Deal[t].side, r, fiat[t], row.status)
             /\ Lost(Deal[t].side, r.pc, fiat[t], transfer[t], palmpay[t])
             /\ Took(Deal[t].side, r.pc, fiat[t]) <=> Took(Deal[t].side, req[p].pc, fiat[t])
             /\ Gave(Deal[t].side, r.pc, fiat[t]) <=> Gave(Deal[t].side, req[p].pc, fiat[t])
  BY <1>1, <1>2, <1>3, <1>4, <1>6
  DEF WorksOn, Fits, Doing, Story, Lost, Took, Gave, GivingUp, ReverseSteps, Sides, Open
<1> QED BY <1>3, <1>4, <1>5, <1>6, RowBooks DEF Buying

\* What was seen decides how the handler goes on, and the row's status stays.
RecordSeenTo(p, t, r, row) ==
  /\ req' = [req EXCEPT ![p] = r]
  /\ trade' = [trade EXCEPT ![t] = row] /\ row.status = trade[t].status
  /\ \/ r.pc = "idle" /\ r.t = NoId
     \/ /\ Success(req[p].told, Deal[t].side) /\ r.t = t
        /\ r.pc = CASE Deal[t].side = "sell" -> "creditRead"
                    [] Deal[t].side = "buy" -> "completeFiat"
                    [] Deal[t].side = "crypto" -> "complete"
     \/ /\ req[p].told \in TransferFailed /\ r.t = t
        /\ r.pc = IF Deal[t].side = "buy" THEN "reverse" ELSE "failRead"
LEMMA RecordSeenBooks ==
  ASSUME BInv, IInv', NEW p \in Requests, RecordSeen(p)
  PROVE  BInv'
<1>1. Busy(p) /\ req[p].pc = "seen"
  BY DEF RecordSeen, Busy, At
<1>2. PICK t \in TradeIds : WorksOn(p, t)
  BY <1>1, Works
<1>3. req[p].t = t /\ Deal[t].side \in Sides
  BY <1>1, <1>2 DEF WorksOn, Known, BuySteps, ReverseSteps, SellSteps, CreditSteps
<1>4. PICK r, row : RecordSeenTo(p, t, r, row)
  <2>1. \E row : trade' = [trade EXCEPT ![t] = row] /\ row.status = trade[t].status
    <3>1. CASE Deal[t].side = "sell"
      <4>1. trade' = [trade EXCEPT ![t] = [@ EXCEPT !.seen = req[p].told]]
        BY <1>3, <3>1 DEF RecordSeen, Mine
      <4>2. [trade[t] EXCEPT !.seen = req[p].told].status = trade[t].status
        BY <1>2 DEF WorksOn, TradeRow
      <4> QED BY <4>1, <4>2
    <3>2. CASE Deal[t].side # "sell"
      <4>1. trade' = [trade EXCEPT ![t] = trade[t]]
        BY <1>3, <3>2 DEF RecordSeen, Mine, BInv, IInv, Typed, TypeOK
      <4> QED BY <4>1
    <3> QED BY <3>1, <3>2
  <2>2. \/ Finish(p)
        \/ /\ Success(req[p].told, Deal[t].side)
           /\ \E step : /\ step = CASE Deal[t].side = "sell" -> "creditRead"
                                    [] Deal[t].side = "buy" -> "completeFiat"
                                    [] Deal[t].side = "crypto" -> "complete"
                        /\ Hear(p, step, "none")
        \/ /\ req[p].told \in TransferFailed
           /\ \E told : Hear(p, IF Deal[t].side = "buy" THEN "reverse" ELSE "failRead", told)
    BY <1>3 DEF RecordSeen, Mine, Goto
  <2>3. (IF Deal[t].side = "buy" THEN "reverse" ELSE "failRead") # "idle"
    OBVIOUS
  <2>4. CASE Finish(p)
    BY <2>1, <2>4, Finished DEF RecordSeenTo
  <2>5. ASSUME Success(req[p].told, Deal[t].side), NEW step, Hear(p, step, "none"),
               step = CASE Deal[t].side = "sell" -> "creditRead"
                        [] Deal[t].side = "buy" -> "completeFiat"
                        [] Deal[t].side = "crypto" -> "complete"
        PROVE  \E r, row : RecordSeenTo(p, t, r, row)
    <3>1. step # "idle"
      BY <1>3, <2>5 DEF Sides
    <3>2. Hear(p, step, "none")
      BY <2>5
    <3>3. \E r : req' = [req EXCEPT ![p] = r] /\ r.t = t /\ r.pc = step
      BY <1>3, <3>1, <3>2, Heard
    <3> QED BY <2>1, <2>5, <3>3 DEF RecordSeenTo
  <2>6. CASE /\ req[p].told \in TransferFailed
             /\ \E told : Hear(p, IF Deal[t].side = "buy" THEN "reverse" ELSE "failRead",
                               told)
    <3>1. \E r : /\ req' = [req EXCEPT ![p] = r] /\ r.t = t
                 /\ r.pc = IF Deal[t].side = "buy" THEN "reverse" ELSE "failRead"
      BY <1>3, <2>3, <2>6, Heard
    <3> QED BY <2>1, <2>6, <3>1 DEF RecordSeenTo
  <2> QED BY <2>2, <2>4, <2>5, <2>6
<1>5. UNCHANGED <<fiat, wallet, transfer, palmpay, disturbed>>
  BY DEF RecordSeen
<1>6. ASSUME t \notin disturbed
      PROVE  /\ Fits(Deal[t].side, r, fiat[t], row.status)
             /\ Lost(Deal[t].side, r.pc, fiat[t], transfer[t], palmpay[t])
             /\ Took(Deal[t].side, r.pc, fiat[t]) <=> Took(Deal[t].side, req[p].pc, fiat[t])
             /\ Gave(Deal[t].side, r.pc, fiat[t]) <=> Gave(Deal[t].side, req[p].pc, fiat[t])
  <2>1. /\ trade[t].status \in Open /\ Story(Deal[t].side, fiat[t], trade[t].status)
        /\ Deal[t].side = "buy" /\ Success(req[p].told, Deal[t].side) =>
             fiat[t] = "pending"
        /\ Lost(Deal[t].side, "seen", fiat[t], transfer[t], palmpay[t])
    BY <1>1, <1>2, <1>6 DEF WorksOn, Doing
  <2>2. req[p].told \in TransferFailed => transfer[t] \in TransferFailed
    BY <1>1, <1>2 DEF WorksOn, Known, Past, TransferEnded
  <2> HIDE DEF Success, TransferFailed
  <2>3. CASE r.pc = "idle"
    BY <1>1, <1>4, <2>1, <2>3 DEF RecordSeenTo, Fits, Lost, Took, Gave, GivingUp, ReverseSteps
  <2>4. CASE Deal[t].side = "sell" /\ r.pc # "idle"
    BY <1>1, <1>4, <2>1, <2>4
    DEF RecordSeenTo, Fits, Doing, Story, Lost, Took, Gave, Open
  <2>5. CASE Deal[t].side = "crypto" /\ r.pc # "idle"
    BY <1>1, <1>4, <2>1, <2>5
    DEF RecordSeenTo, Fits, Doing, Story, Lost, Took, Gave, Open
  <2>6. CASE Deal[t].side = "buy" /\ r.pc # "idle"
    BY <1>1, <1>4, <2>1, <2>2, <2>6
    DEF RecordSeenTo, Fits, Doing, Story, Lost, Took, Gave, GivingUp, ReverseSteps, Open, Doomed
  <2> QED BY <1>3, <2>3, <2>4, <2>5, <2>6 DEF Sides
<1>7. r.pc \notin Buying /\ ((r.pc = "idle" /\ r.t = NoId) \/ (r.pc # "idle" /\ r.t = t))
  BY <1>3, <1>4 DEF RecordSeenTo, Buying, Sides
<1> QED BY <1>3, <1>4, <1>5, <1>6, <1>7, RowBooks DEF RecordSeenTo

\* A buy that Busha or PalmPay refuses gets no coin: PalmPay has not been asked.
LEMMA AskBushaBooks ==
  ASSUME BInv, IInv', NEW p \in Requests, AskBusha(p)
  PROVE  BInv'
<1>1. Busy(p) /\ req[p].pc = "quote"
  BY DEF AskBusha, Busy, At
<1>2. PICK t \in TradeIds : WorksOn(p, t)
  BY <1>1, Works
<1>3. req[p].t = t /\ Deal[t].side = "buy" /\ transfer[t] = "none" /\ palmpay[t] = "none"
  BY <1>1, <1>2 DEF WorksOn, Known, BuySteps, PreQuote, Early, PreOpen
<1>4. PICK r : /\ req' = [req EXCEPT ![p] = r] /\ r.t = t
               /\ r.pc = "undo" \/ r.pc = "open"
  <2>1. Hear(p, "undo", "none") \/ Hear(p, "open", "none")
    BY DEF AskBusha, Goto
  <2> QED BY <1>3, <2>1, Heard
<1>5. /\ UNCHANGED <<trade, fiat, wallet, palmpay, disturbed>>
      /\ transfer'[t] \in {"none", "pending"} /\ \A u \in TradeIds \ {t} : Same(u)
  BY <1>3 DEF AskBusha, Same, BInv, IInv, Typed, TypeOK
<1>6. Right(p, t, r)
  <2>1. ASSUME t \notin disturbed
        PROVE  /\ Fits(Deal[t].side, r, fiat[t], trade[t].status)
               /\ Lost(Deal[t].side, r.pc, fiat[t], transfer'[t], palmpay[t])
               /\ Booked(Deal[t].side, t, req[p].pc, r, fiat[t])
    BY <1>1, <1>2, <1>3, <1>4, <1>5, <2>1
    DEF WorksOn, Fits, Doing, Lost, Took, Gave, Booked, Doomed
  <2> QED BY <1>5, <2>1 DEF Right
<1>7. Fundable(Deal[t].side, transfer'[t], palmpay'[t])
  BY <1>5 DEF Fundable, Funded, Converted
<1> QED BY <1>3, <1>4, <1>5, <1>6, <1>7, WorkBooks DEF Buying

LEMMA AskPalmPayBooks ==
  ASSUME BInv, IInv', NEW p \in Requests, AskPalmPay(p)
  PROVE  BInv'
<1>1. Busy(p) /\ req[p].pc = "payout"
  BY DEF AskPalmPay, Busy, At
<1>2. PICK t \in TradeIds : WorksOn(p, t)
  BY <1>1, Works
<1>3. req[p].t = t /\ Deal[t].side = "buy" /\ palmpay[t] = "none"
  BY <1>1, <1>2 DEF WorksOn, Known, BuySteps, Early
<1>4. PICK r :
        /\ req' = [req EXCEPT ![p] = r] /\ r.t = t
        /\ r.pc = "payoutRow" \/ (r.pc = "undo" /\ (palmpay' = palmpay \/ t \in disturbed'))
  <2>1. \/ \E s : Hear(p, "payoutRow", s)
        \/ Hear(p, "undo", "none") /\ (palmpay' = palmpay \/ t \in disturbed')
    BY <1>3 DEF AskPalmPay, Goto
  <2> QED BY <1>3, <2>1, Heard
<1>5. /\ UNCHANGED <<trade, fiat, wallet, transfer>> /\ disturbed \subseteq disturbed'
      /\ \A u \in TradeIds \ {t} : Same(u)
  BY <1>3 DEF AskPalmPay, Same, BInv, IInv, Typed, TypeOK
<1>6. Right(p, t, r)
  <2>1. ASSUME t \notin disturbed'
        PROVE  /\ Fits(Deal[t].side, r, fiat[t], trade[t].status)
               /\ Lost(Deal[t].side, r.pc, fiat[t], transfer[t], palmpay'[t])
               /\ Booked(Deal[t].side, t, req[p].pc, r, fiat[t])
    BY <1>1, <1>2, <1>3, <1>4, <1>5, <2>1
    DEF WorksOn, Fits, Doing, Lost, Took, Gave, GivingUp, ReverseSteps, Booked, Doomed
  <2> QED BY <1>5, <2>1 DEF Right
<1>7. Fundable(Deal[t].side, transfer'[t], palmpay'[t])
  BY <1>2, <1>3, <1>5 DEF WorksOn, Fundable
<1> QED BY <1>3, <1>4, <1>5, <1>6, <1>7, WorkBooks DEF Buying

\* A handler starts on a trade nobody else is on, or meets one there.
LEMMA Clear ==
  ASSUME BInv, NEW p \in Requests, At(p, "idle"), NEW t \in TradeIds, Meet(p, t, OnTrade(t))
  PROVE  /\ disturbed \subseteq disturbed'
         /\ t \notin disturbed' =>
              /\ \A q \in Requests : req[q].t # t
              /\ Story(Deal[t].side, fiat[t], trade[t].status)
              /\ Lost(Deal[t].side, "idle", fiat[t], transfer[t], palmpay[t])
<1>1. disturbed \subseteq disturbed'
  BY DEF Meet
<1>2. ASSUME t \notin disturbed' PROVE \A q \in Requests : req[q].t # t
  <2> SUFFICES ASSUME NEW q \in Requests, req[q].t = t PROVE FALSE
    OBVIOUS
  <2>1. Busy(q) /\ q # p
    BY DealAssumption DEF BInv, Once, Busy
  <2>2. q \in OnTrade(t) \ {p}
    BY <2>1 DEF OnTrade
  <2> QED BY <1>2, <2>1, <2>2 DEF Meet
<1>3. t \notin disturbed' => StoryAt(t)
  BY <1>1 DEF BInv, Stories
<1> QED BY <1>1, <1>2, <1>3 DEF StoryAt

LEMMA StartBooks ==
  ASSUME BInv, IInv', NEW p \in Requests, NEW t \in TradeIds, NEW step, NEW told,
         At(p, "idle"), Become(p, Locals(step, t, told, FALSE)),
         step \in {"ask", "failRead"}, Meet(p, t, OnTrade(t)),
         UNCHANGED <<trade, fiat, wallet, transfer, palmpay>>, trade[t].status \in Open
           \/ (step = "failRead" /\ trade[t].status = "busha_failed"),
         step = "failRead" => Deal[t].side = "sell"
  PROVE  BInv'
<1> DEFINE r == Locals(step, t, told, FALSE)
<1>1. req' = [req EXCEPT ![p] = r] /\ r.pc = step /\ r.t = t
  BY DEF Become, Locals
<1> HIDE DEF r
<1>2. /\ disturbed \subseteq disturbed'
      /\ t \notin disturbed' =>
           /\ \A q \in Requests : req[q].t # t
           /\ Story(Deal[t].side, fiat[t], trade[t].status)
           /\ Lost(Deal[t].side, "idle", fiat[t], transfer[t], palmpay[t])
  BY Clear
<1>3. Moves(p, t, r)
  BY <1>1, <1>2 DEF Moves, Same
<1>4. Right(p, t, r)
  <2>1. ASSUME t \notin disturbed'
        PROVE  /\ Fits(Deal[t].side, r, fiat[t], trade[t].status)
               /\ Lost(Deal[t].side, r.pc, fiat[t], transfer[t], palmpay[t])
               /\ Booked(Deal[t].side, t, req[p].pc, r, fiat[t])
    BY <1>1, <1>2, <2>1
    DEF Fits, Doing, Lost, GivingUp, ReverseSteps, Booked, Took, Gave, At
  <2> QED BY <2>1 DEF Right
<1>5. Covered(p, t, r) /\ Fundable(Deal[t].side, transfer'[t], palmpay'[t])
  BY <1>1 DEF Covered, Buying, BInv, Funding
<1> QED BY <1>1, <1>3, <1>4, <1>5, OwnBooks

LEMMA StartSettleBooks ==
  ASSUME BInv, IInv', NEW p \in Requests, NEW t \in TradeIds,
         StartSettle(p, t) \/ StartFailure(p, t)
  PROVE  BInv'
<1>1. CASE StartSettle(p, t)
  <2>1. Become(p, Locals("ask", t, "none", FALSE))
    BY <1>1 DEF StartSettle, Begin
  <2>2. /\ UNCHANGED <<trade, fiat, wallet, transfer, palmpay>>
        /\ trade[t].status \in Open /\ At(p, "idle") /\ Meet(p, t, OnTrade(t))
    BY <1>1 DEF StartSettle
  <2> QED BY <2>1, <2>2, StartBooks
<1>2. CASE StartFailure(p, t)
  <2>1. /\ Become(p, Locals("failRead", t, trade[t].seen, FALSE))
        /\ UNCHANGED <<trade, fiat, wallet, transfer, palmpay>>
        /\ trade[t].status \in Open \cup {"busha_failed"}
        /\ At(p, "idle") /\ Meet(p, t, OnTrade(t)) /\ Deal[t].side = "sell"
    BY <1>2 DEF StartFailure
  <2> QED BY <2>1, StartBooks
<1> QED BY <1>1, <1>2

\* A trade that was not in use.
LEMMA StartNewBooks ==
  ASSUME BInv, IInv', NEW p \in Requests, StartBuy(p) \/ StartSell(p) \/ StartCrypto(p)
  PROVE  BInv'
<1>1. PICK t \in TradeIds, step \in {"fiatRow", "sellRow", "create"} :
        /\ Unused(t) /\ At(p, "idle") /\ Become(p, Locals(step, t, "none", FALSE))
        /\ \A u \in TradeIds \ {t} : Same(u)
        /\ \/ step = "fiatRow" /\ Deal[t].side = "buy" /\ StartBuy(p)
              /\ UNCHANGED <<transfer, palmpay>>
              /\ Deal[t].amount <= wallet[Deal[t].user]
              /\ Meet(p, t, {q \in Requests : /\ req[q].pc \in Buying
                                              /\ Mine(q).user = Deal[t].user})
           \/ step = "sellRow" /\ Deal[t].side = "sell" /\ UNCHANGED disturbed
           \/ step = "create" /\ Deal[t].side = "crypto" /\ UNCHANGED disturbed
  <2>1. CASE StartBuy(p)
    BY <2>1 DEF StartBuy, Free, Begin, Buying, Same
  <2>2. CASE StartSell(p)
    BY <2>2 DEF StartSell, Free, Begin, Same, BInv, IInv, Typed, TypeOK
  <2>3. CASE StartCrypto(p)
    BY <2>3 DEF StartCrypto, Free, Begin, Same, BInv, IInv, Typed, TypeOK
  <2> QED BY <2>1, <2>2, <2>3
<1>2. UNCHANGED <<trade, fiat, wallet>>
  BY DEF StartBuy, StartSell, StartCrypto
<1> DEFINE r == Locals(step, t, "none", FALSE)
<1>3. req' = [req EXCEPT ![p] = r] /\ r.pc = step /\ r.t = t
  BY <1>1 DEF Become, Locals
<1> HIDE DEF r
<1>4. /\ trade[t].status = "none" /\ fiat[t] = "none" /\ palmpay[t] = "none"
      /\ transfer[t] = "none" /\ \A q \in Requests : req[q].t # t
  BY <1>1 DEF Unused
<1>5. disturbed \subseteq disturbed'
  BY <1>1 DEF Meet
<1>6. Moves(p, t, r)
  BY <1>1, <1>2, <1>3, <1>4, <1>5 DEF Moves
<1>7. Right(p, t, r)
  <2>1. /\ Fits(Deal[t].side, r, fiat[t], trade[t].status)
        /\ Lost(Deal[t].side, r.pc, fiat[t], transfer'[t], palmpay'[t])
        /\ Booked(Deal[t].side, t, req[p].pc, r, fiat[t])
    BY <1>1, <1>2, <1>3, <1>4
    DEF Fits, Doing, Lost, GivingUp, ReverseSteps, Booked, Took, Gave, At
  <2> QED BY <1>2, <2>1 DEF Right
<1>8. Covered(p, t, r)
  <2>1. ASSUME step = "fiatRow", t \notin disturbed', NEW q \in Requests \ {p},
               req[q].pc \in Buying, Mine(q).user = Deal[t].user
        PROVE  FALSE
    <3>1. Busy(q)
      BY <2>1 DEF Busy, At, Buying
    <3> QED BY <1>1, <2>1, <3>1 DEF Meet
  <2> QED BY <1>1, <1>2, <1>3, <2>1 DEF Covered, Buying
<1>9. Fundable(Deal[t].side, transfer'[t], palmpay'[t])
  BY <1>1, <1>4 DEF Fundable, Funded, Converted
<1> QED BY <1>6, <1>7, <1>8, <1>9, OwnBooks

\* The providers do not revive a buy that was given up.
LEMMA ProviderBooks ==
  ASSUME BInv, IInv', NEW t \in TradeIds, TransferMoves(t) \/ OrderEnds(t)
  PROVE  BInv'
<1>1. UNCHANGED <<trade, fiat, req, wallet, disturbed>>
  BY DEF TransferMoves, OrderEnds
<1>2. /\ \A u \in TradeIds \ {t} : transfer'[u] = transfer[u] /\ palmpay'[u] = palmpay[u]
      /\ Fundable(Deal[t].side, transfer'[t], palmpay'[t])
      /\ Doomed(transfer[t], palmpay[t]) => Doomed(transfer'[t], palmpay'[t])
  <2>1. Fundable(Deal[t].side, transfer[t], palmpay[t])
    BY DEF BInv, Funding
  <2>2. CASE TransferMoves(t)
    <3>1. /\ UNCHANGED palmpay /\ \A u \in TradeIds \ {t} : transfer'[u] = transfer[u]
          /\ \/ /\ transfer[t] = "pending" /\ transfer'[t] = "funds_received"
                /\ Deal[t].side = "buy" => palmpay[t] = "completed"
             \/ transfer[t] = "pending" /\ transfer'[t] = "cancelled"
             \/ transfer[t] \in Funded \ TransferFailed /\ transfer'[t] \in Converted
      <4>1. transfer \in [TradeIds -> TransferStatus]
        BY DEF BInv, IInv, Typed, TypeOK
      <4>2. \A s : transfer' = [transfer EXCEPT ![t] = s] =>
              transfer'[t] = s /\ \A u \in TradeIds \ {t} : transfer'[u] = transfer[u]
        BY <4>1
      <4> QED BY <2>2, <4>2 DEF TransferMoves, Funded, Converted, TransferFailed
    <3>2. transfer[t] = "pending" => transfer[t] \notin TransferFailed
      BY DEF TransferFailed
    <3>3. "cancelled" \in TransferFailed \ Funded
      BY DEF TransferFailed, Funded, Converted
    <3>4. Converted \subseteq Funded
      BY DEF Funded
    <3> QED BY <2>1, <3>1, <3>2, <3>3, <3>4 DEF Fundable, Doomed
  <2>3. CASE OrderEnds(t)
    BY <2>1, <2>3
    DEF OrderEnds, Fundable, Doomed, BInv, IInv, Typed, TypeOK
  <2> QED BY <2>2, <2>3
<1>3. Funding'
  BY <1>2 DEF BInv, Funding
<1>4. ASSUME NEW u \in TradeIds, NEW pc,
             Lost(Deal[u].side, pc, fiat[u], transfer[u], palmpay[u])
      PROVE  Lost(Deal[u].side, pc, fiat[u], transfer'[u], palmpay'[u])
  <2>1. Doomed(transfer[u], palmpay[u]) => Doomed(transfer'[u], palmpay'[u])
    BY <1>2
  <2> QED BY <1>4, <2>1 DEF Lost
<1>5. Stories'
  <2> SUFFICES ASSUME NEW u \in TradeIds, u \notin disturbed' PROVE StoryAt(u)'
    BY DEF Stories
  <2>1. StoryAt(u)
    BY <1>1 DEF BInv, Stories
  <2> QED BY <1>1, <1>4, <2>1 DEF StoryAt
<1>6. Once'
  BY <1>1 DEF BInv, Once, At
<1>7. Running'
  <2>1. /\ \A u \in TradeIds : (Taken(u)' <=> Taken(u)) /\ (Given(u)' <=> Given(u))
        /\ \A p \in Requests : Mine(p)' = Mine(p)
    BY <1>1 DEF Taken, Given, Stands, PaidIn, PaidOut, Mine
  <2> SUFFICES ASSUME NEW u \in Users, Undisturbed(u)' PROVE BooksOf(u)'
    BY DEF Running
  <2>2. BooksOf(u)
    BY <1>1 DEF BInv, Running, Undisturbed, TradesOf
  <2>3. /\ {x \in TradesOf(u) : Given(x)}' = {x \in TradesOf(u) : Given(x)}
        /\ {x \in TradesOf(u) : Taken(x)}' = {x \in TradesOf(u) : Taken(x)}
    BY <2>1 DEF TradesOf
  <2> QED BY <1>1, <2>1, <2>2, <2>3 DEF BooksOf
<1> QED BY <1>3, <1>5, <1>6, <1>7 DEF BInv

LEMMA BooksInit == Init => BInv
<1> SUFFICES ASSUME Init PROVE BInv
  OBVIOUS
<1>1. IInv
  BY EvidenceInit
<1>2. \A p \in Requests : req[p].pc = "idle" /\ req[p].t = NoId
  BY DEF Init, Idle, Locals
<1>3. Once
  BY <1>2, DealAssumption DEF Once
<1>4. Funding
  BY DEF Init, Funding, Fundable, Funded, Converted
<1>5. Stories
  BY <1>2, DealAssumption
  DEF Init, Stories, StoryAt, Story, Lost, GivingUp, ReverseSteps, NoTrade, FreshTrade
<1>6. Running
  <2> SUFFICES ASSUME NEW u \in Users PROVE BooksOf(u)
    BY DEF Running
  <2>1. \A t \in TradeIds : ~Given(t) /\ ~Taken(t)
    BY <1>2 DEF Init, Given, Taken, PaidIn, PaidOut, Stands
  <2>2. {x \in TradesOf(u) : Given(x)} = {} /\ {x \in TradesOf(u) : Taken(x)} = {}
    BY <2>1 DEF TradesOf
  <2>3. Total({}) = 0
    BY SumEmpty DEF Total
  <2>4. wallet[u] = InitWallet[u] /\ InitWallet[u] \in Nat
    BY DealAssumption DEF Init
  <2>5. wallet[u] = InitWallet[u] + Total({x \in TradesOf(u) : Given(x)})
                                  - Total({x \in TradesOf(u) : Taken(x)})
    <3>1. /\ Total({x \in TradesOf(u) : Given(x)}) = 0
          /\ Total({x \in TradesOf(u) : Taken(x)}) = 0
      BY <2>2, <2>3
    <3> QED BY <2>4, <3>1
  <2> QED BY <1>2, <2>4, <2>5 DEF BooksOf, Buying
<1> QED BY <1>1, <1>3, <1>4, <1>5, <1>6 DEF BInv

LEMMA BooksNext == BInv /\ [Next]_vars => BInv'
<1> SUFFICES ASSUME BInv, [Next]_vars PROVE BInv'
  OBVIOUS
<1>1. IInv'
  BY EvidenceNext DEF BInv
<1>2. CASE UNCHANGED vars
  <2>1. /\ \A u \in TradeIds : (Taken(u)' <=> Taken(u)) /\ (Given(u)' <=> Given(u))
        /\ \A p \in Requests : Mine(p)' = Mine(p)
    BY <1>2 DEF vars, Taken, Given, Stands, PaidIn, PaidOut, Mine
  <2>2. Running'
    <3> SUFFICES ASSUME NEW u \in Users, Undisturbed(u)' PROVE BooksOf(u)'
      BY DEF Running
    <3>1. BooksOf(u)
      BY <1>2 DEF vars, BInv, Running, Undisturbed, TradesOf
    <3>2. /\ {x \in TradesOf(u) : Given(x)}' = {x \in TradesOf(u) : Given(x)}
          /\ {x \in TradesOf(u) : Taken(x)}' = {x \in TradesOf(u) : Taken(x)}
      BY <2>1 DEF TradesOf
    <3> QED BY <1>2, <2>1, <3>1, <3>2 DEF BooksOf, vars
  <2>3. Once' /\ Funding' /\ Stories'
    BY <1>2 DEF vars, BInv, Once, Funding, Stories, StoryAt, At
  <2> QED BY <1>1, <2>2, <2>3 DEF BInv
<1>3. CASE \E p \in Requests : StartBuy(p) \/ StartSell(p) \/ StartCrypto(p)
  BY <1>1, <1>3, StartNewBooks
<1>4. CASE \E p \in Requests, t \in TradeIds : StartSettle(p, t) \/ StartFailure(p, t)
  BY <1>1, <1>4, StartSettleBooks
<1>5. CASE \E p \in Requests : Advance(p) \/ RequestLost(p)
  <2>1. PICK p \in Requests : Advance(p) \/ RequestLost(p)
    BY <1>5
  <2>2. CASE \/ InsertFiat(p) \/ DebitWallet(p) \/ AskBusha(p) \/ OpenBuy(p)
             \/ AskPalmPay(p) \/ RecordPayout(p) \/ UndoDebit(p) \/ UndoFiat(p)
    BY <1>1, <2>2, InsertFiatBooks, DebitWalletBooks, AskBushaBooks, OpenBuyBooks,
       AskPalmPayBooks, RecordPayoutBooks, UndoDebitBooks, UndoFiatBooks
  <2>3. CASE \/ StartReverse(p) \/ GiveBack(p) \/ ReverseFiat(p) \/ MarkReversed(p)
             \/ InsertSellFiat(p) \/ CreateTrade(p) \/ RequestLost(p)
    BY <1>1, <2>3, StartReverseBooks, GiveBackBooks, ReverseFiatBooks,
       MarkReversedBooks, InsertSellFiatBooks, CreateTradeBooks, RequestLostBooks
  <2>4. CASE AskTransfer(p) \/ RecordSeen(p) \/ CompleteFiat(p) \/ MarkCompleted(p)
    BY <1>1, <2>4, AskTransferBooks, RecordSeenBooks, CompleteFiatBooks,
       MarkCompletedBooks
  <2>5. CASE ReadCredit(p) \/ CreditWallet(p) \/ CreditFiat(p) \/ MarkCredited(p)
    BY <1>1, <2>5, ReadCreditBooks, CreditWalletBooks, CreditFiatBooks,
       MarkCreditedBooks
  <2>6. CASE ReadFailed(p) \/ MarkFailed(p) \/ FailFiat(p)
    BY <1>1, <2>6, ReadFailedBooks, MarkFailedBooks, FailFiatBooks
  <2> QED BY <2>1, <2>2, <2>3, <2>4, <2>5, <2>6 DEF Advance
<1>6. CASE \E t \in TradeIds : TransferMoves(t) \/ OrderEnds(t)
  BY <1>1, <1>6, ProviderBooks
<1> QED BY <1>2, <1>3, <1>4, <1>5, <1>6 DEF Next

-----------------------------------------------------------------------------
(* What it says when all is quiet                                          *)

LEMMA AllQuiet ==
  ASSUME BInv, Quiet
  PROVE  /\ \A t \in TradeIds : (Taken(t) <=> PaidIn(t)) /\ (Given(t) <=> PaidOut(t))
         /\ \A t \in TradeIds \ disturbed :
              /\ Story(Deal[t].side, fiat[t], trade[t].status)
              /\ Lost(Deal[t].side, "idle", fiat[t], transfer[t], palmpay[t])
<1>1. \A p \in Requests : req[p].pc = "idle" /\ req[p].t = NoId
  BY DEF Quiet, BInv, Once, At
<1>2. \A t \in TradeIds : \A p \in Requests : req[p].t # t
  BY <1>1, DealAssumption
<1> QED BY <1>1, <1>2 DEF BInv, Stories, StoryAt, Taken, Given, Stands

\* The inductive invariant: what a trade has taken from the wallet or given to it at
\* every step of its handler, for trades that no two handlers were on.
THEOREM BushaBooksInvariant == Spec => []BInv
BY BooksInit, BooksNext, PTL DEF Spec

\* executeBuy, reverseBuy and creditSell overdraw no wallet, and between handlers a
\* wallet is what the fiat rows of its user's trades say.
THEOREM BushaBooksHold == Spec => []BooksBalance
<1>1. BInv => BooksBalance
  <2> SUFFICES ASSUME BInv, NEW u \in Users, Undisturbed(u)
               PROVE  /\ wallet[u] >= 0
                      /\ Quiet =>
                           wallet[u] = InitWallet[u] + Total({t \in TradesOf(u) : PaidOut(t)})
                                                     - Total({t \in TradesOf(u) : PaidIn(t)})
    BY DEF BooksBalance
  <2>1. BooksOf(u)
    BY DEF BInv, Running
  <2>2. ASSUME Quiet
        PROVE  /\ {t \in TradesOf(u) : Given(t)} = {t \in TradesOf(u) : PaidOut(t)}
               /\ {t \in TradesOf(u) : Taken(t)} = {t \in TradesOf(u) : PaidIn(t)}
    <3>1. \A t \in TradesOf(u) : (Taken(t) <=> PaidIn(t)) /\ (Given(t) <=> PaidOut(t))
      BY <2>2, AllQuiet DEF TradesOf
    <3> QED BY <3>1
  <2> QED BY <2>1, <2>2 DEF BooksOf
<1> QED BY <1>1, BushaBooksInvariant, PTL

\* Between handlers, settleTrade and the reversals have left a closed trade and its fiat
\* row telling the same story, and no buy both given back and funded.
THEOREM BushaRowsAgree == Spec => []RowsAgree
<1>1. BInv => RowsAgree
  <2> SUFFICES ASSUME BInv, Quiet, NEW t \in TradeIds \ disturbed
               PROVE  /\ Deal[t].side # "crypto" =>
                           /\ trade[t].status \in {"completed", "wallet_credited"} =>
                                fiat[t] = "completed"
                           /\ trade[t].status \in Closed \ {"completed", "wallet_credited"} =>
                                fiat[t] = "failed"
                      /\ Deal[t].side = "buy" /\ fiat[t] = "failed" =>
                           transfer[t] \notin Funded \ TransferFailed
    BY DEF RowsAgree
  <2>1. /\ Story(Deal[t].side, fiat[t], trade[t].status)
        /\ Lost(Deal[t].side, "idle", fiat[t], transfer[t], palmpay[t])
    BY AllQuiet
  <2>2. Fundable(Deal[t].side, transfer[t], palmpay[t]) /\ Deal[t].side \in Sides
    BY DealAssumption DEF BInv, Funding
  <2> QED BY <2>1, <2>2
          DEF Story, Lost, Doomed, Fundable, Open, Closed, Sides
<1> QED BY <1>1, BushaBooksInvariant, PTL

-----------------------------------------------------------------------------
(* The identity: types                                                     *)

AppStatus == Kyc!Statuses \cup Kyc!Open \cup {"failed"}
AppRow == [status : AppStatus, bound : BOOLEAN]

\* The steps of processApplication once it has marked the application.
Worked == {"profile", "create", "update", "verify", "get", "write", "done", "fail"}
Chosen == {"find", "mark"}
KycSteps == {"idle", "syncGet", "syncCustomer", "syncApps"} \cup Chosen \cup Worked
KycLocal ==
  [pc : KycSteps, app : Kyc!Apps \cup {Kyc!NoApp}, seen : Kyc!Statuses, ready : BOOLEAN]

\* Locals of their type: a handler at work on an application has one.
KycLocalOK(r) == r \in KycLocal /\ (r.pc \in Chosen \cup Worked => r.app \in Kyc!Apps)

KycTyped ==
  /\ kyc \in [status : {"none", "pending", "verified", "rejected"},
              complete : BOOLEAN, selfie : BOOLEAN]
  /\ app \in [Kyc!Apps -> AppRow]
  /\ customer \in Kyc!Statuses /\ remote \in Kyc!Statuses
  /\ notices \subseteq {"active", "rejected"}
  /\ kycReq \in [Kyc!Processes -> KycLocal] /\ \A p \in Kyc!Processes : KycLocalOK(kycReq[p])
  /\ cut \in BOOLEAN /\ kycMet \in BOOLEAN

LEMMA KycIdleOK == KycLocalOK(Kyc!Idle) /\ Kyc!Idle \in KycLocal
BY DEF KycLocalOK, KycLocal, KycSteps, Chosen, Worked, Kyc!Idle, Kyc!Statuses,
       Kyc!NoCustomer, Kyc!NoApp

LEMMA KycTypedInit == Kyc!Init => KycTyped
<1> SUFFICES ASSUME Kyc!Init PROVE KycTyped
  OBVIOUS
<1>1. app \in [Kyc!Apps -> AppRow]
  BY DEF Kyc!Init, AppRow, AppStatus, Kyc!Statuses
<1>2. kycReq \in [Kyc!Processes -> KycLocal] /\ \A p \in Kyc!Processes : KycLocalOK(kycReq[p])
  BY KycIdleOK DEF Kyc!Init
<1> QED BY <1>1, <1>2 DEF Kyc!Init, KycTyped, Kyc!Statuses, Kyc!NoCustomer

\* A handler's locals are written one at a time.
LEMMA LocalsWritten ==
  ASSUME KycTyped, NEW p \in Kyc!Processes, NEW r, KycLocalOK(r),
         kycReq' = [kycReq EXCEPT ![p] = r]
  PROVE  /\ kycReq' \in [Kyc!Processes -> KycLocal]
         /\ \A q \in Kyc!Processes : KycLocalOK(kycReq'[q])
         /\ kycReq'[p] = r
         /\ \A q \in Kyc!Processes \ {p} : kycReq'[q] = kycReq[q]
BY DEF KycTyped, KycLocalOK

\* So is an application's row.
LEMMA RowWritten ==
  ASSUME KycTyped, NEW a \in Kyc!Apps, NEW s \in AppRow, app' = [app EXCEPT ![a] = s]
  PROVE  /\ app' \in [Kyc!Apps -> AppRow]
         /\ app'[a] = s
         /\ \A b \in Kyc!Apps \ {a} : app'[b] = app[b]
BY DEF KycTyped

\* What a handler does to its locals: it moves on, ends, or begins.
LEMMA KycMoves ==
  ASSUME KycTyped, NEW p \in Kyc!Processes, NEW step \in KycSteps,
         step \in Chosen \cup Worked => kycReq[p].app \in Kyc!Apps
  PROVE  /\ Kyc!Goto(p, step) =>
              \E r : /\ KycLocalOK(r) /\ kycReq' = [kycReq EXCEPT ![p] = r]
                     /\ r.pc = step /\ r.app = kycReq[p].app /\ r.seen = kycReq[p].seen
         /\ Kyc!Finish(p) => kycReq' = [kycReq EXCEPT ![p] = Kyc!Idle]
         /\ KycLocalOK(Kyc!Idle)
<1>2. ASSUME Kyc!Goto(p, step)
      PROVE  \E r : /\ KycLocalOK(r) /\ kycReq' = [kycReq EXCEPT ![p] = r]
                    /\ r.pc = step /\ r.app = kycReq[p].app /\ r.seen = kycReq[p].seen
  <2> DEFINE r == [kycReq[p] EXCEPT !.pc = step]
  <2>1. kycReq[p] \in KycLocal
    BY DEF KycTyped
  <2>2. KycLocalOK(r) /\ r.pc = step /\ r.app = kycReq[p].app /\ r.seen = kycReq[p].seen
    BY <2>1 DEF KycLocalOK, KycLocal
  <2>3. kycReq' = [kycReq EXCEPT ![p] = r]
    BY <1>2 DEF Kyc!Goto
  <2> HIDE DEF r
  <2> QED BY <2>2, <2>3
<1> QED BY <1>2, KycIdleOK DEF Kyc!Finish

\* The processing of an application, and a look at the customer's status, keep types.
LEMMA KycTypedAdvance ==
  ASSUME KycTyped, NEW p \in Kyc!Processes, Kyc!Advance(p), Kyc!Kept
  PROVE  KycTyped'
<1> USE DEF Kyc!At
<1>0. /\ kycReq[p] \in KycLocal /\ KycLocalOK(kycReq[p])
      /\ Kyc!Applying(p) => kycReq[p].app \in Kyc!Apps
  BY DEF KycTyped, KycLocalOK, Kyc!Applying, Chosen, Worked
<1> DEFINE LocalsOK == /\ kycReq' \in [Kyc!Processes -> KycLocal]
                       /\ \A q \in Kyc!Processes : KycLocalOK(kycReq'[q])
           RowsOK == app' \in [Kyc!Apps -> AppRow]
<1>1. SUFFICES LocalsOK /\ RowsOK /\ customer' \in Kyc!Statuses /\ remote' \in Kyc!Statuses
               /\ kycMet' \in BOOLEAN
  BY DEF KycTyped, Kyc!Kept
<1>2. ASSUME NEW r, KycLocalOK(r), kycReq' = [kycReq EXCEPT ![p] = r]
      PROVE  LocalsOK
  BY <1>2, LocalsWritten
<1>3. ASSUME NEW step \in KycSteps, step \in Chosen \cup Worked => kycReq[p].app \in Kyc!Apps,
             Kyc!Goto(p, step)
      PROVE  LocalsOK
  BY <1>2, <1>3, KycMoves
<1>4. Kyc!Finish(p) => LocalsOK
  BY <1>2, KycIdleOK DEF Kyc!Finish
<1>5. ASSUME NEW step \in KycSteps, NEW seen \in Kyc!Statuses,
             step \in Chosen \cup Worked => kycReq[p].app \in Kyc!Apps,
             kycReq' = [kycReq EXCEPT ![p].pc = step, ![p].seen = seen]
      PROVE  LocalsOK
  <2> DEFINE r == [[kycReq[p] EXCEPT !.pc = step] EXCEPT !.seen = seen]
  <2>1. KycLocalOK(r)
    BY <1>0, <1>5 DEF KycLocalOK, KycLocal
  <2>2. kycReq' = [kycReq EXCEPT ![p] = r]
    BY <1>0, <1>5 DEF KycTyped
  <2> HIDE DEF r
  <2> QED BY <1>2, <2>1, <2>2
<1>6. ASSUME NEW a \in Kyc!Apps, NEW st \in AppStatus, Kyc!SetApp(a, st)
      PROVE  RowsOK
  BY <1>6 DEF Kyc!SetApp, KycTyped, AppRow
<1>7. UNCHANGED app => RowsOK
  BY DEF KycTyped
<1> HIDE DEF LocalsOK, RowsOK
<1>a. CASE Kyc!Find(p)
  <2>1. CASE Kyc!Finish(p)
    BY <1>4, <1>7, <1>a, <2>1 DEF Kyc!Find, KycTyped
  <2>2. CASE ~Kyc!Finish(p)
    <3> DEFINE r == [[kycReq[p] EXCEPT !.pc = "mark"]
                       EXCEPT !.ready = kyc.complete /\ kyc.selfie]
    <3>1. KycLocalOK(r)
      BY <1>0, <1>a DEF Kyc!Find, Kyc!Applying, KycLocalOK, KycLocal, KycSteps, Chosen,
                        KycTyped
    <3>2. kycReq' = [kycReq EXCEPT ![p] = r]
      BY <1>a, <2>2 DEF Kyc!Find, KycTyped
    <3> HIDE DEF r
    <3> QED BY <1>2, <1>7, <1>a, <3>1, <3>2 DEF Kyc!Find, KycTyped
  <2> QED BY <2>1, <2>2
<1>b. CASE Kyc!MarkProcessing(p)
  BY <1>0, <1>3, <1>6, <1>b DEF Kyc!MarkProcessing, Kyc!Applying, KycSteps, Worked,
                                AppStatus, Kyc!Open, KycTyped
<1>c. CASE Kyc!PostProfile(p)
  BY <1>0, <1>5, <1>7, <1>c DEF Kyc!PostProfile, Kyc!Applying, KycSteps, Worked,
                                Kyc!Statuses, KycTyped
<1>d. CASE Kyc!CreateCustomer(p)
  BY <1>0, <1>3, <1>7, <1>d DEF Kyc!CreateCustomer, Kyc!Applying, KycSteps, Worked,
                                KycLocal, KycTyped
<1>e. CASE Kyc!UpdateCustomer(p)
  BY <1>0, <1>3, <1>7, <1>e DEF Kyc!UpdateCustomer, Kyc!Applying, KycSteps, Worked,
                                KycLocal, KycTyped
<1>f. CASE Kyc!PostVerify(p)
  BY <1>0, <1>3, <1>7, <1>f DEF Kyc!PostVerify, Kyc!Applying, KycSteps, Worked,
                                Kyc!Statuses, KycTyped
<1>g. CASE Kyc!GetProfile(p)
  BY <1>0, <1>5, <1>7, <1>g DEF Kyc!GetProfile, Kyc!Applying, KycSteps, Worked, KycTyped
<1>h. CASE Kyc!WriteCustomer(p)
  BY <1>0, <1>3, <1>7, <1>h DEF Kyc!WriteCustomer, Kyc!Applying, KycSteps, Worked, KycLocal,
                                KycTyped
<1>i. CASE Kyc!WriteApplication(p)
  <2>1. RowsOK
    BY <1>i DEF Kyc!WriteApplication, RowsOK, KycTyped, AppRow, AppStatus, Kyc!Statuses,
                Kyc!Open
  <2> QED BY <1>4, <1>i, <2>1 DEF Kyc!WriteApplication, KycTyped
<1>j. CASE Kyc!MarkFailed(p)
  BY <1>0, <1>4, <1>6, <1>j DEF Kyc!MarkFailed, Kyc!Applying, AppStatus, KycTyped
<1>k. CASE Kyc!SyncGet(p)
  BY <1>5, <1>7, <1>k DEF Kyc!SyncGet, KycSteps, Chosen, Worked, KycTyped
<1>l. CASE Kyc!SyncCustomer(p)
  BY <1>0, <1>3, <1>7, <1>l DEF Kyc!SyncCustomer, KycSteps, Chosen, Worked, KycLocal,
                                KycTyped
<1>m. CASE Kyc!SyncApplications(p)
  <2>1. RowsOK
    BY <1>0, <1>m DEF Kyc!SyncApplications, RowsOK, KycTyped, AppRow, AppStatus,
                      Kyc!Statuses, Kyc!Open, KycLocal
  <2> QED BY <1>4, <1>m, <2>1 DEF Kyc!SyncApplications, KycTyped
<1> QED BY <1>a, <1>b, <1>c, <1>d, <1>e, <1>f, <1>g, <1>h, <1>i, <1>j, <1>k, <1>l, <1>m
DEF Kyc!Advance

\* So does what begins a handler.
LEMMA Begun ==
  ASSUME KycTyped, NEW p \in Kyc!Processes, NEW step \in KycSteps,
         NEW a \in Kyc!Apps \cup {Kyc!NoApp},
         step \in Chosen \cup Worked => a \in Kyc!Apps, Kyc!Begin(p, step, a)
  PROVE  \E r : /\ KycLocalOK(r) /\ kycReq' = [kycReq EXCEPT ![p] = r]
                /\ r.pc = step /\ r.app = a /\ r.seen = Kyc!NoCustomer
<1> DEFINE r == [[Kyc!Idle EXCEPT !.pc = step] EXCEPT !.app = a]
<1>1. KycLocalOK(r) /\ r.pc = step /\ r.app = a /\ r.seen = Kyc!NoCustomer
  BY DEF KycLocalOK, KycLocal, Kyc!Idle, Kyc!Statuses, Kyc!NoCustomer
<1>2. kycReq' = [kycReq EXCEPT ![p] = r]
  BY DEF Kyc!Begin
<1> HIDE DEF r
<1> QED BY <1>1, <1>2

\* Every step keeps types.
LEMMA KycTypedNext == KycTyped /\ [Kyc!Next]_Kyc!vars => KycTyped'
<1> SUFFICES ASSUME KycTyped, [Kyc!Next]_Kyc!vars PROVE KycTyped'
  OBVIOUS
<1> USE DEF Kyc!At
<1>1. CASE UNCHANGED Kyc!vars
  BY <1>1 DEF Kyc!vars, KycTyped
<1>2. ASSUME NEW changed \in [status : {"none", "pending", "verified", "rejected"},
                              complete : BOOLEAN, selfie : BOOLEAN], Kyc!Identity(changed)
      PROVE  KycTyped'
  BY <1>2 DEF Kyc!Identity, KycTyped
<1>3. ASSUME NEW all \in BOOLEAN, Kyc!SubmitKYC(all)
      PROVE  KycTyped'
  <2>1. [kyc EXCEPT !.status = "pending", !.complete = @ \/ all]
          \in [status : {"none", "pending", "verified", "rejected"},
              complete : BOOLEAN, selfie : BOOLEAN]
    BY DEF KycTyped
  <2> QED BY <1>2, <1>3, <2>1 DEF Kyc!SubmitKYC
<1>4. ASSUME NEW ok \in BOOLEAN, Kyc!SubmitFace(ok)
      PROVE  KycTyped'
  BY <1>2, <1>4 DEF Kyc!SubmitFace, KycTyped
<1>5. CASE Kyc!UploadIDDocument \/ Kyc!ApproveKYC \/ Kyc!RejectKYC
  BY <1>2, <1>5 DEF Kyc!UploadIDDocument, Kyc!ApproveKYC, Kyc!RejectKYC, KycTyped
<1>6. ASSUME NEW p \in Kyc!Processes, NEW r, KycLocalOK(r), kycReq' = [kycReq EXCEPT ![p] = r]
      PROVE  /\ kycReq' \in [Kyc!Processes -> KycLocal]
             /\ \A q \in Kyc!Processes : KycLocalOK(kycReq'[q])
  BY <1>6, LocalsWritten
<1>7. CASE Kyc!StartKyc /\ Kyc!Kept
  <2>1. PICK a \in Kyc!Apps : Kyc!SetApp(a, "pending") /\ Kyc!Begin("user", "find", a)
    BY <1>7 DEF Kyc!StartKyc
  <2>2. app' \in [Kyc!Apps -> AppRow]
    BY <2>1 DEF Kyc!SetApp, KycTyped, AppRow, AppStatus, Kyc!Open
  <2>3. \E r : KycLocalOK(r) /\ kycReq' = [kycReq EXCEPT !["user"] = r]
    BY <2>1, Begun DEF KycSteps, Chosen, Kyc!Processes
  <2> QED BY <1>6, <1>7, <2>2, <2>3 DEF Kyc!StartKyc, Kyc!Kept, KycTyped, Kyc!Processes
<1>8. CASE Kyc!GetStatus /\ Kyc!Kept
  <2>1. \E r : KycLocalOK(r) /\ kycReq' = [kycReq EXCEPT !["user"] = r]
    BY <1>8, Begun DEF Kyc!GetStatus, KycSteps, Chosen, Worked, Kyc!Processes
  <2> QED BY <1>6, <1>8, <2>1 DEF Kyc!GetStatus, Kyc!Kept, KycTyped, Kyc!Processes
<1>9. CASE \E p \in Kyc!Processes : Kyc!Runs(p)
  BY <1>9, KycTypedAdvance DEF Kyc!Runs
<1>10. CASE Kyc!Polls
  <2>1. CASE UNCHANGED kycReq
    BY <1>10, <2>1 DEF Kyc!Polls, Kyc!RetryPendingKyc, Kyc!Kept, KycTyped
  <2>2. CASE ~UNCHANGED kycReq
    <3>1. \/ \E a \in Kyc!Apps : Kyc!Begin("poller", "find", a)
          \/ Kyc!Begin("poller", "syncGet", Kyc!NoApp)
      BY <1>10, <2>2 DEF Kyc!Polls, Kyc!RetryPendingKyc
    <3>2. \E r : KycLocalOK(r) /\ kycReq' = [kycReq EXCEPT !["poller"] = r]
      BY <3>1, Begun DEF KycSteps, Chosen, Worked, Kyc!Processes
    <3> QED BY <1>6, <1>10, <3>2 DEF Kyc!Polls, Kyc!RetryPendingKyc, Kyc!Kept, KycTyped,
                                     Kyc!Processes
  <2> QED BY <2>1, <2>2
<1>11. CASE Kyc!Decide
  BY <1>11 DEF Kyc!Decide, KycTyped, Kyc!Statuses
<1>12. ASSUME NEW n \in notices, Kyc!HandleCustomerWebhook(n)
       PROVE  KycTyped'
  <2>1. n \in Kyc!Statuses /\ n \in AppStatus
    BY DEF KycTyped, Kyc!Statuses, AppStatus
  <2>2. app' \in [Kyc!Apps -> AppRow]
    BY <1>12, <2>1 DEF Kyc!HandleCustomerWebhook, KycTyped, AppRow
  <2> QED BY <1>12, <2>1, <2>2 DEF Kyc!HandleCustomerWebhook, KycTyped
<1>13. ASSUME NEW p \in Kyc!Processes, Kyc!CallFails(p)
       PROVE  KycTyped'
  <2>1. \E r : KycLocalOK(r) /\ kycReq' = [kycReq EXCEPT ![p] = r]
    BY <1>13, KycMoves, KycIdleOK DEF Kyc!CallFails, Kyc!Finish, KycSteps, Chosen, Worked,
                                      KycTyped, KycLocalOK
  <2> QED BY <1>6, <1>13, <2>1 DEF Kyc!CallFails, KycTyped
<1>14. ASSUME NEW p \in Kyc!Processes, Kyc!RequestLost(p)
       PROVE  KycTyped'
  BY <1>6, <1>14, KycIdleOK DEF Kyc!RequestLost, Kyc!Finish, KycTyped
<1>15. CASE Kyc!NoticeLost
  BY <1>15 DEF Kyc!NoticeLost, KycTyped
<1> QED BY <1>1, <1>3, <1>4, <1>5, <1>7, <1>8, <1>9, <1>10, <1>11, <1>12, <1>13, <1>14,
           <1>15
DEF Kyc!Next

(* The identity: what is known of Busha's decision                         *)

\* Whoever takes the customer for approved is right: the row, the notices and the
\* handlers.
Informed ==
  /\ customer = "active" => remote = "active"
  /\ "active" \in notices => remote = "active"
  /\ \A p \in Kyc!Processes : kycReq[p].seen = "active" => remote = "active"

\* An application that waits for the decision is bound to the customer.
Waiting == {"submitted", "in_review"}
WaitingBound == \A a \in Kyc!Apps : app[a].status \in Waiting => app[a].bound

\* The step, the application and the status seen that a handler is left with, and that
\* it alone was written.
Left(p, step, a, seen) ==
  /\ kycReq'[p].pc = step /\ kycReq'[p].app = a /\ kycReq'[p].seen = seen
  /\ \A q \in Kyc!Processes \ {p} : kycReq'[q] = kycReq[q]

LEMMA Leaves ==
  ASSUME KycTyped, NEW p \in Kyc!Processes
  PROVE  /\ \A step : Kyc!Goto(p, step) => Left(p, step, kycReq[p].app, kycReq[p].seen)
         /\ Kyc!Finish(p) => Left(p, "idle", Kyc!NoApp, Kyc!NoCustomer)
         /\ \A step, a : Kyc!Begin(p, step, a) =>
                           Kyc!At(p, "idle") /\ Left(p, step, a, Kyc!NoCustomer)
         /\ \A step, seen : kycReq' = [kycReq EXCEPT ![p].pc = step, ![p].seen = seen] =>
                              Left(p, step, kycReq[p].app, seen)
         /\ \A step, ready : kycReq' = [kycReq EXCEPT ![p].pc = step, ![p].ready = ready] =>
                              Left(p, step, kycReq[p].app, kycReq[p].seen)
<1>0. kycReq \in [Kyc!Processes -> KycLocal] /\ kycReq[p] \in KycLocal
  BY DEF KycTyped
<1>1. ASSUME NEW step, Kyc!Goto(p, step)
      PROVE  Left(p, step, kycReq[p].app, kycReq[p].seen)
  BY <1>0, <1>1 DEF Kyc!Goto, Left, KycLocal
<1>2. ASSUME Kyc!Finish(p)
      PROVE  Left(p, "idle", Kyc!NoApp, Kyc!NoCustomer)
  BY <1>0, <1>2 DEF Kyc!Finish, Left, Kyc!Idle
<1>3. ASSUME NEW step, NEW a, Kyc!Begin(p, step, a)
      PROVE  Kyc!At(p, "idle") /\ Left(p, step, a, Kyc!NoCustomer)
  BY <1>0, <1>3 DEF Kyc!Begin, Left, Kyc!Idle
<1>4. ASSUME NEW step, NEW seen, kycReq' = [kycReq EXCEPT ![p].pc = step, ![p].seen = seen]
      PROVE  Left(p, step, kycReq[p].app, seen)
  BY <1>0, <1>4 DEF Left, KycLocal
<1>5. ASSUME NEW step, NEW ready, kycReq' = [kycReq EXCEPT ![p].pc = step, ![p].ready = ready]
      PROVE  Left(p, step, kycReq[p].app, kycReq[p].seen)
  BY <1>0, <1>5 DEF Left, KycLocal
<1> QED BY <1>1, <1>2, <1>3, <1>4, <1>5

\* Busha takes no approval back.
LEMMA ApprovalStays ==
  KycTyped /\ [Kyc!Next]_Kyc!vars => (remote = "active" => remote' = "active")
<1> SUFFICES ASSUME KycTyped, [Kyc!Next]_Kyc!vars, remote = "active" PROVE remote' = "active"
  OBVIOUS
<1>1. ASSUME NEW p \in Kyc!Processes, Kyc!Advance(p)
      PROVE  remote' = "active"
  BY <1>1 DEF Kyc!Advance, Kyc!Find, Kyc!MarkProcessing, Kyc!PostProfile,
              Kyc!CreateCustomer, Kyc!UpdateCustomer, Kyc!PostVerify, Kyc!GetProfile,
              Kyc!WriteCustomer, Kyc!WriteApplication, Kyc!MarkFailed, Kyc!SyncGet,
              Kyc!SyncCustomer, Kyc!SyncApplications, Kyc!NoCustomer
<1> QED BY <1>1 DEF Kyc!Next, Kyc!vars, Kyc!SubmitKYC, Kyc!SubmitFace, Kyc!UploadIDDocument,
                    Kyc!ApproveKYC, Kyc!RejectKYC, Kyc!Identity, Kyc!StartKyc,
                    Kyc!GetStatus, Kyc!Kept, Kyc!Runs, Kyc!Polls, Kyc!RetryPendingKyc,
                    Kyc!Decide, Kyc!HandleCustomerWebhook, Kyc!CallFails, Kyc!RequestLost,
                    Kyc!NoticeLost

\* What a step writes of the decision it takes from what was known of it.
LEMMA NewsTravels ==
  ASSUME KycTyped, [Kyc!Next]_Kyc!vars
  PROVE  /\ customer' \in {customer} \cup notices \cup {kycReq[p].seen : p \in Kyc!Processes}
         /\ notices' \subseteq notices \cup {remote'}
         /\ \A p \in Kyc!Processes :
              kycReq'[p].seen \in {kycReq[p].seen, Kyc!NoCustomer, remote, remote'}
<1> DEFINE Goal == /\ customer' \in {customer} \cup notices
                                      \cup {kycReq[p].seen : p \in Kyc!Processes}
                   /\ notices' \subseteq notices \cup {remote'}
                   /\ \A p \in Kyc!Processes :
                        kycReq'[p].seen \in {kycReq[p].seen, Kyc!NoCustomer, remote, remote'}
<1>1. ASSUME NEW p \in Kyc!Processes, NEW step, NEW a, Left(p, step, a, kycReq'[p].seen),
             kycReq'[p].seen \in {kycReq[p].seen, Kyc!NoCustomer, remote, remote'},
             customer' \in {customer, kycReq[p].seen}, notices' = notices
      PROVE  Goal
  BY <1>1 DEF Left
<1>2. ASSUME UNCHANGED <<customer, kycReq>>, notices' \subseteq notices \cup {remote'}
      PROVE  Goal
  BY <1>2
<1> HIDE DEF Goal
<1>3. ASSUME NEW p \in Kyc!Processes, Kyc!Advance(p), Kyc!Kept
      PROVE  Goal
  <2>0. /\ \A step : Kyc!Goto(p, step) => Left(p, step, kycReq[p].app, kycReq[p].seen)
        /\ Kyc!Finish(p) => Left(p, "idle", Kyc!NoApp, Kyc!NoCustomer)
    BY Leaves
  <2> DEFINE Going ==
        \E step, a : /\ Left(p, step, a, kycReq'[p].seen)
                     /\ kycReq'[p].seen \in {kycReq[p].seen, Kyc!NoCustomer, remote, remote'}
  <2>a. (\E step : Kyc!Goto(p, step)) => Going
    BY <2>0 DEF Left
  <2>b. Kyc!Finish(p) => Going
    BY <2>0 DEF Left
  <2>c. SUFFICES Going /\ customer' \in {customer, kycReq[p].seen}
    BY <1>1, <1>3 DEF Kyc!Kept
  <2>d. ASSUME NEW step, NEW seen \in {remote, remote'},
               kycReq' = [kycReq EXCEPT ![p].pc = step, ![p].seen = seen]
        PROVE  Going
    <3>1. Left(p, step, kycReq[p].app, seen)
      BY <2>d, Leaves
    <3> QED BY <3>1 DEF Left
  <2>e. ASSUME NEW step, NEW ready, kycReq' = [kycReq EXCEPT ![p].pc = step, ![p].ready = ready]
        PROVE  Going
    <3>1. Left(p, step, kycReq[p].app, kycReq[p].seen)
      BY <2>e, Leaves
    <3> QED BY <3>1 DEF Left
  <2> HIDE DEF Going
  <2>1. CASE Kyc!Find(p)
    BY <2>b, <2>e, <2>1 DEF Kyc!Find
  <2>2. CASE Kyc!MarkProcessing(p) \/ Kyc!MarkFailed(p) \/ Kyc!WriteApplication(p)
    BY <2>a, <2>b, <2>2 DEF Kyc!MarkProcessing, Kyc!MarkFailed, Kyc!WriteApplication
  <2>3. CASE Kyc!PostProfile(p)
    <3>1. /\ UNCHANGED customer
          /\ \/ kycReq' = [kycReq EXCEPT ![p].pc = "create", ![p].seen = remote']
             \/ kycReq' = [kycReq EXCEPT ![p].pc = "update", ![p].seen = remote]
      BY <2>3 DEF Kyc!PostProfile
    <3> QED BY <2>d, <3>1
  <2>4. CASE \/ Kyc!CreateCustomer(p) \/ Kyc!UpdateCustomer(p)
             \/ Kyc!WriteCustomer(p) \/ Kyc!SyncCustomer(p)
    <3>1. customer' \in {customer, kycReq[p].seen} /\ \E step : Kyc!Goto(p, step)
      BY <2>4, Zenon DEF Kyc!CreateCustomer, Kyc!UpdateCustomer, Kyc!WriteCustomer,
                         Kyc!SyncCustomer
    <3> QED BY <2>a, <3>1
  <2>5. CASE Kyc!PostVerify(p) \/ Kyc!SyncApplications(p)
    BY <2>a, <2>b, <2>5 DEF Kyc!PostVerify, Kyc!SyncApplications
  <2>6. CASE Kyc!GetProfile(p) \/ Kyc!SyncGet(p)
    BY <2>d, <2>6 DEF Kyc!GetProfile, Kyc!SyncGet
  <2> QED BY <1>3, <2>1, <2>2, <2>3, <2>4, <2>5, <2>6 DEF Kyc!Advance
<1>4. CASE (Kyc!StartKyc \/ Kyc!GetStatus) /\ Kyc!Kept
  BY <1>1, <1>4, Leaves DEF Kyc!StartKyc, Kyc!GetStatus, Kyc!Kept, Kyc!Processes, Left
<1>5. CASE Kyc!Polls
  <2>1. CASE UNCHANGED kycReq
    BY <1>2, <1>5, <2>1 DEF Kyc!Polls, Kyc!RetryPendingKyc, Kyc!Kept
  <2>2. CASE ~UNCHANGED kycReq
    <3>1. PICK step, a : Kyc!Begin("poller", step, a)
      BY <1>5, <2>2 DEF Kyc!Polls, Kyc!RetryPendingKyc
    <3> QED BY <1>1, <1>5, <3>1, Leaves DEF Kyc!Polls, Kyc!RetryPendingKyc, Kyc!Kept,
                                            Kyc!Processes, Left
  <2> QED BY <2>1, <2>2
<1>6. ASSUME NEW n \in notices, Kyc!HandleCustomerWebhook(n)
      PROVE  Goal
  BY <1>6 DEF Kyc!HandleCustomerWebhook, Goal
<1>7. ASSUME NEW p \in Kyc!Processes, Kyc!CallFails(p) \/ Kyc!RequestLost(p)
      PROVE  Goal
  BY <1>1, <1>7, Leaves DEF Kyc!CallFails, Kyc!RequestLost, Left
<1>8. CASE \/ \E all \in BOOLEAN : Kyc!SubmitKYC(all) \/ Kyc!SubmitFace(all)
           \/ Kyc!UploadIDDocument \/ Kyc!ApproveKYC \/ Kyc!RejectKYC
           \/ Kyc!Decide \/ Kyc!NoticeLost \/ UNCHANGED Kyc!vars
  BY <1>2, <1>8 DEF Kyc!SubmitKYC, Kyc!SubmitFace, Kyc!UploadIDDocument, Kyc!ApproveKYC,
                    Kyc!RejectKYC, Kyc!Identity, Kyc!Decide, Kyc!NoticeLost, Kyc!vars
<1> QED BY <1>3, <1>4, <1>5, <1>6, <1>7, <1>8 DEF Kyc!Next, Kyc!Runs, Goal

LEMMA InformedNext == KycTyped /\ Informed /\ [Kyc!Next]_Kyc!vars => Informed'
BY ApprovalStays, NewsTravels DEF Informed, Kyc!NoCustomer

LEMMA WaitingNext == KycTyped /\ WaitingBound /\ [Kyc!Next]_Kyc!vars => WaitingBound'
<1> SUFFICES ASSUME KycTyped, WaitingBound, [Kyc!Next]_Kyc!vars PROVE WaitingBound'
  OBVIOUS
<1>1. CASE UNCHANGED app
  BY <1>1 DEF WaitingBound
<1>2. ASSUME NEW a \in Kyc!Apps, NEW st \in AppStatus \ Waiting, Kyc!SetApp(a, st)
      PROVE  WaitingBound'
  BY <1>2 DEF Kyc!SetApp, WaitingBound, KycTyped, AppRow
<1>3. ASSUME NEW p \in Kyc!Processes, Kyc!Advance(p)
      PROVE  WaitingBound'
  <2>0. kycReq[p] \in KycLocal /\ (Kyc!Applying(p) => kycReq[p].app \in Kyc!Apps)
    BY DEF KycTyped, KycLocalOK, Kyc!Applying, Chosen, Worked
  <2>1. CASE Kyc!MarkProcessing(p)
    BY <1>2, <2>0, <2>1 DEF Kyc!MarkProcessing, Kyc!At, Kyc!Applying, AppStatus, Kyc!Open,
                            Waiting
  <2>2. CASE Kyc!MarkFailed(p)
    BY <1>2, <2>0, <2>2 DEF Kyc!MarkFailed, Kyc!At, Kyc!Applying, AppStatus, Waiting
  <2>3. CASE Kyc!WriteApplication(p)
    BY <2>3 DEF Kyc!WriteApplication, WaitingBound, KycTyped, AppRow
  <2>4. CASE Kyc!SyncApplications(p)
    BY <2>4 DEF Kyc!SyncApplications, WaitingBound
  <2> QED BY <1>1, <1>3, <2>1, <2>2, <2>3, <2>4 DEF Kyc!Advance, Kyc!Find, Kyc!PostProfile,
                                                    Kyc!CreateCustomer, Kyc!UpdateCustomer,
                                                    Kyc!PostVerify, Kyc!GetProfile,
                                                    Kyc!WriteCustomer, Kyc!SyncGet,
                                                    Kyc!SyncCustomer
<1>4. CASE Kyc!StartKyc
  BY <1>2, <1>4 DEF Kyc!StartKyc, AppStatus, Kyc!Open, Waiting
<1>5. ASSUME NEW n \in notices, Kyc!HandleCustomerWebhook(n)
      PROVE  WaitingBound'
  <2>1. n \notin Waiting
    BY DEF KycTyped, Waiting
  <2> QED BY <1>5, <2>1 DEF Kyc!HandleCustomerWebhook, WaitingBound, KycTyped, AppRow
<1> QED BY <1>1, <1>3, <1>4, <1>5 DEF Kyc!Next, Kyc!vars, Kyc!SubmitKYC, Kyc!SubmitFace,
                                      Kyc!UploadIDDocument, Kyc!ApproveKYC, Kyc!RejectKYC,
                                      Kyc!Identity, Kyc!GetStatus, Kyc!Runs, Kyc!Polls,
                                      Kyc!RetryPendingKyc, Kyc!Decide, Kyc!CallFails,
                                      Kyc!RequestLost, Kyc!NoticeLost

(* The identity: who is busy with an application                           *)

Working(p) == kycReq[p].pc \in Worked

\* A handler works by itself, on the one application that is open.
WorksAlone ==
  \A p \in Kyc!Processes : Working(p) =>
    /\ app[kycReq[p].app].status = "processing"
    /\ \A a \in Kyc!Apps \ {kycReq[p].app} : app[a].status \notin Kyc!Open
    /\ \A q \in Kyc!Processes \ {p} : ~Working(q)

\* An application that is new, or being processed, has a handler.
Handled ==
  \A a \in Kyc!Apps :
    /\ app[a].status = "pending" =>
         \E p \in Kyc!Processes : kycReq[p].pc \in Chosen /\ kycReq[p].app = a
    /\ app[a].status = "processing" => \E p \in Kyc!Processes : Working(p) /\ kycReq[p].app = a

\* The row of the customer says what the handler will make of its application.
DoneAsWritten == \A p \in Kyc!Processes : Kyc!At(p, "done") => customer = kycReq[p].seen

\* An application that waits while the customer is approved is about to be closed.
Closing ==
  customer = "active" =>
    \A a \in Kyc!Apps : app[a].status \in Waiting =>
      \E p \in Kyc!Processes : Kyc!At(p, "syncApps") /\ kycReq[p].seen = "active"

Orderly == WorksAlone /\ Handled /\ DoneAsWritten /\ Closing

\* A step that leaves the applications and the customer as they are.
LEMMA OrderlyMove ==
  ASSUME Orderly, UNCHANGED <<app, customer>>,
         NEW p \in Kyc!Processes, NEW step, NEW a, NEW seen, Left(p, step, a, seen),
         Working(p) <=> step \in Worked,
         Working(p) => a = kycReq[p].app,
         kycReq[p].pc \in Chosen =>
           \/ step \in Chosen /\ a = kycReq[p].app
           \/ app[kycReq[p].app].status # "pending",
         ~Kyc!At(p, "syncApps"),
         step = "done" => customer = seen
  PROVE  Orderly'
<1>1. \A q \in Kyc!Processes : Working(q)' <=> Working(q)
  BY DEF Working, Left
<1>2. \A q \in Kyc!Processes : Working(q) => kycReq'[q].app = kycReq[q].app
  BY DEF Left
<1>3. WorksAlone'
  BY <1>1, <1>2 DEF Orderly, WorksAlone
<1>4. Handled'
  <2> SUFFICES ASSUME NEW b \in Kyc!Apps
               PROVE  /\ app[b].status = "pending" =>
                           \E q \in Kyc!Processes :
                             kycReq'[q].pc \in Chosen /\ kycReq'[q].app = b
                      /\ app[b].status = "processing" =>
                           \E q \in Kyc!Processes : Working(q)' /\ kycReq'[q].app = b
    BY DEF Handled
  <2>1. ASSUME app[b].status = "pending"
        PROVE  \E q \in Kyc!Processes : kycReq'[q].pc \in Chosen /\ kycReq'[q].app = b
    <3>1. PICK q \in Kyc!Processes : kycReq[q].pc \in Chosen /\ kycReq[q].app = b
      BY <2>1 DEF Orderly, Handled
    <3> QED BY <2>1, <3>1 DEF Left
  <2> QED BY <1>1, <1>2, <2>1 DEF Orderly, Handled
<1>5. DoneAsWritten'
  BY DEF Orderly, DoneAsWritten, Kyc!At, Left
<1>6. Closing'
  BY DEF Orderly, Closing, Kyc!At, Left
<1> QED BY <1>3, <1>4, <1>5, <1>6 DEF Orderly

\* A handler at work writes the customer's row and goes on.
LEMMA OrderlyCustomer ==
  ASSUME KycTyped, Orderly, UNCHANGED app,
         NEW p \in Kyc!Processes, Working(p), NEW step \in {"verify", "done"},
         Left(p, step, kycReq[p].app, kycReq[p].seen), customer' = kycReq[p].seen
  PROVE  Orderly'
<1>1. \A q \in Kyc!Processes : Working(q)' <=> Working(q)
  BY DEF Working, Worked, Left
<1>2. \A q \in Kyc!Processes : kycReq'[q].app = kycReq[q].app
  BY DEF Left
<1>3. WorksAlone'
  BY <1>1, <1>2 DEF Orderly, WorksAlone
<1>4. Handled'
  <2>1. \A q \in Kyc!Processes : kycReq[q].pc \in Chosen => kycReq'[q] = kycReq[q]
    BY DEF Left, Working, Worked, Chosen
  <2> QED BY <1>1, <1>2, <2>1 DEF Orderly, Handled
<1>5. DoneAsWritten'
  <2>1. \A q \in Kyc!Processes \ {p} : ~Kyc!At(q, "done")'
    BY DEF Orderly, WorksAlone, Working, Worked, Kyc!At, Left
  <2> QED BY <2>1 DEF DoneAsWritten, Left
<1>6. Closing'
  <2>1. \A a \in Kyc!Apps : app[a].status \notin Waiting
    BY DEF Orderly, WorksAlone, Kyc!Open, Waiting
  <2> QED BY <2>1 DEF Closing
<1> QED BY <1>3, <1>4, <1>5, <1>6 DEF Orderly

\* A handler marks its application: it is the only one at work, and there is no other
\* open application.
LEMMA OrderlyMark ==
  ASSUME KycTyped, Orderly, NEW p \in Kyc!Processes, Kyc!MarkProcessing(p), ~kycMet'
  PROVE  Orderly'
<1>0. /\ Kyc!At(p, "mark") /\ kycReq[p].app \in Kyc!Apps
      /\ Kyc!SetApp(kycReq[p].app, "processing")
      /\ UNCHANGED customer
      /\ \A q \in Kyc!Processes \ {p} : ~Kyc!Applying(q)
      /\ \A a \in Kyc!Apps \ {kycReq[p].app} : app[a].status \notin Kyc!Open
  BY DEF Kyc!MarkProcessing, Kyc!OtherApplies, KycTyped, KycLocalOK, Chosen, Kyc!At
<1>1. PICK step \in {"profile", "fail"} : Left(p, step, kycReq[p].app, kycReq[p].seen)
  BY Leaves DEF Kyc!MarkProcessing
<1>2. /\ app'[kycReq[p].app].status = "processing"
      /\ \A a \in Kyc!Apps \ {kycReq[p].app} : app'[a] = app[a]
  BY <1>0 DEF Kyc!SetApp, KycTyped, AppRow
<1>3. Working(p)' /\ \A q \in Kyc!Processes \ {p} : ~Working(q)' /\ ~Kyc!At(q, "done")'
  BY <1>0, <1>1 DEF Kyc!Applying, Working, Worked, Left, Kyc!At
<1>4. WorksAlone'
  BY <1>0, <1>1, <1>2, <1>3 DEF WorksAlone, Left
<1>5. Handled'
  BY <1>0, <1>1, <1>2, <1>3 DEF Handled, Left, Kyc!Open
<1>6. DoneAsWritten' /\ Closing'
  BY <1>0, <1>1, <1>2, <1>3 DEF DoneAsWritten, Closing, Waiting, Kyc!Open, Kyc!At, Left
<1> QED BY <1>4, <1>5, <1>6 DEF Orderly

\* A handler at work closes its application as the row of the customer says.
LEMMA OrderlyClose ==
  ASSUME KycTyped, Orderly, UNCHANGED customer, NEW p \in Kyc!Processes, Working(p),
         NEW s \in AppRow,
         app' = [app EXCEPT ![kycReq[p].app] = s], Left(p, "idle", Kyc!NoApp, Kyc!NoCustomer),
         s.status \notin {"pending", "processing"},
         s.status \in Waiting => customer # "active"
  PROVE  Orderly'
<1>0. kycReq[p].app \in Kyc!Apps
  BY DEF KycTyped, KycLocalOK, Working
<1>1. app'[kycReq[p].app] = s /\ \A a \in Kyc!Apps \ {kycReq[p].app} : app'[a] = app[a]
  BY <1>0 DEF KycTyped
<1>2. \A a \in Kyc!Apps \ {kycReq[p].app} : app'[a].status \notin Kyc!Open
  BY <1>1 DEF Orderly, WorksAlone
<1>3. \A q \in Kyc!Processes : ~Working(q)' /\ ~Kyc!At(q, "done")'
  BY DEF Orderly, WorksAlone, Working, Worked, Left, Kyc!At
<1>4. WorksAlone' /\ DoneAsWritten'
  BY <1>3 DEF WorksAlone, DoneAsWritten
<1>5. Handled' /\ Closing'
  BY <1>1, <1>2 DEF Handled, Closing, Kyc!Open, Waiting
<1> QED BY <1>4, <1>5 DEF Orderly

\* A look at the customer's status writes its row while nobody is at work.
LEMMA OrderlyLook ==
  ASSUME KycTyped, Orderly, NEW p \in Kyc!Processes, Kyc!SyncCustomer(p), ~kycMet'
  PROVE  Orderly'
<1>0. /\ Kyc!At(p, "syncCustomer") /\ customer' = kycReq[p].seen /\ UNCHANGED app
      /\ \A q \in Kyc!Processes \ {p} : ~Kyc!Applying(q)
      /\ Left(p, "syncApps", kycReq[p].app, kycReq[p].seen)
  BY Leaves DEF Kyc!SyncCustomer, Kyc!OtherApplies
<1>1. \A q \in Kyc!Processes : ~Working(q) /\ ~Working(q)' /\ kycReq[q].pc \notin Chosen
                             /\ ~Kyc!At(q, "done")'
  BY <1>0 DEF Kyc!Applying, Working, Worked, Chosen, Kyc!At, Left
<1>2. WorksAlone' /\ DoneAsWritten'
  BY <1>1 DEF WorksAlone, DoneAsWritten
<1>3. Handled'
  BY <1>0, <1>1 DEF Orderly, Handled
<1>4. Closing'
  BY <1>0 DEF Closing, Kyc!At, Left
<1> QED BY <1>2, <1>3, <1>4 DEF Orderly

\* And then the rows of the applications: those that are left waiting were seen to be
\* undecided, and the customer is not approved.
LEMMA OrderlyFollow ==
  ASSUME KycTyped, Orderly, NEW p \in Kyc!Processes, Kyc!SyncApplications(p), ~kycMet'
  PROVE  Orderly'
<1> DEFINE st == IF kycReq[p].seen = "inactive" THEN "submitted" ELSE kycReq[p].seen
<1>0. /\ Kyc!At(p, "syncApps") /\ UNCHANGED customer
      /\ \A q \in Kyc!Processes \ {p} : ~Kyc!Applying(q)
      /\ Left(p, "idle", Kyc!NoApp, Kyc!NoCustomer)
      /\ app' = [a \in Kyc!Apps |-> IF a \in Kyc!Follows(kycReq[p].seen)
                                THEN [status |-> st, bound |-> TRUE] ELSE app[a]]
  BY Leaves DEF Kyc!SyncApplications, Kyc!OtherApplies
<1>1. \A q \in Kyc!Processes : ~Working(q) /\ ~Working(q)' /\ kycReq[q].pc \notin Chosen
                             /\ ~Kyc!At(q, "done")'
  BY <1>0 DEF Kyc!Applying, Working, Worked, Chosen, Kyc!At, Left
<1>2. WorksAlone' /\ DoneAsWritten'
  BY <1>1 DEF WorksAlone, DoneAsWritten
<1>3. \A a \in Kyc!Apps : app[a].status \notin {"pending", "processing"}
  BY <1>1 DEF Orderly, Handled
<1>4. st \in Kyc!Statuses \cup {"submitted"}
  BY DEF KycTyped, KycLocal
<1>5. Handled'
  <2>1. \A a \in Kyc!Apps : app'[a].status \notin {"pending", "processing"}
    BY <1>0, <1>3, <1>4 DEF Kyc!Statuses
  <2> QED BY <2>1 DEF Handled
<1>6. Closing'
  <2>1. SUFFICES ASSUME customer = "active", NEW a \in Kyc!Apps, app'[a].status \in Waiting
                 PROVE  \E q \in Kyc!Processes :
                          Kyc!At(q, "syncApps")' /\ kycReq'[q].seen = "active"
    BY <1>0 DEF Closing
  <2>2. app[a].status \in Waiting /\ kycReq[p].seen # "active"
    BY <1>0, <1>3, <2>1 DEF Kyc!Follows, Kyc!Made, Waiting, Kyc!Open
  <2>3. PICK q \in Kyc!Processes : Kyc!At(q, "syncApps") /\ kycReq[q].seen = "active"
    BY <2>1, <2>2 DEF Orderly, Closing
  <2> QED BY <1>0, <2>2, <2>3 DEF Kyc!At, Left
<1> QED BY <1>2, <1>5, <1>6 DEF Orderly

\* A new application is made while none is open, and no customer is approved.
LEMMA OrderlyStart ==
  ASSUME KycTyped, Orderly, Kyc!StartKyc
  PROVE  Orderly'
<1>0. PICK a \in Kyc!Apps : Kyc!SetApp(a, "pending") /\ Kyc!Begin("user", "find", a)
  BY DEF Kyc!StartKyc
<1>1. Left("user", "find", a, Kyc!NoCustomer) /\ UNCHANGED customer /\ customer # "active"
  BY <1>0, Leaves DEF Kyc!StartKyc, Kyc!Processes
<1>2. app'[a].status = "pending" /\ \A b \in Kyc!Apps \ {a} : app'[b] = app[b]
  BY <1>0 DEF Kyc!SetApp, KycTyped, AppRow
<1>3. \A p \in Kyc!Processes : ~Working(p)
  BY DEF Orderly, WorksAlone, Kyc!StartKyc, KycTyped, KycLocalOK, Working, Kyc!Open
<1>4. \A p \in Kyc!Processes : ~Working(p)' /\ ~Kyc!At(p, "done")'
  BY <1>1, <1>3 DEF Working, Worked, Left, Kyc!At
<1>5. WorksAlone' /\ DoneAsWritten' /\ Closing'
  BY <1>1, <1>4 DEF WorksAlone, DoneAsWritten, Closing
<1>6. Handled'
  <2>1. \A b \in Kyc!Apps \ {a} : app'[b].status \notin {"pending", "processing"}
    BY <1>2 DEF Kyc!StartKyc, Kyc!Open
  <2>2. kycReq'["user"].pc \in Chosen /\ kycReq'["user"].app = a /\ "user" \in Kyc!Processes
    BY <1>1 DEF Left, Chosen, Kyc!Processes
  <2> QED BY <1>2, <2>1, <2>2 DEF Handled
<1> QED BY <1>5, <1>6 DEF Orderly

\* A notice of the decision closes every application that waits.
LEMMA OrderlyNotice ==
  ASSUME KycTyped, WaitingBound, Orderly, NEW n \in notices,
         Kyc!HandleCustomerWebhook(n), ~kycMet'
  PROVE  Orderly'
<1>1. CASE customer = Kyc!NoCustomer
  BY <1>1 DEF Kyc!HandleCustomerWebhook, Orderly, WorksAlone, Handled, DoneAsWritten,
              Closing, Working, Kyc!At
<1>2. CASE customer # Kyc!NoCustomer
  <2>1. /\ \A p \in Kyc!Processes : Kyc!At(p, "idle")
        /\ UNCHANGED kycReq
        /\ app' = [a \in Kyc!Apps |->
                     IF app[a].bound THEN [app[a] EXCEPT !.status = n] ELSE app[a]]
    BY <1>2 DEF Kyc!HandleCustomerWebhook
  <2>2. \A p \in Kyc!Processes : ~Working(p) /\ kycReq[p].pc \notin Chosen /\ ~Kyc!At(p, "done")
    BY <2>1 DEF Working, Worked, Chosen, Kyc!At
  <2>3. \A a \in Kyc!Apps : app'[a].status \notin Kyc!Open
    <3>1. n \notin Kyc!Open
      BY DEF KycTyped, Kyc!Open
    <3>2. \A a \in Kyc!Apps : app[a] \in AppRow /\ (app[a].status \in Kyc!Open => app[a].bound)
      BY <2>2 DEF Orderly, Handled, WaitingBound, KycTyped, Kyc!Open, Waiting
    <3> QED BY <2>1, <3>1, <3>2 DEF AppRow
  <2>4. WorksAlone' /\ DoneAsWritten'
    BY <2>1, <2>2 DEF WorksAlone, DoneAsWritten, Working, Kyc!At
  <2>5. Handled' /\ Closing'
    BY <2>3 DEF Handled, Closing, Kyc!Open, Waiting
  <2> QED BY <2>4, <2>5 DEF Orderly
<1> QED BY <1>1, <1>2

(* The identity: the invariant                                             *)

KycIInv ==
  /\ KycTyped /\ Informed /\ WaitingBound
  /\ ~cut /\ ~kycMet => Orderly

LEMMA KycInit == Kyc!Init => KycIInv
<1> SUFFICES ASSUME Kyc!Init PROVE KycIInv
  OBVIOUS
<1>1. Informed /\ WaitingBound
  BY DEF Kyc!Init, Informed, WaitingBound, Waiting, Kyc!Idle, Kyc!NoCustomer
<1>2. \A p \in Kyc!Processes : ~Working(p) /\ ~Kyc!At(p, "done")
  BY DEF Kyc!Init, Working, Worked, Kyc!At, Kyc!Idle
<1>3. Orderly
  BY <1>2 DEF Kyc!Init, Orderly, WorksAlone, Handled, DoneAsWritten, Closing, Kyc!NoCustomer
<1> QED BY <1>1, <1>3, KycTypedInit DEF KycIInv

LEMMA HistoryStays == KycTyped /\ [Kyc!Next]_Kyc!vars => (cut => cut') /\ (kycMet => kycMet')
<1> SUFFICES ASSUME KycTyped, [Kyc!Next]_Kyc!vars PROVE (cut => cut') /\ (kycMet => kycMet')
  OBVIOUS
<1>1. ASSUME NEW p \in Kyc!Processes, Kyc!Advance(p)
      PROVE  kycMet => kycMet'
  BY <1>1 DEF Kyc!Advance, Kyc!Find, Kyc!MarkProcessing, Kyc!PostProfile,
              Kyc!CreateCustomer, Kyc!UpdateCustomer, Kyc!PostVerify, Kyc!GetProfile,
              Kyc!WriteCustomer, Kyc!WriteApplication, Kyc!MarkFailed, Kyc!SyncGet,
              Kyc!SyncCustomer, Kyc!SyncApplications
<1>2. ASSUME NEW changed, Kyc!Identity(changed)
      PROVE  UNCHANGED <<cut, kycMet>>
  BY <1>2 DEF Kyc!Identity
<1>3. CASE \E p \in Kyc!Processes : Kyc!Runs(p)
  BY <1>1, <1>3 DEF Kyc!Runs, Kyc!Kept
<1>4. CASE \/ (Kyc!StartKyc \/ Kyc!GetStatus) /\ Kyc!Kept
           \/ Kyc!Polls \/ Kyc!Decide \/ Kyc!NoticeLost \/ UNCHANGED Kyc!vars
  BY <1>4 DEF Kyc!StartKyc, Kyc!GetStatus, Kyc!Kept, Kyc!Polls, Kyc!RetryPendingKyc,
              Kyc!Decide, Kyc!NoticeLost, Kyc!vars
<1>5. CASE \E n \in notices : Kyc!HandleCustomerWebhook(n)
  <2>1. UNCHANGED cut
    BY <1>5 DEF Kyc!HandleCustomerWebhook
  <2>2. CASE customer = Kyc!NoCustomer
    BY <1>5, <2>1, <2>2 DEF Kyc!HandleCustomerWebhook
  <2>3. CASE customer # Kyc!NoCustomer
    <3>1. kycMet' = (kycMet \/ \E p \in Kyc!Processes : ~Kyc!At(p, "idle"))
      BY <1>5, <2>3 DEF Kyc!HandleCustomerWebhook
    <3> QED BY <2>1, <3>1, Zenon
  <2> QED BY <2>2, <2>3
<1>6. CASE \/ \E all \in BOOLEAN : Kyc!SubmitKYC(all) \/ Kyc!SubmitFace(all)
           \/ Kyc!UploadIDDocument \/ Kyc!ApproveKYC \/ Kyc!RejectKYC
  <2>1. \E changed : Kyc!Identity(changed)
    BY <1>6, Zenon DEF Kyc!SubmitKYC, Kyc!SubmitFace, Kyc!UploadIDDocument, Kyc!ApproveKYC,
                       Kyc!RejectKYC
  <2> QED BY <1>2, <2>1
<1>7. CASE \E p \in Kyc!Processes : Kyc!CallFails(p) \/ Kyc!RequestLost(p)
  BY <1>7 DEF Kyc!CallFails, Kyc!RequestLost
<1> QED BY <1>3, <1>4, <1>5, <1>6, <1>7 DEF Kyc!Next

LEMMA OrderlyAdvance ==
  ASSUME KycTyped, Orderly, NEW p \in Kyc!Processes, Kyc!Advance(p), Kyc!Kept, ~kycMet'
  PROVE  Orderly'
<1> USE DEF Kyc!At
<1>0. kycReq[p] \in KycLocal /\ kycReq \in [Kyc!Processes -> KycLocal]
  BY DEF KycTyped
<1>1. CASE Kyc!Find(p)
  <2>1. CASE app[kycReq[p].app].status \in {"submitted", "in_review", "active"}
    <3>1. Left(p, "idle", Kyc!NoApp, Kyc!NoCustomer)
      BY <1>1, <2>1, Leaves DEF Kyc!Find
    <3> QED BY <1>1, <2>1, <3>1, OrderlyMove DEF Kyc!Find, Working, Worked, Chosen
  <2>2. CASE app[kycReq[p].app].status \notin {"submitted", "in_review", "active"}
    BY <1>1, <2>2, Leaves, OrderlyMove DEF Kyc!Find, Working, Worked, Chosen
  <2> QED BY <2>1, <2>2
<1>2. CASE Kyc!MarkProcessing(p)
  BY <1>2, OrderlyMark
<1>3. CASE Kyc!PostProfile(p)
  <2>1. PICK step \in {"create", "update"}, seen \in Kyc!Statuses :
         Left(p, step, kycReq[p].app, seen)
    <3>1. KycTyped'
      BY KycTypedAdvance
    <3>2. remote \in Kyc!Statuses /\ remote' \in Kyc!Statuses
      BY <3>1 DEF KycTyped
    <3> QED BY <1>3, <3>2, Leaves DEF Kyc!PostProfile
  <2> QED BY <1>3, <2>1, OrderlyMove DEF Kyc!PostProfile, Working, Worked, Chosen
<1>4. CASE Kyc!CreateCustomer(p)
  <2>1. CASE customer = Kyc!NoCustomer
    BY <1>4, <2>1, Leaves, OrderlyCustomer DEF Kyc!CreateCustomer, Working, Worked
  <2>2. CASE customer # Kyc!NoCustomer
    BY <1>4, <2>2, Leaves, OrderlyMove DEF Kyc!CreateCustomer, Working, Worked, Chosen
  <2> QED BY <2>1, <2>2
<1>5. CASE Kyc!UpdateCustomer(p)
  BY <1>5, Leaves, OrderlyCustomer DEF Kyc!UpdateCustomer, Working, Worked
<1>6. CASE Kyc!PostVerify(p)
  BY <1>6, Leaves, OrderlyMove DEF Kyc!PostVerify, Working, Worked, Chosen
<1>7. CASE Kyc!GetProfile(p)
  <2>1. Left(p, "write", kycReq[p].app, remote)
    BY <1>7, Leaves DEF Kyc!GetProfile
  <2> QED BY <1>7, <2>1, OrderlyMove DEF Kyc!GetProfile, Working, Worked, Chosen
<1>8. CASE Kyc!WriteCustomer(p)
  BY <1>8, Leaves, OrderlyCustomer DEF Kyc!WriteCustomer, Working, Worked
<1>9. CASE Kyc!WriteApplication(p)
  <2> DEFINE s == [status |-> IF kycReq[p].seen = "active" THEN "active" ELSE "submitted",
                   bound |-> TRUE]
  <2>1. /\ s \in AppRow /\ s.status \notin {"pending", "processing"}
        /\ s.status \in Waiting => kycReq[p].seen # "active"
    BY DEF AppRow, AppStatus, Kyc!Statuses, Kyc!Open, Waiting
  <2>2. /\ app' = [app EXCEPT ![kycReq[p].app] = s] /\ UNCHANGED customer
        /\ Left(p, "idle", Kyc!NoApp, Kyc!NoCustomer) /\ Working(p)
    BY <1>9, Leaves DEF Kyc!WriteApplication, Working, Worked
  <2>3. customer = kycReq[p].seen
    BY <1>9 DEF Kyc!WriteApplication, Orderly, DoneAsWritten
  <2> HIDE DEF s
  <2> QED BY <2>1, <2>2, <2>3, OrderlyClose
<1>10. CASE Kyc!MarkFailed(p)
  <2> DEFINE s == [app[kycReq[p].app] EXCEPT !.status = "failed"]
  <2>0. kycReq[p].app \in Kyc!Apps
    BY <1>10 DEF Kyc!MarkFailed, KycTyped, KycLocalOK, Worked
  <2>1. s \in AppRow /\ s.status = "failed"
    BY <2>0 DEF KycTyped, AppRow, AppStatus
  <2>2. /\ app' = [app EXCEPT ![kycReq[p].app] = s] /\ UNCHANGED customer
        /\ Left(p, "idle", Kyc!NoApp, Kyc!NoCustomer) /\ Working(p)
    BY <1>10, <2>0, Leaves DEF Kyc!MarkFailed, Kyc!SetApp, Working, Worked, KycTyped
  <2> HIDE DEF s
  <2> QED BY <2>1, <2>2, OrderlyClose DEF Waiting
<1>11. CASE Kyc!SyncGet(p)
  <2>1. Left(p, "syncCustomer", kycReq[p].app, remote)
    BY <1>11, Leaves DEF Kyc!SyncGet
  <2> QED BY <1>11, <2>1, OrderlyMove DEF Kyc!SyncGet, Working, Worked, Chosen
<1>12. CASE Kyc!SyncCustomer(p)
  BY <1>12, OrderlyLook
<1>13. CASE Kyc!SyncApplications(p)
  BY <1>13, OrderlyFollow
<1> QED BY <1>1, <1>2, <1>3, <1>4, <1>5, <1>6, <1>7, <1>8, <1>9, <1>10, <1>11, <1>12, <1>13
DEF Kyc!Advance

LEMMA OrderlyNext ==
  ASSUME KycTyped, WaitingBound, Orderly, [Kyc!Next]_Kyc!vars, ~cut', ~kycMet'
  PROVE  Orderly'
<1>1. ASSUME UNCHANGED <<app, customer, kycReq>>
      PROVE  Orderly'
  BY <1>1 DEF Orderly, WorksAlone, Handled, DoneAsWritten, Closing, Working, Kyc!At
<1>2. CASE Kyc!StartKyc /\ Kyc!Kept
  BY <1>2, OrderlyStart
<1>3. ASSUME NEW p \in Kyc!Processes, NEW a,
             Kyc!Begin(p, "find", a) \/ Kyc!Begin(p, "syncGet", a),
             UNCHANGED <<app, customer>>
      PROVE  Orderly'
  BY <1>3, Leaves, OrderlyMove DEF Working, Worked, Chosen, Kyc!At
<1>4. CASE Kyc!GetStatus /\ Kyc!Kept
  BY <1>3, <1>4 DEF Kyc!GetStatus, Kyc!Processes
<1>5. CASE \E p \in Kyc!Processes : Kyc!Runs(p)
  BY <1>5, OrderlyAdvance DEF Kyc!Runs
<1>6. CASE Kyc!Polls
  <2>1. CASE UNCHANGED kycReq
    BY <1>1, <1>6, <2>1 DEF Kyc!Polls, Kyc!RetryPendingKyc
  <2>2. CASE ~UNCHANGED kycReq
    BY <1>3, <1>6, <2>2 DEF Kyc!Polls, Kyc!RetryPendingKyc, Kyc!Processes
  <2> QED BY <2>1, <2>2
<1>7. ASSUME NEW n \in notices, Kyc!HandleCustomerWebhook(n)
      PROVE  Orderly'
  BY <1>7, OrderlyNotice
<1>8. ASSUME NEW p \in Kyc!Processes, Kyc!CallFails(p)
      PROVE  Orderly'
  <2>1. CASE Kyc!At(p, "syncGet")
    BY <1>8, <2>1, Leaves, OrderlyMove DEF Kyc!CallFails, Kyc!At, Working, Worked, Chosen
  <2>2. CASE ~Kyc!At(p, "syncGet")
    BY <1>8, <2>2, Leaves, OrderlyMove DEF Kyc!CallFails, Kyc!At, Working, Worked, Chosen
  <2> QED BY <2>1, <2>2
<1>9. ASSUME NEW p \in Kyc!Processes, Kyc!RequestLost(p)
      PROVE  FALSE
  BY <1>9 DEF Kyc!RequestLost
<1>10. CASE \/ \E all \in BOOLEAN : Kyc!SubmitKYC(all) \/ Kyc!SubmitFace(all)
            \/ Kyc!UploadIDDocument \/ Kyc!ApproveKYC \/ Kyc!RejectKYC
            \/ Kyc!Decide \/ Kyc!NoticeLost \/ UNCHANGED Kyc!vars
  BY <1>1, <1>10 DEF Kyc!SubmitKYC, Kyc!SubmitFace, Kyc!UploadIDDocument, Kyc!ApproveKYC,
                     Kyc!RejectKYC, Kyc!Identity, Kyc!Decide, Kyc!NoticeLost, Kyc!vars
<1> QED BY <1>2, <1>4, <1>5, <1>6, <1>7, <1>8, <1>9, <1>10 DEF Kyc!Next

LEMMA KycStep == KycIInv /\ [Kyc!Next]_Kyc!vars => KycIInv'
BY KycTypedNext, InformedNext, WaitingNext, HistoryStays, OrderlyNext DEF KycIInv

\* Of an application, of the customer and of Busha's decision, the handler of the user,
\* the poller and the notices know no more than is so, and unless a handler was cut
\* short or they met, every open application has one handler that will close it.
THEOREM KycInvariance == Kyc!Spec => []KycIInv
BY KycInit, KycStep, PTL DEF Kyc!Spec

LEMMA KycTypes == KycIInv => Kyc!TypeOK
BY DEF KycIInv, KycTyped, Kyc!TypeOK, AppRow, AppStatus, KycLocal

LEMMA KycApproved == KycIInv => Kyc!TradesApproved
<1> SUFFICES ASSUME KycIInv, customer = "active"
             PROVE  /\ remote = "active"
                    /\ ~cut /\ ~kycMet /\ (\A p \in Kyc!Processes : Kyc!At(p, "idle")) =>
                         \A a \in Kyc!Apps :
                           app[a].status \notin {"processing", "submitted", "in_review"}
  BY DEF Kyc!TradesApproved
<1>1. remote = "active"
  BY DEF KycIInv, Informed
<1>2. ASSUME ~cut, ~kycMet, \A p \in Kyc!Processes : Kyc!At(p, "idle"), NEW a \in Kyc!Apps
      PROVE  app[a].status \notin {"processing", "submitted", "in_review"}
  <2>1. app[a].status # "processing"
    BY <1>2 DEF KycIInv, Orderly, Handled, Working, Worked, Kyc!At
  <2>2. app[a].status \notin Waiting
    BY <1>2 DEF KycIInv, Orderly, Closing, Kyc!At
  <2> QED BY <2>1, <2>2 DEF Waiting
<1> QED BY <1>1, <1>2

-----------------------------------------------------------------------------
(* Beside the trades                                                       *)

\* What is kept of the identity is kept beside the trades, the account and the quotes.
THEOREM TraderKycInvariance == TraderSpec => []KycIInv
<1>1. TraderInit => KycIInv
  BY KycInit DEF TraderInit
<1>2. KycIInv /\ [TraderNext]_<<part, vars, accountVars, kycVars, quoteVars>> => KycIInv'
  <2> SUFFICES ASSUME KycIInv,
                      [TraderNext]_<<part, vars, accountVars, kycVars, quoteVars>>
               PROVE  KycIInv'
    OBVIOUS
  <2>1. [Kyc!Next]_Kyc!vars
    BY DEF TraderNext, KycNext, kycVars, Kyc!vars
  <2> QED BY <2>1, KycStep
<1> QED BY <1>1, <1>2, PTL DEF TraderSpec

\* The customer row lets a user trade only once Busha has approved, and then no
\* application is left open, unless a handler was cut short or handlers met.
THEOREM TraderTradesApproved == TraderSpec => []TradesApproved
<1>1. KycIInv => TradesApproved
  BY KycTypes, KycApproved DEF TradesApproved
<1> QED BY TraderKycInvariance, <1>1, PTL
=============================================================================
