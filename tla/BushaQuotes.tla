---------------------------- MODULE BushaQuotes ----------------------------
(***************************************************************************)
(* What leads up to a transfer at Busha (services/busha/                   *)
(* busha.app.service.ts): the estimate of a sale, for which Busha wants a  *)
(* bank account it already knows; the sale itself, paid out to the         *)
(* platform's bank or to an account that PalmPay opens for one exact       *)
(* amount, while Busha's price moves from quote to quote; the limits that  *)
(* a withdrawal is held to; and the address of a deposit.  What comes of   *)
(* the transfers is BushaTrade's.                                          *)
(***************************************************************************)
EXTENDS Integers, Sequences, FiniteSets, SequencesExt

CONSTANTS
  Requests,   \* handlers in progress at the same time
  Prices,     \* what Busha may pay for the coin that is sold, in naira
  MinPayout,  \* NGN 100, the least that PalmPay opens an account for
  Limits,     \* what Busha may tell of networks: whether coin may leave, the least
              \* and most (0 if open) that leaves, the least that arrives
  Keys,       \* the names a client may give a network
  Amounts,    \* the amounts of coin withdrawn
  Mixes       \* bound: whether sales or withdrawals and deposits are made, and how many;
              \* how many prices, limits and profiles change, accounts die, calls fail

None == 0
NoRow == "none"
Unavailable == <<>>  \* no network has limits
VARIABLES
  mix,         \* the mix that is made
  platform,    \* busha_config: sellPayoutMode, whether a bank is given, payoutRecipientId
  profile,     \* bushaCustomer.providerData: the version of Busha's profile it holds,
               \* and the recipient cached in it
  synced,      \* history: the version that the last sync wrote
  recipients,  \* Busha: the accounts it may pay to, a bank's or one of PalmPay's orders
  orders,      \* PalmPay: the amount that each account it opened waits for
  price,       \* Busha: what it pays now
  limits,      \* Busha: what it takes now, by network
  transfers,   \* Busha: the transfers that were opened
  trades,      \* the rows of bushaTradeLog for sales, and their fiat rows
  coins,       \* the rows of bushaTradeLog for coin sent and received
  req,         \* the locals of each handler
  sales, moves,\* how many requests began; how often the world moved
  crossed      \* history: a sync ran while an estimate was made
quoteVars == <<mix, platform, profile, synced, recipients, orders, price, limits, transfers,
               trades, coins, req, sales, moves, crossed>>

Idle ==
  [pc |-> "idle", kind |-> "none", again |-> FALSE, tries |-> 0, seen |-> [data |-> 0, cached |-> None],
   pays |-> None, conf |-> None, to |-> None, quote |-> 0, net |-> NoRow, told |-> Unavailable]

\* An account for POST /v1/recipients: a bank's, or that of one of PalmPay's orders.
BANK == None
Account(order) == [order |-> order, live |-> TRUE]
Sold(to, amount, order) == [to |-> to, credit |-> amount, order |-> order]

\* The user may have sold before, when PalmPay took sales in.
Init ==
  /\ mix \in Mixes
  /\ platform \in [mode : {"palmpay_temp", "dashboard_bank"}, bank : BOOLEAN, recipient : {None}]
  /\ \E n \in {0, 1} :
       /\ recipients = [i \in 1..n |-> Account(i)] /\ orders = [i \in 1..n |-> MinPayout]
       /\ transfers = [i \in 1..n |-> [to |-> i, amount |-> MinPayout]]
       /\ trades = [i \in 1..n |-> Sold(i, MinPayout, i)]
  /\ profile = [data |-> 0, cached |-> None] /\ synced = 0
  /\ coins = <<>>
  /\ price \in Prices /\ limits \in Limits
  /\ req = [p \in Requests |-> Idle]
  /\ sales = 0 /\ moves = 0 /\ crossed = FALSE

At(p, step) == req[p].pc = step
Set(p, r) == req' = [req EXCEPT ![p] = r]
Goto(p, step) == Set(p, [req[p] EXCEPT !.pc = step])
Finish(p) == Set(p, Idle)
Begin(p, r) == At(p, "idle") /\ sales < mix.sales /\ sales' = sales + 1 /\ Set(p, r)
Move == moves < mix.moves /\ moves' = moves + 1

-----------------------------------------------------------------------------
(* previewSell                                                             *)

\* An estimate, or a sale, which begins with one.
Start(p, kind) ==
  /\ Begin(p, [Idle EXCEPT !.pc = "read", !.kind = kind, !.pays = platform.recipient])
  /\ UNCHANGED <<mix, platform, profile, synced, recipients, orders, price, limits, transfers,
                 trades, coins, moves, crossed>>

\* The customer, who is active and so not synced, and at the first try the configuration,
\* are read.
Read(p) ==
  /\ At(p, "read")
  /\ Set(p, [req[p] EXCEPT !.pc = "ensure", !.seen = profile,
                           !.conf = IF req[p].again THEN @ ELSE platform.recipient])
  /\ UNCHANGED <<mix, platform, profile, synced, recipients, orders, price, limits, transfers,
                 trades, coins, sales, moves, crossed>>

\* The account the quote is asked for: the cached one, which is not written again; the
\* configured one, made if it must be; one that Busha lists, a bank's rather than
\* PalmPay's; that of the last sale; or none.
Listed == {r \in DOMAIN recipients : recipients[r].live}
Banks == {r \in Listed : recipients[r].order = BANK}
First(S) == CHOOSE r \in S : \A x \in S : r <= x
Known ==
  IF Banks # {} THEN First(Banks)
  ELSE IF Listed # {} THEN First(Listed)
  ELSE IF trades # <<>> THEN Last(trades).to ELSE None
EnsureRecipient(p) ==
  /\ At(p, "ensure")
  /\ LET q == req[p]
         Use(r, step) == Set(p, [q EXCEPT !.pc = step, !.to = r])
     IN \/ q.seen.cached # None /\ Use(q.seen.cached, "quote") /\ UNCHANGED recipients
        \/ /\ q.seen.cached = None /\ platform.bank
           /\ IF q.conf # None THEN Use(q.conf, "persist") /\ UNCHANGED recipients
              ELSE /\ recipients' = Append(recipients, Account(BANK))
                   /\ Use(Len(recipients) + 1, "persist")
        \/ /\ q.seen.cached = None /\ ~platform.bank /\ UNCHANGED recipients
           /\ IF Known = None THEN Finish(p) ELSE Use(Known, "persist")
  /\ UNCHANGED <<mix, platform, profile, synced, orders, price, limits, transfers, trades, coins,
                 sales, moves, crossed>>

\* providerData is written whole, from what was read.
PersistRecipient(p) ==
  /\ At(p, "persist") \/ At(p, "clear")
  /\ IF At(p, "persist")
     THEN profile' = [data |-> req[p].seen.data, cached |-> req[p].to] /\ Goto(p, "quote")
     ELSE /\ profile' = [data |-> req[p].seen.data, cached |-> None]
          /\ Set(p, [req[p] EXCEPT !.pc = "read", !.again = TRUE])
  /\ UNCHANGED <<mix, platform, synced, recipients, orders, price, limits, transfers, trades,
                 coins, sales, moves, crossed>>

\* Busha refuses an account that is no longer live: the cache is cleared and all is tried
\* once more.  An estimate ends here; a sale goes on if it is worth paying out.
Quote(p) ==
  /\ At(p, "quote")
  /\ IF ~recipients[req[p].to].live
     THEN IF req[p].again THEN Finish(p) ELSE Goto(p, "clear")
     ELSE IF req[p].kind = "sell" /\ price >= MinPayout
     THEN Set(p, [req[p] EXCEPT !.pc = "payout", !.quote = price]) ELSE Finish(p)
  /\ UNCHANGED <<mix, platform, profile, synced, recipients, orders, price, limits, transfers,
                 trades, coins, sales, moves, crossed>>

-----------------------------------------------------------------------------
(* executeSell                                                             *)

\* To the platform's bank, whose recipient is made and kept if the handler knows of none.
DashboardBank(p) ==
  /\ At(p, "payout") /\ platform.mode = "dashboard_bank"
  /\ IF ~platform.bank THEN Finish(p) /\ UNCHANGED recipients
     ELSE IF req[p].pays = None
     THEN /\ recipients' = Append(recipients, Account(BANK))
          /\ Set(p, [req[p] EXCEPT !.pc = "config", !.to = Len(recipients) + 1])
     ELSE UNCHANGED recipients /\ Set(p, [req[p] EXCEPT !.pc = "requote", !.to = req[p].pays])
  /\ UNCHANGED <<mix, platform, profile, synced, orders, price, limits, transfers, trades, coins,
                 sales, moves, crossed>>
KeepRecipient(p) ==
  /\ At(p, "config")
  /\ platform' = [platform EXCEPT !.recipient = req[p].to]
  /\ Goto(p, "requote")
  /\ UNCHANGED <<mix, profile, synced, recipients, orders, price, limits, transfers, trades,
                 coins, sales, moves, crossed>>

\* createPalmPaySellDestination: PalmPay opens an account for the amount, and Busha
\* learns of it.
PalmPayDestination(p, amount, tries) ==
  /\ orders' = Append(orders, amount)
  /\ recipients' = Append(recipients, Account(Len(orders) + 1))
  /\ Set(p, [req[p] EXCEPT !.pc = "requote", !.tries = tries, !.to = Len(recipients) + 1])
PalmPayTemp(p) ==
  /\ At(p, "payout") /\ platform.mode = "palmpay_temp"
  /\ PalmPayDestination(p, req[p].quote, 0)
  /\ UNCHANGED <<mix, platform, profile, synced, price, limits, transfers, trades, coins, sales,
                 moves, crossed>>

\* exactNgn and ngnAmountsMatch: PalmPay's amounts are locked to the kobo.
Match(order, amount) == orders[order] = amount
\* Mutant: the account of the last try is taken whatever it waits for.
RequoteUnchecked(p) ==
  /\ At(p, "requote") /\ UNCHANGED <<orders, recipients>>
  /\ Set(p, [req[p] EXCEPT !.pc = "transfer", !.quote = price])
  /\ UNCHANGED <<mix, platform, profile, synced, price, limits, transfers, trades, coins, sales,
                 moves, crossed>>
\* The quote for the account.  PalmPay's must wait for exactly what is quoted: twice
\* another one is opened for the new amount, and quoted again.
Requote(p) ==
  /\ At(p, "requote")
  /\ LET q == req[p]
         order == recipients[q.to].order
     IN IF ~recipients[q.to].live THEN Finish(p) /\ UNCHANGED <<orders, recipients>>
        ELSE IF order = BANK \/ (Match(order, price) /\ (q.tries = 2 \/ price >= MinPayout))
        THEN /\ Set(p, [q EXCEPT !.pc = "transfer", !.quote = price])
             /\ UNCHANGED <<orders, recipients>>
        ELSE IF q.tries < 2 /\ price >= MinPayout THEN PalmPayDestination(p, price, q.tries + 1)
        ELSE Finish(p) /\ UNCHANGED <<orders, recipients>>
  /\ UNCHANGED <<mix, platform, profile, synced, price, limits, transfers, trades, coins, sales,
                 moves, crossed>>

\* Busha opens the transfer for what it quoted.
OpenTransfer(p) ==
  /\ At(p, "transfer")
  /\ transfers' = Append(transfers, [to |-> req[p].to, amount |-> req[p].quote])
  /\ Goto(p, "write")
  /\ UNCHANGED <<mix, platform, profile, synced, recipients, orders, price, limits, trades, coins,
                 sales, moves, crossed>>
\* The fiat row and the trade row: what will be credited, and PalmPay's order, if any.
WriteTrade(p) ==
  /\ At(p, "write")
  /\ trades' = Append(trades, Sold(req[p].to, req[p].quote, recipients[req[p].to].order))
  /\ Finish(p)
  /\ UNCHANGED <<mix, platform, profile, synced, recipients, orders, price, limits, transfers,
                 coins, sales, moves, crossed>>

-----------------------------------------------------------------------------
(* previewSend, executeSend, getDepositAddress and createReceive, for USDT  *)

\* toBushaNetwork, of the names that Keys holds and of networks themselves.
Network(key) ==
  CASE key \in {"ethereum", "erc20"} -> "ETH" [] key \in {"bep20", "bsc"} -> "BSC"
    [] key = "bnb" -> "BNB" [] key = "polygon" -> "MATIC" [] OTHER -> key

\* getWithdrawLimits: whatever Busha lists, a stablecoin has the networks it is known to
\* have, without limits where Busha tells none; BNB Smart Chain goes by two names.
Stable == <<"TRX", "ETH", "BSC", "SOL">>
Unlimited == [on |-> TRUE, min |-> 0, max |-> 0, minDeposit |-> 0]
Shown ==
  [n \in ToSet(Stable) |-> IF n \in DOMAIN limits THEN limits[n] ELSE Unlimited]

\* matchCurrencyNetwork: the row whose name or network the key stands for.
MatchCurrencyNetwork(key) ==
  LET rows == {i \in DOMAIN Stable :
                 Stable[i] = Network(key) \/ (Stable[i] = "BSC" /\ key = "bnb")}
  IN IF rows = {} THEN NoRow ELSE Stable[First(rows)]

\* assertWithdrawAmountWithinLimits: nothing is held against a network without a row,
\* as all are when Busha does not answer.
Within(told, row, amount) ==
  row \in DOMAIN told =>
    /\ told[row].on /\ amount >= told[row].min
    /\ told[row].max > 0 => amount <= told[row].max
Ask(p, kind, key, amount, told) ==
  Begin(p, [Idle EXCEPT !.pc = kind, !.kind = key, !.quote = amount,
                        !.net = MatchCurrencyNetwork(key), !.told = told])
Asked(p, kind, key, amount) ==
  /\ \/ moves' = moves /\ Ask(p, kind, key, amount, Shown)
     \/ Move /\ Ask(p, kind, key, amount, Unavailable)
  /\ UNCHANGED <<mix, platform, profile, synced, recipients, orders, price, limits, transfers,
                 trades, coins, crossed>>
StartSend(p, key, amount) == Asked(p, "send", key, amount)
\* An address that Busha gives writes nothing.  If it does not, coin is received by a
\* transfer, of the least deposit or, for want of one, of one coin.
StartDeposit(p, key) == Asked(p, "receive", key, 1)

\* The quote and the transfer, and the row.
CoinRow(p, side, amount) ==
  [side |-> side, net |-> Network(req[p].kind), amount |-> amount, told |-> req[p].told]
Coin(p, row) ==
  /\ coins' = Append(coins, row) /\ Finish(p)
  /\ UNCHANGED <<mix, platform, profile, synced, recipients, orders, price, limits, transfers,
                 trades, sales, moves, crossed>>
ExecuteSend(p) ==
  /\ At(p, "send")
  /\ Within(req[p].told, req[p].net, req[p].quote)
  /\ Coin(p, CoinRow(p, "send", req[p].quote))
\* An estimate ends after the check, and so does what fails it.
PreviewSend(p) ==
  /\ At(p, "send") /\ Finish(p)
  /\ UNCHANGED <<mix, platform, profile, synced, recipients, orders, price, limits, transfers,
                 trades, coins, sales, moves, crossed>>
CreateReceive(p) ==
  /\ At(p, "receive")
  /\ LET row == req[p].net
         least == IF row \in DOMAIN req[p].told THEN req[p].told[row].minDeposit ELSE 0
     IN Coin(p, CoinRow(p, "receive", IF least > 0 THEN least ELSE req[p].quote))

-----------------------------------------------------------------------------
(* Busha, and the sync of the customer                                     *)

Unmoved == <<mix, platform, transfers, trades, coins, sales, orders>>
Reprice ==
  /\ Move /\ \E n \in Prices \ {price} : price' = n
  /\ UNCHANGED <<Unmoved, profile, synced, recipients, limits, req, crossed>>
Relimit ==
  /\ Move /\ \E l \in Limits \ {limits} : limits' = l
  /\ UNCHANGED <<Unmoved, profile, synced, recipients, price, req, crossed>>
Retire ==
  /\ Move /\ \E r \in Listed : recipients' = [recipients EXCEPT ![r].live = FALSE]
  /\ UNCHANGED <<Unmoved, profile, synced, price, limits, req, crossed>>
\* Busha's profile changes, and is mirrored over whatever was cached
\* (syncCustomerFromProvider).
Sync ==
  /\ Move /\ synced' = synced + 1
  /\ profile' = [data |-> synced + 1, cached |-> None]
  /\ crossed' = (crossed \/ \E p \in Requests : ~At(p, "idle"))
  /\ UNCHANGED <<Unmoved, recipients, price, limits, req>>
\* A call to Busha or PalmPay fails, or the handler is cut short; nothing is undone.
Refused(p) ==
  /\ Move /\ ~At(p, "idle") /\ Finish(p)
  /\ UNCHANGED <<Unmoved, profile, synced, recipients, price, limits, crossed>>

Sale(p) ==
  \/ mix.of = "sales" /\ \E kind \in {"preview", "sell"} : Start(p, kind)
  \/ Read(p) \/ EnsureRecipient(p) \/ PersistRecipient(p) \/ Quote(p)
  \/ DashboardBank(p) \/ KeepRecipient(p) \/ PalmPayTemp(p) \/ Requote(p)
  \/ OpenTransfer(p) \/ WriteTrade(p)
CoinMove(p) ==
  \/ /\ mix.of = "coins"
     /\ \E key \in Keys : StartDeposit(p, key) \/ \E a \in Amounts : StartSend(p, key, a)
  \/ ExecuteSend(p) \/ PreviewSend(p) \/ CreateReceive(p)
Next ==
  \/ \E p \in Requests : Sale(p) \/ CoinMove(p) \/ Refused(p)
  \/ mix.of = "sales" /\ (Reprice \/ Retire \/ Sync)
  \/ mix.of = "coins" /\ Relimit
QuotesSpec == Init /\ [][Next]_quoteVars

-----------------------------------------------------------------------------
TypeOK ==
  /\ price \in Prices /\ limits \in Limits
  /\ profile.cached \in 0..Len(recipients) /\ platform.recipient \in 0..Len(recipients)
  /\ \A r \in DOMAIN recipients : recipients[r].order \in 0..Len(orders)
  /\ \A p \in Requests : req[p].to \in 0..Len(recipients)

\* A sale that PalmPay takes in is sent to an account of its own, which waits for exactly
\* what Busha sends, however the price moved; the rows tell that account and that
\* amount; and a sale opens at most three accounts, an estimate none.
OrderOf(t) == recipients[t.to].order
PayoutAligned ==
  /\ platform.mode = "palmpay_temp" =>
       /\ \A t \in ToSet(transfers) : OrderOf(t) # BANK /\ orders[OrderOf(t)] = t.amount
       /\ \A i, j \in DOMAIN transfers : i # j => transfers[i].to # transfers[j].to
       /\ \A t \in ToSet(trades) : t.order # BANK /\ orders[t.order] = t.credit
  /\ platform.mode = "dashboard_bank" => Len(orders) <= 1
  /\ \A t \in ToSet(trades) : [to |-> t.to, amount |-> t.credit] \in ToSet(transfers)
  /\ Len(orders) <= 1 + 3 * sales

\* Coin moves within what Busha told of the very network it moves over, unless Busha
\* told nothing.
WithinLimits ==
  \A c \in ToSet(coins) :
    c.net \in DOMAIN c.told =>
      LET l == c.told[c.net]
      IN IF c.side = "receive" THEN c.amount >= l.minDeposit
         ELSE l.on /\ c.amount >= l.min /\ (l.max > 0 => c.amount <= l.max)

\* Looking up an estimate rewrites the customer's row from what was read, and loses no
\* news of the customer unless it came meanwhile.
ProfileKept == ~crossed => profile.data = synced
=============================================================================
