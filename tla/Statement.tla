------------------------------ MODULE Statement ------------------------------
(***************************************************************************)
(* What a user is shown of the ledger (modules/transaction-history and     *)
(* getHomeTransactions of modules/home): the history with its two lists    *)
(* and its summary, the four detailed views and the wallet's own rows with *)
(* their pages, and the home page.  One user of two; the other one is the  *)
(* peer of a P2P order.                                                    *)
(*                                                                         *)
(* A row is a row of transactions with what the views tell apart.  Rows    *)
(* are written and end while the user reads page after page.               *)
(***************************************************************************)
EXTENDS Integers, Sequences, FiniteSets, SequencesExt

CONSTANTS
  User, Peer,     \* the reader, who placed the ad of the order, and who took it
  MaxRows,        \* bound: the rows written
  PageSize        \* limit: the rows of a page; 50 unless the query says otherwise

VARIABLES
  adType,   \* the order's type: what its vendor, the user, does with the coin
  ledger,   \* the rows, the newest last
  reader    \* the view being read, and what its pages have shown

vars == <<adType, ledger, reader>>

-----------------------------------------------------------------------------
(* The rows that the program writes.  effect is what the writer does to    *)
(* the wallet of the row.                                                  *)

Kind(type, wallet, channel, effect) ==
  [type |-> type, wallet |-> wallet, channel |-> channel, step |-> "none", effect |-> effect]
OwnKinds ==
  {Kind("deposit", "fiat", "bank_transfer", 1),  Kind("deposit", "crypto", "crypto", 1),
   Kind("withdrawal", "fiat", "conversion", -1), Kind("bill_payment", "fiat", "airtime", -1),
   Kind("crypto_buy", "fiat", "busha", -1),      Kind("crypto_sell", "fiat", "busha", 1)}

\* recordTransaction, by step: for whom the row is written, on which wallet.  An order
\* that is accepted is recorded as one that is created; a transfer as a withdrawal.
Step(party, wallet, effect) == [party |-> party, wallet |-> wallet, effect |-> effect]
OrderSteps ==
  [order_created               |-> Step("seller", "crypto", 0),
   payment_confirmed           |-> Step("buyer", "fiat", 0),
   payment_completed_rhinoxpay |-> Step("buyer", "fiat", -1),
   payment_received_rhinoxpay  |-> Step("seller", "fiat", 1),
   payment_received            |-> Step("seller", "fiat", 0),
   crypto_debited              |-> Step("seller", "crypto", -1),
   crypto_credited             |-> Step("buyer", "crypto", 1)]
StepKind(s) ==
  [Kind("p2p", OrderSteps[s].wallet, "p2p", OrderSteps[s].effect) EXCEPT !.step = s]

\* resolveRoles of the orders: a vendor's buy ad makes the vendor the buyer.
Party(role) == IF (role = "buyer") = (adType = "buy") THEN User ELSE Peer

Row(owner, kind, status) == [owner |-> owner, kind |-> kind, status |-> status]
Rows(u) == {i \in DOMAIN ledger : ledger[i].owner = u}

-----------------------------------------------------------------------------
(* The history                                                             *)

BushaTypes == {"crypto_buy", "crypto_sell", "crypto_deposit", "crypto_withdrawal",
               "crypto_send", "crypto_recv"}

\* Busha's buys and sells are on the fiat wallet, and belong under crypto.
isCryptoHistoryTx(k) ==
  k.wallet = "crypto" \/ k.channel \in {"busha", "crypto"} \/ k.type \in BushaTypes

FiatList(u) == {i \in Rows(u) : ~isCryptoHistoryTx(ledger[i].kind)}
CryptoList(u) == Rows(u) \ FiatList(u)

\* The side of the summary that a row is counted on: of an order, its coins only.
Incoming(k) ==
  \/ k.type \in {"deposit", "crypto_sell", "crypto_recv"}
  \/ k.type = "p2p" /\ k.step = "crypto_credited"
Outgoing(k) ==
  \/ k.type \in {"withdrawal", "transfer", "bill_payment", "crypto_buy", "crypto_send",
                 "crypto_withdrawal"}
  \/ k.type = "p2p" /\ k.step \in {"crypto_debited", "crypto_frozen"}

\* normalizeTransactionType, as far as it tells fiat from crypto.
CryptoLabels == {"Buy Crypto", "Sell Crypto", "Crypto Deposit", "Crypto Withdrawal",
                 "Crypto Transaction"}
Label(k) ==
  CASE k.type = "crypto_buy" -> "Buy Crypto"
    [] k.type = "crypto_sell" -> "Sell Crypto"
    [] k.type \in {"crypto_deposit", "crypto_recv"} -> "Crypto Deposit"
    [] k.type \in {"crypto_withdrawal", "crypto_send"} -> "Crypto Withdrawal"
    [] k.type = "p2p" -> "P2P Transactions"
    [] OTHER ->
         IF k.wallet = "crypto" \/ k.channel \in {"busha", "crypto"}
         THEN CASE k.type = "deposit" -> "Crypto Deposit"
                [] k.type \in {"withdrawal", "transfer"} -> "Crypto Withdrawal"
                [] OTHER -> "Crypto Transaction"
         ELSE CASE k.type = "transfer" -> "Send Transactions"
                [] k.type = "deposit" -> "Fund Transaction"
                [] k.type = "withdrawal" -> "Withdrawals"
                [] k.type = "bill_payment" -> "Bill Payments"
                [] OTHER -> "Transaction"

\* The rows that generateTypeSummary adds up: those of a label on a kind of wallet.
Group(k) == <<Label(k), k.wallet>>

\* resolveP2PDirection, for an order that is found: whose wallet the row is on, and
\* the user's role in the order, read again from the order.
Direction(k, u) ==
  LET buyer == u = Party("buyer")
      coin  == k.wallet = "crypto"
  IN  CASE k.step = "payment_completed_rhinoxpay" -> IF buyer THEN "outgoing" ELSE "incoming"
        [] k.step \in {"payment_received_rhinoxpay", "payment_received"} ->
             IF buyer THEN "outgoing" ELSE "incoming"
        [] k.step = "crypto_credited" -> IF coin \/ buyer THEN "incoming" ELSE "neutral"
        [] k.step \in {"crypto_debited", "crypto_frozen"} ->
             IF coin \/ ~buyer THEN "outgoing" ELSE "neutral"
        [] OTHER -> "neutral"

-----------------------------------------------------------------------------
(* The home page: the latest rows of the fiat wallets, without those that  *)
(* belong under crypto, and the latest of those.                           *)

Latest(S, n) == {i \in S : Cardinality({j \in S : j > i}) < n}
HomeCryptoTx(k) ==
  \/ k.channel \in {"busha", "crypto"}
  \/ k.type \in {"crypto_buy", "crypto_sell", "crypto_deposit", "crypto_withdrawal"}
HomeFiat(u) ==
  {i \in Latest({j \in Rows(u) : ledger[j].kind.wallet = "fiat"}, PageSize) :
     ~HomeCryptoTx(ledger[i].kind)}
HomeCrypto(u) ==
  Latest({i \in Rows(u) : ledger[i].kind.wallet = "crypto" \/ HomeCryptoTx(ledger[i].kind)},
         PageSize)

-----------------------------------------------------------------------------
(* The detailed views                                                      *)

Deposits(k) == k.wallet = "fiat" /\ k.type = "deposit"
Withdrawals(k) == k.wallet = "fiat" /\ k.type \in {"transfer", "withdrawal"}
P2P(k) == k.type = "p2p" /\ k.channel = "p2p"
BillPayments(k) == k.wallet = "fiat" /\ k.type = "bill_payment"
WalletRows(k) == k.wallet = "fiat"   \* getTransactions of the fiat wallet's own page
Detailed == {"deposits", "withdrawals", "p2p", "bills"}
Views == Detailed \cup {"wallet"}
Fits(view, k) ==
  CASE view = "deposits" -> Deposits(k)
    [] view = "withdrawals" -> Withdrawals(k)
    [] view = "p2p" -> P2P(k)
    [] view = "bills" -> BillPayments(k)
    [] view = "wallet" -> WalletRows(k)

\* The rows that a view lists, with its filter by status.
Listed(view, status) ==
  {i \in Rows(User) : /\ Fits(view, ledger[i].kind)
                      /\ status = "All" \/ ledger[i].status = status}
\* Mutant: the page is cut from all of the user's rows, and filtered then.
PageOfAll(view, status, offset) ==
  {i \in Listed(view, status) :
     Cardinality({j \in Rows(User) : j > i}) \in offset .. offset + PageSize - 1}

\* The newest first: what is left after skipping offset rows, up to the limit.
Page(view, status, offset) ==
  LET S == Listed(view, status)
  IN  {i \in S : Cardinality({j \in S : j > i}) \in offset .. offset + PageSize - 1}

-----------------------------------------------------------------------------
Closed == [view |-> "closed", status |-> "All", offset |-> 0, shown |-> {}, there |-> {},
           left |-> FALSE, ended |-> FALSE]

Init ==
  /\ adType \in {"buy", "sell"}
  /\ ledger = <<>>
  /\ reader = Closed

\* A row is written, of the user's own or by a step of the order, each step once.
Write(row) ==
  /\ Len(ledger) < MaxRows
  /\ ledger' = Append(ledger, row)
  /\ UNCHANGED <<adType, reader>>
WriteOwn == \E k \in OwnKinds : Write(Row(User, k, "pending"))
WriteStep ==
  \E s \in DOMAIN OrderSteps :
    /\ \A i \in DOMAIN ledger : ledger[i].kind.step # s
    /\ Write(Row(Party(OrderSteps[s].party), StepKind(s), "completed"))

\* A row ends; it may leave the view that is being read.  Rows of the crypto list end
\* too, but are in no view that filters by status.
End(i) ==
  /\ ledger[i].status = "pending" /\ i \in FiatList(User)
  /\ ledger' = [ledger EXCEPT ![i].status = "completed"]
  /\ reader' = [reader EXCEPT !.left =
       @ \/ (reader.status = "pending" /\ i \in Listed(reader.view, "pending"))]
  /\ UNCHANGED adType

Open(view, status) ==
  /\ reader = Closed
  /\ reader' = [Closed EXCEPT !.view = view, !.status = status,
                              !.there = Listed(view, status)]
  /\ UNCHANGED <<adType, ledger>>

\* The next page; a page that is not full is the last.
ReadPage ==
  /\ reader.view \in Views /\ ~reader.ended
  /\ LET page == Page(reader.view, reader.status, reader.offset)
     IN  reader' = [reader EXCEPT !.offset = @ + PageSize, !.shown = @ \cup page,
                                  !.ended = Cardinality(page) < PageSize]
  /\ UNCHANGED <<adType, ledger>>

Close ==
  /\ reader.ended
  /\ reader' = Closed
  /\ UNCHANGED <<adType, ledger>>

Next ==
  \/ WriteOwn \/ WriteStep \/ (\E i \in DOMAIN ledger : End(i))
  \/ (\E view \in Views : Open(view, "All"))
  \/ (\E view \in Detailed : Open(view, "pending"))
  \/ ReadPage \/ Close

Spec == Init /\ [][Next]_vars

-----------------------------------------------------------------------------
(* Properties                                                              *)

\* Every variable has its type.
TypeOK ==
  /\ adType \in {"buy", "sell"}
  /\ Len(ledger) <= MaxRows
  /\ reader.view \in Views \cup {"closed"}
  /\ reader.shown \cup reader.there \subseteq DOMAIN ledger

\* The three ways in which the code tells fiat from crypto agree: the detailed views
\* list every row of the fiat list and no other on a fiat wallet, labels say crypto of
\* the crypto list only, no group of the summary takes rows of both lists, and the home
\* page puts no row in the other list.
ViewsAgree ==
  /\ \A i \in Rows(User) :
       LET k == ledger[i].kind
       IN  /\ k.wallet = "fiat" =>
                (i \in FiatList(User) <=> \E v \in Detailed : Fits(v, k))
           /\ Label(k) \in CryptoLabels <=> i \in CryptoList(User) /\ k.type # "p2p"
           /\ \A j \in Rows(User) :
                Group(ledger[j].kind) = Group(k) =>
                  (j \in FiatList(User) <=> i \in FiatList(User))
  /\ HomeFiat(User) \subseteq FiatList(User)
  /\ HomeCrypto(User) \subseteq CryptoList(User)

\* Rows are counted on the side their writer moved the wallet to: in the summary
\* all but an order's payments, and in the P2P view the orders' rows, for both parties.
\* A payment made outside of the app moves no wallet, and is shown as received.
SidesFollowEffects ==
  \A i \in DOMAIN ledger :
    LET k == ledger[i].kind
        side == Direction(k, ledger[i].owner)
        paid == k.type = "p2p" /\ k.wallet = "fiat"
    IN  /\ Incoming(k) <=> k.effect = 1 /\ ~paid
        /\ Outgoing(k) <=> k.effect = -1 /\ ~paid
        /\ k.type = "p2p" /\ k.step # "payment_received" =>
             k.effect = CASE side = "incoming" -> 1 [] side = "outgoing" -> -1 [] OTHER -> 0

\* Page after page shows every row that was there when the first was asked for, whatever
\* is written meanwhile, unless a row ends and leaves a view of pending rows.
PagesSkipNothing ==
  reader.ended /\ ~reader.left => reader.there \subseteq reader.shown
=============================================================================
