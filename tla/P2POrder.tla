------------------------------ MODULE P2POrder ------------------------------
(***************************************************************************)
(* The P2P order service (modules/p2p-order/p2p-order.service.ts): orders  *)
(* placed on vendors' ads, the seller's crypto frozen in a virtual account *)
(* while an order is open, the fiat payment, and the release of the crypto *)
(* to the buyer.                                                           *)
(*                                                                         *)
(* Every handler is a series of awaited queries with no transaction around *)
(* them, so a request is a process and each query that reads or writes     *)
(* shared rows is a step.  What a request has read stays in its locals     *)
(* until it writes it back.  With one process the requests are served one  *)
(* after the other; with two they interleave as Node interleaves them.     *)
(***************************************************************************)
EXTENDS VirtualAccounts, FiniteSets

CONSTANTS
  Ads,           \* the ads, online and available
  AdRow,         \* AdRow[ad]: the columns of an ad this service reads
  Customers,     \* Customers[ad]: the users who place orders on it
  OrderIds,      \* bound: the orders that can be created are 1 .. n
  Amounts,       \* bound: the crypto amounts of an order
  Requests,      \* the requests that can be in progress at the same time
  MaxLost,       \* bound: the requests that a failure or a restart cuts short
  InitAccount,   \* the initial balance of each virtual account
  InitWallet     \* the initial balance of each user's fiat wallet

Channels == {"offline", "rhinoxpay_id"}

ASSUME DataAssumption ==
  /\ OrderIds \subseteq Nat \ {0} /\ IsFiniteSet(OrderIds)
  /\ Amounts \subseteq Nat \ {0}
  /\ InitAccount \in [VAs -> Nat]
  /\ InitWallet \in [Users -> Nat]
  /\ MaxLost \in Nat
  /\ Ads # {} /\ Requests # {}

ASSUME AdAssumption ==
  \A ad \in Ads :
    /\ AdRow[ad].kind \in {"buy", "sell"}
    /\ AdRow[ad].vendor \in Users
    /\ AdRow[ad].price \in Nat \ {0}
    /\ AdRow[ad].minOrder \in Nat /\ AdRow[ad].maxOrder \in Nat
    /\ AdRow[ad].channels \subseteq Channels
    /\ AdRow[ad].autoAccept \in BOOLEAN
    /\ Customers[ad] \subseteq Users

VARIABLES
  order,           \* p2p_orders, by id
  account,         \* virtual_accounts.account_balance
  available,       \* virtual_accounts.available_balance
  wallet,          \* wallets.balance of the ads' fiat currency, by user
  ordersReceived,  \* p2p_ads.orders_received
  rows,            \* transaction rows an order left: payments, coin moves
  req,             \* the locals of each request in progress
  lost             \* how many requests were cut short

ledgers == <<account, available, wallet>>
vars == <<order, account, available, wallet, ordersReceived, rows, req, lost>>

Status == {"none", "pending", "awaiting_payment", "payment_made",
           "awaiting_coin_release", "completed", "cancelled"}

\* A row of p2p_orders.  accepted, confirmed, received and released are the
\* timestamps being set; overdue is expiresAt being in the past; held is
\* metadata.sellerVirtualAccountId.
OrderRow ==
  [status : Status, ad : Ads, user : Users, amount : Amounts \cup {0},
   channel : Channels, held : VAs \cup {NoVA}, accepted : BOOLEAN, overdue : BOOLEAN,
   confirmed : BOOLEAN, received : BOOLEAN, released : BOOLEAN]

FreshRow(status, ad, user, amount, channel) ==
  [status |-> status, ad |-> ad, user |-> user, amount |-> amount,
   channel |-> channel, held |-> NoVA, accepted |-> FALSE, overdue |-> FALSE,
   confirmed |-> FALSE, received |-> FALSE, released |-> FALSE]
BlankRow ==
  FreshRow("none", CHOOSE a \in Ads : TRUE, CHOOSE u \in Users : TRUE, 0, "offline")

Steps == {"idle", "insert", "count", "autoAccept", "check", "allocate",
          "reread", "freeze", "accepted", "lookup", "unfreeze", "cancel",
          "paid", "buyer", "seller", "debit", "credit", "settle", "received",
          "release", "releaseSeller", "releaseBuyer", "debitCoin",
          "creditCoin", "complete"}

\* The locals of a request: the order row it has read, the numbers it has
\* read (x, y, z) and the rows a transaction it is in will write.
Locals(step, o, row, x, plan) ==
  [pc |-> step, o |-> o, row |-> row, x |-> x, y |-> 0, z |-> 0, plan |-> plan]
Idle == Locals("idle", 0, BlankRow, 0, {})

-----------------------------------------------------------------------------
(* Who is who, and which ledger row stands for whom.                       *)

Vendor(row) == AdRow[row.ad].vendor
Buyer(row) == IF AdRow[row.ad].kind = "buy" THEN Vendor(row) ELSE row.user
Seller(row) == IF AdRow[row.ad].kind = "buy" THEN row.user ELSE Vendor(row)
Fiat(row) == row.amount * AdRow[row.ad].price

\* The account that holds the frozen crypto of an order, if one was recorded.
SellerVA(row) ==
  IF row.held \in AccountsOf(Seller(row)) THEN row.held
  ELSE CurrencyVA(Seller(row), AdRow[row.ad].currency)

\* The buyer's account: on the seller's ledger, else in the order's currency.
BuyerVA(row) ==
  LET c    == AdRow[row.ad].currency
      same == ExactVA(Buyer(row), IF row.held \in VAs THEN Ledger[row.held] ELSE c)
  IN  IF same = NoVA THEN ExactVA(Buyer(row), c) ELSE same

SellerAvailable(u, c) ==
  IF Unified(c) THEN TotalAvailable(available, Family(u))
  ELSE IF ExactVA(u, c) = NoVA THEN 0 ELSE available[ExactVA(u, c)]

-----------------------------------------------------------------------------
Init ==
  /\ order = [o \in OrderIds |-> BlankRow]
  /\ account = InitAccount
  /\ available = InitAccount
  /\ wallet = InitWallet
  /\ ordersReceived = [ad \in Ads |-> 0]
  /\ rows = [o \in OrderIds |-> [fiat |-> 0, coin |-> 0]]
  /\ req = [p \in Requests |-> Idle]
  /\ lost = 0

At(p, step) == req[p].pc = step
Finish(p) == req' = [req EXCEPT ![p] = Idle]
\* The request goes on with the order it has and with x, y and z as it knows
\* them now.
Onward(p, step, x, y, z) ==
  req' = [req EXCEPT ![p] = [pc |-> step, o |-> req[p].o, row |-> req[p].row,
                             x |-> x, y |-> y, z |-> z, plan |-> {}]]
Goto(p, step) == Onward(p, step, req[p].x, req[p].y, req[p].z)
\* The handler's first query: it reads order o and goes on with that row.
Load(p, o, step) == req' = [req EXCEPT ![p] = Locals(step, o, order[o], 0, {})]
\* A query that writes order o: f is the row it leaves.
Write(o, f) == order' = [order EXCEPT ![o] = f]

-----------------------------------------------------------------------------
(* createOrder                                                             *)

\* The checks on the ad's limits and on both parties' balances.
Submit(p, ad, u, n, c) ==
  LET row == FreshRow("pending", ad, u, n, c)
      a   == AdRow[ad]
      s   == Seller(row)
      va  == CurrencyVA(s, a.currency)
      limit == IF Unified(a.currency) THEN SellerAvailable(s, a.currency)
               ELSE account[va]
  IN  /\ At(p, "idle")
      /\ a.minOrder <= Fiat(row) /\ Fiat(row) <= a.maxOrder
      /\ n <= SellerAvailable(s, a.currency)
      /\ va # NoVA
      /\ IF a.kind = "sell" THEN a.maxOrder <= limit * a.price
                            ELSE Fiat(row) <= wallet[Buyer(row)]
      /\ req' = [req EXCEPT ![p] = Locals("insert", 0, row, ordersReceived[ad], {})]
      /\ UNCHANGED <<order, ledgers, ordersReceived, rows>>
SubmitOrder(p) ==
  \E ad \in Ads, n \in Amounts :
    \E u \in Customers[ad], c \in AdRow[ad].channels : Submit(p, ad, u, n, c)

\* The row is inserted under the next id.
InsertOrder(p) ==
  \E o \in OrderIds :
    /\ At(p, "insert")
    /\ \A k \in OrderIds : (order[k].status = "none") <=> (k >= o)
    /\ Write(o, req[p].row)
    /\ req' = [req EXCEPT ![p] = Locals("count", o, req[p].row, req[p].x, {})]
    /\ UNCHANGED <<ledgers, ordersReceived, rows>>

\* Mutant: the count read is written back as it was.
CountOrderNot(p) ==
  /\ At(p, "count")
  /\ ordersReceived' = [ordersReceived EXCEPT ![req[p].row.ad] = req[p].x]
  /\ IF AdRow[req[p].row.ad].autoAccept THEN Goto(p, "autoAccept") ELSE Finish(p)
  /\ UNCHANGED <<order, ledgers, rows>>

\* ordersReceived is written from the ad read at the start; an ad that accepts
\* automatically goes on as acceptOrder.
CountOrder(p) ==
  /\ At(p, "count")
  /\ ordersReceived' = [ordersReceived EXCEPT ![req[p].row.ad] = req[p].x + 1]
  /\ IF AdRow[req[p].row.ad].autoAccept THEN Goto(p, "autoAccept") ELSE Finish(p)
  /\ UNCHANGED <<order, ledgers, rows>>

-----------------------------------------------------------------------------
(* acceptOrder                                                             *)

\* The vendor's request, or the continuation of createOrder.
StartAccept(p) ==
  \E o \in OrderIds :
    /\ At(p, "idle") \/ (At(p, "autoAccept") /\ o = req[p].o)
    /\ IF order[o].status = "pending" THEN Load(p, o, "check")
       ELSE At(p, "autoAccept") /\ Finish(p)
    /\ UNCHANGED <<order, ledgers, ordersReceived, rows>>

\* The seller's balance is checked; a unified coin is first gathered on the
\* account of the order's network, by a transaction that reads a snapshot.
CheckSeller(p) ==
  LET row    == req[p].row
      c      == AdRow[row.ad].currency
      target == CurrencyVA(Seller(row), c)
      moves  == IF Unified(c)
                THEN Plan(available, Family(Seller(row)), target, row.amount)
                ELSE {}
  IN  /\ At(p, "check")
      /\ IF target = NoVA \/ SellerAvailable(Seller(row), c) < row.amount
         THEN Finish(p)
         ELSE LET step == IF moves = {} THEN "reread" ELSE "allocate"
                  mine == [row EXCEPT !.held = target]
              IN  req' = [req EXCEPT ![p] = Locals(step, req[p].o, mine, 0, moves)]
      /\ UNCHANGED <<order, ledgers, ordersReceived, rows>>

\* allocateUnifiedBalance commits the rows computed from its snapshot.
CommitAllocation(p) ==
  /\ At(p, "allocate")
  /\ available' = Apply(req[p].plan, available)
  /\ Goto(p, "reread")
  /\ UNCHANGED <<order, account, wallet, ordersReceived, rows>>

\* The account is read again, and not checked again.
RereadSeller(p) ==
  /\ At(p, "reread")
  /\ Onward(p, "freeze", available[req[p].row.held], 0, 0)
  /\ UNCHANGED <<order, ledgers, ordersReceived, rows>>

FreezeCrypto(p) ==
  /\ At(p, "freeze")
  /\ available' = [available EXCEPT ![req[p].row.held] =
                                      req[p].x - req[p].row.amount]
  /\ Goto(p, "accepted")
  /\ UNCHANGED <<order, account, wallet, ordersReceived, rows>>

MarkAccepted(p) ==
  LET o == req[p].o
  IN  /\ At(p, "accepted")
      /\ Write(o, [order[o] EXCEPT !.status = "awaiting_payment",
                                   !.accepted = TRUE, !.overdue = FALSE,
                                   !.held = req[p].row.held])
      /\ Finish(p)
      /\ UNCHANGED <<ledgers, ordersReceived, rows>>

-----------------------------------------------------------------------------
(* declineOrder, cancelOrder, and the expiry check of getOrderDetails      *)

StartDecline(p) ==
  \E o \in OrderIds :
    /\ At(p, "idle")
    /\ order[o].status = "pending"
    /\ Load(p, o, "cancel")
    /\ UNCHANGED <<order, ledgers, ordersReceived, rows>>

\* Mutant: an order can still be cancelled when its payment has been made.
StartCancelLate(p) ==
  \E o \in OrderIds :
    /\ At(p, "idle")
    /\ order[o].status \in {"pending", "awaiting_payment", "payment_made"}
    /\ IF order[o].accepted THEN Load(p, o, "lookup") ELSE Load(p, o, "cancel")
    /\ UNCHANGED <<order, ledgers, ordersReceived, rows>>

\* Either party cancels; an accepted order has crypto to unfreeze.
StartCancel(p) ==
  \E o \in OrderIds :
    /\ At(p, "idle")
    /\ order[o].status \in {"pending", "awaiting_payment"}
    /\ IF order[o].status = "awaiting_payment" /\ order[o].accepted
       THEN Load(p, o, "lookup") ELSE Load(p, o, "cancel")
    /\ UNCHANGED <<order, ledgers, ordersReceived, rows>>

\* Anyone who opens an order past its deadline cancels it.
StartExpire(p) ==
  \E o \in OrderIds :
    /\ At(p, "idle")
    /\ order[o].status = "awaiting_payment"
    /\ order[o].accepted /\ order[o].overdue
    /\ Load(p, o, "lookup")
    /\ UNCHANGED <<order, ledgers, ordersReceived, rows>>

ReadFrozen(p) ==
  LET va == SellerVA(req[p].row)
  IN  /\ At(p, "lookup")
      /\ IF va = NoVA THEN Goto(p, "cancel")
         ELSE Onward(p, "unfreeze", available[va], 0, 0)
      /\ UNCHANGED <<order, ledgers, ordersReceived, rows>>

Unfreeze(p) ==
  LET row == req[p].row
  IN  /\ At(p, "unfreeze")
      /\ available' = [available EXCEPT ![SellerVA(row)] = req[p].x + row.amount]
      /\ Goto(p, "cancel")
      /\ UNCHANGED <<order, account, wallet, ordersReceived, rows>>

MarkCancelled(p) ==
  LET o == req[p].o
  IN  /\ At(p, "cancel")
      /\ Write(o, [order[o] EXCEPT !.status = "cancelled"])
      /\ Finish(p)
      /\ UNCHANGED <<ledgers, ordersReceived, rows>>

-----------------------------------------------------------------------------
(* confirmPayment and handleRhinoxPayPayment                               *)

\* Mutant: the status is not checked.
StartConfirmAny(p) ==
  \E o \in OrderIds :
    /\ At(p, "idle")
    /\ order[o].status # "none"
    /\ Load(p, o, IF order[o].channel = "offline" THEN "paid" ELSE "buyer")
    /\ UNCHANGED <<order, ledgers, ordersReceived, rows>>

\* The buyer's request; the deadline is not looked at.
StartConfirm(p) ==
  \E o \in OrderIds :
    /\ At(p, "idle")
    /\ order[o].status = "awaiting_payment"
    /\ Load(p, o, IF order[o].channel = "offline" THEN "paid" ELSE "buyer")
    /\ UNCHANGED <<order, ledgers, ordersReceived, rows>>

\* Mutant: the buyer's word is enough for the release.
MarkPaidReleases(p) ==
  LET o == req[p].o
  IN  /\ At(p, "paid")
      /\ Write(o, [order[o] EXCEPT !.status = "awaiting_coin_release",
                                   !.confirmed = TRUE])
      /\ Goto(p, "release")
      /\ UNCHANGED <<ledgers, ordersReceived, rows>>

MarkPaid(p) ==
  LET o == req[p].o
  IN  /\ At(p, "paid")
      /\ Write(o, [order[o] EXCEPT !.status = "payment_made",
                                   !.confirmed = TRUE])
      /\ Finish(p)
      /\ UNCHANGED <<ledgers, ordersReceived, rows>>

ReadBuyerWallet(p) ==
  LET row == req[p].row
  IN  /\ At(p, "buyer")
      /\ IF wallet[Buyer(row)] < Fiat(row) THEN Finish(p)
         ELSE Onward(p, "seller", wallet[Buyer(row)], 0, 0)
      /\ UNCHANGED <<order, ledgers, ordersReceived, rows>>

\* Mutant: the seller is credited on top of the buyer's balance.
ReadWrongWallet(p) ==
  /\ At(p, "seller")
  /\ Onward(p, "debit", req[p].x, wallet[Buyer(req[p].row)], 0)
  /\ UNCHANGED <<order, ledgers, ordersReceived, rows>>

ReadSellerWallet(p) ==
  /\ At(p, "seller")
  /\ Onward(p, "debit", req[p].x, wallet[Seller(req[p].row)], 0)
  /\ UNCHANGED <<order, ledgers, ordersReceived, rows>>

DebitFiat(p) ==
  LET row == req[p].row
  IN  /\ At(p, "debit")
      /\ wallet' = [wallet EXCEPT ![Buyer(row)] = req[p].x - Fiat(row)]
      /\ Goto(p, "credit")
      /\ UNCHANGED <<order, account, available, ordersReceived, rows>>

CreditFiat(p) ==
  LET row == req[p].row
  IN  /\ At(p, "credit")
      /\ wallet' = [wallet EXCEPT ![Seller(row)] = req[p].y + Fiat(row)]
      /\ rows' = [rows EXCEPT ![req[p].o].fiat = @ + 1]
      /\ Goto(p, "settle")
      /\ UNCHANGED <<order, account, available, ordersReceived>>

\* The order moves on and the release begins.
MarkSettled(p) ==
  LET o == req[p].o
  IN  /\ At(p, "settle")
      /\ Write(o, [order[o] EXCEPT !.status = "awaiting_coin_release",
                                   !.confirmed = TRUE, !.received = TRUE])
      /\ Goto(p, "release")
      /\ UNCHANGED <<ledgers, ordersReceived, rows>>

-----------------------------------------------------------------------------
(* markPaymentReceived and releaseCrypto                                   *)

\* Mutant: the seller need not wait for the buyer to confirm.
StartReceivedEarly(p) ==
  \E o \in OrderIds :
    /\ At(p, "idle")
    /\ order[o].status \in {"awaiting_payment", "payment_made"}
    /\ Load(p, o, "received")
    /\ UNCHANGED <<order, ledgers, ordersReceived, rows>>

StartReceived(p) ==
  \E o \in OrderIds :
    /\ At(p, "idle")
    /\ order[o].status = "payment_made"
    /\ Load(p, o, "received")
    /\ UNCHANGED <<order, ledgers, ordersReceived, rows>>

MarkReceived(p) ==
  LET o == req[p].o
  IN  /\ At(p, "received")
      /\ Write(o, [order[o] EXCEPT !.status = "awaiting_coin_release",
                                   !.received = TRUE])
      /\ Goto(p, "release")
      /\ UNCHANGED <<ledgers, ordersReceived, rows>>

StartRelease(p) ==
  LET o == req[p].o
  IN  /\ At(p, "release")
      /\ IF order[o].status = "awaiting_coin_release"
         THEN Load(p, o, "releaseSeller") ELSE Finish(p)
      /\ UNCHANGED <<order, ledgers, ordersReceived, rows>>

ReadSellerVA(p) ==
  LET va == SellerVA(req[p].row)
  IN  /\ At(p, "releaseSeller")
      /\ IF va = NoVA THEN Finish(p)
         ELSE Onward(p, "releaseBuyer", account[va], available[va], 0)
      /\ UNCHANGED <<order, ledgers, ordersReceived, rows>>

\* The frozen amount is whatever is not available on the whole account.
ReadBuyerVA(p) ==
  LET va == BuyerVA(req[p].row)
  IN  /\ At(p, "releaseBuyer")
      /\ IF va = NoVA \/ req[p].x - req[p].y < req[p].row.amount THEN Finish(p)
         ELSE Onward(p, "debitCoin", req[p].x, req[p].y, account[va])
      /\ UNCHANGED <<order, ledgers, ordersReceived, rows>>

\* The balance left becomes the account's and the available balance alike.
DebitCoin(p) ==
  LET va == SellerVA(req[p].row)
      n  == req[p].x - req[p].row.amount
  IN  /\ At(p, "debitCoin")
      /\ account' = [account EXCEPT ![va] = n]
      /\ available' = [available EXCEPT ![va] = n]
      /\ Goto(p, "creditCoin")
      /\ UNCHANGED <<order, wallet, ordersReceived, rows>>

CreditCoin(p) ==
  LET va == BuyerVA(req[p].row)
      n  == req[p].z + req[p].row.amount
  IN  /\ At(p, "creditCoin")
      /\ account' = [account EXCEPT ![va] = n]
      /\ available' = [available EXCEPT ![va] = n]
      /\ rows' = [rows EXCEPT ![req[p].o].coin = @ + 1]
      /\ Goto(p, "complete")
      /\ UNCHANGED <<order, wallet, ordersReceived>>

\* Mutant: a status that is none of the documented ones.
MarkReleased(p) ==
  LET o == req[p].o
  IN  /\ At(p, "complete")
      /\ Write(o, [order[o] EXCEPT !.status = "released", !.released = TRUE])
      /\ Finish(p)
      /\ UNCHANGED <<ledgers, ordersReceived, rows>>

MarkCompleted(p) ==
  LET o == req[p].o
  IN  /\ At(p, "complete")
      /\ Write(o, [order[o] EXCEPT !.status = "completed", !.released = TRUE])
      /\ Finish(p)
      /\ UNCHANGED <<ledgers, ordersReceived, rows>>

-----------------------------------------------------------------------------
\* The deadline of an accepted order passes.
DeadlinePasses ==
  \E o \in OrderIds :
    /\ order[o].accepted /\ ~order[o].overdue
    /\ Write(o, [order[o] EXCEPT !.overdue = TRUE])
    /\ UNCHANGED <<ledgers, ordersReceived, rows, req, lost>>

\* A query fails, or the server restarts: what the request had left to do is
\* lost, and nothing takes it up again.
RequestLost(p) ==
  /\ lost < MaxLost
  /\ lost' = lost + 1
  /\ ~At(p, "idle")
  /\ Finish(p)
  /\ UNCHANGED <<order, ledgers, ordersReceived, rows>>

\* A request in progress runs its next query.
Advance(p) ==
  /\ UNCHANGED lost
  /\ \/ InsertOrder(p) \/ CountOrder(p)
     \/ At(p, "autoAccept") /\ StartAccept(p)
     \/ CheckSeller(p) \/ CommitAllocation(p) \/ RereadSeller(p)
     \/ FreezeCrypto(p) \/ MarkAccepted(p)
     \/ ReadFrozen(p) \/ Unfreeze(p) \/ MarkCancelled(p)
     \/ MarkPaid(p) \/ ReadBuyerWallet(p) \/ ReadSellerWallet(p)
     \/ DebitFiat(p) \/ CreditFiat(p) \/ MarkSettled(p)
     \/ MarkReceived(p) \/ StartRelease(p) \/ ReadSellerVA(p)
     \/ ReadBuyerVA(p) \/ DebitCoin(p) \/ CreditCoin(p) \/ MarkCompleted(p)

\* A new request arrives.
Begin(p) ==
  /\ UNCHANGED lost
  /\ \/ SubmitOrder(p)
     \/ At(p, "idle") /\ StartAccept(p)
     \/ StartDecline(p) \/ StartCancel(p) \/ StartExpire(p)
     \/ StartConfirm(p) \/ StartReceived(p)

Next ==
  \/ \E p \in Requests : Begin(p) \/ Advance(p)
  \/ \E p \in Requests : RequestLost(p)
  \/ DeadlinePasses

Spec == Init /\ [][Next]_vars

-----------------------------------------------------------------------------
(* Properties                                                              *)

\* Every variable has its type; balances are integers, as nothing in the
\* schema keeps them from going below zero.
TypeOK ==
  /\ order \in [OrderIds -> OrderRow]
  /\ account \in [VAs -> Int]
  /\ available \in [VAs -> Int]
  /\ wallet \in [Users -> Int]
  /\ ordersReceived \in [Ads -> Nat]
  /\ rows \in [OrderIds -> [fiat : Nat, coin : Nat]]
  /\ req \in [Requests -> [pc : Steps, o : OrderIds \cup {0}, row : OrderRow,
                           x : Int, y : Int, z : Int,
                           plan : SUBSET [va : VAs, available : Int]]]
  /\ lost \in 0 .. MaxLost

\* An order whose payment stands: accepted with an account of the seller's
\* holding the crypto, and paid for.
Backed(row) ==
  row.accepted /\ row.held \in VAs /\ Owner[row.held] = Seller(row)
PaidFor(row) == Backed(row) /\ row.confirmed /\ row.received

\* No order gets ahead of its evidence, however requests interleave or fail:
\* a status past `pending` needs the acceptance that froze the crypto, a status
\* past the payment needs the payment, and `completed` needs the release.
Evidence ==
  \A o \in OrderIds :
    LET r == order[o]
    IN  /\ r.status = "awaiting_payment" => Backed(r)
        /\ r.status = "payment_made" => Backed(r) /\ r.confirmed
        /\ r.status = "awaiting_coin_release" => PaidFor(r)
        /\ r.status = "completed" => r.released
        /\ r.received => PaidFor(r)
        /\ r.confirmed => Backed(r)
        /\ r.released => PaidFor(r)

\* releaseCrypto is the only code that touches an account balance: a balance
\* changes only on an account of the seller or of the buyer of an order whose
\* payment has been confirmed and received.
CoinMovesOnlyWhenPaid ==
  [][\A va \in VAs :
       account'[va] # account[va] =>
         \E o \in OrderIds : /\ PaidFor(order[o])
                             /\ Owner[va] \in {Seller(order[o]), Buyer(order[o])}
    ]_vars

SameDeal(r, s) == r.ad = s.ad /\ r.user = s.user /\ r.amount = s.amount

\* What a request established when it checked the order still holds when it
\* acts on it, although other requests run in between: the deal is the one it
\* read, a payment is of an accepted order, a release of a paid one, and a freeze
\* is on an account of the seller's.
Established(p) ==
  LET r == req[p]
      o == order[req[p].o]
  IN  /\ r.pc \notin {"idle", "insert"} => r.o \in OrderIds /\ o.status # "none"
      /\ r.pc \notin {"idle", "insert", "count", "autoAccept"} =>
           SameDeal(r.row, o)
      /\ r.pc = "insert" =>
           /\ r.row.status = "pending"
           /\ ~r.row.confirmed /\ ~r.row.received /\ ~r.row.released
      /\ r.pc \in {"allocate", "reread", "freeze", "accepted"} =>
           r.row.held \in VAs /\ Owner[r.row.held] = Seller(r.row)
      /\ r.pc \in {"paid", "buyer", "seller", "debit", "credit", "settle"} =>
           Backed(o)
      /\ r.pc = "received" => Backed(o) /\ o.confirmed
      /\ r.pc \in {"release", "releaseSeller", "releaseBuyer", "debitCoin",
                   "creditCoin", "complete"} => PaidFor(o)
RequestsSound == \A p \in Requests : Established(p)

\* All requests have been answered.
Quiet == \A p \in Requests : At(p, "idle")

\* Served one after the other and without failures, no balance goes below zero.
NoOverdraft ==
  /\ \A va \in VAs : account[va] >= 0 /\ available[va] >= 0
  /\ \A u \in Users : wallet[u] >= 0

\* What the orders of a set moved: so much crypto, or so much fiat.
CryptoOf(S) == SumFunctionOnSet([o \in OrderIds |-> rows[o].coin * order[o].amount], S)
FiatOf(S) == SumFunctionOnSet([o \in OrderIds |-> rows[o].fiat * Fiat(order[o])], S)

\* What order o takes from a wallet, or from a coin account, and does not write over.
\* Both balances are read before either is written, so on an order of a vendor on his
\* own ad, which createOrder lets through, the credit replaces the debit.
PaysFiat(o, u) == Buyer(order[o]) = u /\ Seller(order[o]) # u
PaysCoin(o, va) == SellerVA(order[o]) = va /\ BuyerVA(order[o]) # va

\* When all is quiet, every fiat wallet and every coin account differs from its
\* first balance by the payments and releases recorded for orders, no more and
\* no less: between two parties nothing is lost, minted or sent to a third one.
\* A vendor's order on his own ad adds what it should have moved.
BooksBalance ==
  Quiet =>
    /\ \A u \in Users :
         wallet[u] = InitWallet[u] + FiatOf({o \in OrderIds : Seller(order[o]) = u})
                                   - FiatOf({o \in OrderIds : PaysFiat(o, u)})
    /\ \A va \in VAs :
         account[va] =
           InitAccount[va]
             + CryptoOf({o \in OrderIds : rows[o].coin > 0 /\ BuyerVA(order[o]) = va})
             - CryptoOf({o \in OrderIds : rows[o].coin > 0 /\ PaysCoin(o, va)})

\* When all is quiet, an order was paid through the wallets once if it is past
\* its payment and never otherwise, and its crypto moved once if it is completed
\* and never otherwise: a cancelled order moved no money at all.
PaidAndReleasedOnce ==
  Quiet =>
    \A o \in OrderIds :
      LET r == order[o]
      IN  /\ rows[o].coin = IF r.status = "completed" THEN 1 ELSE 0
          /\ rows[o].fiat =
               IF /\ r.status \in {"awaiting_coin_release", "completed"}
                  /\ r.channel = "rhinoxpay_id"
               THEN 1 ELSE 0

\* The crypto that the orders of a set are about.
AmountOf(S) == SumFunctionOnSet([o \in OrderIds |-> order[o].amount], S)

\* The orders that have crypto frozen on one of these accounts.
Frozen(pool) ==
  {o \in OrderIds : /\ order[o].status \in {"awaiting_payment", "payment_made",
                                            "awaiting_coin_release"}
                    /\ SellerVA(order[o]) \in pool}

\* A user's balances as the user sees them: the stablecoin pool, and each other
\* account by itself.
Pools(u) == {Family(u)} \cup {{va} : va \in AccountsOf(u) \ Family(u)}

\* Until a release has touched one of the user's accounts, what is not available
\* to the user in a coin is exactly what open orders have frozen: accepting
\* freezes the order's amount once, cancelling and expiring give back the same
\* amount, and moving a unified balance between networks changes nothing.
FreezeIsExact ==
  Quiet =>
    \A u \in Users :
      (\A o \in OrderIds :
          u \in {Seller(order[o]), Buyer(order[o])} => rows[o].coin = 0)
      => \A pool \in Pools(u) :
           SumFunctionOnSet(account, pool) - SumFunctionOnSet(available, pool)
             = AmountOf(Frozen(pool))

\* The count of orders an ad has received is the number of orders on it.
OrdersCounted ==
  Quiet =>
    \A ad \in Ads :
      ordersReceived[ad] =
        Cardinality({o \in OrderIds : order[o].status # "none" /\ order[o].ad = ad})

\* "Crypto automatically released": once the seller's payment is in and the
\* request has been answered, the order is not left waiting for its release.
ReleaseFollowsPayment ==
  Quiet => \A o \in OrderIds : order[o].status # "awaiting_coin_release"

\* The lifecycle the service documents, with each transition one step.
Lifecycle == INSTANCE P2PLifecycle
               WITH trade <- [o \in OrderIds |-> order[o].status],
                    channel <- [o \in OrderIds |-> order[o].channel]
=============================================================================
