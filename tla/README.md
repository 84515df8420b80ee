# Verification of the RhinoX Pay backend

RhinoX Pay's backend (`src/`, TypeScript, Express, Prisma on MySQL) keeps fiat
wallets and coin accounts for its users and moves money between them, other users
and four providers: PalmPay (banks, Nigeria), Flutterwave (mobile money, bills),
Busha (a coin exchange) and Tatum (blockchain notices). This directory holds TLA+
models of the parts that move money, the instances TLC checks, and proofs that
TLAPS checks. Paths below are relative to the repository.

The code has no tests, hardly any database transactions and no row locks. Every
handler is a chain of `await`ed queries, so what matters is which chains may
interleave, what a chain still believes after another has run, and what is left
when one is cut short. The models are built around that: **a run of a handler is a
process, and each awaited query, provider call or `$transaction` is a step.**

## 1. Inventory

| Component | State | Operations | Interacts with |
|---|---|---|---|
| P2P orders (`modules/p2p-order`) | `p2p_orders`, frozen amounts in `virtual_accounts`, `wallets`, `transactions`, `p2p_ads.orders_received` | create, accept, decline, cancel, expire, confirm payment, mark received, release | unified stablecoin, fiat wallets, ads |
| P2P ads, reviews, chat (`modules/p2p`, `p2p-review`, `p2p-chat`) | `p2p_ads`, `p2p_reviews`, `p2p_chat_messages` | make, edit, pause, browse; review; write, list, mark read | orders, payment settings |
| Unified stablecoin (`services/crypto`) | none of its own | total, allocation on one network | `virtual_accounts`; called by orders and transfers |
| Transfers and withdrawals (`modules/transfer`) | `transactions`, `wallets`, `virtual_accounts` | initiate, verify, look at the receipt | PalmPay, Flutterwave, stablecoin, codes |
| PalmPay, Flutterwave (`services/palmpay`, `services/flutterwave`) | the orders of the provider | pay out, charge, open an account, pay a bill, status query, notice | transfers, deposits, bills, Busha trades |
| Fiat deposits (`modules/deposit`) | `transactions`, `palmpay_virtual_accounts`, `wallets` | initiate, look, notice | PalmPay, Flutterwave |
| Busha trades (`services/busha`) | `busha_trade_logs`, `transactions`, `wallets`, `busha_config`, Busha's transfers and recipients | estimate, quote, buy, sell, receive, send, settle | Busha, PalmPay; a poller |
| KYC and Busha customers (`modules/kyc`, `services/busha`) | `kyc`, `busha_customers`, `busha_kyc_applications` | submit, review, apply, retry, customer webhook, sync | Busha; the flag that lets a user trade |
| Coin deposits (`services/tatum`, `jobs/tatum`, `modules/crypto`) | `virtual_accounts`, `deposit_addresses`, `user_wallets`, `webhook_responses`, Tatum's subscriptions | create accounts, assign and watch an address, notice | Tatum; the coin ledger of orders and transfers |
| Bill payments (`modules/bill-payment`) | `transactions`, `wallets`, beneficiaries | show providers and plans, validate, initiate, confirm, notice, look | PalmPay, Flutterwave, rewards |
| Rewards (`modules/rewards`) | `reward_rules`, `user_rewards`, `reward_claims` | dashboard, claim, fulfil | bills |
| Conversions, rates (`modules/conversion`, `exchange`) | two `transactions` rows, two `wallets`, `exchange_rates` | calculate, initiate, confirm; set, deactivate | fiat wallets |
| Authentication (`modules/auth`, `core/utils/transactionSecurity.ts`) | `users`, `otps`, `sessions`, `trusted_devices` | register, log in, verify a code, reset, PIN | e-mail, wallets, every confirmation |
| Payment settings (`modules/payment-settings`) | `user_payment_methods`, `users.rhinox_pay_id` | add, edit, make default, delete | ads, orders |
| Notifications, support (`modules/notification`, `support-chat`, administrators) | messages, notifications, broadcasts | write, list, mark read, answer, broadcast | |
| History, home, wallet lists | none, but the history ends rows of Busha trades | list, page, sum up | the ledger |
| Administration, countries, infrastructure | mostly views | queries, overrides | everything |

What makes each of them right, and what is hard about it:

* **Orders.** No status without its evidence; the crypto is frozen once, given back
  or released once, and moves only for a paid order; books balance. Hard: acceptance
  is seven queries long, an order may be cancelled, expired or accepted twice
  meanwhile, and a release is three writes.
* **Ads, reviews, chat.** An order is placed on the ad its customer was shown. Hard:
  the client shows the ad, then the methods, then orders, and sends no price back.
* **Transfers.** A withdrawal ends as the provider ended it, is debited once and
  refunded only if debited. Hard: the debit comes after the provider's answer; the
  notice, the answer and a look at the receipt race; a lost answer is not a refusal.
* **Deposits.** What was paid is credited, once. Hard: notices repeat, and look-ups
  check outside the transaction that credits.
* **Busha trades.** Nobody has both the money and the coin, or neither; a sale is paid
  into an account that waits for exactly its amount. Hard: four kinds of handler settle
  one trade, from rows read before; two providers; a price that moves between quotes.
* **KYC.** Trading needs Busha's approval, and an application is decided in the end.
  Hard: a handler and the poller take up one application, and a restart leaves it.
* **Coin deposits.** Every address is watched; a payment is credited once, in its
  own coin. Hard: a set-up of a dozen queries that may fail in the middle, absolute
  balances, and a duplicate check beside the row it looks for.
* **Bills, rewards.** As withdrawals; a reward is given once; what is charged is a
  price that was shown. Hard: a payment is settled by its own confirmation, by notices
  and by looks, each writing a row it read before.
* **Conversions.** Both rows and both wallets move together. Hard: six writes, no
  transaction. **Codes.** Used once, before they expire. **Settings.** One default.
* **Views.** The lists, sums and balances tell one story. Hard: each filters, signs
  and pages in its own way, while rows are written.

`PROJECT.json` lists the hazards at their lines, and which property covers each.

## 2. Plan

The order in which the project was built, the most money first:

1. `UnifiedStablecoin`, `VirtualAccounts`: what the ledgers of coins share.
2. `P2POrder` with the abstract `P2PLifecycle`, and `P2POrderProofs`.
3. `Transfer` with PalmPay's and Flutterwave's notices, and `TransferProofs`.
4. `BushaTrade` and `BushaTradeProofs`; `Deposit` and `DepositProofs`.
5. `TatumDeposit`, checked beside the stablecoin in `MCCoinLedger`.
6. `BillPayment`; then what lets a user do these things: `Account`, `Kyc`,
   `Conversion`, `Rewards`, `SavedAccounts`.
7. What surrounds an order, and what is shown: `Market`, `Reviews`, `Messages`,
   `Statement`, `OrderViews`, `BushaHistory`.
8. What leads up to a transfer or a bill: `BushaQuotes`, `BillCatalogue`.
9. `Sums`, what can be proved of sums over a finite set, and with it the proofs of the
   books: of deposits, of bills (`BillPaymentProofs`), of trades (`BushaTradeProofs`), of
   the gathering of a stablecoin (`Allocation`, `AllocationProofs`), and the types of
   orders and transfers, whose balances come out of that gathering.
10. Proofs of the single use of a code and of the sessions a reset leaves (`Account`), in
    `TraderProofs`, and of `TradesApproved` (`Kyc`), in `BushaTradeProofs`, with their types.
11. `MCP2PTurn`, orders in turn, apart from what surrounds them in `MCP2PModes`; and the
    proofs of what holds of requests served one at a time: the books of orders and of
    transfers, and `P2PLifecycle` as what orders in turn implement.
12. The proof that sales go to the accounts opened for them, and coin within its limits
    (`QuotesHold` of `BushaQuotes`), in `TraderProofs`.

Left, in this order:

13. The books of conversions.
14. The type invariant of `TatumDeposit`, and its books.

An abstract specification is worth its place where a document draws one: the P2P
guide draws a lifecycle, and `P2PLifecycle` states it. Elsewhere the promise is a
relation between rows, the provider and the balances, stated as invariants.

Components that share no state with the one a run is about are checked beside it in
the same run: a variable chooses the part that moves (`part`, `mode`), the others rest
in one initial state, so that the run's states are the sum of its parts' and not their
product.

## 3. The modules and the code

Common to all: `req[p]` are the locals of process `p` (its place, the row it read and
the numbers it computed), changed by its own steps only; `RequestLost`
is a query that fails or a server that restarts, after which nothing resumes a
handler; `lost` bounds it. `disturbed` (in `TatumDeposit`, `met` and `cut`) is a
history variable: it names the rows on which two handlers met or one was lost. It is
never read by a guard. Properties that the code keeps only for handlers that did not
meet say so by it, and those that hold whatever interleaves do not mention it.
Notices to users, e-mails and logs are left out of the handlers: their failures are
caught.  A module's `Max...` constants bound rare events (changes, mishaps, losses).

### UnifiedStablecoin, Allocation, VirtualAccounts

`Plan` is the list of rows `allocateUnifiedBalance` writes in its transaction; the
loop over sorted sources is folded into `Moved`, and `PlanIsTheLoop`, in
`MCUnifiedStablecoin`, compares the two. `Allocation` is one call on a pool of any size.
`CurrencyVA` and `ExactVA` are the ways the services find an account.

### P2POrder, P2PLifecycle

`order` is `p2p_orders`, `account` and `available` the two balances of `virtual_accounts`,
`wallet` the fiat balance, `rows` counts the transaction rows that an order left. One action per
query that reads or writes shared rows: `StartAccept`, `CheckSeller`, `CommitAllocation`,
`RereadSeller`, `FreezeCrypto`, `MarkAccepted` are `acceptOrder`; `StartRelease` to
`MarkCompleted` are `releaseCrypto`, run at the end of a confirmation, as the code calls it.
Reads of `createOrder` before its insert are one step, as nothing is written between them and
the ad is a constant; so are the reads of the allocation (its own transaction).
`recordTransaction` is part of the write of the balance it records. Nothing in `createOrder`
refuses an order on one's own ad: the run in turn has the vendor place one, and `BooksBalance`
says what it leaves (section 4). `MCP2PTurn` has the orders in turn and interleaved, and
`MCP2PModes` adds the rest, whose steps leave the orders alone. An administrator may write any
status without a guard (`modules/admin/services/admin-market.service.ts:187,228`): that is taken
as an operator outside the system.

### Transfer

`tx` is the row of a transfer with the three flags of its metadata; `payout` is the
provider's own account of it. `InitiateTransfer` is one step since it reserves nothing;
`StartVerify` onward is `verifyTransfer` with `executePayout`, or the transfer to
a user; `StartReceipt`, `QueryPayout`, `WriteReceipt` the refresh of a receipt;
`PalmPayNotice` and `FlutterwaveNotice` the webhooks. A form that names a network is a
currency with its blockchain parameter. `lockedBalance` is never written in this code and
so is 0. The providers are idempotent per order id. The limits of 100 and 80 rows within
which a notice is looked up are out of a small instance's reach and are left out.

### BushaTrade

`trade` is `busha_trade_logs`, `fiat` the status of the `transactions` row, `transfer` and
`palmpay` the providers' own state. `executeBuy` is the chain from `StartBuy` to `RecordPayout`
with its catch block (`UndoDebit`, `UndoFiat`); `settleTrade` the chain from `StartSettle`.
`palmpayStatus` and `providerResponse` are written and never read, so they are left out;
`bushaStatus` is kept for sells, which read it. Of the words in `SUCCESS_STATUSES`,
`funds_converted` comes before delivery and is a state of its own, from which Busha delivers,
refunds or fails to deliver; the final ones are `completed` here. Quotes, the KYC check and the
copy of Busha's balances into `virtual_accounts` are left out.

### Deposit

`row` is the deposit's status, `account` the rows that let a notice find it, `charge` the
provider's own state. `ApplyStatus` is the tail of `processDepositWebhook` and
`processChargeWebhook`; the amount credited is the row's, which both providers echo.

### TatumDeposit

`accounts`, `addresses` (in the order of ids), `wallets`, `watched` and `responses` are
the tables and Tatum's subscriptions; `entries[k][c]` counts the deposit rows of payment
`k` in coin `c`. The nested loops of `initializeUserCryptoWalletsWithTatum`,
`createVirtualAccountsForUser` and `ensureUserCryptoLinks` are a `phase` and a coin in the
locals; `Throw` tells the loop that catches errors from those that do not. The keys of
`virtual_accounts` and `user_wallets` refuse a second row, which ends the handler that lost
the race. The address is that of the wallet's index 0 and so the same each time. Columns
that no handler decides by (`xpub`, `customerId`, the keys) are left out.

### BillPayment, BillCatalogue

`bill` is the row in `transactions` with the two flags of its metadata, `order` the
provider's own account of it, `claim` the reward claims that bills redeem. A transaction
that reads before it writes is two steps, as a plain read locks nothing: `Lock` and
`Settle` are `finalizeFlutterwaveBillPayment`. `persist`, `park` and `crumb` are the
writes of metadata that are spread from an earlier read. `MapBillStatus` is how the code reads
Flutterwave's answers: one that says only that the order is accepted (code 200) counts as
`completed`, though the order may still lapse. `BillCatalogue` is what comes
before: providers, plans, validation, and the item that `Look` picks once more; its items
are lists that the provider may change at any time.

### Rewards, Conversion, SavedAccounts

`Rewards` keeps rules, `user_rewards` and claims; the user's statistics are one of a few
records on either side of the tiers' bounds, and a payment that redeems a claim is one
step there (its own steps are `BillPayment`'s). `Conversion` keeps the two rows and two
wallets of a conversion in hundredths of hundredths, so that the fee of a percent and the
rates are whole numbers; rates change between pricing and confirming. `SavedAccounts`
has `user_payment_methods` and the beneficiaries as one list, a row's `kind` telling them
apart, as their handlers have the same shape; and `ensureRhinoxPayId`.

### Account, Kyc

`code` is the table `otps`; a handler finds a code in one step and marks it in another.
`pending` stands for the signed login tokens, each with the password checked at its login;
`session` holds with each session the password its maker had shown, the one there was when it
was made, and whether it was made for such a token, which is history. A code's expiry may come
at any step. `Kyc` has two processes, the user's handler and the poller, since the poller looks
at one thing after another; `remote` is Busha's own state, `Decide` its decision and
`HandleCustomerWebhook` the notice of it, which may be lost.

### BushaQuotes

`executeSell` from the estimate to the row, and the limits and addresses of coins, with
Busha's price moving between any two quotes. `recipients` is Busha's list, `orders`
PalmPay's: a recipient that belongs to one of PalmPay's orders takes exactly its amount.
Only customers who are active occur, so the check that begins an estimate reads only.

### Market, Reviews, Messages

One ad from its making to an order on it: `shown` is what the customer's client holds. The order
that `InsertOrder` writes is where `P2POrder` begins; `CreateOrder` are its checks. `Reviews` is
the review of one order and its day, `Messages` a conversation in one of three places: the
order's chat, the support's, the notifications.

### Statement, OrderViews, BushaHistory

`Statement` has a ledger of rows and the views as filters of it, with their labels, signs,
sums and pages; `reader` pages through one while rows are written. `OrderViews` states the
lists and balances over `P2POrder`'s own state. Neither writes. `BushaHistory` does: it
composes the history, which ends rows, with the handlers of `BushaTrade`.

## 4. What is checked

| Run | Question | States |
|---|---|---|
| `coin_ledger` | *allocation*: every small pool of four networks; the gathering is the code's loop (`PlanIsTheLoop`), covers and conserves (`AllocationCovers`). *deposits*: two handlers of one user's accounts, and notices (`AccountsReachable`, `CoinBooks`). *conversions*: two between two wallets, at rates that change (`ConversionsBalance`). *rewards*: a catalogue reward and a rule's, claimed and redeemed (`RewardGivenOnce`, with what the dashboard offers). *saved*: each kind of saved account (`SavedOnce`). *catalogue*: each category of bills (`ChargedAsShown`) | 542,065 |
| `p2p` | *in turn*: two orders, one request at a time: no overdraft, books balance, freezes are exact, paid and released once (`SerialBooks`), the handlers implement `P2PLifecycle` (`SerialLifecycle`), and the lists agree (`StatementAgrees`). *interleaved*: one order, two requests, of a sale one lost (`TypeOK`, `Evidence`, `RequestsSound`, `CoinMovesOnlyWhenPaid`). *shown*: a ledger, its views and pages (`StatementAgrees`). *ad*, *review*: an ad, its edits, an order on it, its review (`MarketKeepsItsWord`). *talk*: what is written and read (`NothingReadUnseen`) | 236,284 |
| `p2p_stuck` | finds `ReleaseFollowsPayment` violated | |
| `p2p_races` | finds `ImplementsLifecycle` violated by two requests | |
| `transfers` | Two transfers, one process, providers that end what they took: no overdraft, books, all settled (`SerialBooks`), and a withdrawal in progress ends (`SettlesInTurn`); or one transfer, two processes, one loss: `TypeOK`, `Evidence` | 16,550 |
| `transfer_again` | finds `VerifiedOnce` violated | |
| `busha_trades` | *trades*: two of a buy, another buy, a sell and a coin, two handlers, one loss (`TypeOK`, `Evidence`, `BooksBalance`, `RowsAgree`). *account*, *logins*: two codes, one device, from a user's registration, or the logins and resets of one who is known (`CodesOpenOnce`, `SessionsFollowPassword`). *kyc*: two applications (`TradesApproved`). *quotes*: sales at a price that moves, or coin within limits that change (`QuotesHold`) | 305,136 |
| `endings` | A bank transfer and a mobile-money charge, two handlers, one loss (`TypeOK`, `Evidence`, `BooksBalance`), and what is paid is credited (`PaidIsCredited`); a buy or a sell whose fiat row ends once Busha has ended its transfer (`FiatRowEnds`); an application that is decided (`KycEnds`) | 29,095 |
| `tatum_uncredited` | finds `ProcessedIsCredited` violated | |
| `bills` | A bet through PalmPay, data through Flutterwave, or two payments of one claim; two handlers, one mishap: `TypeOK`, `Evidence`, `BooksBalance`, `GiftOnce`, and a payment whose order ended at Flutterwave ends (`ProcessingEnds`) | 36,792 |
| `bills_refunded` | finds `SingleRefund` violated | |
| `busha_history` | finds `ListAndWalletConsistent` violated | |

Each property of a passing run has a mutant in `PROJECT.json`: a plausible slip in one
mapped definition under which TLC finds that property violated.

### Where the code departs from what is said of it

* **Paid and not released** (`p2p_stuck`). Gathering a stablecoin moves *available*
  balances only. The release compares the order with `account - available` of the
  target, which is then too small, throws, and the paid order has no way on.
* **A cancelled order comes back** (`p2p_races`). `acceptOrder` checks the status once
  and writes it seven queries later with `where: { id }`; a cancellation in between is
  overwritten, with the crypto frozen.
* **A withdrawal debited twice** (`transfer_again`). Opening the receipt of a
  withdrawal PalmPay is working on writes `pending` on the debited row, and
  `verifyTransfer` accepts a pending row.
* **Coin deposits are not credited** (`tatum_uncredited`). The row that the duplicate
  check looks for is written just before the check, from the same notice.
* **A bill refunded twice** (`bills_refunded`). The comment "Re-check inside the
  transaction to avoid double-refund races" stands over a plain read, which locks nothing:
  two settlements both pass it.
* **Showing the history takes money** (`busha_history`). "Persist obvious mismatches so
  list + wallet stay consistent" ends the row of a buy that PalmPay refused before its
  reversal has read it; the reversal then finds the row ended and gives nothing back.

Met while modelling, and allowed for in the properties rather than shown by a run of its own:

* *Orders.* With two orders on one account, a release sets `available` to the account
  balance; if the other order is then cancelled, `available` exceeds the account
  (`p2p-order.service.ts:2031`). After gathering for an order that is cancelled, the
  target's own "locked" is negative. An order's fiat value is compared with `minOrder`,
  but `minOrder` with the ad's volume of crypto. On a buy ad the reviewer is the vendor,
  and so also the reviewee (`p2p-review.service.ts:84`). An order on one's own ad is not
  refused (`p2p-order.service.ts:595`): its payment and its release each read one balance
  twice, and the credit replaces the debit (`:1789`, `:2036`), so that the vendor ends up
  with its fiat, and its coins, on top of what he had. `BooksBalance` counts them so.
* *Reviews.* `docs/P2P_COMPLETE_IMPLEMENTATION_GUIDE.md` says that only the buyer can review
  (943, 972), and also "Both parties can leave reviews" (1034) and, of a completed order,
  "Both | Leave review" (1132). `createReview` refuses the seller
  (`p2p-review.service.ts:66`), and so does the model; who may review is stated by no property.
* *Withdrawals.* A bank payout that PalmPay reports failed changes the status only; the
  debit stays (`palmpay.webhook.service.ts:191`). Notices look among the first hundred
  open withdrawals (`:182`).
* *Busha.* A buy counts as done at `funds_received`, and either trade at `funds_converted`
  (`busha.app.service.ts:22`, `:1887`), after which Busha may still refund it or fail to
  deliver: the trade is then closed, a sell has been credited, and nothing takes it back.
  `Evidence` says that the coin was converted, not that it was delivered. A payout PalmPay took
  but whose answer was lost is refunded, and Busha delivers (`busha.app.service.ts:1380`). After
  a refused payout the trade is asked for by the poller for ever (`:1386`). A sale or a deposit
  opens its transfer before any row is written (`:1524`). Up to two of PalmPay's accounts are
  abandoned per sale, and the "fresh destination" of an estimate's second try may be the same
  stale one (`:1407`). The platform's recipient is made under one customer's profile and used
  for all.
* *Bills and conversions.* Flutterwave's answer to a new order with the code 200 and no status,
  or an answer with the bill's details, counts as completed (`flutterwave.bill-status.ts:110`,
  `:135`), also while the order is under way; if it lapses, the payment stays completed, debited
  and its claim served. `Evidence` says that the order was accepted, not that it was served. A
  beneficiary's saved name counts as validation, so the limits are not looked at; cable and
  internet are validated for the first plan; a bet's limits are shown and never enforced. A
  conversion worth less than its fee takes from the destination wallet.
* *Logins.* A reset voids neither the token nor the code of a device whose login began before
  it (`auth.service.ts:242`, `:249`): within ten minutes that device gets a session on the old
  password, after "Invalidate all existing sessions (force re-login)" (`:1070`).
  `SessionsFollowPassword` allows those sessions and no others.
* *Views.* The home page shows a trade with Busha twice (`home.service.ts:542`), shows
  outgoing transfers as incoming (`:323`) and cuts to its limit before it filters. The
  history's summary leaves out the fiat payments of orders that the P2P view counts. The
  support's answers are stored as the user's own, so they are never unread
  (`admin-platform.service.ts:100`). The rewards dashboard compares a KYC status with
  `approved`, which is written as `verified`.

### Bounds, and why they are enough

Two handlers on one row show every race between two of them; a third shows little more,
since each handler reads its row once. Two rows per run are enough for one to be affected
by another's balance, and the balances cover one of them but not both. Amounts 1 and 2
distinguish a swap, a doubling and a price. One loss shows every point at which a handler
can stop; two would only show it for two handlers that have already met. `Networks` has
four, so that a tie, a partly drained source and an untouched one occur together. Tron has
a coin and a token, bitcoin a coin: both branches of the subscription, and a shared
address. A token of no listed contract only ends its notice, and occurs in
`tatum_uncredited` alone.

What the runs leave out so as to end, and why nothing is lost by it:

* *Orders.* In turn, both are of a plain coin or both of the stablecoin, as the two share no
  account; one of each amount; not both paid through the wallets; the vendor's own is alone, and
  paid through them. Interleaved, a sale of the stablecoin paid outside, with one loss after
  which requests run in turn, or a purchase of a plain coin paid from the wallet, without: the
  first gathers and the second moves fiat. Of the notifications, one user's are listed, and
  requests are lost at the support's chat only, whose handlers have the same shape.
* *Deposits, trades.* Once a row is disturbed, there is no second row: the properties of
  the other hold of it alone. Of trades, one that moves coin only is alone as well, as it
  touches no wallet. In `endings`, one trade, since trades share the wallet only.
* *Codes.* An account is followed until two handlers met or one was lost with a code,
  rewards and saved accounts likewise: after that their properties say nothing. The PIN is
  asked for only along with a code. The user who is known from the start sets neither, and
  so has room for the logins and resets.
* *KYC.* A second application only as long as nothing met or was cut short, and handlers
  meet or one is lost, not both. In `endings`, no cut and no rejection, and a mishap only
  without other news.
* *Bills.* The pairs are a bet and data, or two payments of one claim, of which the second comes
  after the first. With both there are no mishaps, and handlers run in turn once some have met,
  where both redeem one claim, or once an order was accepted without a status.

A sale at Busha is quoted up to three times, so its price may move three times. Codes:
two, for one to replace the other or to be used beside it. Saved accounts: two numbers and two rows,
since a default is taken from one row by another. A bill's menu has an item that goes, a
price that rises, and items with and without a price or limits. A statement of two rows read
in pages of one shows a page that shifts while it is read.

The proofs of section 5 have none of these bounds.

### Fairness

Node runs a handler on, so weak fairness of `Advance`. Beyond that, `transfers`, served in
turn, assumes that providers end what they took (weak) and that a notice gets through while the
row can be found (strong: a process must be free again and again). `endings` assumes
that the poller comes round to each open trade and application (`start-busha-jobs.ts`: a
`setInterval`; of trades it takes the forty least recently updated, and looking at one
updates it), that Busha decides, and
that the user keeps looking at a pending deposit, which the app does,
as nothing else repairs a lost notice; `bills` likewise that a payment in progress is looked
at again and again. No fairness of requests, losses or failures.

## 5. What is proved

TLAPS checks these for every value of the constants, that is, any number of users,
accounts, ads, orders, trades, bills, processes and losses.

| Theorem | Says |
|---|---|
| `P2POrderProofs!Invariance`, `EvidenceHolds`, `RequestsSoundHolds`, `CoinMovesWhenPaidHolds`, `TypesHold` | the invariants of `p2p` that hold however requests interleave, its action property, and `TypeOK` |
| `P2POrderProofs!InTurnHolds`, `SerialBooksHold` | `SerialBooks` of orders: in turn they overdraw nothing, freeze exactly, are paid and released once, and balance, whoever trades with whom |
| `P2POrderProofs!SerialLifecycleHolds` | in turn they implement `P2PLifecycle` |
| `TransferProofs!TransferInvariance`, `TransferEvidenceHolds`, `TransferTypesHold` | `Evidence` and `TypeOK` of transfers |
| `TransferProofs!TransferBooksInTurn` | `SerialBooks` of transfers |
| `BushaTradeProofs!BushaTypesHold`, `BushaKnowledgeHolds`, `BushaEvidenceHolds` | `TypeOK` and `Evidence` of trades |
| `BushaTradeProofs!BushaBooksInvariant`, `BushaBooksHold`, `BushaRowsAgree` | `BooksBalance` and `RowsAgree` of trades |
| `DepositProofs!DepositTypesHold`, `DepositEvidenceHolds`, `DepositBooksHold` | `TypeOK`, `Evidence` and `BooksBalance` of deposits |
| `BillPaymentProofs!BillInvariant`, `BillTypeOK`, `BillEvidence`, `BillBooksBalance`, `BillGiftOnce` | the safety invariants of bills |
| `TraderProofs!AccountInvariance`, `TraderCodesOpenOnce`, `TraderSessionsFollow` | `CodesOpenOnce` and `SessionsFollowPassword`, with the account's types |
| `TraderProofs!TraderQuotesHold` | `QuotesHold`, with the quotes' types |
| `BushaTradeProofs!KycInvariance`, `TraderTradesApproved` | `TradesApproved`, with the identity's types |
| `AllocationProofs!AllocationHolds` | `AllocationCovers`, over any finite pool |

**Knowledge.** In each, the status of a row alone is not inductive: a handler
writes what it decided several steps ago. The inductive invariant therefore has a
part per place in the handler that says what the handler *knows* there, chosen
among facts no other handler can take back (an order's `accepted`, `confirmed` and
`received` are never reset; a provider's final state is final; `debited` is never
cleared). Every step is then proved to keep the structure of the rows, the evidence and
the knowledge of its own process, and a lemma shows that it leaves the knowledge of the
others true: that last part is where an interleaving would break it. The stale locals of
transfers are the interesting case: what a process read of a row may no longer hold, but
what it says of the provider does.

**Books.** Properties of the money hold of the rows on which no two handlers met, so the
invariants add that such a row has one handler, whose place tells how far its money has
got: a wallet is its first balance and what each of its rows has taken or paid *so far*.
`BushaTradeProofs` states it as one amount per trade (`Funding`, `Stories`, `Running`),
of which `BooksBalance` is the case between handlers; bills keep the stronger
`BooksBalance` at every step, and a claim's flag tells whether its gift was given.

**Served in turn.** Where the code reads a balance, and writes what it computed some
queries later, the books cannot hold of two requests that meet; of one request at a time
they can, and the invariant says why. `Serial` is that what the request has read is still
so, place by place: the row it loaded is the row there is, and has the status that the
place calls for; the balances it computed with are the balances there are, and cover what
it will take. The books are then stated *at every step* and not between requests only.
Of orders, `FreezeBooks` counts an acceptance in progress as frozen before the order
says so, and a cancellation as given back before; a family of accounts is followed until a
release has touched it, which gives back what it should not (section 4). `PartyBooks` counts
a debit as soon as it is written and a credit once its row is. Of transfers, `Books` counts a
withdrawal as taken with its debit and a transfer to a user with its credit. A wallet from
which a bank withdrawal was asked for is left out, since a receipt may have it debited twice
(`VerifiedOnce`). The lifecycle follows from `Serial` alone: as the row is still what the
handler read, its write is one of the documented transitions. On an order of a vendor on his
own ad the balance to be credited is stale at the credit, by exactly what the debit took
(`Refunded`, `Returned`): that is why the books count such an order's credit alone.

**Codes and sessions.** That a code opens once needs, while no two handlers hold it, that its
holder has opened nothing yet before it has used the code up, or has nothing left to open. That
at most one of two codes that replace one another is good needs that a handler which is sending
one has voided the others, and that no other is sending meanwhile. That sessions follow the
password needs that a login under way holds the present password, or the token of a device, or
has been noted in `crossed`, at each step of a reset; that a verified user has wallets, that
their handler is on its way to make them or one was lost.

**Approval.** That a user trades only once Busha approved is a fact about everything that can tell
it: the customer row, the notices under way and what each handler has seen never say `active`
before Busha does, and Busha takes it back nowhere. That no application is then left open
needs that each open one has a handler which will close it, until handlers meet.

**Quotes.** That a sale is paid into an account that waits for its amount is a fact about
every step before the transfer is made: `Fits` says, place by place, which recipient a handler
aims at and for how much. As PalmPay's accounts are temporary and take one payment, `Alone` says
that what was opened for one sale is aimed at by no other handler and by no transfer. That a
sale opens at most three of them is kept as a sum over the handlers of what each may yet
open (`FewOpened`), whence the finite set of handlers. That an estimate loses no
news of the customer needs that what it read of the profile is still so, unless a sync has met
it (`Informing`); that the limits hold, that a handler which moves coin was told of the network
it moves on (`CoinAsked`).

**Sums.** A sum over a set is a recursion in an unspecified order. An induction over it cannot
be applied here, but a least counterexample can be taken: a well-founded relation has a minimal
element in any nonempty set (`WFMin`), and the strict subsets of a finite set are one. `Sums`
derives from it that a sum of numbers is a number, splits at any element, and follows one that
changes (`SumOfRise`), that a sum over some of the rows is one over all (`SumOfPart`), one of
credits less debits a difference of two sums (`SumOfTwo`), and that a balance keeps to what is
posted on it (`BookMoves`); `AllocationProofs` that it keeps orders between sums. The gathering
itself is then a statement about the sets of sources closed upwards, which hold with each source
all richer ones: together they give what is missing or all they have, and no smaller number of
sources could.

**Types.** A plan writes, for an account chosen from its rows, a difference of a balance
and a sum. That this is a number needs the lemmas on sums, and that the account is there
needs what each place knows of its row: a coin's transfer names an account of its sender
once it is on its way, an accepted order the one that was frozen.

**Assumptions.** `DataAssumption`, `AdAssumption`, `AccountAssumption`,
`FormAssumption`, `DealAssumption`, `AskedAssumption`, `PoolAssumption` and their like
give the constants their types and say that the rows are finitely many; TLC evaluates them
in the runs. `CodesAssumption` says that `NoCode` (0) is no code, as
the database numbers rows of `otps` from 1; `HandlersAssumption` that finitely many
handlers make quotes. No theorem has a hypothesis of its own, and nothing else is assumed.

**Only model-checked.** Liveness (`SettlesInTurn`, `FiatRowEnds`, `PaidIsCredited`,
`KycEnds`, `ProcessingEnds`), since fairness needs ENABLED. `PlanIsTheLoop`, whose loop is
RECURSIVE. And, so far, the modules of the plan's steps 5 to 8 other than
`BillPayment`, `Account`, `Kyc` and `BushaQuotes`.

## 6. What is not modelled

`PROJECT.json` lists every component with the reason. In short:

* **Administration.** Its queries, staff accounts and permissions. Its overrides write a
  status, or a user's password, without any guard: no property of such a row could
  survive them, so they are the acts of an operator outside the system. What a handler of a
  user meets (rules, rates, reviews of documents, answers, a closed account) is modelled.
* **Pages and forms.** The page of one transaction's details, charts, ranges of dates, valuation
  in dollars, profiles and their pictures, look-ups of banks and recipients, countries, the
  lists of reviews, opening a support chat, the catalogue of coins at Busha.
* **Wording.** E-mails and notices, whose failures are caught; logs.
* **Library and set-up code.** Keys, addresses, hashes, tokens, signatures and uploads; the
  seeds, the migration of wallets, the local wallet generator, controllers beyond their calls.

## 7. Running it

    tlc -workers 2 -config P2POrders.cfg MCP2PModes
    tlapm P2POrderProofs.tla

Every `.cfg` names the module it belongs to in `PROJECT.json` (`runs`). The longest runs
take a few minutes.
