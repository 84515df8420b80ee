---------------------------- MODULE TatumDeposit ----------------------------
(***************************************************************************)
(* Coin deposits through Tatum (jobs/tatum/process-webhook.job.ts,         *)
(* modules/crypto and services/tatum): a user gets one virtual account per *)
(* currency and one deposit address per chain, which Tatum watches; its    *)
(* notice of a payment to the address credits an account of the user.      *)
(*                                                                         *)
(* A run of a handler is a process, and each awaited query or call is a    *)
(* step, but for reads that follow one another with no write in between.   *)
(***************************************************************************)
EXTENDS Integers, Sequences, FiniteSets, FiniteSetsExt

CONSTANTS
  Users,       \* account holders
  CoinChain,   \* wallet_currencies in their order: the chain of each coin
  Tokens,      \* the coins that are tokens; any other is its chain's own
  Payments,    \* bound: the payments made to the users' addresses
  Payment,     \* Payment[k]: to whom, on which chain, in what, how much, whose
  Requests,    \* the handlers in progress at the same time
  MaxNotices,  \* bound: the notices that Tatum sends
  MaxLost      \* bound: queries and calls that fail, handlers cut short

Coins == DOMAIN CoinChain
Chains == {CoinChain[c] : c \in Coins}
NoCoin == 0        \* a token of no contract that wallet_currencies lists
Nobody == "nobody"
NoPayment == "no payment"

VARIABLES
  accounts,   \* the rows of virtual_accounts, by user and coin
  balance,    \* their account_balance, which equals available_balance
  addresses,  \* deposit_addresses in the order of their ids, by user and coin
  wallets,    \* user_wallets
  watched,    \* Tatum's subscriptions, by user, chain and kind
  responses,  \* the payments whose txId is in webhook_responses
  entries,    \* how many deposit rows a payment has in transactions, by coin
  notices,    \* how many notices came
  processed,  \* the payments with a notice that was handled to the end
  req,        \* the locals of each handler in progress
  lost,       \* how many queries and calls failed and handlers were cut short
  met,        \* history: users on whom two handlers ran at the same time
  cut         \* history: users on whom a handler lost a query or was cut short

vars == <<accounts, balance, addresses, wallets, watched, responses, entries,
          notices, processed, req, lost, met, cut>>
setup == <<accounts, addresses, wallets, watched>>
ledger == <<balance, responses, entries, notices, processed>>
history == <<lost, met, cut>>

Phases == {"accounts", "addresses", "links", "one", "webhook"}
Steps == {"idle", "account", "create", "address", "link", "wallet", "makeWallet",
          "insert", "watch", "watchTokens", "record", "match", "credit", "entry"}

\* The locals of a handler: the loop it is in, its user and coin, the coin that
\* getDepositAddress still wants after that, its payment and what it read.
Locals(step, phase, u, c, want, k, x) ==
  [pc |-> step, phase |-> phase, u |-> u, c |-> c, want |-> want, k |-> k, x |-> x]
Idle == Locals("idle", "one", Nobody, NoCoin, NoCoin, NoPayment, 0)

Init ==
  /\ accounts = {}
  /\ balance = [a \in Users \X Coins |-> 0]
  /\ addresses = <<>>
  /\ wallets = {} /\ watched = {} /\ responses = {} /\ processed = {}
  /\ entries = [k \in Payments |-> [c \in Coins |-> 0]]
  /\ notices = 0
  /\ req = [p \in Requests |-> Idle]
  /\ lost = 0
  /\ met = {} /\ cut = {}

At(p, step) == req[p].pc = step
Busy(p) == ~At(p, "idle")
Become(p, r) == req' = [req EXCEPT ![p] = r]
Goto(p, step) == Become(p, [req[p] EXCEPT !.pc = step])
Finish(p) == Become(p, Idle)
On(u) == {q \in Requests : req[q].u = u}
\* A handler starts for u: it has met another if there is one already.
Meet(u) ==
  /\ met' = IF On(u) = {} THEN met ELSE met \cup {u}
  /\ UNCHANGED <<lost, cut>>
Mine(p) == <<req[p].u, req[p].c>>
ChainOf(p) == CoinChain[req[p].c]

-----------------------------------------------------------------------------
(* The loops of initializeUserCryptoWalletsWithTatum and getDepositAddress *)

Turn(p, phase, c) ==
  Become(p, [req[p] EXCEPT !.pc = IF phase = "accounts" THEN "account" ELSE "address",
                           !.phase = phase, !.c = c])
NextPhase == [accounts |-> "addresses", addresses |-> "links"]
\* The handler has done with its coin.
NextTurn(p) ==
  LET r == req[p]
  IN  CASE r.phase # "one" /\ r.c < Len(CoinChain) -> Turn(p, r.phase, r.c + 1)
        [] r.phase \in DOMAIN NextPhase /\ r.c = Len(CoinChain) ->
             Turn(p, NextPhase[r.phase], 1)
        [] r.phase = "links" /\ r.c = Len(CoinChain) /\ r.want # NoCoin ->
             Turn(p, "one", r.want)
        [] OTHER -> Finish(p)
\* An error ends the handler, but for the loop that assigns the addresses.
Throw(p) == IF req[p].phase = "addresses" THEN NextTurn(p) ELSE Finish(p)

StartInit(p, u) ==
  /\ At(p, "idle")
  /\ Become(p, Locals("account", "accounts", u, 1, NoCoin, NoPayment, 0))
  /\ Meet(u)
  /\ UNCHANGED <<setup, ledger>>

GetDepositAddress(p, u, c) ==
  /\ At(p, "idle")
  /\ IF <<u, c>> \notin accounts
     THEN Become(p, Locals("account", "accounts", u, 1, c, NoPayment, 0))
     ELSE Become(p, Locals("address", "one", u, c, NoCoin, NoPayment, 0))
  /\ Meet(u)
  /\ UNCHANGED <<setup, ledger>>

-----------------------------------------------------------------------------
(* createVirtualAccountsForUser                                            *)

FindAccount(p) ==
  /\ At(p, "account")
  /\ IF Mine(p) \in accounts THEN NextTurn(p) ELSE Goto(p, "create")
  /\ UNCHANGED <<setup, ledger, history>>

\* The key of the table refuses a second account of a coin.
CreateAccount(p) ==
  /\ At(p, "create")
  /\ accounts' = accounts \cup {Mine(p)}
  /\ IF Mine(p) \in accounts THEN Throw(p) ELSE NextTurn(p)
  /\ UNCHANGED <<addresses, wallets, watched, ledger, history>>

-----------------------------------------------------------------------------
(* generateAndAssignToVirtualAccount                                       *)

Assigned == {addresses[i] : i \in DOMAIN addresses}
HasAddress(u, chain) == \E c \in Coins : CoinChain[c] = chain /\ <<u, c>> \in Assigned

\* One address serves every coin of a chain.
FindAddress(p) ==
  /\ At(p, "address")
  /\ IF Mine(p) \in Assigned THEN NextTurn(p)
     ELSE IF HasAddress(req[p].u, ChainOf(p)) THEN Goto(p, "link")
     ELSE Goto(p, "wallet")
  /\ UNCHANGED <<setup, ledger, history>>

LinkAddress(p) ==
  /\ At(p, "link")
  /\ addresses' = Append(addresses, Mine(p))
  /\ NextTurn(p)
  /\ UNCHANGED <<accounts, wallets, watched, ledger, history>>

GetUserWallet(p) ==
  /\ At(p, "wallet")
  /\ Goto(p, IF <<req[p].u, ChainOf(p)>> \in wallets THEN "insert" ELSE "makeWallet")
  /\ UNCHANGED <<setup, ledger, history>>

\* A user has one wallet on a chain: the key of the table refuses another.
CreateUserWallet(p) ==
  LET w == <<req[p].u, ChainOf(p)>>
  IN  /\ At(p, "makeWallet")
      /\ IF w \in wallets THEN Throw(p) ELSE Goto(p, "insert")
      /\ wallets' = wallets \cup {w}
      /\ UNCHANGED <<accounts, addresses, watched, ledger, history>>

\* The address is of the wallet's index 0, the same each time.
InsertAddress(p) ==
  /\ At(p, "insert")
  /\ addresses' = Append(addresses, Mine(p))
  /\ Goto(p, "watch")
  /\ UNCHANGED <<accounts, wallets, watched, ledger, history>>

\* Mutant: tokens are not watched.
WatchNativeOnly(p) ==
  /\ At(p, "watch")
  /\ watched' = watched \cup {<<req[p].u, ChainOf(p), "native">>}
  /\ NextTurn(p)
  /\ UNCHANGED <<accounts, addresses, wallets, ledger, history>>

HasTokens(chain) == \E c \in Tokens : CoinChain[c] = chain
WatchNative(p) ==
  /\ At(p, "watch")
  /\ watched' = watched \cup {<<req[p].u, ChainOf(p), "native">>}
  /\ IF HasTokens(ChainOf(p)) THEN Goto(p, "watchTokens") ELSE NextTurn(p)
  /\ UNCHANGED <<accounts, addresses, wallets, ledger, history>>
WatchTokens(p) ==
  /\ At(p, "watchTokens")
  /\ watched' = watched \cup {<<req[p].u, ChainOf(p), "token">>}
  /\ NextTurn(p)
  /\ UNCHANGED <<accounts, addresses, wallets, ledger, history>>

-----------------------------------------------------------------------------
(* The webhook: handleWebhook, processWebhook, processBlockchainWebhook    *)

\* Tatum tells of a payment, perhaps again; the row in tatum_raw_webhooks.
Kind(k) == IF Payment[k].coin \in Coins \ Tokens THEN "native" ELSE "token"
Notice(p, k) ==
  LET pay == Payment[k]
  IN  /\ At(p, "idle") /\ notices < MaxNotices
      /\ <<pay.user, pay.chain, Kind(k)>> \in watched
      /\ notices' = notices + 1
      /\ Become(p, Locals("record", "webhook", pay.user, NoCoin, NoCoin, k, 0))
      /\ Meet(pay.user)
      /\ UNCHANGED <<setup, balance, responses, entries, processed>>

RecordResponse(p) ==
  /\ At(p, "record")
  /\ responses' = IF Payment[req[p].k].tagged THEN responses \cup {req[p].k} ELSE responses
  /\ Goto(p, "match")
  /\ UNCHANGED <<setup, balance, entries, notices, processed, history>>

\* Mutant: the last row of the address is taken.
LastAddress(u, chain) ==
  LET rows == {i \in DOMAIN addresses : addresses[i][1] = u
                                          /\ CoinChain[addresses[i][2]] = chain}
  IN  IF rows = {} THEN NoCoin ELSE addresses[Max(rows)][2]

\* The coin of the first row with the address, or none.
FirstAddress(u, chain) ==
  LET rows == {i \in DOMAIN addresses : addresses[i][1] = u
                                          /\ CoinChain[addresses[i][2]] = chain}
  IN  IF rows = {} THEN NoCoin ELSE addresses[Min(rows)][2]

\* A token is told by its contract; a chain's own coin is taken to be the
\* coin of the address.
CoinFor(k) ==
  LET pay == Payment[k]
      own == FirstAddress(pay.user, pay.chain)
  IN  IF Kind(k) = "token" /\ own # NoCoin THEN pay.coin ELSE own

\* The notice is passed over, or the account it credits is read.
MatchDeposit(p) ==
  LET k == req[p].k
      c == CoinFor(k)
      a == <<req[p].u, c>>
      passed == \/ c = NoCoin
                \/ Payment[k].fromMaster
                \/ Payment[k].tagged /\ k \in responses
  IN  /\ At(p, "match")
      /\ IF passed \/ a \notin accounts
         THEN Finish(p) /\ processed' = processed \cup {k}
         ELSE /\ Become(p, [req[p] EXCEPT !.pc = "credit", !.c = c, !.x = balance[a]])
              /\ UNCHANGED processed
      /\ UNCHANGED <<setup, balance, responses, entries, notices, history>>

CreditAccount(p) ==
  /\ At(p, "credit")
  /\ balance' = [balance EXCEPT ![Mine(p)] = req[p].x + Payment[req[p].k].amount]
  /\ Goto(p, "entry")
  /\ UNCHANGED <<setup, responses, entries, notices, processed, history>>

RecordEntry(p) ==
  LET k == req[p].k
  IN  /\ At(p, "entry")
      /\ entries' = [entries EXCEPT ![k][req[p].c] = @ + 1]
      /\ processed' = processed \cup {k}
      /\ Finish(p)
      /\ UNCHANGED <<setup, balance, responses, notices, history>>

-----------------------------------------------------------------------------
\* A query or a call of Tatum fails, or the server restarts.
RequestLost(p) ==
  /\ lost < MaxLost /\ Busy(p)
  /\ lost' = lost + 1
  /\ cut' = cut \cup {req[p].u}
  /\ Throw(p) \/ Finish(p)
  /\ UNCHANGED <<setup, ledger, met>>

Advance(p) ==
  \/ FindAccount(p) \/ CreateAccount(p) \/ FindAddress(p) \/ LinkAddress(p)
  \/ GetUserWallet(p) \/ CreateUserWallet(p) \/ InsertAddress(p)
  \/ WatchNative(p) \/ WatchTokens(p)
  \/ RecordResponse(p) \/ MatchDeposit(p) \/ CreditAccount(p) \/ RecordEntry(p)

Next ==
  \/ \E p \in Requests, u \in Users :
       StartInit(p, u) \/ \E c \in Coins : GetDepositAddress(p, u, c)
  \/ \E p \in Requests, k \in Payments : Notice(p, k)
  \/ \E p \in Requests : Advance(p) \/ RequestLost(p)

Spec == Init /\ [][Next]_vars

-----------------------------------------------------------------------------
(* Properties                                                              *)

\* Every variable keeps its type.
TypeOK ==
  /\ accounts \subseteq Users \X Coins
  /\ balance \in [Users \X Coins -> Nat]
  /\ \A i \in DOMAIN addresses : addresses[i] \in accounts
  /\ wallets \subseteq Users \X Chains
  /\ watched \subseteq Users \X Chains \X {"native", "token"}
  /\ responses \subseteq Payments /\ processed \subseteq Payments
  /\ entries \in [Payments -> [Coins -> Nat]]
  /\ notices \in 0..MaxNotices
  /\ req \in [Requests -> [pc : Steps, phase : Phases, u : Users \cup {Nobody},
                           c : Coins \cup {NoCoin}, want : Coins \cup {NoCoin},
                           k : Payments \cup {NoPayment}, x : Nat]]
  /\ lost \in 0..MaxLost
  /\ met \subseteq Users /\ cut \subseteq Users

\* When a user's handlers are done, however they interleaved, Tatum watches every
\* chain on which the user has an address, unless a query was lost.  A user whose
\* handlers never met and lost nothing has no account, or an account of every coin
\* with one row for its address, the chain's own coin before the chain's tokens.
AccountsReachable ==
  \A u \in Users :
    LET mine == {i \in DOMAIN addresses : addresses[i][1] = u}
        coin(i) == addresses[i][2]
    IN  (On(u) = {} /\ u \notin cut) =>
          /\ \A i \in mine :
               LET chain == CoinChain[coin(i)]
               IN  /\ <<u, chain, "native">> \in watched
                   /\ HasTokens(chain) => <<u, chain, "token">> \in watched
          /\ u \notin met =>
               /\ {coin(i) : i \in mine} = {c \in Coins : <<u, c>> \in accounts}
               /\ {coin(i) : i \in mine} \in {{}, Coins}
               /\ \A i, j \in mine : coin(i) = coin(j) => i = j
               /\ \A i, j \in mine :
                    (CoinChain[coin(i)] = CoinChain[coin(j)] /\ i < j)
                      => coin(j) \in Tokens

\* The credits of a user whose handlers never met and lost nothing: a payment is
\* credited in its own coin and never when it came from a master wallet, and an
\* account holds the payments credited to it, as often as they were.
CoinBooks ==
  \A u \in Users \ (met \cup cut) :
    LET credited(c) == MapThenSumSet(LAMBDA k : entries[k][c] * Payment[k].amount,
                                     {k \in Payments : Payment[k].user = u})
    IN  /\ On(u) = {} => \A c \in Coins : balance[<<u, c>>] = credited(c)
        /\ \A k \in Payments : \A c \in Coins :
             (Payment[k].user = u /\ entries[k][c] > 0) =>
               c = Payment[k].coin /\ ~Payment[k].fromMaster

\* What is said of processBlockchainWebhook ("Process inbound Tatum v4 address
\* webhooks and credit virtual_accounts"): the payment in a supported coin that a
\* processed notice told of is credited.  It is not: the notice meets its own row.
ProcessedIsCredited ==
  \A k \in processed :
    LET pay == Payment[k]
    IN  (pay.coin # NoCoin /\ ~pay.fromMaster /\ pay.user \notin met \cup cut)
          => entries[k][pay.coin] > 0
=============================================================================
