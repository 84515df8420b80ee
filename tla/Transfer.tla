------------------------------- MODULE Transfer -------------------------------
(***************************************************************************)
(* Transfers and withdrawals (modules/transfer/transfer.service.ts) with   *)
(* the webhooks that finish a withdrawal                                   *)
(* (services/palmpay/palmpay.webhook.service.ts and                        *)
(* services/flutterwave/flutterwave.webhook.service.ts).                   *)
(*                                                                         *)
(* A transfer is first written as a pending row that reserves nothing.     *)
(* Verifying it moves the money: to another user at once, or by asking a   *)
(* provider to pay it out, whose notice arrives later.  Requests and       *)
(* webhooks are processes, and each awaited query is a step; the queries   *)
(* the code puts in one $transaction are one step.                         *)
(***************************************************************************)
EXTENDS VirtualAccounts, FiniteSets

CONSTANTS
  Fiats,         \* the fiat currencies; any other currency is a coin
  Forms,         \* bound: the transfers that users ask for
  TxIds,         \* bound: the transfers that can be created are 1 .. n
  MinFee,        \* the least fee of a transfer to another user
  Requests,      \* the requests and webhooks in progress at the same time
  MaxLost,       \* bound: requests cut short and provider calls unanswered
  InitAccount,   \* the initial balance of each virtual account
  InitWallet     \* the initial balance of each fiat wallet, by user and currency

NoUser == "nobody"
Payouts == {"bank_account", "mobile_money"}

ASSUME FormAssumption ==
  /\ TxIds \subseteq Nat \ {0} /\ IsFiniteSet(TxIds)
  /\ Requests # {}
  /\ MinFee \in Nat /\ MaxLost \in Nat
  /\ InitAccount \in [VAs -> Nat]
  /\ InitWallet \in [Users \X Fiats -> Nat]
  /\ NoUser \notin Users
  /\ Forms # {}
  /\ \A f \in Forms :
       /\ f.from \in Users /\ f.amount \in Nat \ {0}
       /\ f.channel \in Payouts => f.to = NoUser /\ f.currency \in Fiats
       /\ f.channel \notin Payouts =>
            /\ f.channel = "rhionx_user"
            /\ f.to \in Users \ {f.from}
            \* 0.1% of an amount is a whole number of units, or below the least fee
            /\ f.amount % 1000 = 0 \/ f.amount <= 1000 * MinFee

VARIABLES
  tx,         \* transactions: the row of each transfer
  credited,   \* the transfers whose credit row (reference-CREDIT) exists
  account,    \* virtual_accounts.account_balance
  available,  \* virtual_accounts.available_balance
  wallet,     \* wallets.balance of the fiat wallets
  payout,     \* what each payout has come to at the provider
  req,        \* the locals of each request in progress
  lost        \* how many requests were cut short or calls left unanswered

ledgers == <<account, available, wallet>>
vars == <<tx, credited, account, available, wallet, payout, req, lost>>

Final == {"completed", "failed", "cancelled"}
Status == {"none", "pending", "processing"} \cup Final

\* A row of transactions.  source is metadata.sourceVirtualAccountId; asked,
\* debited and refunded are metadata.palmpayOrderId (or flwPayoutReference),
\* metadata.walletDebited and metadata.refunded being set.
TxRow ==
  [status : Status, form : Forms, fee : Nat, source : VAs \cup {NoVA},
   asked : BOOLEAN, debited : BOOLEAN, refunded : BOOLEAN]
Pending(f, fee, va) ==
  [status |-> "pending", form |-> f, fee |-> fee, source |-> va,
   asked |-> FALSE, debited |-> FALSE, refunded |-> FALSE]
BlankRow == [Pending(CHOOSE f \in Forms : TRUE, 0, NoVA) EXCEPT !.status = "none"]

Steps == {"idle", "check", "allocate", "source", "payout", "refused", "debit",
          "complete", "debitFiat", "debitCoin", "recipient", "creditFiat",
          "creditCoin", "ask", "answer", "palmpay", "flutterwave"}

\* The locals of a request: the row it has read, the balances it has read, the
\* rows its allocation will write and what the provider told it.
Locals(step, t, row, x, y, plan, told) ==
  [pc |-> step, t |-> t, row |-> row, x |-> x, y |-> y, plan |-> plan, told |-> told]
Idle == Locals("idle", 0, BlankRow, 0, 0, {}, "none")

-----------------------------------------------------------------------------
Fee(f) ==
  IF f.channel \in Payouts THEN 0
  ELSE IF f.amount \div 1000 > MinFee THEN f.amount \div 1000 ELSE MinFee
Total(row) == row.form.amount + row.fee
IsCoin(f) == f.currency \notin Fiats
Sender(row) == <<row.form.from, row.form.currency>>
Receiver(row) == <<row.form.to, row.form.currency>>

\* A form that names a network (USDT_TRON) draws on the account there; one that
\* names only the stablecoin draws on the account with the most available.
SourceAccounts(f) ==
  LET pool == Family(f.from)
      named == {va \in AccountsOf(f.from) : Ledger[va] = f.currency}
  IN  IF Unified(f.currency) /\ named = {}
      THEN {va \in pool : \A w \in pool : available[w] <= available[va]}
      ELSE named
\* What the sender may spend: the whole pool of a stablecoin.
Spendable(f, va) ==
  IF ~IsCoin(f) THEN wallet[<<f.from, f.currency>>]
  ELSE IF Unified(f.currency) THEN TotalAvailable(available, Family(f.from))
  ELSE available[va]

\* Where the recipient is credited: the account of the sender's network, or NoVA.
RecipientVA(row) ==
  IF row.source = NoVA THEN NoVA ELSE ExactVA(row.form.to, Ledger[row.source])

\* mapPalmPayStatus: an order the provider is still working on is `pending`.
Mapped(state) == IF state \in Final THEN state ELSE "pending"

-----------------------------------------------------------------------------
Init ==
  /\ tx = [t \in TxIds |-> BlankRow]
  /\ credited = {}
  /\ account = InitAccount
  /\ available = InitAccount
  /\ wallet = InitWallet
  /\ payout = [t \in TxIds |-> "none"]
  /\ req = [p \in Requests |-> Idle]
  /\ lost = 0

At(p, step) == req[p].pc = step
\* The request goes on with the row it has and with what it knows now.
Carry(p, step, x, y, plan, told) ==
  req' = [req EXCEPT ![p] = Locals(step, req[p].t, req[p].row, x, y, plan, told)]
Onward(p, step, x, y) == Carry(p, step, x, y, {}, "none")
Goto(p, step) == Onward(p, step, req[p].x, req[p].y)
Finish(p) == req' = [req EXCEPT ![p] = Idle]
\* The handler's first query: it reads row t and goes on with it.
Load(p, t, step) ==
  req' = [req EXCEPT ![p] = Locals(step, t, tx[t], 0, 0, {}, "none")]
\* A query that writes the row of transfer t: row is what it leaves.
Write(t, row) == tx' = [tx EXCEPT ![t] = row]

\* initiateTransfer: the balance is checked and a pending row inserted; nothing
\* is reserved, so what was read in between does not matter and it is one step.
InitiateTransfer ==
  \E t \in TxIds, f \in Forms :
    \E va \in IF IsCoin(f) THEN SourceAccounts(f) ELSE {NoVA} :
      /\ \A k \in TxIds : (tx[k].status = "none") <=> (k >= t)
      /\ f.amount + Fee(f) <= Spendable(f, va)
      /\ Write(t, Pending(f, Fee(f), va))
      /\ UNCHANGED <<credited, ledgers, payout, req, lost>>

-----------------------------------------------------------------------------
(* verifyTransfer                                                          *)

\* Only a pending transfer can be verified.
StartVerify(p) ==
  \E t \in TxIds :
    /\ At(p, "idle")
    /\ tx[t].status = "pending"
    /\ Load(p, t, "check")
    /\ UNCHANGED <<tx, credited, ledgers, payout>>

\* The balance is checked again; a stablecoin is first gathered on the account
\* of the transfer's network, by a transaction that reads a snapshot.
CheckBalance(p) ==
  LET row   == req[p].row
      f     == row.form
      moves == Plan(available, Family(f.from), row.source, Total(row))
  IN  /\ At(p, "check")
      /\ IF Total(row) > Spendable(f, row.source) THEN Finish(p)
         ELSE IF f.channel \in Payouts THEN Goto(p, "payout")
         ELSE IF ~IsCoin(f) THEN Onward(p, "complete", wallet[Sender(row)], 0)
         ELSE IF ~Unified(f.currency)
         THEN Onward(p, "complete", account[row.source], available[row.source])
         ELSE IF moves = {} THEN Goto(p, "source")
         ELSE Carry(p, "allocate", 0, 0, moves, "none")
      /\ UNCHANGED <<tx, credited, ledgers, payout>>

CommitAllocation(p) ==
  /\ At(p, "allocate")
  /\ available' = Apply(req[p].plan, available)
  /\ Goto(p, "source")
  /\ UNCHANGED <<tx, credited, account, wallet, payout>>

ReadSource(p) ==
  /\ At(p, "source")
  /\ Onward(p, "complete", account[req[p].row.source], available[req[p].row.source])
  /\ UNCHANGED <<tx, credited, ledgers, payout>>

\* The provider is asked.  It refuses, or takes the order, or takes it and its
\* answer is lost.  A second request for an order it has taken changes nothing
\* there, whichever way it is answered.
AskProvider(p) ==
  LET t == req[p].t
  IN  /\ At(p, "payout")
      /\ \/ /\ Goto(p, "refused")
            /\ UNCHANGED <<payout, lost>>
         \/ /\ payout' = [payout EXCEPT ![t] = IF @ = "none" THEN "accepted" ELSE @]
            /\ \/ Goto(p, "debit") /\ UNCHANGED lost
               \/ Goto(p, "refused") /\ lost < MaxLost /\ lost' = lost + 1
      /\ UNCHANGED <<tx, credited, ledgers>>

\* The catch block: the row fails, whatever it has become.
MarkRefused(p) ==
  LET t == req[p].t
  IN  /\ At(p, "refused")
      /\ Write(t, [req[p].row EXCEPT !.status = "failed", !.asked = TRUE])
      /\ Finish(p)
      /\ UNCHANGED <<credited, ledgers, payout>>

\* One transaction: the row goes on from the metadata read at the start, and
\* the wallet is debited.
DebitPayout(p) ==
  LET t == req[p].t
      row == req[p].row
  IN  /\ At(p, "debit")
      /\ Write(t, [row EXCEPT !.status = "processing", !.asked = TRUE,
                              !.debited = TRUE])
      /\ wallet' = [wallet EXCEPT ![Sender(row)] = @ - Total(row)]
      /\ Finish(p)
      /\ UNCHANGED <<credited, account, available, payout>>

\* A transfer to a user is completed before its money is moved.
MarkCompleted(p) ==
  LET t == req[p].t
      row == req[p].row
  IN  /\ At(p, "complete")
      /\ Write(t, [row EXCEPT !.status = "completed", !.debited = TRUE])
      /\ Goto(p, IF IsCoin(row.form) THEN "debitCoin" ELSE "debitFiat")
      /\ UNCHANGED <<credited, ledgers, payout>>

\* The balances read before are written back, less the amount and the fee.
DebitFiat(p) ==
  LET row == req[p].row
  IN  /\ At(p, "debitFiat")
      /\ wallet' = [wallet EXCEPT ![Sender(row)] = req[p].x - Total(row)]
      /\ Goto(p, "recipient")
      /\ UNCHANGED <<tx, credited, account, available, payout>>
DebitCoin(p) ==
  LET row == req[p].row
  IN  /\ At(p, "debitCoin")
      /\ account' = [account EXCEPT ![row.source] = req[p].x - Total(row)]
      /\ available' = [available EXCEPT ![row.source] = req[p].y - Total(row)]
      /\ Goto(p, "recipient")
      /\ UNCHANGED <<tx, credited, wallet, payout>>

\* Mutant: the recipient is credited on top of the sender's old balance.
ReadRecipientWrong(p) ==
  LET row == req[p].row
  IN  /\ At(p, "recipient")
      /\ Onward(p, IF IsCoin(row.form) THEN "creditCoin" ELSE "creditFiat",
                req[p].x, req[p].y)
      /\ UNCHANGED <<tx, credited, ledgers, payout>>

\* A recipient without an account on the network gets nothing: the failure is
\* caught and logged.
ReadRecipient(p) ==
  LET row == req[p].row
      va  == RecipientVA(row)
  IN  /\ At(p, "recipient")
      /\ IF ~IsCoin(row.form) THEN Onward(p, "creditFiat", wallet[Receiver(row)], 0)
         ELSE IF va = NoVA THEN Finish(p)
         ELSE Onward(p, "creditCoin", account[va], available[va])
      /\ UNCHANGED <<tx, credited, ledgers, payout>>

\* The credit row has a unique reference: a second one fails, and is caught.
CreditFiat(p) ==
  LET row == req[p].row
  IN  /\ At(p, "creditFiat")
      /\ wallet' = [wallet EXCEPT ![Receiver(row)] = req[p].x + row.form.amount]
      /\ credited' = credited \cup {req[p].t}
      /\ Finish(p)
      /\ UNCHANGED <<tx, account, available, payout>>
CreditCoin(p) ==
  LET row == req[p].row
      va  == RecipientVA(row)
  IN  /\ At(p, "creditCoin")
      /\ account' = [account EXCEPT ![va] = req[p].x + row.form.amount]
      /\ available' = [available EXCEPT ![va] = req[p].y + row.form.amount]
      /\ credited' = credited \cup {req[p].t}
      /\ Finish(p)
      /\ UNCHANGED <<tx, wallet, payout>>

-----------------------------------------------------------------------------
(* getTransferReceipt: a bank withdrawal under way is looked up            *)

StartReceipt(p) ==
  \E t \in TxIds :
    /\ At(p, "idle")
    /\ tx[t].form.channel = "bank_account"
    /\ tx[t].status \in {"pending", "processing"}
    /\ tx[t].asked
    /\ Load(p, t, "ask")
    /\ UNCHANGED <<tx, credited, ledgers, payout>>

QueryPayout(p) ==
  /\ At(p, "ask")
  /\ Carry(p, "answer", 0, 0, {}, payout[req[p].t])
  /\ UNCHANGED <<tx, credited, ledgers, payout>>

\* Mutant: the provider's own word for the status is stored.
WriteReceiptRaw(p) ==
  /\ At(p, "answer")
  /\ Write(req[p].t, [req[p].row EXCEPT !.status = req[p].told])
  /\ Finish(p)
  /\ UNCHANGED <<credited, ledgers, payout>>

\* The row read at the start is written back with the status the answer maps to.
WriteReceipt(p) ==
  /\ At(p, "answer")
  /\ Write(req[p].t, [req[p].row EXCEPT !.status = Mapped(req[p].told)])
  /\ Finish(p)
  /\ UNCHANGED <<credited, ledgers, payout>>

-----------------------------------------------------------------------------
(* The webhooks                                                            *)

\* PalmPay's notice finds its withdrawal by the order id in the metadata.
PalmPayNotice(p, t) ==
  /\ At(p, "idle")
  /\ tx[t].form.channel = "bank_account"
  /\ payout[t] \in Final
  /\ tx[t].status \in {"pending", "processing"} /\ tx[t].asked
  /\ Load(p, t, "palmpay")
  /\ UNCHANGED <<tx, credited, ledgers, payout>>

\* Mutant: a failure is written down as a success.
SettlePalmPayAlways(p) ==
  /\ At(p, "palmpay")
  /\ Write(req[p].t, [req[p].row EXCEPT !.status = "completed"])
  /\ Finish(p)
  /\ UNCHANGED <<credited, ledgers, payout>>

\* processPayoutWebhook: the status follows the notice, and no money moves.
SettlePalmPay(p) ==
  LET t == req[p].t
  IN  /\ At(p, "palmpay")
      /\ Write(t, [req[p].row EXCEPT !.status = Mapped(payout[t])])
      /\ Finish(p)
      /\ UNCHANGED <<credited, ledgers, payout>>

\* Mutant: only a row that is still pending is looked for.
FlutterwaveNoticePending(p, t) ==
  /\ At(p, "idle")
  /\ tx[t].form.channel = "mobile_money"
  /\ payout[t] \in Final
  /\ tx[t].status = "pending"
  /\ Load(p, t, "flutterwave")
  /\ UNCHANGED <<tx, credited, ledgers, payout>>

\* Flutterwave's finds it by a reference made from the transaction's own.
FlutterwaveNotice(p, t) ==
  /\ At(p, "idle")
  /\ tx[t].form.channel = "mobile_money"
  /\ payout[t] \in Final
  /\ tx[t].status \in {"pending", "processing"}
  /\ Load(p, t, "flutterwave")
  /\ UNCHANGED <<tx, credited, ledgers, payout>>

\* processTransferWebhook: a failed payout gives the money back, if the row that
\* was read says that it was taken and not given back.
SettleFlutterwave(p) ==
  LET t    == req[p].t
      row  == req[p].row
      over == payout[t] # "completed"
      back == over /\ row.debited /\ ~row.refunded
  IN  /\ At(p, "flutterwave")
      /\ Write(t, [row EXCEPT !.status = payout[t], !.asked = TRUE,
                              !.refunded = IF over THEN row.debited ELSE @])
      /\ wallet' = IF back
                   THEN [wallet EXCEPT ![Sender(row)] = @ + Total(row)] ELSE wallet
      /\ Finish(p)
      /\ UNCHANGED <<credited, account, available, payout>>

-----------------------------------------------------------------------------
\* The provider finishes a payout it has taken.
PayoutEnds(t) ==
  /\ payout[t] = "accepted"
  /\ \E outcome \in Final : payout' = [payout EXCEPT ![t] = outcome]
  /\ UNCHANGED <<tx, credited, ledgers, req, lost>>

\* A query fails, or the server restarts: what the request had left to do is
\* lost, and nothing takes it up again.
RequestLost(p) ==
  /\ lost < MaxLost
  /\ lost' = lost + 1
  /\ ~At(p, "idle")
  /\ Finish(p)
  /\ UNCHANGED <<tx, credited, ledgers, payout>>

\* A request in progress runs its next query.
Advance(p) ==
  \/ AskProvider(p)
  \/ /\ UNCHANGED lost
     /\ \/ CheckBalance(p) \/ CommitAllocation(p) \/ ReadSource(p)
        \/ MarkRefused(p) \/ DebitPayout(p) \/ MarkCompleted(p)
        \/ DebitFiat(p) \/ DebitCoin(p) \/ ReadRecipient(p)
        \/ CreditFiat(p) \/ CreditCoin(p)
        \/ QueryPayout(p) \/ WriteReceipt(p)
        \/ SettlePalmPay(p) \/ SettleFlutterwave(p)

Notice(p, t) == UNCHANGED lost /\ (PalmPayNotice(p, t) \/ FlutterwaveNotice(p, t))

Next ==
  \/ InitiateTransfer
  \/ \E p \in Requests : UNCHANGED lost /\ (StartVerify(p) \/ StartReceipt(p))
  \/ \E p \in Requests, t \in TxIds : Notice(p, t)
  \/ \E p \in Requests : Advance(p) \/ RequestLost(p)
  \/ \E t \in TxIds : PayoutEnds(t)

Spec == Init /\ [][Next]_vars

\* Node runs a request on, and the providers finish the orders they have taken and
\* get their notice of it through while the row is there to be found.
Fairness ==
  /\ \A p \in Requests : WF_vars(Advance(p))
  /\ \A t \in TxIds : /\ WF_vars(PayoutEnds(t))
                      /\ SF_vars(\E p \in Requests : Notice(p, t))
FairSpec == Spec /\ Fairness

-----------------------------------------------------------------------------
(* Properties                                                              *)

\* Every variable has its type.
TypeOK ==
  /\ tx \in [TxIds -> TxRow]
  /\ credited \subseteq TxIds
  /\ account \in [VAs -> Int] /\ available \in [VAs -> Int]
  /\ wallet \in [Users \X Fiats -> Int]
  /\ payout \in [TxIds -> {"none", "accepted"} \cup Final]
  /\ req \in [Requests -> [pc : Steps, t : TxIds \cup {0}, row : TxRow,
                           x : Int, y : Int,
                           plan : SUBSET [va : VAs, available : Int],
                           told : {"none", "accepted"} \cup Final]]
  /\ lost \in 0 .. MaxLost

\* No transfer gets ahead of its evidence, however requests and webhooks
\* interleave or fail: a payout is completed or refunded only on what the
\* provider says it came to, a refund only gives back what was taken, and a
\* recipient is credited only for a completed transfer.
Evidence ==
  \A t \in TxIds :
    LET row == tx[t]
    IN  /\ row.status = "processing" => row.debited /\ payout[t] # "none"
        /\ row.form.channel \in Payouts /\ row.status = "completed" =>
             payout[t] = "completed"
        /\ row.refunded => row.debited /\ payout[t] \in {"failed", "cancelled"}
        /\ t \in credited => row.status = "completed" /\ row.debited
        /\ row.status = "pending" /\ ~row.asked => ~row.debited

\* All requests have been answered.
Quiet == \A p \in Requests : At(p, "idle")

\* Served one after the other, no wallet is overdrawn, nor any spendable coin.
NoOverdraft ==
  /\ \A w \in Users \X Fiats : wallet[w] >= 0
  /\ \A va \in VAs : available[va] >= 0

Taken(row) == row.debited /\ ~row.refunded

\* What the transfers of S bring their recipients, and cost their senders.
Brought(S) == SumFunctionOnSet([t \in TxIds |-> tx[t].form.amount], S)
Cost(S)    == SumFunctionOnSet([t \in TxIds |-> Total(tx[t])], S)

\* A user's pools: the accounts of a stablecoin together, any other alone.
Pools(u) == {Family(u)} \cup {{va} : va \in AccountsOf(u) \ Family(u)}

\* When all is quiet, a balance differs from its first value by what the rows
\* say was taken and credited: what is not refunded is gone, what is refunded is
\* back, and a coin moved between networks stays in its pool.  A wallet used for
\* a bank withdrawal is left out: looking up its receipt makes it pending again,
\* and it can be taken twice (see VerifiedOnce).
BooksBalance ==
  Quiet =>
    /\ \A w \in Users \X Fiats :
         (\A t \in TxIds : Sender(tx[t]) = w => tx[t].form.channel # "bank_account") =>
           wallet[w] = InitWallet[w]
             + Brought({t \in credited : Receiver(tx[t]) = w})
             - Cost({t \in TxIds : Taken(tx[t]) /\ Sender(tx[t]) = w})
    /\ \A u \in Users : \A pool \in Pools(u) :
         LET gained == Brought({t \in credited : RecipientVA(tx[t]) \in pool})
             gone   == Cost({t \in TxIds : Taken(tx[t]) /\ tx[t].source \in pool})
             then   == SumFunctionOnSet(InitAccount, pool) + gained - gone
         IN  /\ SumFunctionOnSet(account, pool) = then
             /\ SumFunctionOnSet(available, pool) = then

\* When all is quiet, every transfer that has ended is settled: a payout that
\* failed on mobile money was given back, one that the provider has taken was
\* debited, and a transfer to a user has reached any account the user has.
Settled ==
  Quiet =>
    \A t \in TxIds :
      LET row == tx[t]
      IN  /\ row.form.channel = "mobile_money" /\ row.status \in {"failed", "cancelled"} =>
               ~Taken(row)
          /\ payout[t] # "none" => row.debited
          /\ /\ row.form.channel = "rhionx_user" /\ row.status = "completed"
             /\ IsCoin(row.form) => RecipientVA(row) # NoVA
             => t \in credited

\* A withdrawal in progress ends, once the provider has ended it.
SettlesEventually ==
  \A t \in TxIds : tx[t].status = "processing" ~> tx[t].status \in Final

\* "Transaction is already ...": a transfer that has been debited is not taken to
\* the provider again.
VerifiedOnce ==
  \A p \in Requests : At(p, "payout") => ~req[p].row.debited
=============================================================================
