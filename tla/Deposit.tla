------------------------------ MODULE Deposit ------------------------------
(***************************************************************************)
(* Deposits (modules/deposit/deposit.service.ts): a bank transfer to an    *)
(* account that PalmPay opens for the deposit, or a mobile-money charge by *)
(* Flutterwave.  The provider's notice, or the user looking at a pending   *)
(* deposit, credits the wallet (processDepositWebhook of palmpay.webhook   *)
(* and processChargeWebhook of flutterwave.webhook).                       *)
(*                                                                         *)
(* A run of a handler is a process, and each awaited query, provider call  *)
(* or database transaction is a step.                                      *)
(***************************************************************************)
EXTENDS Integers, FiniteSets, Functions

CONSTANTS
  Users,        \* account holders
  DepositIds,   \* bound: the deposits they may make
  Asked,        \* Asked[d]: who makes deposit d, how much, and through whom
  Requests,     \* the handlers in progress at the same time
  MaxLost,      \* bound: handlers cut short and answers lost
  InitWallet    \* the initial balance of each user's wallet

NoId == "no deposit"
Providers == {"palmpay", "flutterwave"}

ASSUME AskedAssumption ==
  /\ MaxLost \in Nat
  /\ InitWallet \in [Users -> Nat]
  /\ Asked \in [DepositIds -> [user : Users, amount : Nat \ {0}, via : Providers]]
  /\ IsFiniteSet(DepositIds) /\ NoId \notin DepositIds

VARIABLES
  row,        \* the status of each deposit's row in transactions
  account,    \* the deposits with a row in palmpay_virtual_accounts
  wallet,     \* wallets.balance
  charge,     \* the order or charge of each deposit, as its provider knows it
  req,        \* the locals of each handler in progress
  lost,       \* how many handlers were cut short and answers lost
  disturbed   \* history: deposits that handlers met on or that one was lost on

vars == <<row, account, wallet, charge, req, lost, disturbed>>

Ended == {"completed", "failed", "cancelled"}
Status == {"none", "pending"} \cup Ended
Steps == {"idle", "ask", "account", "markFailed", "query", "find", "apply"}

\* The locals of a handler: its deposit and what the provider told of it.
Locals(step, d, told) == [pc |-> step, d |-> d, told |-> told]
Idle == Locals("idle", NoId, "none")

Init ==
  /\ row = [d \in DepositIds |-> "none"]
  /\ account = {}
  /\ wallet = InitWallet
  /\ charge = [d \in DepositIds |-> "none"]
  /\ req = [p \in Requests |-> Idle]
  /\ lost = 0
  /\ disturbed = {}

At(p, step) == req[p].pc = step
Busy(p) == ~At(p, "idle")
Become(p, r) == req' = [req EXCEPT ![p] = r]
Goto(p, step) == Become(p, Locals(step, req[p].d, req[p].told))
Finish(p) == Become(p, Idle)
SetRow(d, s) == row' = [row EXCEPT ![d] = s]
\* A handler starts on d: it has met another if one is there already.
Meet(d) ==
  disturbed' = IF \E q \in Requests : req[q].d = d THEN disturbed \cup {d} ELSE disturbed

-----------------------------------------------------------------------------
(* initiateDeposit                                                         *)

\* The row comes first, pending.
Initiate(p, d, via) ==
  /\ At(p, "idle") /\ row[d] = "none" /\ \A q \in Requests : req[q].d # d
  /\ Asked[d].via = via
  /\ SetRow(d, "pending")
  /\ Become(p, Locals("ask", d, "none"))
  /\ UNCHANGED <<account, wallet, charge, lost, disturbed>>
InitiateBank(p, d) == Initiate(p, d, "palmpay")
InitiateMomo(p, d) == Initiate(p, d, "flutterwave")

\* The provider refuses, or opens an order and the handler goes on; or its answer
\* is lost, which the code cannot tell from a refusal.
Ask(p, via, GoOn) ==
  LET d      == req[p].d
      Opened == charge' = [charge EXCEPT ![d] = "pending"]
  IN  /\ At(p, "ask") /\ Asked[d].via = via
      /\ \/ Goto(p, "markFailed") /\ UNCHANGED <<charge, lost, disturbed>>
         \/ Opened /\ GoOn /\ UNCHANGED <<lost, disturbed>>
         \/ /\ lost < MaxLost /\ lost' = lost + 1
            /\ disturbed' = disturbed \cup {d}
            /\ Opened /\ Goto(p, "markFailed")
      /\ UNCHANGED <<row, account, wallet>>
AskPalmPay(p) == Ask(p, "palmpay", Goto(p, "account"))
\* What is written of a charge is metadata alone.
AskFlutterwave(p) == Ask(p, "flutterwave", Finish(p))

\* PalmPay's account for the deposit, by which its notices find the row.
CreateAccount(p) ==
  /\ At(p, "account")
  /\ account' = account \cup {req[p].d}
  /\ Finish(p)
  /\ UNCHANGED <<row, wallet, charge, lost, disturbed>>

\* The catch block: whatever has become of the row, it fails.
MarkFailed(p) ==
  /\ At(p, "markFailed")
  /\ SetRow(req[p].d, "failed")
  /\ Finish(p)
  /\ UNCHANGED <<account, wallet, charge, lost, disturbed>>

-----------------------------------------------------------------------------
(* The webhooks, and checkDepositStatus                                    *)

\* A notice of the provider says how the order ended.
Notice(p, d) ==
  /\ At(p, "idle") /\ charge[d] \in Ended
  /\ Become(p, Locals("find", d, charge[d]))
  /\ Meet(d)
  /\ UNCHANGED <<row, account, wallet, charge, lost>>

\* The user looks at the deposit: the provider is asked while it is pending.
CheckDepositStatus(p, d) ==
  /\ At(p, "idle") /\ row[d] = "pending"
  /\ Become(p, Locals("query", d, "none"))
  /\ Meet(d)
  /\ UNCHANGED <<row, account, wallet, charge, lost>>
QueryStatus(p) ==
  LET d == req[p].d
  IN  /\ At(p, "query")
      /\ Become(p, Locals("find", d, charge[d]))
      /\ UNCHANGED <<row, account, wallet, charge, lost, disturbed>>

\* Mutant: the status of the row is not looked at.
FindDepositAny(p) ==
  /\ At(p, "find")
  /\ IF req[p].told \in Ended THEN Goto(p, "apply") ELSE Finish(p)
  /\ UNCHANGED <<row, account, wallet, charge, lost, disturbed>>

\* Mutant: an order that PalmPay has not ended yet counts as paid.
FindDepositEarly(p) ==
  LET d == req[p].d
  IN  /\ At(p, "find")
      /\ IF row[d] = "pending"
         THEN Become(p, Locals("apply", d, "completed")) ELSE Finish(p)
      /\ UNCHANGED <<row, account, wallet, charge, lost, disturbed>>

\* A completed deposit is left alone; one that failed is found by PalmPay's
\* account but not by Flutterwave's reference.
FoundByAccount(d) == d \in account /\ row[d] # "completed"
FoundByReference(d) == row[d] = "pending"
\* Mutant: every deposit is looked up by PalmPay's account.
FoundWrong(d) == FoundByAccount(d)
Found(d) ==
  IF Asked[d].via = "palmpay" THEN FoundByAccount(d) ELSE FoundByReference(d)
FindDeposit(p) ==
  /\ At(p, "find")
  /\ IF Found(req[p].d) /\ req[p].told \in Ended THEN Goto(p, "apply") ELSE Finish(p)
  /\ UNCHANGED <<row, account, wallet, charge, lost, disturbed>>

\* Mutant: the word of Flutterwave goes into the row as it is.
ApplyStatusRaw(p) ==
  LET d    == req[p].d
      paid == req[p].told = "completed"
  IN  /\ At(p, "apply")
      /\ SetRow(d, IF paid THEN "successful" ELSE req[p].told)
      /\ wallet' = IF paid THEN [wallet EXCEPT ![Asked[d].user] = @ + Asked[d].amount]
                   ELSE wallet
      /\ Finish(p)
      /\ UNCHANGED <<account, charge, lost, disturbed>>

\* One transaction: the wallet is credited and the row completed, or it fails.
\* The row is not read again.
ApplyStatus(p) ==
  LET d == req[p].d
  IN  /\ At(p, "apply")
      /\ SetRow(d, req[p].told)
      /\ IF req[p].told = "completed"
         THEN wallet' = [wallet EXCEPT ![Asked[d].user] = @ + Asked[d].amount]
         ELSE UNCHANGED wallet
      /\ Finish(p)
      /\ UNCHANGED <<account, charge, lost, disturbed>>

-----------------------------------------------------------------------------
\* The provider: only who was given the account can pay into it.
ChargeEnds(d) ==
  /\ charge[d] = "pending"
  /\ \E s \in Ended :
       /\ s = "completed" /\ Asked[d].via = "palmpay" => d \in account
       /\ charge' = [charge EXCEPT ![d] = s]
  /\ UNCHANGED <<row, account, wallet, req, lost, disturbed>>

\* A query fails or the server restarts: the handler ends, or goes to the catch
\* block of the initiation.
RequestLost(p) ==
  /\ lost < MaxLost /\ Busy(p)
  /\ lost' = lost + 1
  /\ disturbed' = disturbed \cup {req[p].d}
  /\ \/ Finish(p)
     \/ At(p, "account") /\ Goto(p, "markFailed")
  /\ UNCHANGED <<row, account, wallet, charge>>

Advance(p) ==
  \/ AskPalmPay(p) \/ AskFlutterwave(p) \/ CreateAccount(p) \/ MarkFailed(p)
  \/ QueryStatus(p) \/ FindDeposit(p) \/ ApplyStatus(p)

Next ==
  \/ \E p \in Requests, d \in DepositIds :
       \/ InitiateBank(p, d) \/ InitiateMomo(p, d)
       \/ Notice(p, d) \/ CheckDepositStatus(p, d)
  \/ \E p \in Requests : Advance(p) \/ RequestLost(p)
  \/ \E d \in DepositIds : ChargeEnds(d)

Spec == Init /\ [][Next]_vars

\* Node runs a handler on; while a deposit is pending its user keeps looking.
Fairness ==
  /\ \A p \in Requests : WF_vars(Advance(p))
  /\ \A d \in DepositIds : SF_vars(\E p \in Requests : CheckDepositStatus(p, d))
FairSpec == Spec /\ Fairness

-----------------------------------------------------------------------------
(* Properties                                                              *)

\* Every variable has its type.
TypeOK ==
  /\ row \in [DepositIds -> Status]
  /\ account \subseteq DepositIds
  /\ wallet \in [Users -> Int]
  /\ charge \in [DepositIds -> Status]
  /\ req \in [Requests -> [pc : Steps, d : DepositIds \cup {NoId}, told : Status]]
  /\ lost \in 0 .. MaxLost
  /\ disturbed \subseteq DepositIds

\* However notices, looks and initiations interleave or fail, a row is completed
\* only when the provider was paid and cancelled only when it says so, and one
\* that PalmPay was paid for has not failed unless the initiation was cut short.
Evidence ==
  \A d \in DepositIds :
    /\ row[d] \in {"completed", "cancelled"} => charge[d] = row[d]
    /\ row[d] = "failed" /\ charge[d] = "completed" => d \in disturbed

\* Where handlers did not meet, the wallet holds what it held and each completed
\* deposit once.
Amounts == [d \in DepositIds |-> Asked[d].amount]
DepositsOf(u) == {d \in DepositIds : Asked[d].user = u}
Credited(u) == {d \in DepositsOf(u) : row[d] = "completed"}
BooksBalance ==
  \A u \in Users :
    disturbed \cap DepositsOf(u) = {} =>
      wallet[u] = InitWallet[u] + SumFunctionOnSet(Amounts, Credited(u))

\* A deposit that has been paid, and whose row is pending, is credited.
PaidIsCredited ==
  \A d \in DepositIds :
    charge[d] = "completed" /\ row[d] = "pending" ~>
      row[d] = "completed" \/ d \in disturbed
=============================================================================
