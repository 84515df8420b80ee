---------------------------- MODULE BillPayment ----------------------------
(***************************************************************************)
(* Bill payments (modules/bill-payment/bill-payment.service.ts): betting   *)
(* through PalmPay, everything else through Flutterwave, out of the NGN    *)
(* wallet or as the gift of a reward claim.  A payment is initiated, then  *)
(* confirmed, which debits the wallet and places the provider's order; the *)
(* answer, the provider's notices and the user's looks settle it.          *)
(*                                                                         *)
(* A run of a handler is a process, and each awaited query, provider call  *)
(* or database transaction is a step; a transaction that reads before it   *)
(* writes is two, since a plain read under REPEATABLE READ locks nothing.  *)
(***************************************************************************)
EXTENDS Integers, FiniteSets, Functions

CONSTANTS
  Users,       \* account holders
  BillIds,     \* bound: the payments they may make
  Claims,      \* reward claims, each of one user
  Asked,       \* Asked[b]: who pays bill b, what they want to pay, the price of the
               \* plan (0 if open), through whom, and with which claim
  Mixes,       \* bound: the sets of payments that are made together
  Requests,    \* the handlers in progress at the same time
  MaxMishaps,  \* bound: handlers cut short, answers lost, notices that say pending
  InitWallet   \* the initial balance of each user's NGN wallet

NoId == "no bill"
NoClaim == "no claim"
Providers == {"palmpay", "flutterwave"}

\* The gift of a reward is airtime or data, never betting
\* (assertCategoryMatchesReward), so PalmPay serves none.
ASSUME AskedAssumption ==
  /\ MaxMishaps \in Nat /\ Mixes \subseteq SUBSET BillIds
  /\ InitWallet \in [Users -> Nat]
  /\ IsFiniteSet(BillIds) /\ NoId \notin BillIds /\ NoClaim \notin Claims
  /\ Asked \in [BillIds -> [user : Users, want : Nat \ {0}, price : Nat, via : Providers,
                            claim : Claims \cup {NoClaim}]]
  /\ \A b \in BillIds : Asked[b].via = "palmpay" => Asked[b].claim = NoClaim

VARIABLES
  bill,       \* each payment's row in transactions: status, walletDebited, refunded
  wallet,     \* wallets.balance in NGN
  claim,      \* the status of each row of reward_claims
  order,      \* the provider's order of each payment, as the provider knows it
  req,        \* the locals of each handler in progress
  mishaps,    \* how many handlers were cut short, answers lost, notices said pending
  disturbed   \* history: payments that handlers met on, that one was lost on, or
              \* whose claim another open payment had

vars == <<bill, wallet, claim, order, req, mishaps, disturbed>>

Ended == {"completed", "failed", "cancelled"}
Unpaid == {"failed", "cancelled"}
Open == {"pending", "processing"}
\* What the code makes of a provider's word.
Word == {"none", "pending"} \cup Ended
\* Flutterwave may answer of an order under way that it is accepted and no more; such
\* an order is served in the end or lapses.
Taken == {"accepted", "completed", "lapsed"}
OrderStatus == Word \cup Taken
OrderEnded == Ended \cup {"lapsed"}
Row == [status : {"none"} \cup Open \cup Ended, debited : BOOLEAN, refunded : BOOLEAN]
RowOf(status, debited, refunded) ==
  [status |-> status, debited |-> debited, refunded |-> refunded]
NoRow == RowOf("none", FALSE, FALSE)
Steps == {"idle", "debit", "order", "undo", "undoClaim", "undoRow", "refund", "answer",
          "poll", "persist", "park", "read", "lock", "settle", "claimEnd", "crumb"}

IsReward(b) == Asked[b].claim # NoClaim

\* The locals of a handler: its payment, the provider's word, shouldRefund, and the
\* row as it last read it.
Locals(step, b, told, should, seen) ==
  [pc |-> step, b |-> b, told |-> told, should |-> should, seen |-> seen]
Idle == Locals("idle", NoId, "none", FALSE, NoRow)

Init ==
  /\ bill = [b \in BillIds |-> NoRow]
  /\ wallet = InitWallet
  /\ claim = [c \in Claims |-> "none"]
  /\ order = [b \in BillIds |-> "none"]
  /\ req = [p \in Requests |-> Idle]
  /\ mishaps = 0
  /\ disturbed = {}

At(p, step) == req[p].pc = step
Busy(p) == ~At(p, "idle")
Become(p, r) == req' = [req EXCEPT ![p] = r]
Told(p, step, s) == Become(p, Locals(step, req[p].b, s, req[p].should, req[p].seen))
Goto(p, step) == Told(p, step, req[p].told)
Finish(p) == Become(p, Idle)
SetRow(b, r) == bill' = [bill EXCEPT ![b] = r]
\* Flutterwave's plans have a price, which counts whatever the user wants; bets do not.
\* Payments in NGN carry no fee.
Price(b) == IF Asked[b].price > 0 THEN Asked[b].price ELSE Asked[b].want
Amount(b) == IF Asked[b].via = "palmpay" THEN Asked[b].want ELSE Price(b)
Take(b) == wallet' = [wallet EXCEPT ![Asked[b].user] = @ - Amount(b)]
GiveBack(b) == wallet' = [wallet EXCEPT ![Asked[b].user] = @ + Amount(b)]

\* The payments of b's claim.  Handlers meet on b if one is at work on it or on one of
\* those, or if another of those is open.
Kin(b) == {b} \cup {x \in BillIds : IsReward(b) /\ Asked[x].claim = Asked[b].claim}
Served(b) == \E q \in Requests : req[q].b = b
Meet(b) ==
  disturbed' = IF \E x \in Kin(b) : Served(x) \/ (x # b /\ bill[x].status \in Open)
               THEN disturbed \cup Kin(b) ELSE disturbed
Start(p, b, step, told) ==
  /\ At(p, "idle")
  /\ Become(p, Locals(step, b, told, FALSE, bill[b]))
  /\ Meet(b)

-----------------------------------------------------------------------------
(* initiateBillPayment, and the claim it may redeem                        *)

\* The user claims a reward, for the first time or after its gift failed.
ClaimReward(c) ==
  /\ claim[c] \in {"none", "failed"}
  /\ claim' = [claim EXCEPT ![c] = "pending"]
  /\ UNCHANGED <<bill, wallet, order, req, mishaps, disturbed>>

\* Mutant: a claim that was completed may be redeemed again.
RedeemableAgain(b) == IsReward(b) => claim[Asked[b].claim] # "none"
\* The checks, and the pending row: one step, since no handler after it depends on
\* what they read.  The claim stays pending, and a second payment may redeem it too.
Affordable(b) == IsReward(b) \/ wallet[Asked[b].user] >= Amount(b)
Redeemable(b) == IsReward(b) => claim[Asked[b].claim] = "pending"
Initiate(b) ==
  /\ bill[b].status = "none"
  /\ \E mix \in Mixes : {b} \cup {x \in BillIds : bill[x].status # "none"} \subseteq mix
  /\ Redeemable(b) /\ Affordable(b)
  /\ SetRow(b, RowOf("pending", FALSE, FALSE))
  /\ Meet(b)
  /\ UNCHANGED <<wallet, claim, order, req, mishaps>>
InitiatePalmPay(b) == Asked[b].via = "palmpay" /\ Initiate(b)
InitiateFlutterwave(b) == Asked[b].via = "flutterwave" /\ Initiate(b)

-----------------------------------------------------------------------------
(* confirmBillPayment                                                      *)

\* Mutant: the status is not looked at.
ConfirmAny(p, b) ==
  /\ bill[b].status \in Open /\ Affordable(b)
  /\ Start(p, b, "debit", "none")
  /\ UNCHANGED <<bill, wallet, claim, order, mishaps>>

\* The row is read pending, and the wallet with it.
Confirm(p, b) ==
  /\ bill[b].status = "pending" /\ Affordable(b)
  /\ Start(p, b, "debit", "none")
  /\ UNCHANGED <<bill, wallet, claim, order, mishaps>>

\* One transaction debits the wallet and starts the processing, without looking at
\* the row or the balance again; the gift of a reward is not paid for.
Debit(p, via) ==
  LET b == req[p].b
  IN  /\ At(p, "debit") /\ Asked[b].via = via
      /\ SetRow(b, RowOf("processing", ~IsReward(b), FALSE))
      /\ IF IsReward(b) THEN UNCHANGED wallet ELSE Take(b)
      /\ Goto(p, "order")
      /\ UNCHANGED <<claim, order, mishaps, disturbed>>
DebitPalmPay(p) == Debit(p, "palmpay")
DebitFlutterwave(p) == Debit(p, "flutterwave")

\* How Flutterwave's word of an order in status s is read: an answer that has no status
\* but the code 200, or the details of a bill, counts as completed.
MapBillStatus(s) ==
  CASE s = "accepted" -> {"pending", "completed"}
    [] s = "lapsed"   -> {"failed"}
    [] OTHER          -> {s}
\* What an order can be when it has just been placed.
Placed(via) ==
  {"pending"} \cup Ended \cup (IF via = "flutterwave" THEN {"accepted"} ELSE {})
\* The provider opens the order, once per reference, or refuses; or its answer is
\* lost, which the code takes for a refusal.
Order(p, via, next) ==
  LET b == req[p].b
      undo == IF IsReward(b) THEN "undoClaim" ELSE "undo"
  IN  /\ At(p, "order") /\ Asked[b].via = via
      /\ \/ Goto(p, undo) /\ UNCHANGED <<order, mishaps, disturbed>>
         \/ /\ order[b] = "none"
            /\ \E s \in Placed(via) :
                 /\ order' = [order EXCEPT ![b] = s]
                 /\ \/ /\ \E told \in MapBillStatus(s) : Told(p, next[told], told)
                       /\ UNCHANGED <<mishaps, disturbed>>
                    \/ /\ mishaps < MaxMishaps /\ mishaps' = mishaps + 1
                       /\ disturbed' = disturbed \cup {b}
                       /\ Goto(p, undo)
      /\ UNCHANGED <<bill, wallet, claim>>
OrderPalmPay(p) ==
  Order(p, "palmpay", [s \in Word |-> IF s \in Unpaid THEN "refund" ELSE "answer"])
OrderFlutterwave(p) ==
  Order(p, "flutterwave", [s \in Word |-> "poll"])

\* The catch block: one transaction gives the money back and fails the row, whatever
\* has become of it; its metadata, spread from the first read, forgets the debit.
Undo(p) ==
  /\ At(p, "undo")
  /\ SetRow(req[p].b, RowOf("failed", FALSE, TRUE))
  /\ GiveBack(req[p].b)
  /\ Finish(p)
  /\ UNCHANGED <<claim, order, mishaps, disturbed>>
\* For a reward, the claim fails first and then the row, each by itself.
FailClaim(c) == claim' = [claim EXCEPT ![c] = "failed"]
UndoClaim(p) ==
  LET b == req[p].b
  IN  /\ At(p, "undoClaim")
      /\ FailClaim(Asked[b].claim)
      /\ Goto(p, "undoRow")
      /\ UNCHANGED <<bill, wallet, order, mishaps, disturbed>>
UndoRow(p) ==
  /\ At(p, "undoRow")
  /\ SetRow(req[p].b, RowOf("failed", FALSE, FALSE))
  /\ Finish(p)
  /\ UNCHANGED <<wallet, claim, order, mishaps, disturbed>>

\* Mutant: an order under way is called queued.
QueuedOr(told) == IF told = "pending" THEN "queued" ELSE told
ProcessingOr(told) == IF told = "pending" THEN "processing" ELSE told
\* PalmPay answered that the order failed: refunded at once, without a look at the row.
RefundNow(p) ==
  /\ At(p, "refund")
  /\ SetRow(req[p].b, RowOf(req[p].told, TRUE, TRUE))
  /\ GiveBack(req[p].b)
  /\ Finish(p)
  /\ UNCHANGED <<claim, order, mishaps, disturbed>>
\* PalmPay's other answers go over the row.
Answer(p) ==
  /\ At(p, "answer")
  /\ SetRow(req[p].b, RowOf(ProcessingOr(req[p].told), TRUE, FALSE))
  /\ Finish(p)
  /\ UNCHANGED <<wallet, claim, order, mishaps, disturbed>>

\* What Flutterwave may be understood to say of an order.
BillStatus(b) == MapBillStatus(order[b])
\* Flutterwave is asked once more; a poll that fails changes nothing.
Poll(p) ==
  /\ At(p, "poll")
  /\ \/ \E now \in BillStatus(req[p].b) :
          Told(p, "persist", IF now \in Ended THEN now ELSE req[p].told)
     \/ Goto(p, "persist")
  /\ UNCHANGED <<bill, wallet, claim, order, mishaps, disturbed>>
\* The metadata is written from the first read: a refund made meanwhile is forgotten.
Forget(b, status) == SetRow(b, RowOf(status, ~IsReward(b), FALSE))
Persist(p) ==
  LET b == req[p].b
  IN  /\ At(p, "persist")
      /\ Forget(b, bill[b].status)
      /\ Goto(p, IF req[p].told \in Ended THEN "read" ELSE "park")
      /\ UNCHANGED <<wallet, claim, order, mishaps, disturbed>>
Park(p) ==
  /\ At(p, "park")
  /\ Forget(req[p].b, "processing")
  /\ Finish(p)
  /\ UNCHANGED <<wallet, claim, order, mishaps, disturbed>>

-----------------------------------------------------------------------------
(* The webhooks, and syncBillPaymentStatus                                 *)

\* PalmPay's notice, possibly an old one, finds a row that is still open and was
\* confirmed (its metadata holds the order's number).
FindPalmPay(b) == Asked[b].via = "palmpay" /\ bill[b].status = "processing"
NoticePalmPay(p, b, told) ==
  /\ FindPalmPay(b)
  /\ Start(p, b, "lock", told)

\* Mutant: only payments not confirmed yet are looked for.
FindPending(b) == Asked[b].via = "flutterwave" /\ bill[b].status = "pending"
\* Flutterwave's notice finds an open row.  One that says pending is written over the
\* row it read; any other is verified and the payment is finalized.
FindFlutterwave(b) == Asked[b].via = "flutterwave" /\ bill[b].status \in Open
NoticeFlutterwave(p, b, told) ==
  /\ FindFlutterwave(b)
  /\ \/ told = "pending" /\ Start(p, b, "crumb", told)
     \/ told \in Ended /\ Start(p, b, "read", told)
Crumb(p) ==
  LET r == req[p].seen
  IN  /\ At(p, "crumb")
      /\ SetRow(req[p].b, RowOf("processing", r.debited, r.refunded))
      /\ Finish(p)
      /\ UNCHANGED <<wallet, claim, order, mishaps, disturbed>>

\* A provider tells how the order stands, or, late, that it was pending.
Notice(p, b) ==
  \E told \in {"pending"} \cup BillStatus(b) :
    /\ order[b] # "none"
    /\ mishaps' = IF told = "pending" THEN mishaps + 1 ELSE mishaps
    /\ mishaps' <= MaxMishaps
    /\ NoticePalmPay(p, b, told) \/ NoticeFlutterwave(p, b, told)
    /\ UNCHANGED <<bill, wallet, claim, order>>

\* The user looks at an open payment: Flutterwave is asked how the order ended, and
\* one that it does not know or is still at leaves the row alone.
SyncStatus(p, b) == \E told \in BillStatus(b) \cap Ended : Start(p, b, "read", told)
SyncBillPayment(p, b) ==
  /\ FindFlutterwave(b)
  /\ SyncStatus(p, b)
  /\ UNCHANGED <<bill, wallet, claim, order, mishaps>>

\* finalizeFlutterwaveBillPayment reads the row, and decides what it will call a
\* refund.
Refundable(r, told) == told \in Unpaid /\ r.debited /\ ~r.refunded
ReadFresh(p) ==
  LET b == req[p].b
      r == bill[b]
  IN  /\ At(p, "read")
      /\ IF r.status \in Ended THEN Finish(p)
         ELSE Become(p, Locals("lock", b, req[p].told,
                               Refundable(r, req[p].told) /\ ~IsReward(b), r))
      /\ UNCHANGED <<bill, wallet, claim, order, mishaps, disturbed>>

Leave(p) == IF IsReward(req[p].b) THEN Goto(p, "claimEnd") ELSE Finish(p)

\* The transaction reads it again ("locked"), and closes if it has ended.
Lock(p) ==
  LET b == req[p].b
      r == bill[b]
  IN  /\ At(p, "lock")
      /\ IF r.status \in Ended THEN Leave(p)
         ELSE Become(p, Locals("settle", b, req[p].told, req[p].should, r))
      /\ UNCHANGED <<bill, wallet, claim, order, mishaps, disturbed>>

\* Mutant: the row is closed and nothing is given back.
SettleNoRefund(p) ==
  LET b == req[p].b
      r == req[p].seen
  IN  /\ At(p, "settle")
      /\ SetRow(b, RowOf(ProcessingOr(req[p].told), r.debited, r.refunded))
      /\ Leave(p)
      /\ UNCHANGED <<wallet, claim, order, mishaps, disturbed>>

NotedPalmPay(r, told) == told \in Unpaid /\ r.debited
NotedFlutterwave(r, should) == should /\ r.debited
\* It refunds what its own read shows debited and not refunded, and sets the status;
\* Flutterwave's records the refund only if the first read called for one too.
Settle(p) ==
  LET b      == req[p].b
      told   == req[p].told
      r      == req[p].seen
      refund == Refundable(r, told) /\ ~IsReward(b)
      noted  == IF Asked[b].via = "palmpay" THEN NotedPalmPay(r, told)
                ELSE NotedFlutterwave(r, req[p].should)
  IN  /\ At(p, "settle")
      /\ IF refund THEN GiveBack(b) ELSE UNCHANGED wallet
      /\ SetRow(b, RowOf(ProcessingOr(told), r.debited, r.refunded \/ noted))
      /\ Leave(p)
      /\ UNCHANGED <<claim, order, mishaps, disturbed>>

CompleteClaim(c) == claim' = [claim EXCEPT ![c] = "completed"]
\* After the transaction, even one that changed nothing, the claim is completed or
\* fails.
ClaimEnd(p) ==
  /\ At(p, "claimEnd")
  /\ IF req[p].told = "completed" THEN CompleteClaim(Asked[req[p].b].claim)
     ELSE FailClaim(Asked[req[p].b].claim)
  /\ Finish(p)
  /\ UNCHANGED <<bill, wallet, order, mishaps, disturbed>>

-----------------------------------------------------------------------------
\* The provider serves the order, or not.
OrderEnds(b) ==
  /\ \/ order[b] = "pending" /\ \E s \in Ended : order' = [order EXCEPT ![b] = s]
     \/ /\ order[b] = "accepted"
        /\ \E s \in {"completed", "lapsed"} : order' = [order EXCEPT ![b] = s]
  /\ UNCHANGED <<bill, wallet, claim, req, mishaps, disturbed>>

\* A query fails or the server restarts: the handler ends where it is.
RequestLost(p) ==
  /\ mishaps < MaxMishaps /\ Busy(p)
  /\ mishaps' = mishaps + 1
  /\ disturbed' = disturbed \cup {req[p].b}
  /\ Finish(p)
  /\ UNCHANGED <<bill, wallet, claim, order>>

Advance(p) ==
  \/ DebitPalmPay(p) \/ DebitFlutterwave(p) \/ OrderPalmPay(p) \/ OrderFlutterwave(p)
  \/ Undo(p) \/ UndoClaim(p) \/ UndoRow(p) \/ RefundNow(p) \/ Answer(p)
  \/ Poll(p) \/ Persist(p) \/ Park(p)
  \/ Crumb(p) \/ ReadFresh(p) \/ Lock(p) \/ Settle(p) \/ ClaimEnd(p)

Next ==
  \/ \E c \in Claims : ClaimReward(c)
  \/ \E p \in Requests, b \in BillIds :
       \/ Confirm(p, b) \/ Notice(p, b) \/ SyncBillPayment(p, b)
  \/ \E p \in Requests : Advance(p) \/ RequestLost(p)
  \/ \E b \in BillIds : InitiatePalmPay(b) \/ InitiateFlutterwave(b) \/ OrderEnds(b)

Spec == Init /\ [][Next]_vars

\* Node runs a handler on; the user keeps looking at an open payment.
Fairness ==
  /\ \A p \in Requests : WF_vars(Advance(p))
  /\ \A b \in BillIds : SF_vars(\E p \in Requests : SyncBillPayment(p, b))
FairSpec == Spec /\ Fairness

-----------------------------------------------------------------------------
(* Properties                                                              *)

\* Every variable has its type.
TypeOK ==
  /\ bill \in [BillIds -> Row]
  /\ wallet \in [Users -> Int]
  /\ claim \in [Claims -> {"none", "pending", "completed", "failed"}]
  /\ order \in [BillIds -> OrderStatus]
  /\ req \in [Requests -> [pc : Steps, b : BillIds \cup {NoId}, told : Word,
                           should : BOOLEAN, seen : Row]]
  /\ mishaps \in 0 .. MaxMishaps
  /\ disturbed \subseteq BillIds

\* However confirmations, notices and looks interleave or fail: a payment is completed
\* only when its provider has served the order or, at Flutterwave, said no more than
\* that it is accepted, and cancelled only on the provider's word; it has failed
\* against that word only where handlers met or one was lost; nothing is ordered before
\* it was confirmed, and a claim is completed only by an order that was so taken.  That
\* an order taken for completed is served is not said: it may lapse.
Evidence ==
  /\ \A b \in BillIds :
       /\ bill[b].status = "completed" =>
            order[b] \in IF Asked[b].via = "palmpay" THEN {"completed"} ELSE Taken
       /\ bill[b].status = "cancelled" => order[b] = "cancelled"
       /\ bill[b].status = "failed" =>
            order[b] \in {"none", "failed", "lapsed"} \/ b \in disturbed
       /\ bill[b].status \in {"none", "pending"} => order[b] = "none"
  /\ \A c \in Claims : claim[c] = "completed" =>
       \E b \in BillIds : Asked[b].claim = c /\ order[b] \in Taken

\* Where handlers did not meet, the wallet lacks exactly the payments under way and
\* completed: what failed was given back once, and gifts cost nothing.
Amounts == [b \in BillIds |-> Amount(b)]
BillsOf(u) == {b \in BillIds : Asked[b].user = u}
Spent(u) ==
  {b \in BillsOf(u) : bill[b].status \in {"processing", "completed"} /\ ~IsReward(b)}
BooksBalance ==
  \A u \in Users :
    disturbed \cap BillsOf(u) = {} =>
      wallet[u] = InitWallet[u] - SumFunctionOnSet(Amounts, Spent(u))

\* A reward is given once, unless two of its payments were open at the same time or
\* one was disturbed; and when no handler is at work, the claim is completed if and
\* only if a payment of it is.
PaymentsOf(c) == {b \in BillIds : Asked[b].claim = c}
GiftOnce ==
  \A c \in Claims : disturbed \cap PaymentsOf(c) = {} =>
    /\ Cardinality({b \in PaymentsOf(c) : order[b] = "completed"}) <= 1
    /\ (\A b \in PaymentsOf(c) : ~Served(b)) =>
         (claim[c] = "completed" <=> \E b \in PaymentsOf(c) : bill[b].status = "completed")

\* A payment under way whose order has ended at Flutterwave ends too: what a late
\* confirmation writes over it is repaired.
ProcessingEnds ==
  \A b \in BillIds :
    Asked[b].via = "flutterwave" /\ bill[b].status = "processing" /\ order[b] \in OrderEnded
      ~> bill[b].status \in Ended

\* "Idempotent finalize ... with single-refund" (flutterwave.webhook.service.ts:495):
\* nobody gets more back than was taken.
SingleRefund == \A u \in Users : wallet[u] <= InitWallet[u]
=============================================================================
