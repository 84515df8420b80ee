--------------------------- MODULE BillCatalogue ---------------------------
(***************************************************************************)
(* What a user is shown before a bill is paid, and what is then charged    *)
(* (modules/bill-payment/bill-payment.service.ts): the providers and their *)
(* plans, asked of Flutterwave, or of PalmPay for betting; the customer    *)
(* validated, and the limits told; and the payment initiated, for which    *)
(* the plan is looked up once more.  The provider may change its plans at  *)
(* any time.  The wallet and the order are BillPayment's.                  *)
(***************************************************************************)
EXTENDS Integers, Sequences, SequencesExt

CONSTANTS
  Categories,  \* the categories that bills are paid in
  Menus,       \* Menus[c]: the lists of items that a provider of c may offer (none when
               \* the provider is gone), each with its code, its price (0 if open), its kind, and the limits that
               \* validating a customer for it tells (most = 0: none)
  Amounts,     \* what users enter
  MaxChanges   \* bound: how often the provider changes its items

\* Items are airtime, a meter of one of the account types, or a bundle.
AccountTypes == {"prepaid", "postpaid"}
NoType == "no type"
NoPlan == "no plan"
NoCategory == "no category"
\* An item as getBillItems and queryItems keep it.
NoItem == [code |-> NoPlan, price |-> 0, kind |-> NoType, least |-> 0, most |-> 0]
NoLimits == [least |-> 0, most |-> 0]
Unasked == [type |-> NoType, code |-> NoPlan, limits |-> NoLimits, named |-> FALSE]
NoBill == [code |-> NoPlan, amount |-> 0]

VARIABLES
  category,  \* of the provider the user chose
  items,     \* what the provider offers now
  shown,     \* the plans as the user saw them
  answer,    \* what validating the customer told
  req,       \* the locals of initiateBillPayment, or Idle
  bill,      \* the pending row: its item and its amount
  refused,   \* why the payment was refused, if it was
  changed,   \* history: the items changed after the user saw the provider or its items
  changes    \* how often they changed
catalogueVars == <<category, items, shown, answer, req, bill, refused, changed, changes>>

Idle == [pc |-> "idle", plan |-> NoPlan, type |-> NoType, amount |-> 0, reuse |-> FALSE,
         known |-> FALSE, item |-> NoItem]

Init ==
  /\ category = NoCategory /\ items = <<>>
  /\ shown = <<>> /\ answer = Unasked /\ req = Idle /\ bill = NoBill
  /\ refused = "no" /\ changed = FALSE /\ changes = 0

At(step) == req.pc = step
Flutterwave == category # "betting"
\* requiresFlutterwaveCustomerValidation
Validates == category \in {"electricity", "cable_tv", "internet"}

-----------------------------------------------------------------------------
(* The catalogue                                                           *)

\* Betting is PalmPay's, everything else Flutterwave's; the user chooses a provider of
\* those listed, whose id tells the category.
GetProvidersByCategory(c) ==
  /\ category = NoCategory
  /\ category' = c /\ items' \in Menus[c] \ {<<>>}
  /\ UNCHANGED <<shown, answer, req, bill, refused, changed, changes>>
GetPlansByProvider ==
  /\ items # <<>> /\ At("idle") /\ bill = NoBill /\ refused = "no" /\ shown' = items
  /\ changed' = (changed /\ answer # Unasked)
  /\ UNCHANGED <<category, items, answer, req, bill, refused, changes>>

\* pickFlutterwaveItem, and the lookup among PalmPay's items: the plan that was chosen,
\* airtime for airtime, a meter of the account type, or else the first.
First(seq, Ok(_)) ==
  LET ok == SelectSeq(seq, Ok) IN IF ok = <<>> THEN NoItem ELSE Head(ok)
FirstOr(seq, Ok(_)) ==
  IF seq = <<>> THEN NoItem ELSE IF First(seq, Ok) = NoItem THEN Head(seq) ELSE First(seq, Ok)
Pick(seq, plan, type) ==
  IF plan # NoPlan THEN First(seq, LAMBDA i : i.code = plan)
  ELSE IF category = "airtime" THEN FirstOr(seq, LAMBDA i : i.kind = "airtime")
  ELSE FirstOr(seq, LAMBDA i : category = "electricity" /\ i.kind = type)

\* validateCustomer, for an item: Flutterwave tells the customer's name, the limits, or
\* both.
Limits(i) == [least |-> i.least, most |-> i.most]
Validated(item, type) ==
  /\ At("idle") /\ bill = NoBill /\ item # NoItem
  /\ answer' \in {[type |-> type, code |-> item.code, limits |-> l, named |-> n] :
                    l \in {Limits(item), NoLimits}, n \in BOOLEAN}
  /\ UNCHANGED <<category, items, shown, req, bill, refused, changed, changes>>
\* A meter, by its type.
ValidateMeterNumber(type) ==
  category = "electricity" /\ Validated(Pick(items, NoPlan, type), type)
\* An account, for the first item; airtime and data are valid unasked, and of what
\* PalmPay tells of a bet's account nothing is kept.
ValidateAccountNumber ==
  Validates /\ category # "electricity" /\ Validated(Pick(items, NoPlan, NoType), NoType)

-----------------------------------------------------------------------------
(* initiateBillPayment                                                     *)

\* The request: a plan that was shown, or none; an amount; what validation told, passed
\* on by a client that asked; and a beneficiary, who may have a name and a type.
Initiate(plan, type, amount, reuse, named) ==
  /\ category # NoCategory /\ At("idle") /\ bill = NoBill /\ refused = "no"
  /\ plan = NoPlan \/ \E i \in ToSet(shown) : i.code = plan
  /\ type # NoType => category = "electricity"
  /\ reuse => answer # Unasked
  /\ req' = [Idle EXCEPT !.pc = "look", !.plan = plan, !.type = type, !.amount = amount,
                         !.reuse = reuse, !.known = named \/ (reuse /\ answer.named)]
  /\ UNCHANGED <<category, items, shown, answer, bill, refused, changed, changes>>

Refuse(why) ==
  /\ refused' = why /\ req' = Idle
  /\ UNCHANGED <<category, items, shown, answer, bill, changed, changes>>
\* The biller and its items, by the type in the request: the beneficiary's type, which
\* goes into the row, is read after.
Look ==
  /\ At("look")
  /\ LET item == Pick(items, req.plan, req.type)
     IN IF item = NoItem THEN Refuse("unavailable")
        ELSE /\ req' = [req EXCEPT !.pc = "limits", !.item = item]
             /\ UNCHANGED <<category, items, shown, answer, bill, refused, changed, changes>>

\* Mutant: the amount entered is charged for every plan.
ChargeEntered(item, amount) == amount
\* resolveFlutterwaveAmount
Charge(item, amount) ==
  IF category \notin {"airtime", "electricity"} /\ item.kind # "airtime" /\ item.price > 0
  THEN item.price ELSE amount

\* assertAmountWithinLimits
Within(amount, limits) ==
  amount >= limits.least /\ (limits.most > 0 => amount <= limits.most)
\* What the client passes on counts as validated, and so does a name, a beneficiary's
\* too; otherwise the customer is validated for the item of the payment.
AssertLimits ==
  /\ At("limits")
  /\ LET told == IF req.reuse THEN answer.limits ELSE NoLimits
         asked == IF told # NoLimits \/ req.known THEN {told} ELSE {Limits(req.item), NoLimits}
     IN \E limits \in (IF Validates THEN asked ELSE {NoLimits}) :
          IF Within(Charge(req.item, req.amount), limits)
          THEN /\ req' = [req EXCEPT !.pc = "row"]
               /\ UNCHANGED <<category, items, shown, answer, bill, refused, changed, changes>>
          ELSE Refuse("out of range")

\* The pending row, and the answer that tells of it; a bet is what was entered.
BillRow == [code |-> req.item.code, amount |-> Charge(req.item, req.amount)]
BetRow == [code |-> req.item.code, amount |-> req.amount]
CreateTransaction ==
  /\ At("row") /\ bill' = IF Flutterwave THEN BillRow ELSE BetRow
  /\ req' = [req EXCEPT !.pc = "done"]
  /\ UNCHANGED <<category, items, shown, answer, refused, changed, changes>>

\* Flutterwave or PalmPay: other items, or other prices.
Change ==
  /\ category # NoCategory /\ changes < MaxChanges /\ changes' = changes + 1
  /\ items' \in Menus[category] \ {items}
  /\ changed' = TRUE
  /\ UNCHANGED <<category, shown, answer, req, bill, refused>>

Next ==
  \/ (\E c \in Categories : GetProvidersByCategory(c)) \/ GetPlansByProvider
  \/ (\E t \in AccountTypes : ValidateMeterNumber(t)) \/ ValidateAccountNumber
  \/ \E plan \in {i.code : i \in ToSet(shown)} \cup {NoPlan}, a \in Amounts,
        t \in AccountTypes \cup {NoType}, reuse, named \in BOOLEAN :
       Initiate(plan, t, a, reuse, named)
  \/ Look \/ AssertLimits \/ CreateTransaction \/ Change
CatalogueSpec == Init /\ [][Next]_catalogueVars

-----------------------------------------------------------------------------
TypeOK ==
  /\ category \in Categories => {items, shown} \subseteq Menus[category] \cup {<<>>}
  /\ req.amount \in Amounts \cup {0} /\ bill.amount \in Nat
  /\ refused \in {"no", "unavailable", "out of range"}

\* Unless the provider changed its plans meanwhile, a user who chose a plan is charged
\* for that plan, at the price shown, and is not told it is gone; airtime, meters and bets
\* are charged what was entered; and a meter that was validated is the one that is paid,
\* within the limits told for it.
Chosen == CHOOSE i \in ToSet(shown) : i.code = req.plan
ChargedAsShown ==
  /\ ~changed /\ bill # NoBill =>
       /\ req.plan # NoPlan =>
            /\ bill.code = req.plan
            /\ category \in {"data", "cable_tv", "internet"} /\ Chosen.price > 0 =>
                 bill.amount = Chosen.price
       /\ category \in {"airtime", "electricity", "betting"} => bill.amount = req.amount
       /\ req.plan = NoPlan /\ req.reuse /\ answer.type = req.type =>
            bill.code = answer.code /\ Within(bill.amount, answer.limits)
  /\ ~changed => refused # "unavailable"
=============================================================================
