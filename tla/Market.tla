------------------------------- MODULE Market -------------------------------
(***************************************************************************)
(* One ad of the P2P market, from its making to an order on it: the        *)
(* vendor's handlers (modules/p2p/p2p.service.ts), what a customer is      *)
(* shown of the ad and of the payment methods the two have in common, and  *)
(* what placing an order reads (modules/p2p-order/p2p-order.service.ts).   *)
(*                                                                         *)
(* The customer's client shows the ad, then the methods, and then places   *)
(* the order with an amount and a method: the price is not sent back, so   *)
(* the order takes what the ad says by then.  The vendor edits the ad in   *)
(* the meantime, and either may delete a payment method.                   *)
(***************************************************************************)
EXTENDS Integers, FiniteSets, TLC

CONSTANTS
  Methods,     \* the payment methods the two have saved (user_payment_methods)
  Method,      \* Method[m]: whose it is, its type, and its bank, provider or currency
  VendorId,
  UserId,
  Forms,       \* bound: what an ad is made and edited with, the fields given
  Asked,       \* bound: the crypto amounts of an order
  Requests,    \* the handlers in progress at the same time
  MaxWrites    \* bound: the writes of the ad and of the methods

Fields == {"price", "volume", "minOrder", "maxOrder", "methods"}
AdStatus == {"available", "unavailable", "paused"}
None == "none"
Unset == [status |-> None]

VARIABLES
  ad,        \* the row of p2p_ads
  active,    \* the payment methods that were not deleted
  shown,     \* what the customer's client shows: the ad and the methods in common
  order,     \* the order that was placed
  req,       \* the locals of each handler in progress
  crossed,   \* history: two edits of the ad were in progress at the same time
  moved,     \* history: the ad or a method was written since the ad was shown
  writes     \* how many writes there were

vars == <<ad, active, shown, order, req, crossed, moved, writes>>

Idle == [pc |-> "idle", form |-> Unset, amount |-> 0, method |-> None, own |-> None]

Init ==
  /\ ad = Unset /\ active = Methods
  /\ shown = [ad |-> Unset, methods |-> {}]
  /\ order = Unset
  /\ req = [p \in Requests |-> Idle]
  /\ crossed = FALSE /\ moved = FALSE /\ writes = 0

At(p, step) == req[p].pc = step
Finish(p) == req' = [req EXCEPT ![p] = Idle]
Editing(p) == req[p].pc \in {"methods", "write"}
Of(user) == {m \in active : Method[m].of = user}
Written == moved' = TRUE /\ writes < MaxWrites /\ writes' = writes + 1

\* Two methods match when they are of one type and, an unset currency aside, at one
\* bank, provider or currency.
Matches(m, n) ==
  /\ Method[m].type = Method[n].type
  /\ \/ Method[m].at = Method[n].at
     \/ Method[m].type = "rhinoxpay_id" /\ None \in {Method[m].at, Method[n].at}
InCommon(methods) ==
  {m \in Of(UserId) : \E n \in methods \cap active : Matches(m, n)}

-----------------------------------------------------------------------------
(* The vendor                                                              *)

Sensible(row) == row.minOrder < row.maxOrder /\ row.minOrder <= row.volume

\* Nothing is stored before the methods were looked up.
CreateAd(p, form) ==
  /\ ad = Unset /\ \A q \in Requests : At(q, "idle")
  /\ DOMAIN form = Fields /\ Sensible(form)
  /\ req' = [req EXCEPT ![p].pc = "methods", ![p].form = form]
  /\ UNCHANGED <<ad, active, shown, order, crossed, moved, writes>>

StartUpdate(p, form) ==
  req' = [req EXCEPT ![p].pc = IF "methods" \in DOMAIN form THEN "methods" ELSE "write",
                     ![p].form = form]
\* Mutant: the limits are compared only if both are given.
UpdateAdGiven(p, form) ==
  /\ At(p, "idle") /\ ad # Unset
  /\ {"minOrder", "maxOrder"} \subseteq DOMAIN form => Sensible(form @@ ad)
  /\ StartUpdate(p, form)
  /\ UNCHANGED <<ad, active, shown, order, crossed, moved, writes>>
\* What is not given is compared as it is stored.
UpdateAd(p, form) ==
  /\ At(p, "idle") /\ ad # Unset
  /\ Sensible(form @@ ad) /\ StartUpdate(p, form)
  /\ UNCHANGED <<ad, active, shown, order, crossed, moved, writes>>

CheckMethods(p) ==
  /\ At(p, "methods")
  /\ IF req[p].form.methods \subseteq Of(VendorId)
     THEN req' = [req EXCEPT ![p].pc = "write"]
     ELSE Finish(p)
  /\ UNCHANGED <<ad, active, shown, order, crossed, moved, writes>>

\* Only the fields given are written; a new ad is available and online.
WriteAd(p) ==
  /\ At(p, "write") /\ Written
  /\ ad' = req[p].form @@ (IF ad = Unset THEN [status |-> "available", isOnline |-> TRUE]
                           ELSE ad)
  /\ crossed' = (crossed \/ \E q \in Requests \ {p} : Editing(q))
  /\ Finish(p)
  /\ UNCHANGED <<active, shown, order>>

\* Of the vendor, who may set isOnline too, or of an administrator.
UpdateAdStatus(status, isOnline) ==
  /\ ad # Unset /\ Written
  /\ ad' = [ad EXCEPT !.status = status, !.isOnline = isOnline]
  /\ UNCHANGED <<active, shown, order, req, crossed>>

\* By the vendor or the customer.  The ads that list it keep it.
DeletePaymentMethod(m) ==
  /\ m \in active /\ Written
  /\ active' = active \ {m}
  /\ UNCHANGED <<ad, shown, order, req, crossed>>

-----------------------------------------------------------------------------
(* The customer                                                            *)

\* Whoever has an order in progress, or placed, looks no more (a bound).
Looking == order = Unset /\ \A p \in Requests : req[p].amount = 0

Offered == ad # Unset /\ ad.status = "available" /\ ad.isOnline

BrowseAds ==
  /\ Looking /\ Offered
  /\ shown' = [ad |-> ad, methods |-> {}] /\ moved' = FALSE
  /\ UNCHANGED <<ad, active, order, req, crossed, writes>>
\* An ad is shown, with the vendor's methods, whether it is offered or not.
GetAdDetails ==
  /\ Looking /\ shown.ad # Unset
  /\ shown' = [shown EXCEPT !.ad = ad] /\ moved' = FALSE
  /\ UNCHANGED <<ad, active, order, req, crossed, writes>>
GetUserMatchingPaymentMethods ==
  /\ Looking /\ shown.ad # Unset
  /\ shown' = [shown EXCEPT !.methods = InCommon(ad.methods)]
  /\ UNCHANGED <<ad, active, order, req, crossed, moved, writes>>

\* The customer picks a method of his own or one of the vendor's, or none.
CreateOrder(p, amount, chosen) ==
  /\ Looking /\ shown.ad # Unset /\ Offered /\ At(p, "idle")
  /\ chosen \in shown.methods \cup shown.ad.methods \cup {None}
  /\ req' = [req EXCEPT ![p] = [pc |-> "match", form |-> ad, amount |-> amount,
                                method |-> chosen, own |-> None]]
  /\ UNCHANGED <<ad, active, shown, order, crossed, moved, writes>>

\* The customer's methods that the order may be paid with: the one chosen, or any in
\* common where none was, or the vendor's.
Payable(row, chosen) ==
  IF chosen = None THEN InCommon(row.methods)
  ELSE IF chosen \notin active THEN {}
  ELSE IF chosen \in Of(UserId) THEN InCommon(row.methods) \cap {chosen}
  ELSE InCommon(row.methods)

\* The lookups of the methods, which nothing is written between, and the limits of the
\* ad that was read.
MatchMethods(p) ==
  LET row == req[p].form
      fiat == req[p].amount * row.price
  IN  /\ At(p, "match")
      /\ \/ /\ fiat \in row.minOrder .. row.maxOrder
            /\ \E own \in Payable(row, req[p].method), m \in row.methods \cap active :
                 /\ Matches(own, m)
                 /\ req' = [req EXCEPT ![p].pc = "insert", ![p].method = m, ![p].own = own]
         \/ /\ fiat \notin row.minOrder .. row.maxOrder \/ Payable(row, req[p].method) = {}
            /\ Finish(p)
      /\ UNCHANGED <<ad, active, shown, order, crossed, moved, writes>>

\* The balances of the two are P2POrder's.
InsertOrder(p) ==
  /\ At(p, "insert")
  /\ order' = [status |-> "pending", price |-> req[p].form.price, amount |-> req[p].amount,
               method |-> req[p].method, own |-> req[p].own, moved |-> moved]
  /\ Finish(p)
  /\ UNCHANGED <<ad, active, shown, crossed, moved, writes>>

-----------------------------------------------------------------------------
Next ==
  \/ \E p \in Requests, form \in Forms : CreateAd(p, form) \/ UpdateAd(p, form)
  \/ \E p \in Requests : CheckMethods(p) \/ WriteAd(p) \/ MatchMethods(p) \/ InsertOrder(p)
  \/ \E status \in AdStatus, isOnline \in BOOLEAN : UpdateAdStatus(status, isOnline)
  \/ \E m \in Methods : DeletePaymentMethod(m)
  \/ BrowseAds \/ GetAdDetails \/ GetUserMatchingPaymentMethods
  \/ \E p \in Requests, amount \in Asked, chosen \in Methods \cup {None} :
       CreateOrder(p, amount, chosen)

Spec == Init /\ [][Next]_vars

-----------------------------------------------------------------------------
\* The limits of an ad leave room for an order and start within its volume, whatever
\* the edits gave, unless two edits were in progress at once (updateAd compares what is
\* given with what it read before).
LimitsHold == ad # Unset /\ ~crossed => Sensible(ad)

\* An order that nothing was written under is the one the customer was shown: on an
\* offered ad, at its price, within its limits, from a method of his to a matching one
\* that the ad lists.
OrderAsShown ==
  order # Unset /\ ~order.moved =>
    /\ shown.ad.status = "available" /\ shown.ad.isOnline
    /\ order.price = shown.ad.price
    /\ order.amount * order.price \in shown.ad.minOrder .. shown.ad.maxOrder
    /\ order.method \in shown.ad.methods /\ Matches(order.own, order.method)
    /\ Method[order.own].of = UserId
=============================================================================
