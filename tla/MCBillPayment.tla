--------------------------- MODULE MCBillPayment ---------------------------
(* BillPayment on an instance: one user, a bet through PalmPay, data through   *)
(* Flutterwave, and two payments of one reward.                                *)
EXTENDS BillPayment

By(want, price, via, c) ==
  [user |-> "ann", want |-> want, price |-> price, via |-> via, claim |-> c]
Plan ==
  [bet  |-> By(2, 0, "palmpay", NoClaim), data |-> By(1, 2, "flutterwave", NoClaim),
   gift |-> By(1, 1, "flutterwave", "bonus"), again |-> By(1, 0, "flutterwave", "bonus")]
PlanOfIds == [b \in BillIds |-> Plan[b]]
Cash == [u \in Users |-> 3]

\* While there are two payments no mishap is followed, and handlers run in turn when some
\* have met, when both payments redeem one claim, or when Flutterwave accepted an order
\* without a status.  A reward's second payment comes after the first.
InTurnNext ==
  /\ Next
  /\ bill'["again"].status = "none" \/ bill'["gift"].status # "none"
  /\ \/ Cardinality({b \in BillIds : bill'[b].status # "none"}) <= 1
     \/ /\ mishaps' = 0
        /\ \/ disturbed' = {} /\ \A b \in BillIds : order'[b] \notin {"accepted", "lapsed"}
           \/ \E p \in Requests : At(p, "idle")'
InTurnSpec == Init /\ [][InTurnNext]_vars /\ Fairness
=============================================================================
