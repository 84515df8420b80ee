---------------------------- MODULE P2PLifecycle ----------------------------
(***************************************************************************)
(* What the P2P service promises of an order: the lifecycle drawn in       *)
(* docs/P2P_COMPLETE_IMPLEMENTATION_GUIDE.md and built by the handlers of  *)
(* p2p-order.service.ts, with each transition a single step and the final  *)
(* states final.                                                           *)
(***************************************************************************)
CONSTANT OrderIds

VARIABLES trade,    \* the status of each order
          channel   \* how its fiat is paid

Placed   == [o \in OrderIds |-> "none"]
Moves(o, from, to) == trade[o] = from /\ trade' = [trade EXCEPT ![o] = to]

Place(o) ==
  /\ Moves(o, "none", "pending")
  /\ \E c \in {"offline", "rhinoxpay_id"} : channel' = [channel EXCEPT ![o] = c]

Accept(o)  == Moves(o, "pending", "awaiting_payment") /\ UNCHANGED channel
Cancel(o)  == /\ \E s \in {"pending", "awaiting_payment"} : Moves(o, s, "cancelled")
              /\ UNCHANGED channel
Pay(o)     == /\ channel[o] = "offline"
              /\ Moves(o, "awaiting_payment", "payment_made")
              /\ UNCHANGED channel
Settle(o)  == /\ channel[o] = "rhinoxpay_id"
              /\ Moves(o, "awaiting_payment", "awaiting_coin_release")
              /\ UNCHANGED channel
Receive(o) == Moves(o, "payment_made", "awaiting_coin_release") /\ UNCHANGED channel
Complete(o) == Moves(o, "awaiting_coin_release", "completed") /\ UNCHANGED channel

Init == trade = Placed /\ channel \in [OrderIds -> {"offline", "rhinoxpay_id"}]
Next == \E o \in OrderIds : \/ Place(o) \/ Accept(o) \/ Cancel(o) \/ Pay(o)
                            \/ Settle(o) \/ Receive(o) \/ Complete(o)
Spec == Init /\ [][Next]_<<trade, channel>>
=============================================================================
