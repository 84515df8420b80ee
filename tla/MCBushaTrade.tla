---------------------------- MODULE MCBushaTrade ----------------------------
(* BushaTrade on an instance: one user, two buys, a sell through PalmPay and  *)
(* a coin received or sent.  The wallet covers one of the buys from the       *)
(* start, and the other only once the sell has been credited.                 *)
EXTENDS BushaTrade, TLC

CONSTANTS buy, again, sell, coin

DealOf(side, n, via) ==
  [user |-> "ann", side |-> side, amount |-> n, viaPalmPay |-> via]
DealsOfIds ==
  [t \in TradeIds |-> CASE t \in {buy, again} -> DealOf("buy", 2, FALSE)
                        [] t = sell -> DealOf("sell", 1, TRUE)
                        [] t = coin -> DealOf("crypto", 1, FALSE)]
Alike == Permutations(Requests) \cup Permutations({buy, again})
Cash == [u \in Users |-> 2]
=============================================================================
