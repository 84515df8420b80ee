--------------------------- MODULE MCBushaHistory ---------------------------
(* BushaHistory on an instance: one user, one buy, one handler, nothing lost. *)
EXTENDS BushaHistory

OneBuy == [t \in TradeIds |-> [user |-> "ann", side |-> "buy", amount |-> 2,
                               viaPalmPay |-> FALSE]]
Cash == [u \in Users |-> 2]
=============================================================================
