--------------------------- MODULE MCTatumDeposit ---------------------------
(* TatumDeposit with notices as Tatum sends them, each with its txId.          *)
EXTENDS TatumDeposit

ChainOfCoin == <<"bitcoin", "tron", "tron">>
TokenCoins == {3}
Tagged(coin, n) == [user |-> "ann", chain |-> "tron", coin |-> coin, amount |-> n,
                    tagged |-> TRUE, fromMaster |-> FALSE]
Told == [trx |-> Tagged(2, 1), usdt |-> Tagged(3, 2), unknown |-> Tagged(NoCoin, 1)]
PaymentOfIds == [k \in Payments |-> Told[k]]
=============================================================================
