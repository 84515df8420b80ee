----------------------------- MODULE MCP2POrder -----------------------------
(* A small instance of P2POrder for TLC. *)
EXTENDS P2POrder, TLC

\* ann sells; bob buys from her and sells to cid, and she may buy from herself.  Accounts
\* 1, 4 and 6 are plain coins; the stablecoin is on two networks, of which ann has both.
Accounts == 1 .. 7
OwnerOf  == <<"ann", "ann", "ann", "bob", "bob", "cid", "cid">>
LedgerOf == <<"BTC", "USDT_TRON", "USDT_ETH", "BTC", "USDT_TRON",
              "BTC", "USDT_TRON">>
Stablecoin == {"USDT", "USDT_TRON", "USDT_ETH"}
Coins    == <<3, 1, 2, 2, 1, 0, 0>>
Cash     == "ann" :> 1 @@ "bob" :> 4 @@ "cid" :> 4

Sell(c) == [kind |-> "sell", vendor |-> "ann", currency |-> c, price |-> 1,
            minOrder |-> 1, maxOrder |-> 2, autoAccept |-> FALSE,
            channels |-> {"offline", "rhinoxpay_id"}]
Buy(c)  == [kind |-> "buy", vendor |-> "cid", currency |-> c, price |-> 2,
            minOrder |-> 1, maxOrder |-> 4, autoAccept |-> TRUE,
            channels |-> {"offline", "rhinoxpay_id"}]
Offers  == "sell" :> Sell("BTC") @@ "buy" :> Buy("BTC")
             @@ "sellPool" :> Sell("USDT_TRON") @@ "buyPool" :> Buy("USDT")
Takers  == "sell" :> {"ann", "bob"} @@ "buy" :> {"bob"}
             @@ "sellPool" :> {"bob"} @@ "buyPool" :> {"bob"}

Orders1 == {1}
Orders2 == {1, 2}
Alike   == Permutations(Requests)

\* The handlers, served one at a time, implement the documented lifecycle.
ImplementsLifecycle == Lifecycle!Spec
=============================================================================
