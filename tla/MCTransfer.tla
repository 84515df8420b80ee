----------------------------- MODULE MCTransfer -----------------------------
(* A small instance of Transfer for TLC. *)
EXTENDS Transfer, TLC

\* ann sends; bob has no account on ETH.  The stablecoin is on two networks.
Accounts == 1 .. 5
OwnerOf  == <<"ann", "ann", "ann", "bob", "bob">>
LedgerOf == <<"BTC", "USDT_TRON", "USDT_ETH", "BTC", "USDT_TRON">>
Stablecoin == {"USDT", "USDT_TRON", "USDT_ETH"}
Coins    == <<3, 1, 2, 0, 0>>
Cash     == [w \in Users \X Fiats |-> IF w[1] = "ann" THEN 4 ELSE 1]

Form(channel, currency, amount) ==
  [channel |-> channel, from |-> "ann", currency |-> currency, amount |-> amount,
   to |-> IF channel = "rhionx_user" THEN "bob" ELSE NoUser]
Payments == {Form("bank_account", "NGN", 2), Form("mobile_money", "KES", 2)}
Withdrawals == Payments \cup {Form("bank_account", "NGN", 3)}
Sends    == {Form("rhionx_user", "KES", 2), Form("rhionx_user", "BTC", 2),
             Form("rhionx_user", "USDT_TRON", 2), Form("rhionx_user", "USDT", 1)}
AllForms == Payments \cup Sends

Tx1   == {1}
Tx2   == {1, 2}
Alike == Permutations(Requests)
=============================================================================
