----------------------------- MODULE OrderViews -----------------------------
(***************************************************************************)
(* What the app shows of P2POrder's state: a user's orders and their count *)
(* on the profile (getUserOrders, getUserP2PProfile and getOrderDetails of *)
(* the order service), and the balances of the home page, the wallet page  *)
(* and the unified stablecoin.  None of them writes; they tell of the rows *)
(* what a user decides by.                                                 *)
(***************************************************************************)
EXTENDS P2POrder

Placed == {o \in OrderIds : order[o].status # "none"}
Parties(o) == {Vendor(order[o]), order[o].user}

-----------------------------------------------------------------------------
(* Orders                                                                  *)

\* The orders in a role; without one the user's as a vendor and as a customer, and
\* those whose recorded seller the user is.
OrdersAs(u, role) ==
  {o \in Placed : CASE role = "vendor" -> Vendor(order[o]) = u
                    [] role = "user" -> order[o].user = u
                    [] OTHER -> u \in Parties(o) \cup {Seller(order[o])}}
\* getUserOrders, with its filter by status.
UserOrders(u, role, status) ==
  {o \in OrdersAs(u, role) : status \in {"All", order[o].status}}

IsUserBuyer(u, o) == Buyer(order[o]) = u
IsUserSeller(u, o) == Seller(order[o]) = u
\* What the order's page calls buyer and seller: the vendor where the role is the
\* vendor's, and the customer otherwise.
ShownBuyer(o) == IF Buyer(order[o]) = Vendor(order[o]) THEN Vendor(order[o]) ELSE order[o].user
ShownSeller(o) == IF Seller(order[o]) = Vendor(order[o]) THEN Vendor(order[o]) ELSE order[o].user

PendingStatus == {"pending", "awaiting_payment", "payment_made", "awaiting_coin_release"}
\* The statistics of the profile.
Profile(u) ==
  LET all == {o \in Placed : u \in Parties(o)}
      Count(S) == Cardinality({o \in all : order[o].status \in S})
  IN  [total |-> Cardinality(all), asBuyer |-> Cardinality({o \in all : IsUserBuyer(u, o)}),
       asVendor |-> Cardinality({o \in all : Vendor(order[o]) = u}),
       completed |-> Count({"completed"}), pending |-> Count(PendingStatus),
       cancelled |-> Count({"cancelled"})]

-----------------------------------------------------------------------------
(* Balances                                                                *)

Shown(balance, free) == [balance |-> balance, available |-> free, locked |-> balance - free]
\* The home and the wallet page: account by account.
CryptoBalances(u) == [va \in AccountsOf(u) |-> Shown(account[va], available[va])]
\* getUnifiedBalance and getAllUnifiedBalances: the stablecoin as one, others alone.
UnifiedBalance(pool) ==
  Shown(SumFunctionOnSet(account, pool), SumFunctionOnSet(available, pool))
AllUnifiedBalances(u) == [pool \in Pools(u) |-> UnifiedBalance(pool)]

-----------------------------------------------------------------------------
\* A user finds each of his orders in exactly one role's list and in the whole list, is
\* shown as its buyer or its seller and not as both, unless it is on an ad of his own,
\* and the counts of the profile leave no order out.
OrdersListed ==
  \A u \in Users :
    LET profile == Profile(u)
        mine    == UserOrders(u, "any", "All")
        own     == {o \in mine : order[o].user = Vendor(order[o])}
    IN  /\ mine = OrdersAs(u, "vendor") \cup OrdersAs(u, "user")
        /\ OrdersAs(u, "vendor") \cap OrdersAs(u, "user") = own
        /\ \A o \in mine :
             /\ o \in own \/ IsUserBuyer(u, o) # IsUserSeller(u, o)
             /\ ShownBuyer(o) = Buyer(order[o]) /\ ShownSeller(o) = Seller(order[o])
        /\ profile.total = Cardinality(mine)
        /\ profile.total = profile.completed + profile.pending + profile.cancelled
        /\ profile.asBuyer = Cardinality({o \in mine : IsUserBuyer(u, o)})

\* When all is quiet, the unified balances show the coins that the accounts do, and as
\* locked what the user's list shows of open orders to sell (but for users whose coins a
\* release has moved: see FreezeIsExact).  Account by account that fails: what was
\* gathered from another network for an order that was cancelled stays there.
BalancesAgree ==
  Quiet =>
    \A u \in Users :
      LET each    == CryptoBalances(u)
          unified == AllUnifiedBalances(u)
          mine    == OrdersAs(u, "any")
          selling == {o \in mine : /\ IsUserSeller(u, o)
                                   /\ order[o].status \in PendingStatus \ {"pending"}}
      IN  /\ MapThenSumSet(LAMBDA va : each[va].balance, AccountsOf(u))
               = MapThenSumSet(LAMBDA pool : unified[pool].balance, Pools(u))
          /\ (\A o \in mine : order[o].status # "completed") =>
               /\ \A pool \in Pools(u) : unified[pool].locked >= 0
               /\ MapThenSumSet(LAMBDA pool : unified[pool].locked, Pools(u))
                    = AmountOf(selling)
=============================================================================
