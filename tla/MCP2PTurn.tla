------------------------------ MODULE MCP2PTurn ------------------------------
(* P2POrder in two modes: two orders whose requests are served one after the *)
(* other and lose nothing, or one order whose requests interleave.  In any   *)
(* other mode the orders rest.                                               *)
EXTENDS MCP2POrder

VARIABLE mode

Lead == CHOOSE p \in Requests : TRUE
\* A step of the only request there is when they are served one after the other.
Turn == Begin(Lead) \/ Advance(Lead) \/ DeadlinePasses
\* A vendor's order on his own ad.
Own(row) == row.status # "none" /\ row.user = Vendor(row)
\* In turn, both orders are of a plain coin or both of the stablecoin, one of each amount,
\* and not both paid through the wallets.  The vendor's own is alone and so paid.
Plain == {"sell", "buy"}
InTurn ==
  /\ Turn
  /\ \A o, i \in OrderIds :
       o # i /\ order'[o].status # "none" /\ order'[i].status # "none" =>
         /\ order'[o].ad \in Plain <=> order'[i].ad \in Plain
         /\ order'[o].amount # order'[i].amount
         /\ "offline" \in {order'[o].channel, order'[i].channel}
  /\ \A p \in Requests :
       Own(req'[p].row) =>
         /\ req'[p].row.channel # "offline" /\ req'[p].row.amount = 1
         /\ \A o \in OrderIds : order'[o].status # "none" => Own(order'[o])
  /\ Own(order'[1]) => \A o \in OrderIds \ Orders1 : order'[o] = BlankRow
\* Interleaved, one order, which sells the stablecoin for money paid outside, or buys
\* a plain coin for a wallet's money.  A request may be lost, of a sale, after which they
\* run in turn.
Interleaved ==
  /\ Next
  /\ \A o \in OrderIds \ Orders1 : order'[o] = BlankRow
  /\ \/ order'[1].status = "none"
     \/ /\ order'[1].ad = "sellPool" /\ order'[1].channel = "offline"
        /\ lost' = 0 \/ \E p \in Requests : At(p, "idle")'
     \/ order'[1].ad = "buy" /\ order'[1].channel # "offline" /\ lost' = 0
  /\ \A p \in Requests : req'[p].row.amount # 1 /\ ~Own(req'[p].row)

OrdersNext ==
  /\ UNCHANGED mode
  /\ IF mode = "in turn" THEN InTurn
     ELSE IF mode = "interleaved" THEN Interleaved ELSE UNCHANGED vars
OrdersSpec == Init /\ [][OrdersNext]_<<mode, vars>>

\* Orders served one after the other overdraw no wallet and no coin, leave them as their
\* rows say, freeze exactly what open orders ask for, and are each paid and released
\* once, or not at all (P2POrder's NoOverdraft, BooksBalance, FreezeIsExact and
\* PaidAndReleasedOnce) ...
SerialBooks ==
  mode = "in turn" => NoOverdraft /\ BooksBalance /\ FreezeIsExact /\ PaidAndReleasedOnce
\* ... and implement the documented lifecycle, each order's transitions single steps
\* of P2PLifecycle.
Documented == INSTANCE P2PLifecycle
  WITH trade <- [o \in OrderIds |-> IF mode = "in turn" THEN order[o].status ELSE "none"],
       channel <- [o \in OrderIds |-> IF mode = "in turn" THEN order[o].channel
                                      ELSE "offline"]
SerialLifecycle == Documented!Spec
=============================================================================
