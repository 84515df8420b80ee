----------------------------- MODULE Allocation -----------------------------
(***************************************************************************)
(* One call of allocateUnifiedBalance                                      *)
(* (services/crypto/unified-stablecoin.service.ts) on the accounts of one  *)
(* user, whatever they hold.                                               *)
(***************************************************************************)
EXTENDS UnifiedStablecoin

CONSTANTS Networks,   \* ids of the user's accounts
          Balances,   \* bound: the available balances tried
          Wanted      \* bound: the amounts of the order

ASSUME PoolAssumption ==
  /\ IsFiniteSet(Networks) /\ Networks \subseteq Nat
  /\ Balances \subseteq Nat /\ Wanted \subseteq Nat

VARIABLES avail, target, amount, allocated
vars == <<avail, target, amount, allocated>>

Init == /\ avail \in [Networks -> Balances]
        /\ target \in Networks
        /\ amount \in Wanted
        /\ allocated = FALSE

\* The call throws when the pool cannot cover the amount.
Allocate == /\ ~allocated
            /\ TotalAvailable(avail, Networks) >= amount
            /\ avail' = Apply(Plan(avail, Networks, target, amount), avail)
            /\ allocated' = TRUE
            /\ UNCHANGED <<target, amount>>

Spec == Init /\ [][Allocate]_vars

\* Allocation covers the order on its own network, creates and destroys nothing,
\* overdraws no network, and draws on as few others as possible: no smaller set of them
\* would have covered what the target lacked.
AllocationCovers ==
  [][LET others == Networks \ {target}
         drawn  == {n \in others : avail'[n] # avail[n]}
     IN  /\ avail'[target] >= amount
         /\ TotalAvailable(avail', Networks) = TotalAvailable(avail, Networks)
         /\ \A n \in Networks : avail'[n] >= 0
         /\ \A S \in SUBSET others :
              Cardinality(S) < Cardinality(drawn) =>
                avail[target] + TotalAvailable(avail, S) < amount]_vars
=============================================================================
