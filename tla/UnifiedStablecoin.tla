-------------------------- MODULE UnifiedStablecoin --------------------------
(***************************************************************************)
(* The ledger-only pool of a stablecoin that a user holds on several       *)
(* networks (services/crypto/unified-stablecoin.service.ts): the total the *)
(* user sees, and the plan by which allocateUnifiedBalance moves available *)
(* balance from the richest networks to the one an order is made on.       *)
(***************************************************************************)
EXTENDS Integers, FiniteSetsExt, Functions

\* totalAvailable: what the user may spend over a family of accounts.
TotalAvailable(avail, family) == SumFunctionOnSet(avail, family)

\* The order in which sources are drained: richest first, id order on ties.
Richer(avail, a, b) == avail[a] > avail[b] \/ (avail[a] = avail[b] /\ a < b)

\* The other accounts of the family that have something to give.
Sources(avail, family, target) ==
  {va \in family \ {target} : avail[va] > 0}

\* Mutant: a source gives all it has.
MovedAll(avail, family, target, amount, va) == avail[va]

\* What one source gives once the richer ones have given all they have.
Moved(avail, family, target, amount, va) ==
  LET richer == {s \in Sources(avail, family, target) : Richer(avail, s, va)}
      left   == amount - avail[target] - TotalAvailable(avail, richer)
  IN  IF left <= 0 THEN 0 ELSE Min({avail[va], left})

\* Mutant: the target's row is left as it was.
PlanSourcesOnly(avail, family, target, amount) ==
  LET gives == [va \in Sources(avail, family, target) |->
                   Moved(avail, family, target, amount, va)]
  IN  {[va |-> s, available |-> avail[s] - gives[s]] :
          s \in {x \in DOMAIN gives : gives[x] > 0}}

\* The rows the transaction writes; no row when the target covers the amount.
Plan(avail, family, target, amount) ==
  LET gives == [va \in Sources(avail, family, target) |->
                   Moved(avail, family, target, amount, va)]
      moved == SumFunction(gives)
  IN  IF avail[target] >= amount
      THEN {}
      ELSE {[va |-> s, available |-> avail[s] - gives[s]] :
                s \in {x \in DOMAIN gives : gives[x] > 0}}
           \cup {[va |-> target, available |-> avail[target] + moved]}

\* The balances after those rows are written.
Apply(plan, avail) ==
  [va \in DOMAIN avail |->
     IF \E w \in plan : w.va = va
     THEN (CHOOSE w \in plan : w.va = va).available
     ELSE avail[va]]
=============================================================================
