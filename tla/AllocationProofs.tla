-------------------------- MODULE AllocationProofs --------------------------
(***************************************************************************)
(* What allocateUnifiedBalance does to a pool of any number of networks:   *)
(* the rows it writes cover the order where it is made, keep the total,    *)
(* overdraw nothing and draw on as few networks as could be.  What the     *)
(* loop over the sorted sources gathers is shown in Sums, for these calls  *)
(* and for those of P2P orders.                                            *)
(***************************************************************************)
EXTENDS Allocation, Sums

-----------------------------------------------------------------------------
(* The call                                                                *)

\* What the pool is before the call.
PoolOK ==
  /\ target \in Networks /\ amount \in Nat
  /\ ~allocated => avail \in [Networks -> Nat]

\* The pool holds natural numbers of a coin until the call is made.
LEMMA PoolHolds == Spec => []PoolOK
<1>1. Init => PoolOK
  BY PoolAssumption DEF Init, PoolOK
<1>2. PoolOK /\ [Allocate]_vars => PoolOK'
  BY DEF PoolOK, Allocate, vars
<1> QED BY <1>1, <1>2, PTL DEF Spec

\* What is drawn on by a call, as AllocationCovers has it.
Covers ==
  LET others == Networks \ {target}
      drawn  == {n \in others : avail'[n] # avail[n]}
  IN  /\ avail'[target] >= amount
      /\ TotalAvailable(avail', Networks) = TotalAvailable(avail, Networks)
      /\ \A n \in Networks : avail'[n] >= 0
      /\ \A S \in SUBSET others :
           Cardinality(S) < Cardinality(drawn) =>
             avail[target] + TotalAvailable(avail, S) < amount

LEMMA AllocateCovers ==
  ASSUME PoolOK, Allocate
  PROVE  Covers
<1>1. /\ avail \in [Networks -> Nat] /\ target \in Networks /\ amount \in Nat
      /\ IsFiniteSet(Networks) /\ Networks \in SUBSET Nat
      /\ SumFunctionOnSet(avail, Networks) >= amount
      /\ avail' = Apply(Plan(avail, Networks, target, amount), avail)
  BY PoolAssumption DEF PoolOK, Allocate, TotalAvailable
<1>2. CASE avail[target] >= amount
  <2>1. avail' = avail
    <3>1. Plan(avail, Networks, target, amount) = {}
      BY <1>2 DEF Plan
    <3> QED BY <1>1, <3>1 DEF Apply
  <2>2. /\ avail'[target] >= amount
        /\ TotalAvailable(avail', Networks) = TotalAvailable(avail, Networks)
        /\ \A n \in Networks : avail'[n] >= 0
    BY <1>1, <1>2, <2>1
  <2>3. {n \in Networks \ {target} : avail'[n] # avail[n]} = {}
    BY <2>1
  <2>4. ASSUME NEW S \in SUBSET (Networks \ {target}) PROVE ~(Cardinality(S) < 0)
    <3>1. IsFiniteSet(S)
      BY <1>1, FS_Subset
    <3>2. Cardinality(S) \in Nat
      BY <3>1, FS_CardinalityType
    <3> QED BY <3>2
  <2> QED BY <2>2, <2>3, <2>4, FS_EmptySet DEF Covers
<1>3. CASE ~(avail[target] >= amount)
  <2>1. Short(Networks, avail, target, amount) /\ DOMAIN avail = Networks
    BY <1>1, <1>3 DEF Short
  <2>2. amount <= SumFunctionOnSet(avail, Networks)
    <3>1. SumFunctionOnSet(avail, Networks) \in Nat
      BY <1>1, SumNat
    <3> QED BY <1>1, <3>1
  <2>3. /\ avail'[target] = amount
        /\ SumFunctionOnSet(avail', Networks) = SumFunctionOnSet(avail, Networks)
        /\ \A n \in Networks : avail'[n] \in Nat
    BY <1>1, <2>1, <2>2, PoolKept
  <2>4. ASSUME NEW S \in SUBSET (Networks \ {target}),
               Cardinality(S)
                 < Cardinality({n \in Networks \ {target} : avail'[n] # avail[n]})
        PROVE  avail[target] + SumFunctionOnSet(avail, S) < amount
    <3>1. PICK b : b = avail'
      OBVIOUS
    <3>2. /\ b = Apply(Plan(avail, Networks, target, amount), avail)
          /\ Cardinality(S) < Cardinality({n \in Networks \ {target} : b[n] # avail[n]})
      BY <1>1, <2>4, <3>1
    <3> QED BY <2>1, <3>2, FewestDrawn
  <2>5. avail'[target] >= amount /\ \A n \in Networks : avail'[n] >= 0
    BY <1>1, <2>3
  <2> QED BY <2>3, <2>4, <2>5 DEF Covers, TotalAvailable
<1> QED BY <1>2, <1>3

\* However many networks a stablecoin is held on and whatever is on each, a call that
\* does not throw leaves what the order needs on its network, loses nothing, overdraws
\* nothing and draws on as few other networks as possible.
THEOREM AllocationHolds == Spec => AllocationCovers
<1>1. PoolOK /\ [Allocate]_vars => [Covers]_vars
  BY AllocateCovers
<1> QED BY <1>1, PoolHolds, PTL DEF Spec, AllocationCovers, Covers
=============================================================================
