----------------------------- MODULE MCDeposit -----------------------------
(* Deposit on an instance: two deposits into one wallet, one by bank         *)
(* transfer and one by mobile money.                                         *)
EXTENDS Deposit

By(n, via) == [user |-> "ann", amount |-> n, via |-> via]
Plan == [bank |-> By(1, "palmpay"), momo |-> By(2, "flutterwave")]
PlanOfIds == [d \in DepositIds |-> Plan[d]]
Empty == [u \in Users |-> 0]
=============================================================================
