--------------------------- MODULE P2POrderProofs ---------------------------
(***************************************************************************)
(* What holds of P2P orders for any number of users, accounts, orders and  *)
(* concurrent requests, and whichever requests are lost.  The inductive    *)
(* invariant is IInv: the structure of the rows, Evidence, and for each    *)
(* request in progress what it established when it last read the order.    *)
(***************************************************************************)
EXTENDS MCP2PTurn, Sums

\* The structure of the variables.  Evidence does not depend on available balances:
\* that they are numbers is the last section's.
Structure ==
  /\ order \in [OrderIds -> OrderRow]
  /\ account \in [VAs -> Int]
  /\ available = [va \in VAs |-> available[va]]
  /\ req = [p \in Requests |->
              [pc |-> req[p].pc, o |-> req[p].o, row |-> req[p].row,
               x |-> req[p].x, y |-> req[p].y, z |-> req[p].z,
               plan |-> req[p].plan]]
  /\ \A p \in Requests :
       /\ req[p].pc \in Steps
       /\ req[p].o \in OrderIds \cup {0}
       /\ req[p].row \in OrderRow
       /\ req[p].pc \in {"releaseBuyer", "debitCoin"} => req[p].x \in Int
       /\ req[p].pc \in {"debitCoin", "creditCoin"} => req[p].z \in Int

IInv == Structure /\ Evidence /\ RequestsSound

\* How a row of an order may differ later: the deal is the same and nothing that
\* was established is taken back.
Later(r, s) ==
  /\ SameDeal(r, s)
  /\ s.status # "none"
  /\ Backed(r) => Backed(s)
  /\ r.confirmed => s.confirmed
  /\ r.received => s.received

-----------------------------------------------------------------------------
(* Lookups of accounts                                                     *)

\* Min finds an account in any non-empty set of them.
LEMMA MinIsMember ==
  ASSUME NEW S \in SUBSET VAs, S # {}
  PROVE  Min(S) \in S
<1>1. S \in SUBSET Nat
  BY AccountAssumption
<1>2. PICK n \in S : \A m \in S : ~(m < n)
  BY <1>1, Least
<1>3. \A m \in S : n =< m
  BY <1>1, <1>2
<1> QED BY <1>2, <1>3 DEF Min

\* An account found for a user in a currency belongs to that user.
LEMMA ExactVAOwner ==
  ASSUME NEW u, NEW c, ExactVA(u, c) # NoVA
  PROVE  ExactVA(u, c) \in VAs /\ Owner[ExactVA(u, c)] = u
<1> DEFINE exact == {va \in AccountsOf(u) : Ledger[va] = c}
<1>1. exact # {}
  BY DEF ExactVA
<1>2. exact \in SUBSET VAs
  BY DEF AccountsOf
<1>3. Min(exact) \in exact
  BY <1>1, <1>2, MinIsMember
<1> QED BY <1>1, <1>3 DEF ExactVA, AccountsOf

LEMMA CurrencyVAOwner ==
  ASSUME NEW u, NEW c, CurrencyVA(u, c) # NoVA
  PROVE  CurrencyVA(u, c) \in VAs /\ Owner[CurrencyVA(u, c)] = u
<1>1. CASE ExactVA(u, c) = NoVA /\ Unified(c) /\ Family(u) # {}
  <2>1. Family(u) \in SUBSET VAs
    BY DEF AccountsOf, Family
  <2>2. Min(Family(u)) \in Family(u)
    BY <1>1, <2>1, MinIsMember
  <2> QED BY <1>1, <2>2 DEF CurrencyVA, AccountsOf, Family
<1>2. CASE ~(ExactVA(u, c) = NoVA /\ Unified(c) /\ Family(u) # {})
  BY <1>2, ExactVAOwner DEF CurrencyVA
<1> QED BY <1>1, <1>2

\* The accounts a release writes are the seller's and the buyer's.
LEMMA SellerVAOwner ==
  ASSUME NEW row, SellerVA(row) # NoVA
  PROVE  SellerVA(row) \in VAs /\ Owner[SellerVA(row)] = Seller(row)
BY CurrencyVAOwner DEF SellerVA, AccountsOf

LEMMA BuyerVAOwner ==
  ASSUME NEW row, BuyerVA(row) # NoVA
  PROVE  BuyerVA(row) \in VAs /\ Owner[BuyerVA(row)] = Buyer(row)
BY ExactVAOwner DEF BuyerVA

LEMMA NoVAOutside == NoVA \notin VAs
BY DataAssumption, AccountAssumption DEF NoVA

\* Two rows of the same deal have the same parties.
LEMMA SameParties ==
  ASSUME NEW r, NEW s, SameDeal(r, s)
  PROVE  Seller(r) = Seller(s) /\ Buyer(r) = Buyer(s)
BY DEF SameDeal, Seller, Buyer, Vendor

-----------------------------------------------------------------------------
(* What one step of a request preserves                                    *)

\* A step of p keeps the structure and the evidence, takes nothing back that an
\* order had established, leaves the other requests' locals alone, and
\* establishes what p's next step needs.
Preserves(p) ==
  /\ Structure'
  /\ Evidence'
  /\ Established(p)'
  /\ \A q \in Requests \ {p} : req'[q] = req[q]
  /\ \A o \in OrderIds : order[o].status # "none" => Later(order[o], order'[o])

\* The rows and the balances have their types.
LEMMA RowTypes ==
  ASSUME IInv
  PROVE  order \in [OrderIds -> OrderRow] /\ account \in [VAs -> Int]
         /\ \A q \in Requests : req[q].row \in OrderRow
BY DEF IInv, Structure

\* The structure needs, of a step that leaves locals r to p, the types of r.
LEMMA StructureKept ==
  ASSUME IInv, NEW p \in Requests,
         order' \in [OrderIds -> OrderRow], account' \in [VAs -> Int],
         available' = [va \in VAs |-> available'[va]],
         NEW r,
         req' = [req EXCEPT ![p] = r],
         r = [pc |-> r.pc, o |-> r.o, row |-> r.row,
              x |-> r.x, y |-> r.y, z |-> r.z, plan |-> r.plan],
         r.pc \in Steps, r.o \in OrderIds \cup {0}, r.row \in OrderRow,
         r.pc \in {"releaseBuyer", "debitCoin"} => r.x \in Int,
         r.pc \in {"debitCoin", "creditCoin"} => r.z \in Int
  PROVE  Structure' /\ req'[p] = r /\ \A q \in Requests \ {p} : req'[q] = req[q]
<1>1. req'[p] = r /\ \A q \in Requests \ {p} : req'[q] = req[q]
  BY DEF IInv, Structure
<1> DEFINE Shape(l) == [pc |-> l.pc, o |-> l.o, row |-> l.row,
                         x |-> l.x, y |-> l.y, z |-> l.z, plan |-> l.plan]
<1>2. req = [q \in Requests |-> Shape(req[q])]
  BY DEF IInv, Structure
<1>3. r = Shape(r)
  OBVIOUS
<1> HIDE DEF Shape
<1>4. /\ req = [q \in Requests |-> req[q]] /\ \A q \in Requests : req[q] = Shape(req[q])
      /\ req' = [q \in Requests |-> req'[q]]
  BY <1>2
<1>5. \A q \in Requests : req'[q] = Shape(req'[q])
  BY <1>1, <1>3, <1>4
<1>6. req' = [q \in Requests |-> Shape(req'[q])]
  BY <1>4, <1>5
<1>7. ASSUME NEW q \in Requests
      PROVE  /\ req'[q].pc \in Steps /\ req'[q].o \in OrderIds \cup {0}
             /\ req'[q].row \in OrderRow
             /\ req'[q].pc \in {"releaseBuyer", "debitCoin"} => req'[q].x \in Int
             /\ req'[q].pc \in {"debitCoin", "creditCoin"} => req'[q].z \in Int
  <2>1. CASE q = p
    BY <1>1, <2>1
  <2>2. CASE q # p
    BY <1>1, <2>2 DEF IInv, Structure
  <2> QED BY <2>1, <2>2
<1> QED BY <1>1, <1>6, <1>7 DEF Structure, Shape

\* A step that writes no order need only account for the locals r it leaves.
LEMMA LocalStep ==
  ASSUME IInv, NEW p \in Requests, UNCHANGED order, account' \in [VAs -> Int],
         available' = [va \in VAs |-> available'[va]],
         NEW r,
         req' = [req EXCEPT ![p] = r],
         r = [pc |-> r.pc, o |-> r.o, row |-> r.row,
              x |-> r.x, y |-> r.y, z |-> r.z, plan |-> r.plan],
         r.pc \in Steps, r.o \in OrderIds \cup {0}, r.row \in OrderRow,
         r.pc \in {"releaseBuyer", "debitCoin"} => r.x \in Int,
         r.pc \in {"debitCoin", "creditCoin"} => r.z \in Int,
         Established(p)'
  PROVE  Preserves(p)
<1>0. order' \in [OrderIds -> OrderRow]
  BY DEF IInv, Structure
<1>1. Structure' /\ req'[p] = r /\ \A q \in Requests \ {p} : req'[q] = req[q]
  BY <1>0, StructureKept
<1>2. Evidence'
  BY DEF IInv, Evidence
<1>3. \A o \in OrderIds : order[o].status # "none" => Later(order[o], order'[o])
  BY DEF Later, SameDeal
<1> QED BY <1>1, <1>2, <1>3 DEF Preserves

LEMMA BlankRowType == BlankRow \in OrderRow
<1>1. (CHOOSE a \in Ads : TRUE) \in Ads /\ (CHOOSE u \in Users : TRUE) \in Users
  BY DataAssumption, AccountAssumption
<1> QED BY <1>1 DEF BlankRow, FreshRow, OrderRow, Status, Channels

\* A request that ends, or is cut short, leaves nothing to account for.
LEMMA FinishStep ==
  ASSUME IInv, NEW p \in Requests, UNCHANGED <<order, account>>,
         available' = [va \in VAs |-> available'[va]], Finish(p)
  PROVE  Preserves(p)
<1>1. req'[p] = Idle
  BY DEF IInv, Structure, Finish
<1>2. Established(p)'
  BY <1>1 DEF Established, Idle, Locals
<1>3. /\ Idle = [pc |-> Idle.pc, o |-> Idle.o, row |-> Idle.row, x |-> Idle.x,
                 y |-> Idle.y, z |-> Idle.z, plan |-> Idle.plan]
      /\ Idle.pc = "idle" /\ Idle.o = 0 /\ Idle.row = BlankRow
  BY DEF Idle, Locals
<1>4. "idle" \in Steps
  BY DEF Steps
<1>5. req' = [req EXCEPT ![p] = Idle]
  BY DEF Finish
<1>6. account' \in [VAs -> Int]
  BY DEF IInv, Structure
<1> QED BY <1>2, <1>3, <1>4, <1>5, <1>6, LocalStep, BlankRowType

\* A request that reads an order and finds what its next step needs.
LEMMA LoadStep ==
  ASSUME IInv, NEW p \in Requests, NEW o \in OrderIds, NEW step,
         UNCHANGED <<order, account, available>>, Load(p, o, step),
         order[o].status # "none",
         \/ step \in {"check", "cancel", "lookup"}
         \/ step \in {"paid", "buyer"} /\ Backed(order[o])
         \/ step = "received" /\ Backed(order[o]) /\ order[o].confirmed
         \/ step = "releaseSeller" /\ PaidFor(order[o])
  PROVE  Preserves(p)
<1> DEFINE r == Locals(step, o, order[o], 0, {})
<1>1. req' = [req EXCEPT ![p] = r] /\ req'[p] = r
  BY DEF IInv, Structure, Load
<1>2. r = [pc |-> step, o |-> o, row |-> order[o],
           x |-> 0, y |-> 0, z |-> 0, plan |-> {}]
  BY DEF Locals
<1>3. order[o] \in OrderRow
  BY DEF IInv, Structure
<1>4. Established(p)'
  BY <1>1, <1>2 DEF Established, SameDeal
<1>5. available' = [va \in VAs |-> available'[va]] /\ account' \in [VAs -> Int]
  BY DEF IInv, Structure
<1>6. r.pc \in Steps /\ r.o \in OrderIds /\ r.row \in OrderRow
      /\ r.pc \notin {"releaseBuyer", "debitCoin", "creditCoin"}
  BY <1>2, <1>3 DEF Steps
<1>7. r = [pc |-> r.pc, o |-> r.o, row |-> r.row, x |-> r.x,
           y |-> r.y, z |-> r.z, plan |-> r.plan]
  BY <1>2
<1> HIDE DEF r
<1> QED BY <1>1, <1>4, <1>5, <1>6, <1>7, LocalStep

\* A request that goes on with the order it has.
LEMMA OnwardMoving ==
  ASSUME IInv, NEW p \in Requests, UNCHANGED order, account' \in [VAs -> Int],
         available' = [va \in VAs |-> available'[va]],
         NEW step, NEW x, NEW y, NEW z, Onward(p, step, x, y, z),
         step \in {"releaseBuyer", "debitCoin"} => x \in Int,
         step \in {"debitCoin", "creditCoin"} => z \in Int,
         \/ {req[p].pc, step} \subseteq {"allocate", "reread", "freeze", "accepted"}
         \/ {req[p].pc, step} \subseteq {"lookup", "unfreeze", "cancel"}
         \/ {req[p].pc, step} \subseteq {"buyer", "seller", "debit", "credit",
                                         "settle"}
         \/ {req[p].pc, step} \subseteq {"releaseSeller", "releaseBuyer",
                                         "debitCoin", "creditCoin", "complete"}
  PROVE  Preserves(p)
<1> DEFINE r == [pc |-> step, o |-> req[p].o, row |-> req[p].row,
                 x |-> x, y |-> y, z |-> z, plan |-> {}]
<1>1. req' = [req EXCEPT ![p] = r] /\ req'[p] = r
  BY DEF IInv, Structure, Onward
<1>2. Established(p)
  BY DEF IInv, RequestsSound
<1>3. /\ step \notin {"idle", "insert", "count", "autoAccept"}
      /\ req[p].pc \notin {"idle", "insert", "count", "autoAccept"}
      /\ step \in Steps
  BY DEF Steps
<1>4. Established(p)'
  BY <1>1, <1>2, <1>3 DEF Established
<1>5. r.o \in OrderIds \cup {0} /\ r.row \in OrderRow
  BY DEF IInv, Structure
<1>6. /\ r = [pc |-> r.pc, o |-> r.o, row |-> r.row,
              x |-> r.x, y |-> r.y, z |-> r.z, plan |-> r.plan]
      /\ r.pc = step /\ r.x = x /\ r.z = z
  OBVIOUS
<1> HIDE DEF r
<1> QED BY <1>1, <1>3, <1>4, <1>5, <1>6, LocalStep

LEMMA OnwardStep ==
  ASSUME IInv, NEW p \in Requests, UNCHANGED <<order, account>>,
         available' = [va \in VAs |-> available'[va]],
         NEW step, NEW x, NEW y, NEW z, Onward(p, step, x, y, z),
         step \in {"releaseBuyer", "debitCoin"} => x \in Int,
         step \in {"debitCoin", "creditCoin"} => z \in Int,
         \/ {req[p].pc, step} \subseteq {"allocate", "reread", "freeze", "accepted"}
         \/ {req[p].pc, step} \subseteq {"lookup", "unfreeze", "cancel"}
         \/ {req[p].pc, step} \subseteq {"buyer", "seller", "debit", "credit",
                                         "settle"}
         \/ {req[p].pc, step} \subseteq {"releaseSeller", "releaseBuyer",
                                         "debitCoin", "creditCoin", "complete"}
  PROVE  Preserves(p)
<1>1. account' \in [VAs -> Int]
  BY DEF IInv, Structure
<1> QED BY <1>1, OnwardMoving

LEMMA AvailableKept ==
  ASSUME IInv, UNCHANGED available
  PROVE  available' = [va \in VAs |-> available'[va]]
BY DEF IInv, Structure

LEMMA AcceptingSteps ==
  ASSUME IInv, NEW p \in Requests,
         CommitAllocation(p) \/ RereadSeller(p) \/ FreezeCrypto(p)
  PROVE  Preserves(p)
<1>1. CASE CommitAllocation(p)
  <2>1. available' = [va \in VAs |-> available'[va]]
    BY <1>1 DEF CommitAllocation, Apply, IInv, Structure
  <2>2. /\ UNCHANGED <<order, account>> /\ req[p].pc = "allocate"
        /\ Onward(p, "reread", req[p].x, req[p].y, req[p].z)
    BY <1>1 DEF CommitAllocation, Goto, At
  <2> QED BY <2>1, <2>2, OnwardStep
<1>2. CASE RereadSeller(p)
  BY <1>2, AvailableKept, OnwardStep DEF RereadSeller, At, ledgers
<1>3. CASE FreezeCrypto(p)
  <2>1. available' = [va \in VAs |-> available'[va]]
    BY <1>3 DEF FreezeCrypto, IInv, Structure
  <2>2. /\ UNCHANGED <<order, account>> /\ req[p].pc = "freeze"
        /\ Onward(p, "accepted", req[p].x, req[p].y, req[p].z)
    BY <1>3 DEF FreezeCrypto, Goto, At
  <2> QED BY <2>1, <2>2, OnwardStep
<1> QED BY <1>1, <1>2, <1>3

LEMMA CancellingSteps ==
  ASSUME IInv, NEW p \in Requests,
         StartDecline(p) \/ StartCancel(p) \/ StartExpire(p)
           \/ ReadFrozen(p) \/ Unfreeze(p)
  PROVE  Preserves(p)
<1>1. CASE StartDecline(p)
  <2>1. PICK o \in OrderIds : order[o].status = "pending" /\ Load(p, o, "cancel")
    BY <1>1 DEF StartDecline
  <2>2. UNCHANGED <<order, account, available>>
    BY <1>1 DEF StartDecline, ledgers
  <2> QED BY <2>1, <2>2, LoadStep
<1>2. CASE StartCancel(p)
  <2>1. PICK o \in OrderIds :
          /\ order[o].status \in {"pending", "awaiting_payment"}
          /\ Load(p, o, "lookup") \/ Load(p, o, "cancel")
    BY <1>2 DEF StartCancel
  <2>2. UNCHANGED <<order, account, available>>
    BY <1>2 DEF StartCancel, ledgers
  <2> QED BY <2>1, <2>2, LoadStep
<1>3. CASE StartExpire(p)
  <2>1. PICK o \in OrderIds :
          order[o].status = "awaiting_payment" /\ Load(p, o, "lookup")
    BY <1>3 DEF StartExpire
  <2>2. UNCHANGED <<order, account, available>>
    BY <1>3 DEF StartExpire, ledgers
  <2> QED BY <2>1, <2>2, LoadStep
<1>4. CASE ReadFrozen(p)
  <2> DEFINE va == SellerVA(req[p].row)
  <2>1. /\ UNCHANGED <<order, account, available>> /\ req[p].pc = "lookup"
        /\ \/ Onward(p, "cancel", req[p].x, req[p].y, req[p].z)
           \/ Onward(p, "unfreeze", available[va], 0, 0)
    BY <1>4 DEF ReadFrozen, Goto, At, ledgers
  <2> QED BY <2>1, AvailableKept, OnwardStep
<1>5. CASE Unfreeze(p)
  <2>1. available' = [va \in VAs |-> available'[va]]
    BY <1>5 DEF Unfreeze, IInv, Structure
  <2>2. /\ UNCHANGED <<order, account>> /\ req[p].pc = "unfreeze"
        /\ Onward(p, "cancel", req[p].x, req[p].y, req[p].z)
    BY <1>5 DEF Unfreeze, Goto, At
  <2> QED BY <2>1, <2>2, OnwardStep
<1> QED BY <1>1, <1>2, <1>3, <1>4, <1>5

LEMMA PayingSteps ==
  ASSUME IInv, NEW p \in Requests,
         StartConfirm(p) \/ ReadBuyerWallet(p) \/ ReadSellerWallet(p)
           \/ DebitFiat(p) \/ CreditFiat(p)
  PROVE  Preserves(p)
<1>1. CASE StartConfirm(p)
  <2>1. PICK o \in OrderIds :
          /\ order[o].status = "awaiting_payment"
          /\ Load(p, o, "paid") \/ Load(p, o, "buyer")
    BY <1>1 DEF StartConfirm
  <2>2. Backed(order[o])
    BY <2>1 DEF IInv, Evidence
  <2>3. UNCHANGED <<order, account, available>>
    BY <1>1 DEF StartConfirm, ledgers
  <2> QED BY <2>1, <2>2, <2>3, LoadStep
<1>2. CASE ReadBuyerWallet(p)
  <2>1. /\ UNCHANGED <<order, account, available>> /\ req[p].pc = "buyer"
        /\ \/ Finish(p)
           \/ Onward(p, "seller", wallet[Buyer(req[p].row)], 0, 0)
    BY <1>2 DEF ReadBuyerWallet, At, ledgers
  <2>2. CASE Finish(p)
    BY <2>1, <2>2, AvailableKept, FinishStep
  <2>3. CASE Onward(p, "seller", wallet[Buyer(req[p].row)], 0, 0)
    BY <2>1, <2>3, AvailableKept, OnwardStep
  <2> QED BY <2>1, <2>2, <2>3
<1>3. CASE ReadSellerWallet(p)
  <2>1. /\ UNCHANGED <<order, account, available>> /\ req[p].pc = "seller"
        /\ Onward(p, "debit", req[p].x, wallet[Seller(req[p].row)], 0)
    BY <1>3 DEF ReadSellerWallet, At, ledgers
  <2> QED BY <2>1, AvailableKept, OnwardStep
<1>4. CASE DebitFiat(p)
  <2>1. /\ UNCHANGED <<order, account, available>> /\ req[p].pc = "debit"
        /\ Onward(p, "credit", req[p].x, req[p].y, req[p].z)
    BY <1>4 DEF DebitFiat, Goto, At
  <2> QED BY <2>1, AvailableKept, OnwardStep
<1>5. CASE CreditFiat(p)
  <2>1. /\ UNCHANGED <<order, account, available>> /\ req[p].pc = "credit"
        /\ Onward(p, "settle", req[p].x, req[p].y, req[p].z)
    BY <1>5 DEF CreditFiat, Goto, At
  <2> QED BY <2>1, AvailableKept, OnwardStep
<1> QED BY <1>1, <1>2, <1>3, <1>4, <1>5
LEMMA ReleasingReads ==
  ASSUME IInv, NEW p \in Requests,
         StartReceived(p) \/ StartRelease(p) \/ ReadSellerVA(p) \/ ReadBuyerVA(p)
  PROVE  Preserves(p)
<1> DEFINE row == req[p].row
<1>1. CASE StartReceived(p)
  <2>1. PICK o \in OrderIds :
          order[o].status = "payment_made" /\ Load(p, o, "received")
    BY <1>1 DEF StartReceived
  <2>2. Backed(order[o]) /\ order[o].confirmed
    BY <2>1 DEF IInv, Evidence
  <2>3. UNCHANGED <<order, account, available>>
    BY <1>1 DEF StartReceived, ledgers
  <2> QED BY <2>1, <2>2, <2>3, LoadStep
<1>2. CASE StartRelease(p)
  <2> DEFINE o == req[p].o
  <2>1. /\ UNCHANGED <<order, account, available>> /\ req[p].pc = "release"
        /\ \/ Finish(p)
           \/ /\ order[o].status = "awaiting_coin_release"
              /\ Load(p, o, "releaseSeller")
    BY <1>2 DEF StartRelease, At, ledgers
  <2>2. o \in OrderIds /\ order[o].status # "none" /\ PaidFor(order[o])
    BY <2>1 DEF IInv, RequestsSound, Established
  <2>3. CASE Finish(p)
    BY <2>1, <2>3, AvailableKept, FinishStep
  <2>4. CASE Load(p, o, "releaseSeller")
    <3> HIDE DEF o
    <3> QED BY <2>1, <2>2, <2>4, LoadStep
  <2> QED BY <2>1, <2>3, <2>4
<1>3. CASE ReadSellerVA(p)
  <2> DEFINE va == SellerVA(row)
  <2>1. /\ UNCHANGED <<order, account, available>> /\ req[p].pc = "releaseSeller"
        /\ \/ Finish(p)
           \/ va # NoVA /\ Onward(p, "releaseBuyer", account[va], available[va], 0)
    BY <1>3 DEF ReadSellerVA, At, ledgers
  <2>2. va # NoVA => account[va] \in Int
    BY SellerVAOwner DEF IInv, Structure
  <2>3. CASE Finish(p)
    BY <2>1, <2>3, AvailableKept, FinishStep
  <2>4. CASE va # NoVA /\ Onward(p, "releaseBuyer", account[va], available[va], 0)
    BY <2>1, <2>2, <2>4, AvailableKept, OnwardStep
  <2> QED BY <2>1, <2>3, <2>4
<1>4. CASE ReadBuyerVA(p)
  <2> DEFINE va == BuyerVA(row)
  <2>1. /\ UNCHANGED <<order, account, available>> /\ req[p].pc = "releaseBuyer"
        /\ \/ Finish(p)
           \/ /\ va # NoVA
              /\ Onward(p, "debitCoin", req[p].x, req[p].y, account[va])
    BY <1>4 DEF ReadBuyerVA, At, ledgers
  <2>2. req[p].x \in Int /\ (va # NoVA => account[va] \in Int)
    BY <2>1, BuyerVAOwner DEF IInv, Structure
  <2>3. CASE Finish(p)
    BY <2>1, <2>3, AvailableKept, FinishStep
  <2>4. CASE va # NoVA /\ Onward(p, "debitCoin", req[p].x, req[p].y, account[va])
    BY <2>1, <2>2, <2>4, AvailableKept, OnwardStep
  <2> QED BY <2>1, <2>3, <2>4
<1> QED BY <1>1, <1>2, <1>3, <1>4

LEMMA LostStep ==
  ASSUME IInv, NEW p \in Requests, RequestLost(p)
  PROVE  Preserves(p)
BY AvailableKept, FinishStep DEF RequestLost, ledgers

\* The checks of a new order, and of an order about to be accepted.
LEMMA CheckingSteps ==
  ASSUME IInv, NEW p \in Requests,
         SubmitOrder(p) \/ CountOrder(p) \/ StartAccept(p) \/ CheckSeller(p)
  PROVE  Preserves(p)
<1>0. account' \in [VAs -> Int]
  <2>1. UNCHANGED account
    <3>1. ASSUME NEW offer \in Ads, NEW u, NEW n, NEW c, Submit(p, offer, u, n, c)
          PROVE  UNCHANGED account
      BY <3>1 DEF Submit, ledgers
    <3>2. CASE SubmitOrder(p)
      BY <3>1, <3>2 DEF SubmitOrder
    <3>3. CASE CountOrder(p)
      BY <3>3 DEF CountOrder, ledgers
    <3>4. CASE StartAccept(p)
      BY <3>4 DEF StartAccept, ledgers
    <3>5. CASE CheckSeller(p)
      BY <3>5, Zenon DEF CheckSeller, ledgers
    <3> QED BY <3>2, <3>3, <3>4, <3>5
  <2> QED BY <2>1 DEF IInv, Structure
<1>1. CASE SubmitOrder(p)
  <2>1. PICK offer \in Ads, n \in Amounts :
          \E u \in Customers[offer], c \in AdRow[offer].channels : Submit(p, offer, u, n, c)
    BY <1>1 DEF SubmitOrder
  <2>2. PICK u \in Customers[offer], c \in AdRow[offer].channels : Submit(p, offer, u, n, c)
    BY <2>1
  <2> DEFINE new == FreshRow("pending", offer, u, n, c)
             r   == Locals("insert", 0, new, ordersReceived[offer], {})
  <2>3. /\ new.status = "pending"
        /\ ~new.confirmed /\ ~new.received /\ ~new.released
    BY DEF FreshRow
  <2>4. new \in OrderRow
    BY AdAssumption, NoVAOutside DEF FreshRow, OrderRow, Status
  <2> HIDE DEF new
  <2>5. /\ r.pc = "insert" /\ r.o = 0 /\ r.row = new
        /\ r = [pc |-> r.pc, o |-> r.o, row |-> r.row, x |-> r.x,
                y |-> r.y, z |-> r.z, plan |-> r.plan]
    BY DEF Locals
  <2>6. req' = [req EXCEPT ![p] = r] /\ req'[p] = r
    BY <2>2 DEF IInv, Structure, Submit, new
  <2> HIDE DEF r
  <2>8. Established(p)'
    BY <2>3, <2>5, <2>6 DEF Established
  <2>7. UNCHANGED <<order, account, available>>
    BY <2>2 DEF Submit, ledgers
  <2>9. "insert" \in Steps
    BY DEF Steps
  <2> QED BY <2>4, <2>5, <2>6, <2>7, <2>8, <2>9, <1>0, AvailableKept, LocalStep
<1>2. CASE CountOrder(p)
  <2>1. /\ UNCHANGED <<order, account, available>> /\ req[p].pc = "count"
        /\ \/ Finish(p)
           \/ Onward(p, "autoAccept", req[p].x, req[p].y, req[p].z)
    BY <1>2 DEF CountOrder, Goto, At, ledgers
  <2>2. CASE Finish(p)
    BY <2>1, <2>2, AvailableKept, FinishStep
  <2>3. CASE Onward(p, "autoAccept", req[p].x, req[p].y, req[p].z)
    <3> DEFINE r == [pc |-> "autoAccept", o |-> req[p].o, row |-> req[p].row,
                     x |-> req[p].x, y |-> req[p].y, z |-> req[p].z,
                     plan |-> {}]
    <3>1. req' = [req EXCEPT ![p] = r] /\ req'[p] = r
      BY <2>3 DEF IInv, Structure, Onward
    <3>2. Established(p)'
      BY <2>1, <3>1 DEF IInv, RequestsSound, Established
    <3>3. r.o \in OrderIds \cup {0} /\ r.row \in OrderRow /\ r.pc \in Steps
      BY DEF IInv, Structure, Steps
    <3>4. r = [pc |-> r.pc, o |-> r.o, row |-> r.row, x |-> r.x,
               y |-> r.y, z |-> r.z, plan |-> r.plan] /\ r.pc = "autoAccept"
      OBVIOUS
    <3> HIDE DEF r
    <3> QED BY <2>1, <3>1, <3>2, <3>3, <3>4, <1>0, AvailableKept, LocalStep
  <2> QED BY <2>1, <2>2, <2>3
<1>3. CASE StartAccept(p)
  <2>1. UNCHANGED <<order, account, available>>
    BY <1>3 DEF StartAccept, ledgers
  <2>2. PICK o \in OrderIds :
          \/ order[o].status = "pending" /\ Load(p, o, "check")
          \/ Finish(p)
    BY <1>3 DEF StartAccept
  <2>3. CASE Finish(p)
    BY <2>1, <2>3, AvailableKept, FinishStep
  <2>4. CASE order[o].status = "pending" /\ Load(p, o, "check")
    BY <2>1, <2>4, LoadStep
  <2> QED BY <2>2, <2>3, <2>4
<1>4. CASE CheckSeller(p)
  <2> DEFINE va    == CurrencyVA(Seller(req[p].row), AdRow[req[p].row.ad].currency)
             moves == IF Unified(AdRow[req[p].row.ad].currency)
                      THEN Plan(available, Family(Seller(req[p].row)), va,
                                req[p].row.amount)
                      ELSE {}
             new   == [req[p].row EXCEPT !.held = va]
             step  == IF moves = {} THEN "reread" ELSE "allocate"
             r     == [pc |-> step, o |-> req[p].o, row |-> new,
                       x |-> 0, y |-> 0, z |-> 0, plan |-> moves]
  <2>1. UNCHANGED <<order, account, available>> /\ req[p].pc = "check"
    BY <1>4, Zenon DEF CheckSeller, At, ledgers
  <2>2. \/ Finish(p)
        \/ /\ va # NoVA
           /\ req' = [req EXCEPT ![p] = Locals(step, req[p].o, new, 0, moves)]
    BY <1>4, Zenon DEF CheckSeller
  <2>3. CASE Finish(p)
    BY <2>1, <2>3, AvailableKept, FinishStep
  <2>4. CASE /\ va # NoVA
             /\ req' = [req EXCEPT ![p] = Locals(step, req[p].o, new, 0, moves)]
    <3>1. va \in VAs /\ Owner[va] = Seller(req[p].row)
      BY <2>4, CurrencyVAOwner
    <3>2. step \in {"reread", "allocate"}
      OBVIOUS
    <3> HIDE DEF step, moves, va
    <3>3. Locals(step, req[p].o, new, 0, moves) = r
      BY DEF Locals
    <3>4. req' = [req EXCEPT ![p] = r] /\ req'[p] = r
      BY <2>4, <3>3 DEF IInv, Structure
    <3>5. req[p].row \in OrderRow /\ req[p].o \in OrderIds \cup {0}
      BY DEF IInv, Structure
    <3>6. new \in OrderRow
      BY <3>1, <3>5 DEF OrderRow
    <3>7. new.held = va /\ SameDeal(req[p].row, new)
      BY <3>5 DEF OrderRow, SameDeal
    <3>8. Seller(new) = Seller(req[p].row)
      BY <3>7, SameParties
    <3> HIDE DEF new
    <3>9. Established(p)'
      <4>1. Established(p)
        BY DEF IInv, RequestsSound
      <4>2. req[p].o \in OrderIds /\ order[req[p].o].status # "none"
            /\ SameDeal(req[p].row, order[req[p].o])
        BY <2>1, <4>1 DEF Established
      <4>3. SameDeal(new, order[req[p].o])
        BY <3>7, <4>2 DEF SameDeal
      <4>4. /\ req'[p].pc = step /\ req'[p].o = req[p].o /\ req'[p].row = new
        BY <3>4
      <4> QED BY <2>1, <3>1, <3>2, <3>7, <3>8, <4>2, <4>3, <4>4 DEF Established
    <3>10. r = [pc |-> r.pc, o |-> r.o, row |-> r.row, x |-> r.x,
               y |-> r.y, z |-> r.z, plan |-> r.plan]
           /\ r.pc = step /\ r.row = new /\ r.o = req[p].o
      OBVIOUS
    <3>11. step \in Steps
      BY <3>2 DEF Steps
    <3> HIDE DEF r
    <3> QED BY <2>1, <3>2, <3>4, <3>5, <3>6, <3>9, <3>10, <3>11, <1>0,
               AvailableKept, LocalStep
  <2> QED BY <2>2, <2>3, <2>4
<1> QED BY <1>1, <1>2, <1>3, <1>4
-----------------------------------------------------------------------------
(* Steps that write an order                                               *)

\* Evidence of one order.
RowEvidence(r) ==
  /\ r.status = "awaiting_payment" => Backed(r)
  /\ r.status = "payment_made" => Backed(r) /\ r.confirmed
  /\ r.status = "awaiting_coin_release" => PaidFor(r)
  /\ r.status = "completed" => r.released
  /\ r.received => PaidFor(r)
  /\ r.confirmed => Backed(r)
  /\ r.released => PaidFor(r)

LEMMA EvidenceByRow == Evidence <=> \A o \in OrderIds : RowEvidence(order[o])
BY DEF Evidence, RowEvidence

LEMMA WriteStep ==
  ASSUME IInv, NEW o \in OrderIds, NEW s \in OrderRow, Write(o, s), RowEvidence(s),
         order[o].status # "none" => Later(order[o], s)
  PROVE  /\ order' \in [OrderIds -> OrderRow] /\ order'[o] = s
         /\ Evidence'
         /\ \A k \in OrderIds :
              order[k].status # "none" => Later(order[k], order'[k])
<1>1. order' \in [OrderIds -> OrderRow] /\ order'[o] = s
      /\ \A k \in OrderIds \ {o} : order'[k] = order[k]
  BY DEF IInv, Structure, Write
<1>2. \A k \in OrderIds : RowEvidence(order'[k])
  <2>1. \A k \in OrderIds : RowEvidence(order[k])
    BY EvidenceByRow DEF IInv
  <2> QED BY <1>1, <2>1
<1>3. Evidence'
  BY <1>2 DEF Evidence, RowEvidence
<1>4. \A k \in OrderIds : order[k].status # "none" => Later(order[k], order'[k])
  BY <1>1 DEF Later, SameDeal
<1> QED BY <1>1, <1>3, <1>4

\* The last write of a request.
LEMMA WriteAndFinish ==
  ASSUME IInv, NEW p \in Requests, NEW o \in OrderIds, NEW s \in OrderRow,
         Write(o, s), RowEvidence(s), order[o].status # "none" => Later(order[o], s),
         UNCHANGED <<account, available>>, Finish(p)
  PROVE  Preserves(p)
<1>1. /\ order' \in [OrderIds -> OrderRow] /\ Evidence'
      /\ \A k \in OrderIds : order[k].status # "none" => Later(order[k], order'[k])
  BY WriteStep
<1>2. /\ account' \in [VAs -> Int] /\ available' = [va \in VAs |-> available'[va]]
  BY DEF IInv, Structure
<1>3. /\ Idle = [pc |-> Idle.pc, o |-> Idle.o, row |-> Idle.row, x |-> Idle.x,
                 y |-> Idle.y, z |-> Idle.z, plan |-> Idle.plan]
      /\ Idle.pc = "idle" /\ Idle.o = 0 /\ Idle.row = BlankRow /\ Idle.pc \in Steps
  BY DEF Idle, Locals, Steps
<1>4. Structure' /\ req'[p] = Idle /\ \A q \in Requests \ {p} : req'[q] = req[q]
  BY <1>1, <1>2, <1>3, StructureKept, BlankRowType DEF Finish
<1>5. Established(p)'
  BY <1>3, <1>4 DEF Established
<1> QED BY <1>1, <1>4, <1>5 DEF Preserves

\* A payment that has been received, with the release to follow.
LEMMA WriteAndRelease ==
  ASSUME IInv, NEW p \in Requests, NEW s \in OrderRow, req[p].o \in OrderIds,
         Write(req[p].o, s), RowEvidence(s), Later(order[req[p].o], s),
         PaidFor(s), SameDeal(req[p].row, s),
         UNCHANGED <<account, available>>, Goto(p, "release")
  PROVE  Preserves(p)
<1> DEFINE r == [pc |-> "release", o |-> req[p].o, row |-> req[p].row,
                 x |-> req[p].x, y |-> req[p].y, z |-> req[p].z, plan |-> {}]
<1>1. /\ order' \in [OrderIds -> OrderRow] /\ order'[req[p].o] = s /\ Evidence'
      /\ \A k \in OrderIds : order[k].status # "none" => Later(order[k], order'[k])
  BY WriteStep
<1>2. /\ account' \in [VAs -> Int] /\ available' = [va \in VAs |-> available'[va]]
      /\ req[p].row \in OrderRow
  BY DEF IInv, Structure
<1>3. /\ r = [pc |-> r.pc, o |-> r.o, row |-> r.row, x |-> r.x,
              y |-> r.y, z |-> r.z, plan |-> r.plan]
      /\ r.pc = "release" /\ r.o = req[p].o /\ r.row = req[p].row /\ r.pc \in Steps
  BY DEF Steps
<1>4. req' = [req EXCEPT ![p] = r]
  BY DEF Goto, Onward
<1> HIDE DEF r
<1>5. Structure' /\ req'[p] = r /\ \A q \in Requests \ {p} : req'[q] = req[q]
  BY <1>1, <1>2, <1>3, <1>4, StructureKept
<1>6. s.status # "none"
  BY DEF Later
<1>7. Established(p)'
  BY <1>1, <1>3, <1>5, <1>6 DEF Established
<1> QED BY <1>1, <1>5, <1>7 DEF Preserves

\* What the writes of the handlers leave of a row.
LEMMA AcceptedRow ==
  ASSUME NEW r \in OrderRow, NEW va \in VAs
  PROVE  LET s == [r EXCEPT !.status = "awaiting_payment", !.accepted = TRUE,
                            !.overdue = FALSE, !.held = va]
         IN  /\ s \in OrderRow /\ SameDeal(r, s) /\ s.channel = r.channel
             /\ s.status = "awaiting_payment" /\ s.accepted /\ s.held = va
             /\ s.confirmed = r.confirmed /\ s.received = r.received
             /\ s.released = r.released
BY DEF OrderRow, SameDeal, Status

LEMMA CancelledRow ==
  ASSUME NEW r \in OrderRow
  PROVE  LET s == [r EXCEPT !.status = "cancelled"]
         IN  /\ s \in OrderRow /\ SameDeal(r, s) /\ s.channel = r.channel
             /\ s.status = "cancelled"
             /\ s.accepted = r.accepted /\ s.held = r.held
             /\ s.confirmed = r.confirmed /\ s.received = r.received
             /\ s.released = r.released
BY DEF OrderRow, SameDeal, Status
LEMMA PaidRow ==
  ASSUME NEW r \in OrderRow
  PROVE  LET s == [r EXCEPT !.status = "payment_made", !.confirmed = TRUE]
         IN  /\ s \in OrderRow /\ SameDeal(r, s) /\ s.channel = r.channel
             /\ s.status = "payment_made"
             /\ s.accepted = r.accepted /\ s.held = r.held
             /\ s.confirmed /\ s.received = r.received
             /\ s.released = r.released
BY DEF OrderRow, SameDeal, Status
LEMMA SettledRow ==
  ASSUME NEW r \in OrderRow
  PROVE  LET s == [r EXCEPT !.status = "awaiting_coin_release",
                            !.confirmed = TRUE, !.received = TRUE]
         IN  /\ s \in OrderRow /\ SameDeal(r, s) /\ s.channel = r.channel
             /\ s.status = "awaiting_coin_release"
             /\ s.accepted = r.accepted /\ s.held = r.held
             /\ s.confirmed /\ s.received /\ s.released = r.released
BY DEF OrderRow, SameDeal, Status
LEMMA ReceivedRow ==
  ASSUME NEW r \in OrderRow
  PROVE  LET s == [r EXCEPT !.status = "awaiting_coin_release", !.received = TRUE]
         IN  /\ s \in OrderRow /\ SameDeal(r, s) /\ s.channel = r.channel
             /\ s.status = "awaiting_coin_release"
             /\ s.accepted = r.accepted /\ s.held = r.held
             /\ s.confirmed = r.confirmed /\ s.received
             /\ s.released = r.released
BY DEF OrderRow, SameDeal, Status
LEMMA CompletedRow ==
  ASSUME NEW r \in OrderRow
  PROVE  LET s == [r EXCEPT !.status = "completed", !.released = TRUE]
         IN  /\ s \in OrderRow /\ SameDeal(r, s) /\ s.channel = r.channel
             /\ s.status = "completed"
             /\ s.accepted = r.accepted /\ s.held = r.held
             /\ s.confirmed = r.confirmed /\ s.received = r.received /\ s.released
BY DEF OrderRow, SameDeal, Status
LEMMA OverdueRow ==
  ASSUME NEW r \in OrderRow
  PROVE  LET s == [r EXCEPT !.overdue = TRUE]
         IN  /\ s \in OrderRow /\ SameDeal(r, s) /\ s.channel = r.channel
             /\ s.status = r.status
             /\ s.accepted = r.accepted /\ s.held = r.held
             /\ s.confirmed = r.confirmed /\ s.received = r.received
             /\ s.released = r.released
BY DEF OrderRow, SameDeal, Status

\* The last writes of a request: of a decline, cancellation or expiry, of an
\* acceptance, of an offline payment, and of a release.
LEMMA LastWrites ==
  ASSUME IInv, NEW p \in Requests,
         MarkAccepted(p) \/ MarkCancelled(p) \/ MarkPaid(p) \/ MarkCompleted(p)
  PROVE  Preserves(p)
<1> DEFINE o == req[p].o
<1>1. Established(p) /\ o \in OrderIds /\ order[o] \in OrderRow
      /\ order[o].status # "none" /\ RowEvidence(order[o])
  <2>1. req[p].pc \notin {"idle", "insert"}
    BY DEF MarkAccepted, MarkCancelled, MarkPaid, MarkCompleted, At
  <2>2. Established(p)
    BY DEF IInv, RequestsSound
  <2>3. o \in OrderIds /\ order[o].status # "none"
    BY <2>1, <2>2 DEF Established
  <2> QED BY <2>2, <2>3, RowTypes, EvidenceByRow DEF IInv
<1>2. UNCHANGED <<account, available>> /\ Finish(p)
  BY DEF MarkAccepted, MarkCancelled, MarkPaid, MarkCompleted, ledgers
<1>3. CASE MarkAccepted(p)
  <2> DEFINE va == req[p].row.held
             s  == [order[o] EXCEPT !.status = "awaiting_payment", !.accepted = TRUE,
                                    !.overdue = FALSE, !.held = va]
  <2>1. Write(o, s) /\ req[p].pc = "accepted"
    BY <1>3 DEF MarkAccepted, At
  <2>2. /\ va \in VAs /\ Owner[va] = Seller(req[p].row)
        /\ SameDeal(req[p].row, order[o])
    BY <1>1, <2>1 DEF Established
  <2>3. /\ s \in OrderRow /\ SameDeal(order[o], s)
        /\ s.status = "awaiting_payment" /\ s.accepted /\ s.held = va
        /\ s.confirmed = order[o].confirmed /\ s.received = order[o].received
        /\ s.released = order[o].released
    BY <1>1, <2>2, AcceptedRow, Zenon
  <2> HIDE DEF o, s
  <2>4. Seller(s) = Seller(req[p].row)
    BY <2>2, <2>3, SameParties
  <2>5. Backed(s)
    BY <2>2, <2>3, <2>4 DEF Backed
  <2>6. RowEvidence(s) /\ Later(order[o], s)
    BY <1>1, <2>3, <2>5 DEF RowEvidence, Later, PaidFor
  <2> QED BY <1>1, <1>2, <2>1, <2>3, <2>6, WriteAndFinish
<1>4. CASE MarkCancelled(p)
  <2> DEFINE s == [order[o] EXCEPT !.status = "cancelled"]
  <2>1. Write(o, s)
    BY <1>4 DEF MarkCancelled
  <2>2. /\ s \in OrderRow /\ SameDeal(order[o], s) /\ s.status = "cancelled"
        /\ s.accepted = order[o].accepted /\ s.held = order[o].held
        /\ s.confirmed = order[o].confirmed /\ s.received = order[o].received
        /\ s.released = order[o].released
    BY <1>1, CancelledRow, Zenon
  <2> HIDE DEF o, s
  <2>3. Backed(order[o]) => Backed(s)
    BY <2>2, SameParties DEF Backed
  <2>4. RowEvidence(s) /\ Later(order[o], s)
    BY <1>1, <2>2, <2>3 DEF RowEvidence, Later, PaidFor
  <2> QED BY <1>1, <1>2, <2>1, <2>2, <2>4, WriteAndFinish
<1>5. CASE MarkPaid(p)
  <2> DEFINE s == [order[o] EXCEPT !.status = "payment_made", !.confirmed = TRUE]
  <2>1. Write(o, s) /\ req[p].pc = "paid"
    BY <1>5 DEF MarkPaid, At
  <2>2. /\ s \in OrderRow /\ SameDeal(order[o], s) /\ s.status = "payment_made"
        /\ s.accepted = order[o].accepted /\ s.held = order[o].held
        /\ s.confirmed /\ s.received = order[o].received
        /\ s.released = order[o].released
    BY <1>1, PaidRow, Zenon
  <2>3. Backed(order[o])
    BY <1>1, <2>1 DEF Established
  <2> HIDE DEF o, s
  <2>4. Backed(s)
    BY <2>2, <2>3, SameParties DEF Backed
  <2>5. RowEvidence(s) /\ Later(order[o], s)
    BY <1>1, <2>2, <2>4 DEF RowEvidence, Later, PaidFor
  <2> QED BY <1>1, <1>2, <2>1, <2>2, <2>5, WriteAndFinish
<1>6. CASE MarkCompleted(p)
  <2> DEFINE s == [order[o] EXCEPT !.status = "completed", !.released = TRUE]
  <2>1. Write(o, s) /\ req[p].pc = "complete"
    BY <1>6 DEF MarkCompleted, At
  <2>2. /\ s \in OrderRow /\ SameDeal(order[o], s) /\ s.status = "completed"
        /\ s.accepted = order[o].accepted /\ s.held = order[o].held
        /\ s.confirmed = order[o].confirmed /\ s.received = order[o].received
        /\ s.released
    BY <1>1, CompletedRow, Zenon
  <2>3. PaidFor(order[o])
    BY <1>1, <2>1 DEF Established
  <2> HIDE DEF o, s
  <2>4. Backed(s)
    BY <2>2, <2>3, SameParties DEF Backed, PaidFor
  <2>5. RowEvidence(s) /\ Later(order[o], s)
    BY <1>1, <2>2, <2>3, <2>4 DEF RowEvidence, Later, PaidFor
  <2> QED BY <1>1, <1>2, <2>1, <2>2, <2>5, WriteAndFinish
<1> QED BY <1>3, <1>4, <1>5, <1>6

\* The writes that a release follows.
LEMMA ReceivingWrites ==
  ASSUME IInv, NEW p \in Requests, MarkSettled(p) \/ MarkReceived(p)
  PROVE  Preserves(p)
<1> DEFINE o == req[p].o
<1>1. req[p].pc \in {"settle", "received"}
  BY DEF MarkSettled, MarkReceived, At
<1>2. /\ Established(p) /\ o \in OrderIds /\ order[o] \in OrderRow
      /\ order[o].status # "none" /\ SameDeal(req[p].row, order[o])
      /\ RowEvidence(order[o]) /\ Backed(order[o])
  <2>1. Established(p)
    BY DEF IInv, RequestsSound
  <2>2. /\ o \in OrderIds /\ order[o].status # "none"
        /\ SameDeal(req[p].row, order[o]) /\ Backed(order[o])
    BY <1>1, <2>1 DEF Established
  <2> QED BY <2>1, <2>2, RowTypes, EvidenceByRow DEF IInv
<1>3. UNCHANGED <<account, available>> /\ Goto(p, "release")
  BY DEF MarkSettled, MarkReceived, ledgers
<1>4. CASE MarkSettled(p)
  <2> DEFINE s == [order[o] EXCEPT !.status = "awaiting_coin_release",
                                   !.confirmed = TRUE, !.received = TRUE]
  <2>1. Write(o, s)
    BY <1>4 DEF MarkSettled
  <2>2. /\ s \in OrderRow /\ SameDeal(order[o], s)
        /\ s.status = "awaiting_coin_release"
        /\ s.accepted = order[o].accepted /\ s.held = order[o].held
        /\ s.confirmed /\ s.received /\ s.released = order[o].released
    BY <1>2, SettledRow, Zenon
  <2> HIDE DEF s
  <2>3. PaidFor(s)
    BY <1>2, <2>2, SameParties DEF Backed, PaidFor
  <2>4. RowEvidence(s) /\ Later(order[o], s) /\ SameDeal(req[p].row, s)
    BY <1>2, <2>2, <2>3 DEF RowEvidence, Later, PaidFor, SameDeal
  <2> QED BY <1>2, <1>3, <2>1, <2>2, <2>3, <2>4, WriteAndRelease
<1>5. CASE MarkReceived(p)
  <2> DEFINE s == [order[o] EXCEPT !.status = "awaiting_coin_release",
                                   !.received = TRUE]
  <2>1. Write(o, s) /\ order[o].confirmed
    BY <1>2, <1>5 DEF MarkReceived, At, Established
  <2>2. /\ s \in OrderRow /\ SameDeal(order[o], s)
        /\ s.status = "awaiting_coin_release"
        /\ s.accepted = order[o].accepted /\ s.held = order[o].held
        /\ s.confirmed = order[o].confirmed /\ s.received
        /\ s.released = order[o].released
    BY <1>2, ReceivedRow, Zenon
  <2> HIDE DEF s
  <2>3. PaidFor(s)
    BY <1>2, <2>1, <2>2, SameParties DEF Backed, PaidFor
  <2>4. RowEvidence(s) /\ Later(order[o], s) /\ SameDeal(req[p].row, s)
    BY <1>2, <2>2, <2>3 DEF RowEvidence, Later, PaidFor, SameDeal
  <2> QED BY <1>2, <1>3, <2>1, <2>2, <2>3, <2>4, WriteAndRelease
<1> QED BY <1>4, <1>5

LEMMA InsertStep ==
  ASSUME IInv, NEW p \in Requests, InsertOrder(p)
  PROVE  Preserves(p)
<1> DEFINE row == req[p].row
<1>1. PICK o \in OrderIds :
        /\ \A k \in OrderIds : (order[k].status = "none") <=> (k >= o)
        /\ Write(o, row)
        /\ req' = [req EXCEPT ![p] = Locals("count", o, row, req[p].x, {})]
        /\ UNCHANGED <<account, available>> /\ req[p].pc = "insert"
  BY DEF InsertOrder, At, ledgers
<1>2. order[o].status = "none"
  BY <1>1, DataAssumption, AccountAssumption
<1>3. /\ row \in OrderRow /\ row.status = "pending"
      /\ ~row.confirmed /\ ~row.received /\ ~row.released
  BY <1>1, RowTypes DEF IInv, RequestsSound, Established
<1>4. RowEvidence(row)
  BY <1>3 DEF RowEvidence
<1>5. /\ order' \in [OrderIds -> OrderRow] /\ order'[o] = row /\ Evidence'
      /\ \A k \in OrderIds : order[k].status # "none" => Later(order[k], order'[k])
  BY <1>1, <1>2, <1>3, <1>4, WriteStep
<1>6. /\ account' \in [VAs -> Int] /\ available' = [va \in VAs |-> available'[va]]
  BY <1>1 DEF IInv, Structure
<1> DEFINE r == Locals("count", o, row, req[p].x, {})
<1>7. /\ r = [pc |-> r.pc, o |-> r.o, row |-> r.row, x |-> r.x,
              y |-> r.y, z |-> r.z, plan |-> r.plan]
      /\ r.pc = "count" /\ r.o = o /\ r.row = row /\ r.pc \in Steps
  BY DEF Locals, Steps
<1>8. req' = [req EXCEPT ![p] = r]
  BY <1>1
<1> HIDE DEF r
<1>9. Structure' /\ req'[p] = r /\ \A q \in Requests \ {p} : req'[q] = req[q]
  BY <1>3, <1>5, <1>6, <1>7, <1>8, StructureKept
<1>10. Established(p)'
  BY <1>3, <1>5, <1>7, <1>9 DEF Established
<1> QED BY <1>5, <1>9, <1>10 DEF Preserves

\* The release writes a balance from the one it read, on accounts that exist.
LEMMA BalanceWritten ==
  ASSUME IInv, NEW va, NEW n \in Int,
         account' = [account EXCEPT ![va] = n],
         available' = [available EXCEPT ![va] = n]
  PROVE  account' \in [VAs -> Int] /\ available' = [w \in VAs |-> available'[w]]
BY DEF IInv, Structure

LEMMA CoinSteps ==
  ASSUME IInv, NEW p \in Requests, DebitCoin(p) \/ CreditCoin(p)
  PROVE  Preserves(p)
<1>1. req[p].row.amount \in Int
  BY DataAssumption, AccountAssumption DEF IInv, Structure, OrderRow
<1>2. CASE DebitCoin(p)
  <2>1. /\ UNCHANGED order /\ req[p].pc = "debitCoin"
        /\ Onward(p, "creditCoin", req[p].x, req[p].y, req[p].z)
    BY <1>2 DEF DebitCoin, Goto, At
  <2>2. req[p].x \in Int /\ req[p].z \in Int
    BY <2>1 DEF IInv, Structure
  <2>3. account' \in [VAs -> Int] /\ available' = [va \in VAs |-> available'[va]]
    <3> DEFINE va == SellerVA(req[p].row)
               n  == req[p].x - req[p].row.amount
    <3>1. n \in Int
      BY <1>1, <2>2
    <3>2. /\ account' = [account EXCEPT ![va] = n]
          /\ available' = [available EXCEPT ![va] = n]
      BY <1>2 DEF DebitCoin
    <3> HIDE DEF va, n
    <3> QED BY <3>1, <3>2, BalanceWritten
  <2> QED BY <2>1, <2>2, <2>3, OnwardMoving
<1>3. CASE CreditCoin(p)
  <2>1. /\ UNCHANGED order /\ req[p].pc = "creditCoin"
        /\ Onward(p, "complete", req[p].x, req[p].y, req[p].z)
    BY <1>3 DEF CreditCoin, Goto, At
  <2>2. req[p].z \in Int
    BY <2>1 DEF IInv, Structure
  <2>3. account' \in [VAs -> Int] /\ available' = [va \in VAs |-> available'[va]]
    <3> DEFINE va == BuyerVA(req[p].row)
               n  == req[p].z + req[p].row.amount
    <3>1. n \in Int
      BY <1>1, <2>2
    <3>2. /\ account' = [account EXCEPT ![va] = n]
          /\ available' = [available EXCEPT ![va] = n]
      BY <1>3 DEF CreditCoin
    <3> HIDE DEF va, n
    <3> QED BY <3>1, <3>2, BalanceWritten
  <2> QED BY <2>1, <2>3, OnwardMoving
<1> QED BY <1>2, <1>3

-----------------------------------------------------------------------------
(* The invariant                                                           *)

\* What another request has established survives a step of p.
LEMMA OthersKept ==
  ASSUME IInv, NEW q \in Requests, req'[q] = req[q],
         \A o \in OrderIds : order[o].status # "none" => Later(order[o], order'[o])
  PROVE  Established(q)'
<1> DEFINE o == req[q].o
<1>1. Established(q)
  BY DEF IInv, RequestsSound
<1>2. CASE req[q].pc \in {"idle", "insert"}
  BY <1>1, <1>2 DEF Established
<1>3. CASE req[q].pc \notin {"idle", "insert"}
  <2>1. o \in OrderIds /\ order[o].status # "none"
    BY <1>1, <1>3 DEF Established
  <2>2. Later(order[o], order'[o])
    BY <2>1
  <2>3. /\ order'[o].status # "none"
        /\ SameDeal(req[q].row, order[o]) => SameDeal(req[q].row, order'[o])
        /\ Backed(order[o]) => Backed(order'[o])
        /\ order[o].confirmed => order'[o].confirmed
        /\ PaidFor(order[o]) => PaidFor(order'[o])
    BY <2>2 DEF Later, SameDeal, PaidFor
  <2> QED BY <1>1, <1>3, <2>1, <2>3 DEF Established
<1> QED BY <1>2, <1>3

LEMMA StepOfRequest ==
  ASSUME IInv, NEW p \in Requests, Preserves(p)
  PROVE  IInv'
<1>1. \A q \in Requests : Established(q)'
  BY OthersKept DEF Preserves
<1> QED BY <1>1 DEF IInv, Preserves, RequestsSound

LEMMA InitEstablishes == Init => IInv
<1> SUFFICES ASSUME Init PROVE IInv
  OBVIOUS
<1>1. /\ Idle = [pc |-> Idle.pc, o |-> Idle.o, row |-> Idle.row, x |-> Idle.x,
                 y |-> Idle.y, z |-> Idle.z, plan |-> Idle.plan]
      /\ Idle.pc = "idle" /\ Idle.o = 0 /\ Idle.row = BlankRow /\ Idle.pc \in Steps
  BY DEF Idle, Locals, Steps
<1>2. \A p \in Requests : req[p] = Idle
  BY DEF Init
<1>3. InitAccount \in [VAs -> Int]
  BY DataAssumption, AccountAssumption
<1>4. req = [p \in Requests |->
              [pc |-> req[p].pc, o |-> req[p].o, row |-> req[p].row,
               x |-> req[p].x, y |-> req[p].y, z |-> req[p].z,
               plan |-> req[p].plan]]
  BY <1>1 DEF Init
<1>5. Structure
  BY <1>1, <1>2, <1>3, <1>4, BlankRowType DEF Init, Structure
<1>6. /\ BlankRow.status = "none" /\ ~BlankRow.confirmed /\ ~BlankRow.received
      /\ ~BlankRow.released
  BY DEF BlankRow, FreshRow
<1>7. Evidence
  BY <1>6 DEF Init, Evidence
<1>8. RequestsSound
  BY <1>1, <1>2 DEF RequestsSound, Established
<1> QED BY <1>5, <1>7, <1>8 DEF IInv

\* Each action of a request.
LEMMA StepPreserves ==
  ASSUME IInv, NEW p \in Requests, Begin(p) \/ Advance(p) \/ RequestLost(p)
  PROVE  Preserves(p)
<1>1. CASE Begin(p)
  BY <1>1, CheckingSteps, CancellingSteps, PayingSteps, ReleasingReads DEF Begin
<1>2. CASE Advance(p)
  BY <1>2, InsertStep, CheckingSteps, AcceptingSteps, CancellingSteps, PayingSteps,
     ReleasingReads, LastWrites, ReceivingWrites, CoinSteps DEF Advance
<1>3. CASE RequestLost(p)
  BY <1>3, LostStep
<1> QED BY <1>1, <1>2, <1>3

LEMMA DeadlineKeeps ==
  ASSUME IInv, DeadlinePasses
  PROVE  IInv'
<1>1. PICK o \in OrderIds :
        /\ Write(o, [order[o] EXCEPT !.overdue = TRUE])
        /\ UNCHANGED <<account, available, req>>
  BY DEF DeadlinePasses, ledgers
<1> DEFINE s == [order[o] EXCEPT !.overdue = TRUE]
<1>2. order[o] \in OrderRow /\ RowEvidence(order[o])
  BY RowTypes, EvidenceByRow DEF IInv
<1>3. /\ s \in OrderRow /\ SameDeal(order[o], s) /\ s.status = order[o].status
      /\ s.accepted = order[o].accepted /\ s.held = order[o].held
      /\ s.confirmed = order[o].confirmed /\ s.received = order[o].received
      /\ s.released = order[o].released
  BY <1>2, OverdueRow, Zenon
<1>4. Write(o, s)
  BY <1>1
<1> HIDE DEF s
<1>5. Backed(s) <=> Backed(order[o])
  BY <1>3, SameParties DEF Backed
<1>6. RowEvidence(s) /\ (order[o].status # "none" => Later(order[o], s))
  BY <1>2, <1>3, <1>5 DEF RowEvidence, Later, PaidFor
<1>7. /\ order' \in [OrderIds -> OrderRow] /\ Evidence'
      /\ \A k \in OrderIds : order[k].status # "none" => Later(order[k], order'[k])
  BY <1>3, <1>4, <1>6, WriteStep
<1>8. Structure'
  BY <1>1, <1>7 DEF IInv, Structure
<1>9. \A q \in Requests : Established(q)'
  BY <1>1, <1>7, OthersKept
<1> QED BY <1>7, <1>8, <1>9 DEF IInv, RequestsSound

LEMMA NextPreserves == IInv /\ [Next]_vars => IInv'
<1> SUFFICES ASSUME IInv, [Next]_vars PROVE IInv'
  OBVIOUS
<1>1. CASE \E p \in Requests : Begin(p) \/ Advance(p) \/ RequestLost(p)
  BY <1>1, StepPreserves, StepOfRequest
<1>2. CASE DeadlinePasses
  BY <1>2, DeadlineKeeps
<1>3. CASE UNCHANGED vars
  BY <1>3 DEF vars, IInv, Structure, Evidence, RequestsSound, Established
<1> QED BY <1>1, <1>2, <1>3 DEF Next

\* The inductive invariant holds throughout.
THEOREM Invariance == Spec => []IInv
BY InitEstablishes, NextPreserves, PTL DEF Spec

\* No order gets ahead of its acceptance, its payment or its release, for any
\* number of orders and of requests interleaved or lost in any way.
THEOREM EvidenceHolds == Spec => []Evidence
<1>1. IInv => Evidence
  BY DEF IInv
<1> QED BY <1>1, Invariance, PTL

\* What a request established when it checked an order holds when it acts on it.
THEOREM RequestsSoundHolds == Spec => []RequestsSound
<1>1. IInv => RequestsSound
  BY DEF IInv
<1> QED BY <1>1, Invariance, PTL

\* No step but those of a release writes an account balance.
LEMMA OtherStepsLeaveCoins ==
  ASSUME [Next]_vars, account' # account
  PROVE  \E p \in Requests : DebitCoin(p) \/ CreditCoin(p)
<1>1. CASE UNCHANGED vars \/ DeadlinePasses
  BY <1>1 DEF vars, DeadlinePasses, ledgers
<1>2. CASE \E p \in Requests : Begin(p)
  BY <1>2 DEF Begin, SubmitOrder, Submit, StartAccept, StartDecline, StartCancel,
              StartExpire, StartConfirm, StartReceived, ledgers
<1>3. CASE \E p \in Requests : Advance(p)
  <2>1. PICK p \in Requests : Advance(p)
    BY <1>3
  <2>2. UNCHANGED account \/ DebitCoin(p) \/ CreditCoin(p)
    BY <2>1, Zenon DEF Advance, InsertOrder, CountOrder, StartAccept, CheckSeller,
                CommitAllocation, RereadSeller, FreezeCrypto, MarkAccepted,
                ReadFrozen, Unfreeze, MarkCancelled, MarkPaid, ReadBuyerWallet,
                ReadSellerWallet, DebitFiat, CreditFiat, MarkSettled, MarkReceived,
                StartRelease, ReadSellerVA, ReadBuyerVA, MarkCompleted, ledgers
  <2> QED BY <2>2
<1>4. CASE \E p \in Requests : RequestLost(p)
  BY <1>4 DEF RequestLost, ledgers
<1> QED BY <1>1, <1>2, <1>3, <1>4 DEF Next

\* A release touches the accounts of the two parties of a paid order only.
LEMMA CoinMove ==
  ASSUME IInv, [Next]_vars, NEW va \in VAs, account'[va] # account[va]
  PROVE  \E o \in OrderIds : /\ PaidFor(order[o])
                            /\ Owner[va] \in {Seller(order[o]), Buyer(order[o])}
<1>1. PICK p \in Requests : DebitCoin(p) \/ CreditCoin(p)
  BY OtherStepsLeaveCoins
<1> DEFINE o == req[p].o
<1>2. req[p].pc \in {"debitCoin", "creditCoin"}
  BY <1>1 DEF DebitCoin, CreditCoin, At
<1>3. o \in OrderIds /\ PaidFor(order[o]) /\ SameDeal(req[p].row, order[o])
  BY <1>2 DEF IInv, RequestsSound, Established
<1>4. va \in {SellerVA(req[p].row), BuyerVA(req[p].row)}
  BY <1>1 DEF DebitCoin, CreditCoin, IInv, Structure
<1>5. Owner[va] \in {Seller(req[p].row), Buyer(req[p].row)}
  BY <1>4, SellerVAOwner, BuyerVAOwner, NoVAOutside
<1> QED BY <1>3, <1>5, SameParties

\* An account balance changes only for a party of an order that has been paid
\* for: in particular no lost, repeated or overlapping request reaches anyone
\* else's account, or releases crypto before the payment.
THEOREM CoinMovesWhenPaidHolds == Spec => CoinMovesOnlyWhenPaid
<1>1. IInv /\ [Next]_vars =>
        [\A va \in VAs :
           account'[va] # account[va] =>
             \E o \in OrderIds : /\ PaidFor(order[o])
                                 /\ Owner[va] \in {Seller(order[o]), Buyer(order[o])}
        ]_vars
  BY CoinMove
<1> QED BY <1>1, Invariance, PTL DEF Spec, CoinMovesOnlyWhenPaid

-----------------------------------------------------------------------------
(* Types                                                                   *)

\* What allocateUnifiedBalance writes: rows of accounts with numbers.
WrittenRows == SUBSET [va : VAs, available : Int]

\* The numbers among a request's locals.  What createOrder carries to the ad's counter
\* is a count.
Numbered(r) ==
  /\ r.x \in Int /\ r.y \in Int /\ r.z \in Int
  /\ r.plan \in WrittenRows
  /\ r.pc \in {"insert", "count"} => r.x \in Nat

\* What TypeOK says beyond the structure.
Numbers ==
  /\ available \in [VAs -> Int] /\ wallet \in [Users -> Int]
  /\ ordersReceived \in [Ads -> Nat]
  /\ rows \in [OrderIds -> [fiat : Nat, coin : Nat]]
  /\ \A p \in Requests : Numbered(req[p])
  /\ lost \in 0 .. MaxLost

\* The rows of a plan are accounts with numbers, whatever the pool holds.
LEMMA PlanTyped ==
  ASSUME NEW a \in [VAs -> Int], NEW family \in SUBSET VAs, NEW target \in VAs,
         NEW amount \in Int
  PROVE  Plan(a, family, target, amount) \in WrittenRows
<1> DEFINE S == Sources(a, family, target)
           g == [va \in S |-> Moved(a, family, target, amount, va)]
<1>1. S \in SUBSET VAs /\ \A T \in SUBSET VAs : IsFiniteSet(T)
  BY AccountAssumption, FS_Subset DEF Sources
<1>2. ASSUME NEW va \in S PROVE Moved(a, family, target, amount, va) \in Int
  <2> DEFINE richer == {x \in Sources(a, family, target) : Richer(a, x, va)}
             left == amount - a[target] - TotalAvailable(a, richer)
  <2>1. TotalAvailable(a, richer) \in Int
    <3>1. IsFiniteSet(richer) /\ \A x \in richer : a[x] \in Int
      BY <1>1
    <3> HIDE DEF richer
    <3> QED BY <3>1, SumType DEF TotalAvailable
  <2>2. left \in Int /\ a[va] \in Int
    BY <1>1, <2>1
  <2>3. Moved(a, family, target, amount, va) = IF left <= 0 THEN 0 ELSE Min({a[va], left})
    BY DEF Moved
  <2> HIDE DEF left
  <2>4. Min({a[va], left}) \in {a[va], left}
    BY <2>2 DEF Min
  <2> QED BY <2>2, <2>3, <2>4
<1>3. \A va \in S : g[va] \in Int /\ a[va] - g[va] \in Int
  BY <1>1, <1>2
<1>4. SumFunction(g) \in Int
  <2>1. IsFiniteSet(S) /\ DOMAIN g = S
    BY <1>1
  <2> HIDE DEF g, S
  <2> QED BY <1>3, <2>1, SumType DEF SumFunction
<1>5. a[target] + SumFunction(g) \in Int
  BY <1>4
<1>6. Plan(a, family, target, amount)
        \in {{}, {[va |-> s, available |-> a[s] - g[s]] : s \in {x \in S : g[x] > 0}}
                  \cup {[va |-> target, available |-> a[target] + SumFunction(g)]}}
  BY DEF Plan
<1> HIDE DEF g, S
<1> QED BY <1>1, <1>3, <1>5, <1>6 DEF WrittenRows

\* The balances after them are numbers.
LEMMA ApplyTyped ==
  ASSUME NEW a \in [VAs -> Int], NEW plan \in WrittenRows
  PROVE  Apply(plan, a) \in [VAs -> Int]
<1>1. ASSUME NEW va \in VAs, \E w \in plan : w.va = va
      PROVE  (CHOOSE w \in plan : w.va = va).available \in Int
  <2>1. (CHOOSE w \in plan : w.va = va) \in plan
    BY <1>1
  <2> QED BY <2>1 DEF WrittenRows
<1> QED BY <1>1 DEF Apply

\* The parties of an order are users, and its worth in money is a number.
LEMMA PartiesTyped ==
  ASSUME NEW row \in OrderRow
  PROVE  /\ Seller(row) \in Users /\ Buyer(row) \in Users
         /\ row.amount \in Nat /\ Fiat(row) \in Nat
<1>1. row.ad \in Ads /\ row.user \in Users /\ row.amount \in Nat
  <2>1. row.ad \in Ads /\ row.user \in Users /\ row.amount \in Amounts \cup {0}
    BY DEF OrderRow
  <2>2. Amounts \cup {0} \subseteq Nat
    BY DataAssumption
  <2> QED BY <2>1, <2>2, Zenon
<1>2. AdRow[row.ad].vendor \in Users /\ AdRow[row.ad].price \in Nat
  BY <1>1, AdAssumption
<1>3. Fiat(row) \in Nat
  <2>1. \A m, n \in Nat : m * n \in Nat
    OBVIOUS
  <2> QED BY <1>1, <1>2, <2>1 DEF Fiat
<1> QED BY <1>1, <1>2, <1>3 DEF Seller, Buyer, Vendor

\* A step of p leaves numbers if it leaves them in p's locals and in what it writes.
LEMMA NumbersKept ==
  ASSUME IInv, Numbers, NEW p \in Requests, NEW r, req' = [req EXCEPT ![p] = r],
         Numbered(r), available' \in [VAs -> Int], wallet' \in [Users -> Int],
         ordersReceived' \in [Ads -> Nat],
         rows' \in [OrderIds -> [fiat : Nat, coin : Nat]], lost' \in 0 .. MaxLost
  PROVE  Numbers'
<1>1. \A q \in Requests : req'[q] = IF q = p THEN r ELSE req[q]
  BY DEF IInv, Structure
<1>2. \A q \in Requests : Numbered(req'[q])
  BY <1>1 DEF Numbers
<1>3. \A q \in Requests : Numbered(req[q])'
  BY <1>2 DEF Numbered
<1> QED BY <1>3 DEF Numbers

\* A step that writes no balance, and ends the request or begins it.
LEMMA NumbersAtRest ==
  ASSUME IInv, Numbers, NEW p \in Requests, UNCHANGED <<ledgers, ordersReceived, rows>>,
         lost' \in 0 .. MaxLost,
         Finish(p) \/ \E o \in OrderIds, step \in Steps : Load(p, o, step)
  PROVE  Numbers'
<1>1. ASSUME NEW r, req' = [req EXCEPT ![p] = r],
             r.x = 0 /\ r.y = 0 /\ r.z = 0 /\ r.plan = {}
      PROVE  Numbers'
  <2>1. Numbered(r)
    BY <1>1 DEF Numbered, WrittenRows
  <2> QED BY <1>1, <2>1, NumbersKept DEF Numbers, ledgers
<1>2. CASE Finish(p)
  <2>1. Idle.x = 0 /\ Idle.y = 0 /\ Idle.z = 0 /\ Idle.plan = {}
    BY DEF Idle, Locals
  <2> QED BY <1>1, <1>2, <2>1 DEF Finish
<1>3. ASSUME NEW o \in OrderIds, NEW step \in Steps, Load(p, o, step) PROVE Numbers'
  <2> DEFINE r == Locals(step, o, order[o], 0, {})
  <2>1. r.x = 0 /\ r.y = 0 /\ r.z = 0 /\ r.plan = {}
    BY DEF Locals
  <2>2. req' = [req EXCEPT ![p] = r]
    BY <1>3 DEF Load
  <2> HIDE DEF r
  <2> QED BY <1>1, <2>1, <2>2
<1> QED BY <1>2, <1>3

\* A step that goes on with other numbers, whatever it writes.
LEMMA NumbersOnward ==
  ASSUME IInv, Numbers, NEW p \in Requests, NEW step, NEW x \in Int, NEW y \in Int,
         NEW z \in Int, Onward(p, step, x, y, z), step \notin {"insert", "count"},
         available' \in [VAs -> Int], wallet' \in [Users -> Int],
         ordersReceived' \in [Ads -> Nat],
         rows' \in [OrderIds -> [fiat : Nat, coin : Nat]], UNCHANGED lost
  PROVE  Numbers'
<1> DEFINE r == [pc |-> step, o |-> req[p].o, row |-> req[p].row,
                 x |-> x, y |-> y, z |-> z, plan |-> {}]
<1>1. req' = [req EXCEPT ![p] = r] /\ r.pc = step /\ r.x = x /\ r.y = y /\ r.z = z
      /\ r.plan = {}
  BY DEF Onward
<1> HIDE DEF r
<1>2. Numbered(r)
  BY <1>1 DEF Numbered, WrittenRows
<1>3. lost' \in 0 .. MaxLost
  BY DEF Numbers
<1> QED BY <1>1, <1>2, <1>3, NumbersKept

\* What a step writes to the balances, and what it reads of them, are numbers.
LEMMA BalancesTyped ==
  ASSUME IInv, Numbers, NEW p \in Requests
  PROVE  /\ req[p].row \in OrderRow /\ req[p].o \in OrderIds \cup {0}
         /\ req[p].x \in Int /\ req[p].y \in Int /\ req[p].z \in Int
         /\ req[p].plan \in WrittenRows
         /\ account \in [VAs -> Int] /\ available \in [VAs -> Int]
         /\ wallet \in [Users -> Int] /\ ordersReceived \in [Ads -> Nat]
         /\ rows \in [OrderIds -> [fiat : Nat, coin : Nat]] /\ lost \in 0 .. MaxLost
<1>1. /\ req[p].row \in OrderRow /\ req[p].o \in OrderIds \cup {0}
      /\ account \in [VAs -> Int]
  BY DEF IInv, Structure
<1> QED BY <1>1 DEF Numbers, Numbered

\* The requests that begin, and those that end with the write of an order.
LEMMA RestingSteps ==
  ASSUME IInv, Numbers, NEW p \in Requests, UNCHANGED lost,
         \/ StartAccept(p) \/ StartDecline(p) \/ StartCancel(p) \/ StartExpire(p)
         \/ StartConfirm(p) \/ StartReceived(p) \/ StartRelease(p)
         \/ MarkAccepted(p) \/ MarkCancelled(p) \/ MarkPaid(p) \/ MarkCompleted(p)
  PROVE  Numbers'
<1>1. lost' \in 0 .. MaxLost
  BY DEF Numbers
<1>2. {"check", "cancel", "lookup", "paid", "buyer", "received", "releaseSeller"}
        \subseteq Steps
  BY DEF Steps
<1>3. ASSUME UNCHANGED <<ledgers, ordersReceived, rows>>,
             \/ Finish(p)
             \/ \E o \in OrderIds : \E step \in Steps : Load(p, o, step)
      PROVE  Numbers'
  BY <1>1, <1>3, NumbersAtRest
<1>4. CASE MarkAccepted(p) \/ MarkCancelled(p) \/ MarkPaid(p) \/ MarkCompleted(p)
  <2>1. UNCHANGED <<ledgers, ordersReceived, rows>> /\ Finish(p)
    BY <1>4 DEF MarkAccepted, MarkCancelled, MarkPaid, MarkCompleted
  <2> QED BY <1>3, <2>1
<1>5. CASE StartAccept(p)
  <2>1. /\ UNCHANGED <<ledgers, ordersReceived, rows>>
        /\ Finish(p) \/ \E o \in OrderIds : Load(p, o, "check")
    BY <1>5 DEF StartAccept
  <2> QED BY <1>2, <1>3, <2>1
<1>6. CASE StartDecline(p)
  <2>1. /\ UNCHANGED <<ledgers, ordersReceived, rows>>
        /\ \E o \in OrderIds : Load(p, o, "cancel")
    BY <1>6 DEF StartDecline
  <2> QED BY <1>2, <1>3, <2>1
<1>7. CASE StartCancel(p) \/ StartExpire(p)
  <2>1. /\ UNCHANGED <<ledgers, ordersReceived, rows>>
        /\ \E o \in OrderIds : Load(p, o, "cancel") \/ Load(p, o, "lookup")
    BY <1>7 DEF StartCancel, StartExpire
  <2> QED BY <1>2, <1>3, <2>1
<1>8. CASE StartConfirm(p)
  <2>1. /\ UNCHANGED <<ledgers, ordersReceived, rows>>
        /\ \E o \in OrderIds : Load(p, o, "paid") \/ Load(p, o, "buyer")
    BY <1>8 DEF StartConfirm
  <2> QED BY <1>2, <1>3, <2>1
<1>9. CASE StartReceived(p)
  <2>1. /\ UNCHANGED <<ledgers, ordersReceived, rows>>
        /\ \E o \in OrderIds : Load(p, o, "received")
    BY <1>9 DEF StartReceived
  <2> QED BY <1>2, <1>3, <2>1
<1>10. CASE StartRelease(p)
  <2>1. UNCHANGED <<ledgers, ordersReceived, rows>>
    BY <1>10 DEF StartRelease
  <2>2. Finish(p) \/ (req[p].pc = "release" /\ Load(p, req[p].o, "releaseSeller"))
    BY <1>10 DEF StartRelease, At
  <2>3. req[p].pc = "release" => req[p].o \in OrderIds
    BY DEF IInv, RequestsSound, Established
  <2> QED BY <1>2, <1>3, <2>1, <2>2, <2>3
<1> QED BY <1>4, <1>5, <1>6, <1>7, <1>8, <1>9, <1>10

\* createOrder writes the counter of the ad, and no balance.
LEMMA CreatingSteps ==
  ASSUME IInv, Numbers, NEW p \in Requests, UNCHANGED lost,
         SubmitOrder(p) \/ InsertOrder(p) \/ CountOrder(p)
  PROVE  Numbers'
<1>1. lost' \in 0 .. MaxLost
  BY DEF Numbers
<1>2. ASSUME NEW step, NEW o, NEW row, NEW x \in Nat,
             req' = [req EXCEPT ![p] = Locals(step, o, row, x, {})],
             UNCHANGED <<ledgers, ordersReceived, rows>>
      PROVE  Numbers'
  <2> DEFINE r == Locals(step, o, row, x, {})
  <2>1. Numbered(r)
    BY DEF Numbered, WrittenRows, Locals
  <2>2. req' = [req EXCEPT ![p] = r]
    BY <1>2
  <2> HIDE DEF r
  <2> QED BY <1>1, <1>2, <2>1, <2>2, NumbersKept DEF Numbers, ledgers
<1>3. CASE SubmitOrder(p)
  <2>1. PICK offer \in Ads, n \in Amounts :
          \E u \in Customers[offer], c \in AdRow[offer].channels : Submit(p, offer, u, n, c)
    BY <1>3 DEF SubmitOrder
  <2>2. PICK u, c : Submit(p, offer, u, n, c)
    BY <2>1
  <2>3. ordersReceived[offer] \in Nat
    BY DEF Numbers
  <2>4. /\ UNCHANGED <<ledgers, ordersReceived, rows>>
        /\ req' = [req EXCEPT ![p] = Locals("insert", 0, FreshRow("pending", offer, u, n, c),
                                            ordersReceived[offer], {})]
    BY <2>2 DEF Submit
  <2> QED BY <1>2, <2>3, <2>4
<1>4. CASE InsertOrder(p)
  <2>1. req[p].pc = "insert" /\ req[p].x \in Nat
    BY <1>4 DEF InsertOrder, At, Numbers, Numbered
  <2>2. /\ UNCHANGED <<ledgers, ordersReceived, rows>>
        /\ \E o : req' = [req EXCEPT ![p] = Locals("count", o, req[p].row, req[p].x, {})]
    BY <1>4 DEF InsertOrder
  <2> QED BY <1>2, <2>1, <2>2
<1>5. CASE CountOrder(p)
  <2>1. req[p].pc = "count" /\ req[p].x + 1 \in Nat
    BY <1>5 DEF CountOrder, At, Numbers, Numbered
  <2>2. /\ ordersReceived' \in [Ads -> Nat] /\ UNCHANGED <<ledgers, rows>>
        /\ Goto(p, "autoAccept") \/ Finish(p)
    <3>1. ordersReceived' = [ordersReceived EXCEPT ![req[p].row.ad] = req[p].x + 1]
      BY <1>5 DEF CountOrder
    <3> QED BY <1>5, <2>1, <3>1, BalancesTyped DEF CountOrder
  <2>3. CASE Goto(p, "autoAccept")
    BY <2>2, <2>3, BalancesTyped, NumbersOnward DEF Goto, ledgers
  <2>4. CASE Finish(p)
    <3>1. Numbered(Idle)
      BY DEF Numbered, WrittenRows, Idle, Locals
    <3> QED BY <1>1, <2>2, <2>4, <3>1, BalancesTyped, NumbersKept DEF Finish, ledgers
  <2> QED BY <2>2, <2>3, <2>4
<1> QED BY <1>3, <1>4, <1>5

\* acceptOrder gathers and freezes, a cancellation gives back.
LEMMA FreezingSteps ==
  ASSUME IInv, Numbers, NEW p \in Requests, UNCHANGED lost,
         \/ CheckSeller(p) \/ CommitAllocation(p) \/ RereadSeller(p) \/ FreezeCrypto(p)
         \/ ReadFrozen(p) \/ Unfreeze(p)
  PROVE  Numbers'
<1> DEFINE row == req[p].row
<1>1. row.amount \in Int /\ Seller(row) \in Users
  BY BalancesTyped, PartiesTyped
<1>2. CASE CheckSeller(p)
  <2> DEFINE c == AdRow[row.ad].currency
             target == CurrencyVA(Seller(row), c)
             moves == IF Unified(c)
                      THEN Plan(available, Family(Seller(row)), target, row.amount) ELSE {}
             step == IF moves = {} THEN "reread" ELSE "allocate"
             mine == [row EXCEPT !.held = target]
  <2>1. /\ UNCHANGED <<ledgers, ordersReceived, rows>>
        /\ \/ Finish(p)
           \/ target # NoVA /\ req' = [req EXCEPT ![p] = Locals(step, req[p].o, mine, 0, moves)]
    BY <1>2 DEF CheckSeller
  <2>2. CASE Finish(p)
    BY <2>1, <2>2, BalancesTyped, NumbersAtRest
  <2>3. CASE target # NoVA /\ req' = [req EXCEPT ![p] = Locals(step, req[p].o, mine, 0, moves)]
    <3>1. moves \in WrittenRows
      <4>1. target \in VAs
        BY <2>3, CurrencyVAOwner
      <4>2. Family(Seller(row)) \in SUBSET VAs
        BY DEF Family, AccountsOf
      <4>3. {} \in WrittenRows
        BY DEF WrittenRows
      <4> HIDE DEF target, c, row
      <4> QED BY <1>1, <4>1, <4>2, <4>3, BalancesTyped, PlanTyped
    <3> DEFINE r == Locals(step, req[p].o, mine, 0, moves)
    <3>2. r.x = 0 /\ r.y = 0 /\ r.z = 0 /\ r.plan = moves /\ r.pc = step
      BY DEF Locals
    <3>3. req' = [req EXCEPT ![p] = r] /\ step \notin {"insert", "count"}
      BY <2>3
    <3> HIDE DEF r, moves, step
    <3>4. Numbered(r)
      BY <3>1, <3>2 DEF Numbered
    <3> QED BY <2>1, <3>3, <3>4, BalancesTyped, NumbersKept DEF ledgers
  <2> QED BY <2>1, <2>2, <2>3
<1>3. CASE CommitAllocation(p)
  <2>1. available' \in [VAs -> Int]
    BY <1>3, BalancesTyped, ApplyTyped DEF CommitAllocation
  <2> QED BY <1>3, <2>1, BalancesTyped, NumbersOnward DEF CommitAllocation, Goto
<1>4. CASE RereadSeller(p)
  <2>1. req[p].row.held \in VAs
    BY <1>4 DEF RereadSeller, At, IInv, RequestsSound, Established
  <2>2. available[req[p].row.held] \in Int
    BY <2>1, BalancesTyped
  <2> QED BY <1>4, <2>2, BalancesTyped, NumbersOnward DEF RereadSeller, ledgers
<1>5. CASE FreezeCrypto(p)
  <2>1. req[p].x - row.amount \in Int
    BY <1>1, BalancesTyped
  <2>2. available' \in [VAs -> Int]
    BY <1>5, <2>1, BalancesTyped DEF FreezeCrypto
  <2> QED BY <1>5, <2>2, BalancesTyped, NumbersOnward DEF FreezeCrypto, Goto
<1>6. CASE ReadFrozen(p)
  <2>1. UNCHANGED <<ledgers, ordersReceived, rows>>
    BY <1>6 DEF ReadFrozen
  <2>2. CASE SellerVA(row) = NoVA
    BY <1>6, <2>1, <2>2, BalancesTyped, NumbersOnward DEF ReadFrozen, Goto, ledgers
  <2>3. CASE SellerVA(row) # NoVA
    <3>1. available[SellerVA(row)] \in Int
      BY <2>3, BalancesTyped, SellerVAOwner
    <3> QED BY <1>6, <2>1, <2>3, <3>1, BalancesTyped, NumbersOnward
            DEF ReadFrozen, ledgers
  <2> QED BY <2>2, <2>3
<1>7. CASE Unfreeze(p)
  <2>1. req[p].x + row.amount \in Int
    BY <1>1, BalancesTyped
  <2>2. available' \in [VAs -> Int]
    BY <1>7, <2>1, BalancesTyped DEF Unfreeze
  <2> QED BY <1>7, <2>2, BalancesTyped, NumbersOnward DEF Unfreeze, Goto
<1> QED BY <1>2, <1>3, <1>4, <1>5, <1>6, <1>7

\* A row more is a number of rows.
LEMMA RowsCounted ==
  ASSUME NEW r \in [OrderIds -> [fiat : Nat, coin : Nat]], NEW o
  PROVE  /\ [r EXCEPT ![o].fiat = @ + 1] \in [OrderIds -> [fiat : Nat, coin : Nat]]
         /\ [r EXCEPT ![o].coin = @ + 1] \in [OrderIds -> [fiat : Nat, coin : Nat]]
<1> DEFINE Counts == [fiat : Nat, coin : Nat]
<1>1. ASSUME NEW k \in Counts
      PROVE  [k EXCEPT !.fiat = @ + 1] \in Counts /\ [k EXCEPT !.coin = @ + 1] \in Counts
  OBVIOUS
<1>2. r \in [OrderIds -> Counts]
  OBVIOUS
<1>3. [r EXCEPT ![o] = [r[o] EXCEPT !.fiat = @ + 1]] \in [OrderIds -> Counts]
  <2> HIDE DEF Counts
  <2> QED BY <1>1, <1>2
<1>4. [r EXCEPT ![o] = [r[o] EXCEPT !.coin = @ + 1]] \in [OrderIds -> Counts]
  <2> HIDE DEF Counts
  <2> QED BY <1>1, <1>2
<1> QED BY <1>3, <1>4

\* handleRhinoxPayPayment moves the fiat of the two parties.
LEMMA MoneySteps ==
  ASSUME IInv, Numbers, NEW p \in Requests, UNCHANGED lost,
         \/ ReadBuyerWallet(p) \/ ReadSellerWallet(p) \/ DebitFiat(p) \/ CreditFiat(p)
         \/ MarkSettled(p) \/ MarkReceived(p)
  PROVE  Numbers'
<1> DEFINE row == req[p].row
<1>1. /\ Seller(row) \in Users /\ Buyer(row) \in Users /\ Fiat(row) \in Int
      /\ wallet[Seller(row)] \in Int /\ wallet[Buyer(row)] \in Int
  BY BalancesTyped, PartiesTyped
<1>2. CASE ReadBuyerWallet(p)
  <2>1. UNCHANGED <<ledgers, ordersReceived, rows>>
    BY <1>2 DEF ReadBuyerWallet
  <2>2. Finish(p) \/ Onward(p, "seller", wallet[Buyer(row)], 0, 0)
    BY <1>2 DEF ReadBuyerWallet
  <2> HIDE DEF row
  <2> QED BY <1>1, <2>1, <2>2, BalancesTyped, NumbersAtRest, NumbersOnward DEF ledgers
<1>3. CASE ReadSellerWallet(p)
  BY <1>1, <1>3, BalancesTyped, NumbersOnward DEF ReadSellerWallet, ledgers
<1>4. CASE DebitFiat(p)
  <2>1. req[p].x - Fiat(row) \in Int
    BY <1>1, BalancesTyped
  <2>2. wallet' \in [Users -> Int]
    BY <1>4, <2>1, BalancesTyped DEF DebitFiat
  <2> QED BY <1>4, <2>2, BalancesTyped, NumbersOnward DEF DebitFiat, Goto
<1>5. CASE CreditFiat(p)
  <2>1. req[p].y + Fiat(row) \in Int
    BY <1>1, BalancesTyped
  <2>2. wallet' \in [Users -> Int]
    BY <1>5, <2>1, BalancesTyped DEF CreditFiat
  <2>3. rows' \in [OrderIds -> [fiat : Nat, coin : Nat]]
    <3>1. rows' = [rows EXCEPT ![req[p].o].fiat = @ + 1]
      BY <1>5 DEF CreditFiat
    <3> QED BY <3>1, BalancesTyped, RowsCounted
  <2> QED BY <1>5, <2>2, <2>3, BalancesTyped, NumbersOnward DEF CreditFiat, Goto
<1>6. CASE MarkSettled(p) \/ MarkReceived(p)
  <2>1. UNCHANGED <<ledgers, ordersReceived, rows>> /\ Goto(p, "release")
    BY <1>6 DEF MarkSettled, MarkReceived
  <2> QED BY <2>1, BalancesTyped, NumbersOnward DEF Goto, ledgers
<1> QED BY <1>2, <1>3, <1>4, <1>5, <1>6

\* releaseCrypto moves the coin of the two parties.
LEMMA ReleasingSteps ==
  ASSUME IInv, Numbers, NEW p \in Requests, UNCHANGED lost,
         ReadSellerVA(p) \/ ReadBuyerVA(p) \/ DebitCoin(p) \/ CreditCoin(p)
  PROVE  Numbers'
<1> DEFINE row == req[p].row
<1>1. row.amount \in Int
  BY BalancesTyped, PartiesTyped
<1>2. CASE ReadSellerVA(p)
  <2>1. UNCHANGED <<ledgers, ordersReceived, rows>>
    BY <1>2 DEF ReadSellerVA
  <2>2. CASE SellerVA(row) = NoVA
    <3>1. Finish(p)
      BY <1>2, <2>2 DEF ReadSellerVA
    <3> QED BY <2>1, <3>1, BalancesTyped, NumbersAtRest
  <2>3. CASE SellerVA(row) # NoVA
    <3>1. account[SellerVA(row)] \in Int /\ available[SellerVA(row)] \in Int
      BY <2>3, BalancesTyped, SellerVAOwner
    <3>2. Onward(p, "releaseBuyer", account[SellerVA(row)], available[SellerVA(row)], 0)
      BY <1>2, <2>3 DEF ReadSellerVA
    <3> HIDE DEF row
    <3> QED BY <2>1, <3>1, <3>2, BalancesTyped, NumbersOnward DEF ledgers
  <2> QED BY <2>2, <2>3
<1>3. CASE ReadBuyerVA(p)
  <2>1. UNCHANGED <<ledgers, ordersReceived, rows>>
    BY <1>3 DEF ReadBuyerVA
  <2>2. \/ Finish(p)
        \/ /\ BuyerVA(row) # NoVA
           /\ Onward(p, "debitCoin", req[p].x, req[p].y, account[BuyerVA(row)])
    BY <1>3 DEF ReadBuyerVA
  <2>3. CASE Finish(p)
    BY <2>1, <2>3, BalancesTyped, NumbersAtRest
  <2>4. CASE /\ BuyerVA(row) # NoVA
             /\ Onward(p, "debitCoin", req[p].x, req[p].y, account[BuyerVA(row)])
    <3>1. account[BuyerVA(row)] \in Int
      BY <2>4, BalancesTyped, BuyerVAOwner
    <3> HIDE DEF row
    <3> QED BY <2>1, <2>4, <3>1, BalancesTyped, NumbersOnward DEF ledgers
  <2> QED BY <2>2, <2>3, <2>4
<1>4. CASE DebitCoin(p)
  <2>1. req[p].x - row.amount \in Int
    BY <1>1, BalancesTyped
  <2>2. available' \in [VAs -> Int]
    BY <1>4, <2>1, BalancesTyped DEF DebitCoin
  <2> QED BY <1>4, <2>2, BalancesTyped, NumbersOnward DEF DebitCoin, Goto
<1>5. CASE CreditCoin(p)
  <2>1. req[p].z + row.amount \in Int
    BY <1>1, BalancesTyped
  <2>2. available' \in [VAs -> Int]
    BY <1>5, <2>1, BalancesTyped DEF CreditCoin
  <2>3. rows' \in [OrderIds -> [fiat : Nat, coin : Nat]]
    <3>1. rows' = [rows EXCEPT ![req[p].o].coin = @ + 1]
      BY <1>5 DEF CreditCoin
    <3> QED BY <3>1, BalancesTyped, RowsCounted
  <2> QED BY <1>5, <2>2, <2>3, BalancesTyped, NumbersOnward DEF CreditCoin, Goto
<1> QED BY <1>2, <1>3, <1>4, <1>5

\* Every step leaves numbers.
LEMMA NumbersNext == IInv /\ Numbers /\ [Next]_vars => Numbers'
<1> SUFFICES ASSUME IInv, Numbers, [Next]_vars PROVE Numbers'
  OBVIOUS
<1>1. ASSUME NEW p \in Requests, Begin(p) \/ Advance(p) PROVE Numbers'
  <2>1. /\ UNCHANGED lost
        /\ \/ \/ StartAccept(p) \/ StartDecline(p) \/ StartCancel(p) \/ StartExpire(p)
              \/ StartConfirm(p) \/ StartReceived(p) \/ StartRelease(p)
              \/ MarkAccepted(p) \/ MarkCancelled(p) \/ MarkPaid(p) \/ MarkCompleted(p)
           \/ SubmitOrder(p) \/ InsertOrder(p) \/ CountOrder(p)
           \/ \/ CheckSeller(p) \/ CommitAllocation(p) \/ RereadSeller(p)
              \/ FreezeCrypto(p) \/ ReadFrozen(p) \/ Unfreeze(p)
           \/ \/ ReadBuyerWallet(p) \/ ReadSellerWallet(p) \/ DebitFiat(p)
              \/ CreditFiat(p) \/ MarkSettled(p) \/ MarkReceived(p)
           \/ ReadSellerVA(p) \/ ReadBuyerVA(p) \/ DebitCoin(p) \/ CreditCoin(p)
    BY <1>1, Zenon DEF Begin, Advance
  <2>2. CASE \/ StartAccept(p) \/ StartDecline(p) \/ StartCancel(p) \/ StartExpire(p)
             \/ StartConfirm(p) \/ StartReceived(p) \/ StartRelease(p)
             \/ MarkAccepted(p) \/ MarkCancelled(p) \/ MarkPaid(p) \/ MarkCompleted(p)
    BY <2>1, <2>2, RestingSteps
  <2>3. CASE SubmitOrder(p) \/ InsertOrder(p) \/ CountOrder(p)
    BY <2>1, <2>3, CreatingSteps
  <2>4. CASE \/ CheckSeller(p) \/ CommitAllocation(p) \/ RereadSeller(p)
             \/ FreezeCrypto(p) \/ ReadFrozen(p) \/ Unfreeze(p)
    BY <2>1, <2>4, FreezingSteps
  <2>5. CASE \/ ReadBuyerWallet(p) \/ ReadSellerWallet(p) \/ DebitFiat(p)
             \/ CreditFiat(p) \/ MarkSettled(p) \/ MarkReceived(p)
    BY <2>1, <2>5, MoneySteps
  <2>6. CASE ReadSellerVA(p) \/ ReadBuyerVA(p) \/ DebitCoin(p) \/ CreditCoin(p)
    BY <2>1, <2>6, ReleasingSteps
  <2> QED BY <2>1, <2>2, <2>3, <2>4, <2>5, <2>6, Zenon
<1>2. ASSUME NEW p \in Requests, RequestLost(p) PROVE Numbers'
  <2>1. lost' \in 0 .. MaxLost
    BY <1>2, DataAssumption DEF RequestLost, Numbers
  <2> QED BY <1>2, <2>1, NumbersAtRest DEF RequestLost
<1>3. CASE DeadlinePasses \/ UNCHANGED vars
  <2>1. UNCHANGED <<ledgers, ordersReceived, rows, req, lost>>
    BY <1>3 DEF DeadlinePasses, vars, ledgers
  <2> QED BY <2>1 DEF Numbers, Numbered, ledgers
<1> QED BY <1>1, <1>2, <1>3 DEF Next

\* With the structure they are the type invariant.
LEMMA NumbersType == IInv /\ Numbers => TypeOK
<1> SUFFICES ASSUME IInv, Numbers PROVE TypeOK
  OBVIOUS
<1> DEFINE Local == [pc : Steps, o : OrderIds \cup {0}, row : OrderRow,
                     x : Int, y : Int, z : Int,
                     plan : SUBSET [va : VAs, available : Int]]
           Shape(l) == [pc |-> l.pc, o |-> l.o, row |-> l.row,
                        x |-> l.x, y |-> l.y, z |-> l.z, plan |-> l.plan]
<1>1. req = [p \in Requests |-> Shape(req[p])]
  BY DEF IInv, Structure
<1>2. ASSUME NEW p \in Requests PROVE Shape(req[p]) \in Local
  <2>1. /\ req[p].pc \in Steps /\ req[p].o \in OrderIds \cup {0} /\ req[p].row \in OrderRow
        /\ req[p].x \in Int /\ req[p].y \in Int /\ req[p].z \in Int
        /\ req[p].plan \in SUBSET [va : VAs, available : Int]
    BY DEF IInv, Structure, Numbers, Numbered, WrittenRows
  <2> QED BY <2>1
<1>3. req \in [Requests -> Local]
  <2> HIDE DEF Shape, Local
  <2> QED BY <1>1, <1>2
<1>4. order \in [OrderIds -> OrderRow] /\ account \in [VAs -> Int]
  BY DEF IInv, Structure
<1> HIDE DEF Shape
<1> QED BY <1>3, <1>4 DEF TypeOK, Numbers

LEMMA NumbersAtFirst == Init => Numbers
<1> SUFFICES ASSUME Init PROVE Numbers
  OBVIOUS
<1>1. Numbered(Idle)
  BY DEF Numbered, WrittenRows, Idle, Locals
<1>2. \A p \in Requests : req[p] = Idle
  BY DEF Init
<1>3. /\ available \in [VAs -> Int] /\ wallet \in [Users -> Int]
      /\ lost \in 0 .. MaxLost
  BY DataAssumption DEF Init
<1>4. /\ ordersReceived \in [Ads -> Nat]
      /\ rows \in [OrderIds -> [fiat : Nat, coin : Nat]]
  BY DEF Init
<1> QED BY <1>1, <1>2, <1>3, <1>4 DEF Numbers

\* Every variable has its type: in particular no sum, no plan and no balance that a
\* handler computes from what it read is anything but a number.
THEOREM TypesHold == Spec => []TypeOK
<1> QED BY NumbersAtFirst, NumbersNext, NumbersType, Invariance, PTL DEF Spec
-----------------------------------------------------------------------------
(* Requests served one after the other                                     *)

\* What an order's payment, and its release, write over of what they took: the customer of
\* an ad may be its vendor, and then the credit of a balance read before the debit is all
\* that is left of the two.
Refunded(row) == IF Seller(row) = Buyer(row) THEN Fiat(row) ELSE 0
Returned(row) == IF SellerVA(row) = BuyerVA(row) THEN row.amount ELSE 0

Others == \A p \in Requests \ {Lead} : req[p] = Idle

\* The request r is at this step of order o.
Doing(r, step, o) == r.pc = step /\ r.o = o

\* What the order is when the request is where it is: what it read is what the order
\* still is, as nobody else was there to change it.
OnStage(r, s) ==
  /\ r.pc = "insert" => r.row.user \in Customers[r.row.ad]
  /\ r.pc \in {"check", "allocate", "reread", "freeze", "accepted"} => s.status = "pending"
  /\ r.pc \in {"lookup", "unfreeze"} => s.status = "awaiting_payment"
  /\ r.pc = "cancel" => s.status \in {"pending", "awaiting_payment"}
  /\ r.pc = "paid" => s.status = "awaiting_payment" /\ s.channel = "offline"
  /\ r.pc \in {"buyer", "seller", "debit", "credit", "settle"} =>
       s.status = "awaiting_payment" /\ s.channel = "rhinoxpay_id"
  /\ r.pc = "received" => s.status = "payment_made"
  /\ r.pc \in {"release", "releaseSeller", "releaseBuyer", "debitCoin", "creditCoin",
               "complete"} => s.status = "awaiting_coin_release"
  /\ r.pc \in {"lookup", "unfreeze", "releaseSeller", "releaseBuyer", "debitCoin",
               "creditCoin", "complete"} => r.row.held = s.held

\* The numbers of an acceptance and of its reversal are the balances they were read from.
FreezeFigures(r, free) ==
  LET held == r.row.held
      n    == r.row.amount
      pool == Family(Seller(r.row))
  IN  /\ r.pc = "allocate" =>
           /\ held \in pool /\ free[held] < n /\ n <= SumFunctionOnSet(free, pool)
           /\ r.plan = Plan(free, pool, held, n)
      /\ r.pc = "reread" => n <= free[held]
      /\ r.pc = "freeze" => n <= free[held] /\ r.x = free[held]
      /\ r.pc = "unfreeze" => r.x = free[SellerVA(r.row)]

\* So are those of a payment from wallet to wallet.  Both balances are read before
\* either is written, so the seller's has not what the payment has taken from it.
PaymentFigures(r, cash) ==
  /\ r.pc \in {"seller", "debit"} => r.x = cash[Buyer(r.row)] /\ Fiat(r.row) <= r.x
  /\ r.pc = "debit" => r.y = cash[Seller(r.row)]
  /\ r.pc = "credit" => r.y = cash[Seller(r.row)] + Refunded(r.row)

\* And of a release.
ReleaseFigures(r, whole, free) ==
  LET mine == SellerVA(r.row)
      its  == BuyerVA(r.row)
  IN  /\ r.pc \in {"releaseBuyer", "debitCoin"} =>
           mine # NoVA /\ r.x = whole[mine] /\ r.y = free[mine]
      /\ r.pc = "debitCoin" => r.row.amount <= r.x - r.y /\ its # NoVA /\ r.z = whole[its]
      /\ r.pc = "creditCoin" =>
           mine # NoVA /\ its # NoVA /\ r.z = whole[its] + Returned(r.row)

\* An order's rows k are those its status calls for, or the next one, and its customer is
\* one of the ad's.
RowsDue(s, k, r, o) ==
  /\ k.coin = IF s.status = "completed" \/ Doing(r, "complete", o) THEN 1 ELSE 0
  /\ k.fiat = IF /\ s.channel = "rhinoxpay_id"
                 /\ \/ s.status \in {"awaiting_coin_release", "completed"}
                    \/ Doing(r, "settle", o)
              THEN 1 ELSE 0
  /\ s.status = "payment_made" => s.channel = "offline"
  /\ s.status # "none" => s.user \in Customers[s.ad]

Serial ==
  /\ Others
  /\ OnStage(req[Lead], order[req[Lead].o])
  /\ FreezeFigures(req[Lead], available)
  /\ PaymentFigures(req[Lead], wallet)
  /\ ReleaseFigures(req[Lead], account, available)
  /\ NoOverdraft
  /\ \A o \in OrderIds : RowsDue(order[o], rows[o], req[Lead], o)

\* What an order has frozen, and where: an acceptance in progress has frozen it before
\* the order says so, and a cancellation gives it back before.
HeldIn(r, s, o) ==
  IF Doing(r, "accepted", o) THEN r.row.held
  ELSE IF /\ s.status \in {"awaiting_payment", "payment_made", "awaiting_coin_release"}
          /\ ~Doing(r, "cancel", o)
       THEN SellerVA(s) ELSE NoVA
HeldOn(o) == HeldIn(req[Lead], order[o], o)
Holds(pool) == [o \in OrderIds |-> IF HeldOn(o) \in pool THEN order[o].amount ELSE 0]

\* No release has touched the user's accounts.
Untouched(u) ==
  \A o \in OrderIds :
    u \in {Seller(order[o]), Buyer(order[o])} =>
      rows[o].coin = 0 /\ ~Doing(req[Lead], "creditCoin", o)

Exact(whole, free, held, pool) ==
  SumFunctionOnSet(whole, pool) - SumFunctionOnSet(free, pool)
    = SumFunctionOnSet(held, OrderIds)
FreezeBooks ==
  \A u \in Users : Untouched(u) =>
    \A pool \in Pools(u) : Exact(account, available, Holds(pool), pool)

\* What an order has moved by now of user u's money, and of the coin of account va.
MoneyOf(o, u) ==
  (IF rows[o].fiat = 1 /\ Seller(order[o]) = u THEN Fiat(order[o]) ELSE 0)
    - (IF \/ Doing(req[Lead], "credit", o) /\ Buyer(order[o]) = u
          \/ rows[o].fiat = 1 /\ PaysFiat(o, u)
       THEN Fiat(order[o]) ELSE 0)
CoinOf(o, va) ==
  (IF rows[o].coin = 1 /\ BuyerVA(order[o]) = va THEN order[o].amount ELSE 0)
    - (IF \/ Doing(req[Lead], "creditCoin", o) /\ SellerVA(order[o]) = va
          \/ rows[o].coin = 1 /\ PaysCoin(o, va)
       THEN order[o].amount ELSE 0)
Moneys(u) == [o \in OrderIds |-> MoneyOf(o, u)]
Coinage(va) == [o \in OrderIds |-> CoinOf(o, va)]

PartyBooks ==
  /\ \A u \in Users : wallet[u] = InitWallet[u] + SumFunctionOnSet(Moneys(u), OrderIds)
  /\ \A va \in VAs :
       account[va] = InitAccount[va] + SumFunctionOnSet(Coinage(va), OrderIds)

-----------------------------------------------------------------------------
(* What a step in turn keeps                                               *)

LEMMA LeadIsRequest == Lead \in Requests
BY DataAssumption DEF Lead

\* The locals a step leaves, as an operator on values.
LEMMA GoesOn ==
  ASSUME NEW step, NEW x, NEW y, NEW z, Onward(Lead, step, x, y, z)
  PROVE  \E r : /\ req' = [req EXCEPT ![Lead] = r]
                /\ r.pc = step /\ r.o = req[Lead].o /\ r.row = req[Lead].row
                /\ r.x = x /\ r.y = y /\ r.z = z /\ r.plan = {}
<1> DEFINE r == [pc |-> step, o |-> req[Lead].o, row |-> req[Lead].row,
                 x |-> x, y |-> y, z |-> z, plan |-> {}]
<1>1. req' = [req EXCEPT ![Lead] = r]
  BY DEF Onward
<1>2. /\ r.pc = step /\ r.o = req[Lead].o /\ r.row = req[Lead].row
      /\ r.x = x /\ r.y = y /\ r.z = z /\ r.plan = {}
  OBVIOUS
<1> HIDE DEF r
<1> QED BY <1>1, <1>2

LEMMA LocalsAre ==
  ASSUME NEW step, NEW o, NEW row, NEW x, NEW plan
  PROVE  LET r == Locals(step, o, row, x, plan)
         IN  r.pc = step /\ r.o = o /\ r.row = row /\ r.x = x /\ r.plan = plan
BY DEF Locals

\* Serial, of the state that a step leaves.
LEMMA SerialKept ==
  ASSUME IInv, Serial, NEW r, req' = [req EXCEPT ![Lead] = r],
         OnStage(r, order'[r.o]), FreezeFigures(r, available'), PaymentFigures(r, wallet'),
         ReleaseFigures(r, account', available'), NoOverdraft',
         \A o \in OrderIds : RowsDue(order'[o], rows'[o], r, o)
  PROVE  Serial' /\ req'[Lead] = r
<1>1. req'[Lead] = r /\ \A p \in Requests \ {Lead} : req'[p] = req[p]
  BY LeadIsRequest DEF IInv, Structure
<1>2. Others'
  BY <1>1 DEF Serial, Others
<1>3. /\ OnStage(req'[Lead], order'[req'[Lead].o])
      /\ FreezeFigures(req'[Lead], available') /\ PaymentFigures(req'[Lead], wallet')
      /\ ReleaseFigures(req'[Lead], account', available')
      /\ \A o \in OrderIds : RowsDue(order'[o], rows'[o], req'[Lead], o)
  BY <1>1
<1>4. Serial'
  <2>1. OnStage(req[Lead], order[req[Lead].o])'
    BY <1>3 DEF OnStage
  <2>2. FreezeFigures(req[Lead], available)' /\ PaymentFigures(req[Lead], wallet)'
    BY <1>3 DEF FreezeFigures, PaymentFigures
  <2>3. ReleaseFigures(req[Lead], account, available)'
    BY <1>3 DEF ReleaseFigures
  <2>4. \A o \in OrderIds : RowsDue(order[o], rows[o], req[Lead], o)'
    BY <1>3 DEF RowsDue, Doing
  <2> QED BY <1>2, <2>1, <2>2, <2>3, <2>4 DEF Serial
<1> QED BY <1>1, <1>4

\* At most steps no number has been read that the next one depends on.
LEMMA NoFigures ==
  ASSUME NEW r, NEW whole, NEW free, NEW cash,
         r.pc \notin {"allocate", "reread", "freeze", "unfreeze", "seller", "debit", "credit",
                      "releaseBuyer", "debitCoin", "creditCoin"}
  PROVE  /\ FreezeFigures(r, free) /\ PaymentFigures(r, cash)
         /\ ReleaseFigures(r, whole, free)
BY DEF FreezeFigures, PaymentFigures, ReleaseFigures

\* A step that moves nothing of the books: every order holds what it held, but for one
\* whose coin has moved, and an order that changes otherwise has no rows yet.
Calm ==
  /\ UNCHANGED <<ledgers, rows>>
  /\ \A o \in OrderIds :
       /\ \/ HeldOn(o)' = HeldOn(o)
          \/ HeldOn(o)' = NoVA /\ rows[o].coin = 1
       /\ HeldOn(o) # NoVA => order'[o].amount = order[o].amount
       /\ Doing(req'[Lead], "credit", o) <=> Doing(req[Lead], "credit", o)
       /\ Doing(req'[Lead], "creditCoin", o) <=> Doing(req[Lead], "creditCoin", o)
       /\ \/ SameDeal(order[o], order'[o]) /\ order'[o].held = order[o].held
          \/ /\ rows[o].coin = 0 /\ rows[o].fiat = 0
             /\ ~Doing(req[Lead], "credit", o) /\ ~Doing(req[Lead], "creditCoin", o)

\* The places of a request that has done what its order does not say yet.
Midway == {"settle", "complete", "accepted", "cancel", "credit", "creditCoin"}

\* A step that only reads is calm, and keeps Serial if its figures are right.
LEMMA ReadKeeps ==
  ASSUME IInv, Serial, UNCHANGED <<order, ledgers, rows>>,
         NEW r, req' = [req EXCEPT ![Lead] = r],
         OnStage(r, order[r.o]), FreezeFigures(r, available), PaymentFigures(r, wallet),
         ReleaseFigures(r, account, available),
         req[Lead].pc \notin Midway, r.pc \notin Midway \ {"cancel"},
         r.pc = "cancel" => order[r.o].status = "pending"
  PROVE  Serial' /\ Calm
<1>1. /\ order' = order /\ account' = account /\ available' = available /\ wallet' = wallet
      /\ rows' = rows
  BY DEF ledgers
<1>2. NoOverdraft'
  BY <1>1 DEF Serial, NoOverdraft
<1>3. ASSUME NEW o \in OrderIds PROVE RowsDue(order'[o], rows'[o], r, o)
  <2>1. RowsDue(order[o], rows[o], req[Lead], o)
    BY DEF Serial
  <2> QED BY <1>1, <2>1 DEF RowsDue, Doing, Midway
<1>4. Serial' /\ req'[Lead] = r
  BY <1>1, <1>2, <1>3, SerialKept
<1>5. ASSUME NEW o \in OrderIds
      PROVE  /\ HeldOn(o)' = HeldOn(o)
             /\ SameDeal(order[o], order'[o]) /\ order'[o].held = order[o].held
             /\ Doing(req'[Lead], "credit", o) <=> Doing(req[Lead], "credit", o)
             /\ Doing(req'[Lead], "creditCoin", o) <=> Doing(req[Lead], "creditCoin", o)
  <2>1. /\ SameDeal(order[o], order'[o]) /\ order'[o].held = order[o].held
        /\ Doing(req'[Lead], "credit", o) <=> Doing(req[Lead], "credit", o)
        /\ Doing(req'[Lead], "creditCoin", o) <=> Doing(req[Lead], "creditCoin", o)
    BY <1>1, <1>4 DEF SameDeal, Doing, Midway
  <2>2. ~Doing(req[Lead], "accepted", o) /\ ~Doing(req[Lead], "cancel", o)
    BY DEF Doing, Midway
  <2>3. /\ ~Doing(req'[Lead], "accepted", o)
        /\ Doing(req'[Lead], "cancel", o) => order[o].status = "pending"
    BY <1>4 DEF Doing, Midway
  <2>4. HeldOn(o)' = HeldOn(o)
    BY <1>1, <1>4, <2>2, <2>3 DEF HeldOn, HeldIn, Doing
  <2> QED BY <2>1, <2>4
<1>6. Calm
  BY <1>1, <1>5 DEF Calm, ledgers, SameDeal
<1> QED BY <1>4, <1>6

\* A request that ends without writing an order.
LEMMA EndKeeps ==
  ASSUME IInv, Serial, UNCHANGED <<order, ledgers, rows>>, Finish(Lead),
         req[Lead].pc \notin Midway
  PROVE  Serial' /\ Calm
<1>1. req' = [req EXCEPT ![Lead] = Idle] /\ Idle.pc = "idle"
  BY DEF Finish, Idle, Locals
<1>2. OnStage(Idle, order[Idle.o])
  BY <1>1 DEF OnStage
<1> QED BY <1>1, <1>2, NoFigures, ReadKeeps DEF Midway

\* A request that reads an order, and goes where its status takes it.
LEMMA LoadKeeps ==
  ASSUME IInv, Serial, UNCHANGED <<order, ledgers, rows>>, NEW o \in OrderIds, NEW step,
         Load(Lead, o, step), req[Lead].pc \notin Midway,
         \/ step \in {"check", "cancel"} /\ order[o].status = "pending"
         \/ step = "lookup" /\ order[o].status = "awaiting_payment"
         \/ /\ step = "paid" /\ order[o].status = "awaiting_payment"
            /\ order[o].channel = "offline"
         \/ /\ step = "buyer" /\ order[o].status = "awaiting_payment"
            /\ order[o].channel = "rhinoxpay_id"
         \/ step = "received" /\ order[o].status = "payment_made"
         \/ step = "releaseSeller" /\ order[o].status = "awaiting_coin_release"
  PROVE  Serial' /\ Calm
<1> DEFINE r == Locals(step, o, order[o], 0, {})
<1>1. /\ req' = [req EXCEPT ![Lead] = r]
      /\ r.pc = step /\ r.o = o /\ r.row = order[o]
  BY LocalsAre DEF Load
<1> HIDE DEF r
<1>2. OnStage(r, order[r.o])
  BY <1>1 DEF OnStage
<1>3. r.pc = "cancel" => order[r.o].status = "pending"
  BY <1>1
<1>4. /\ FreezeFigures(r, available) /\ PaymentFigures(r, wallet)
      /\ ReleaseFigures(r, account, available) /\ r.pc \notin Midway \ {"cancel"}
  BY <1>1, NoFigures DEF Midway
<1> QED BY <1>1, <1>2, <1>3, <1>4, ReadKeeps

\* The requests that begin with the read of an order, and the release that follows a
\* payment.
LEMMA LoadingSteps ==
  ASSUME IInv, Serial, NEW p, p = Lead,
         \/ StartDecline(p) \/ StartCancel(p) \/ StartExpire(p) \/ StartConfirm(p)
         \/ StartReceived(p) \/ StartAccept(p) \/ StartRelease(p)
  PROVE  Serial' /\ Calm
<1>1. UNCHANGED <<order, ledgers, rows>>
  BY DEF StartDecline, StartCancel, StartExpire, StartConfirm, StartReceived, StartAccept,
     StartRelease
<1>2. CASE StartDecline(p)
  BY <1>1, <1>2, LoadKeeps DEF StartDecline, At, Midway
<1>3. CASE StartCancel(p)
  <2>1. PICK o \in OrderIds :
          /\ req[Lead].pc = "idle" /\ order[o].status \in {"pending", "awaiting_payment"}
          /\ IF order[o].status = "awaiting_payment" /\ order[o].accepted
             THEN Load(Lead, o, "lookup") ELSE Load(Lead, o, "cancel")
    BY <1>3 DEF StartCancel, At
  <2>2. order[o].status = "awaiting_payment" => order[o].accepted
    BY DEF IInv, Evidence, Backed
  <2> QED BY <1>1, <2>1, <2>2, LoadKeeps DEF Midway
<1>4. CASE StartExpire(p)
  BY <1>1, <1>4, LoadKeeps DEF StartExpire, At, Midway
<1>5. CASE StartConfirm(p)
  <2>1. PICK o \in OrderIds :
          /\ req[Lead].pc = "idle" /\ order[o].status = "awaiting_payment"
          /\ Load(Lead, o, IF order[o].channel = "offline" THEN "paid" ELSE "buyer")
    BY <1>5 DEF StartConfirm, At
  <2>2. order[o].channel \in {"offline", "rhinoxpay_id"}
    BY DEF IInv, Structure, OrderRow, Channels
  <2> QED BY <1>1, <2>1, <2>2, LoadKeeps DEF Midway
<1>6. CASE StartReceived(p)
  BY <1>1, <1>6, LoadKeeps DEF StartReceived, At, Midway
<1>7. CASE StartAccept(p)
  <2>1. PICK o \in OrderIds :
          /\ req[Lead].pc \in {"idle", "autoAccept"}
          /\ \/ order[o].status = "pending" /\ Load(Lead, o, "check")
             \/ Finish(Lead)
    BY <1>7 DEF StartAccept, At
  <2> QED BY <1>1, <2>1, LoadKeeps, EndKeeps DEF Midway
<1>8. CASE StartRelease(p)
  <2>1. /\ req[Lead].pc = "release"
        /\ \/ /\ order[req[Lead].o].status = "awaiting_coin_release"
              /\ Load(Lead, req[Lead].o, "releaseSeller")
           \/ Finish(Lead)
    BY <1>8 DEF StartRelease, At
  <2>2. req[Lead].o \in OrderIds
    BY <2>1, LeadIsRequest DEF IInv, RequestsSound, Established
  <2> QED BY <1>1, <2>1, <2>2, LoadKeeps, EndKeeps DEF Midway
<1> QED BY <1>2, <1>3, <1>4, <1>5, <1>6, <1>7, <1>8

\* createOrder before and after the order is there.
LEMMA OrderingReads ==
  ASSUME IInv, Serial, NEW p, p = Lead, SubmitOrder(p) \/ CountOrder(p)
  PROVE  Serial' /\ Calm
<1>1. CASE SubmitOrder(p)
  <2>1. PICK offer \in Ads, n \in Amounts :
          \E u \in Customers[offer], c \in AdRow[offer].channels : Submit(p, offer, u, n, c)
    BY <1>1 DEF SubmitOrder
  <2>2. PICK u \in Customers[offer], c \in AdRow[offer].channels : Submit(p, offer, u, n, c)
    BY <2>1
  <2> DEFINE new == FreshRow("pending", offer, u, n, c)
             r == Locals("insert", 0, new, ordersReceived[offer], {})
  <2>3. /\ req[Lead].pc = "idle" /\ UNCHANGED <<order, ledgers, rows>>
        /\ req' = [req EXCEPT ![Lead] = r]
    BY <2>2 DEF Submit, At
  <2>5. new.user = u /\ new.ad = offer
    BY DEF FreshRow
  <2> HIDE DEF new
  <2>4. r.pc = "insert" /\ r.o = 0 /\ r.row = new
    BY LocalsAre
  <2> HIDE DEF r
  <2>6. OnStage(r, order[r.o])
    BY <2>2, <2>4, <2>5 DEF OnStage
  <2> QED BY <2>3, <2>4, <2>6, NoFigures, ReadKeeps DEF Midway
<1>2. CASE CountOrder(p)
  <2>1. /\ req[Lead].pc = "count" /\ UNCHANGED <<order, ledgers, rows>>
        /\ \/ Onward(Lead, "autoAccept", req[Lead].x, req[Lead].y, req[Lead].z)
           \/ Finish(Lead)
    BY <1>2 DEF CountOrder, At, Goto
  <2>2. CASE Onward(Lead, "autoAccept", req[Lead].x, req[Lead].y, req[Lead].z)
    <3>1. PICK r : req' = [req EXCEPT ![Lead] = r] /\ r.pc = "autoAccept"
      BY <2>2, GoesOn
    <3>2. OnStage(r, order[r.o])
      BY <3>1 DEF OnStage
    <3> QED BY <2>1, <3>1, <3>2, NoFigures, ReadKeeps DEF Midway
  <2> QED BY <2>1, <2>2, EndKeeps DEF Midway
<1> QED BY <1>1, <1>2

\* What the numbers of the request are read from.
LEMMA LeadTyped ==
  ASSUME IInv, Numbers
  PROVE  LET row == req[Lead].row
         IN  /\ row \in OrderRow /\ Seller(row) \in Users /\ Buyer(row) \in Users
             /\ row.amount \in Nat /\ Fiat(row) \in Nat
             /\ req[Lead].x \in Int /\ req[Lead].y \in Int /\ req[Lead].z \in Int
             /\ account \in [VAs -> Int] /\ available \in [VAs -> Int]
             /\ wallet \in [Users -> Int]
             /\ rows \in [OrderIds -> [fiat : Nat, coin : Nat]]
BY LeadIsRequest, BalancesTyped, PartiesTyped

\* The account of an order in the unified coin is in the pool.
LEMMA TargetInPool ==
  ASSUME NEW u, NEW c, Unified(c), CurrencyVA(u, c) # NoVA
  PROVE  CurrencyVA(u, c) \in Family(u)
<1>1. CASE ExactVA(u, c) = NoVA /\ Family(u) # {}
  <2>1. Family(u) \in SUBSET VAs
    BY DEF AccountsOf, Family
  <2> QED BY <1>1, <2>1, MinIsMember DEF CurrencyVA
<1>2. CASE ~(ExactVA(u, c) = NoVA /\ Family(u) # {})
  <2> DEFINE exact == {va \in AccountsOf(u) : Ledger[va] = c}
  <2>1. CurrencyVA(u, c) = ExactVA(u, c) /\ exact # {} /\ exact \in SUBSET VAs
    BY <1>2 DEF CurrencyVA, ExactVA, AccountsOf
  <2>2. Min(exact) \in exact
    BY <2>1, MinIsMember
  <2> QED BY <2>1, <2>2 DEF ExactVA, Family, Unified
<1> QED BY <1>1, <1>2

\* There is nothing to gather just when the account covers the order by itself.
LEMMA NothingToMove ==
  ASSUME NEW a, NEW family, NEW target, NEW n
  PROVE  Plan(a, family, target, n) = {} <=> a[target] >= n
BY DEF Plan

\* The account of a backed order is the one it recorded.
LEMMA BackedAccount ==
  ASSUME NEW r, NEW s, Backed(s), SameDeal(r, s), r.held = s.held
  PROVE  SellerVA(r) = s.held /\ SellerVA(s) = s.held /\ s.held \in VAs /\ s.held # NoVA
<1>1. Seller(r) = Seller(s)
  BY SameParties
<1>2. s.held \in AccountsOf(Seller(s))
  BY DEF Backed, AccountsOf
<1>3. SellerVA(r) = r.held /\ SellerVA(s) = s.held
  BY <1>1, <1>2 DEF SellerVA
<1>4. s.held \in VAs
  BY DEF Backed
<1> QED BY <1>3, <1>4, NoVAOutside

\* The check of the seller's balance finds enough in the pool, or on the account.
LEMMA CheckKeeps ==
  ASSUME IInv, Numbers, Serial, CheckSeller(Lead)
  PROVE  Serial' /\ Calm
<1> DEFINE row == req[Lead].row
           c == AdRow[row.ad].currency
           u == Seller(row)
           n == row.amount
           target == CurrencyVA(u, c)
           moves == IF Unified(c) THEN Plan(available, Family(u), target, n) ELSE {}
           step == IF moves = {} THEN "reread" ELSE "allocate"
           mine == [row EXCEPT !.held = target]
           r == Locals(step, req[Lead].o, mine, 0, moves)
<1>1. /\ req[Lead].pc = "check" /\ UNCHANGED <<order, ledgers, rows>>
      /\ \/ Finish(Lead)
         \/ /\ target # NoVA /\ ~(SellerAvailable(u, c) < n)
            /\ req' = [req EXCEPT ![Lead] = r]
  BY DEF CheckSeller, At
<1>2. CASE Finish(Lead)
  BY <1>1, <1>2, EndKeeps DEF Midway
<1>3. CASE /\ target # NoVA /\ ~(SellerAvailable(u, c) < n)
           /\ req' = [req EXCEPT ![Lead] = r]
  <2>1. /\ target \in VAs /\ Owner[target] = u /\ row \in OrderRow /\ n \in Nat
        /\ available \in [VAs -> Int]
    BY <1>3, CurrencyVAOwner, LeadTyped
  <2>2. mine.held = target /\ mine.amount = n /\ mine.ad = row.ad /\ mine.user = row.user
    BY <2>1 DEF OrderRow
  <2>3. Seller(mine) = u
    <3> HIDE DEF mine, target, n
    <3>1. SameDeal(row, mine)
      BY <2>2 DEF SameDeal, n
    <3> QED BY <3>1, SameParties
  <2>4. r.pc = step /\ r.o = req[Lead].o /\ r.row = mine /\ r.plan = moves
    <3> HIDE DEF step, mine, moves
    <3> QED BY LocalsAre
  <2>11. target # NoVA /\ ~(SellerAvailable(u, c) < n)
    BY <1>3
  <2>5. step \in {"reread", "allocate"} /\ (step = "reread" <=> moves = {})
    OBVIOUS
  <2>6. OnStage(r, order[r.o])
    <3>1. order[req[Lead].o].status = "pending"
      BY <1>1 DEF Serial, OnStage
    <3> HIDE DEF r, step, mine
    <3> QED BY <2>4, <2>5, <3>1 DEF OnStage
  <2>7. moves = {} => n <= available[target]
    <3>1. CASE Unified(c)
      <4>1. moves = {} => available[target] >= n
        BY <3>1, NothingToMove
      <4> HIDE DEF moves, target, n
      <4> QED BY <2>1, <4>1
    <3>2. CASE ~Unified(c)
      <4> HIDE DEF u, c, n
      <4>1. target = ExactVA(u, c)
        BY <3>2 DEF CurrencyVA
      <4>2. SellerAvailable(u, c) = available[target]
        BY <2>11, <3>2, <4>1 DEF SellerAvailable
      <4> HIDE DEF target
      <4> QED BY <2>1, <2>11, <4>2
    <3> QED BY <3>1, <3>2
  <2>8. ASSUME moves # {}
        PROVE  /\ target \in Family(u) /\ available[target] < n
               /\ n <= SumFunctionOnSet(available, Family(u))
               /\ moves = Plan(available, Family(u), target, n)
    <3>1. Unified(c) /\ ~(available[target] >= n)
      BY <2>8, NothingToMove
    <3>2. target \in Family(u)
      BY <2>11, <3>1, TargetInPool
    <3>3. Family(u) \in SUBSET VAs /\ IsFiniteSet(Family(u))
      <4>1. Family(u) \in SUBSET VAs
        BY DEF Family, AccountsOf
      <4> QED BY <4>1, AccountAssumption, FS_Subset
    <3>4. SumFunctionOnSet(available, Family(u)) \in Int
      BY <2>1, <3>3, SumType
    <3>5. SellerAvailable(u, c) = SumFunctionOnSet(available, Family(u))
      BY <3>1 DEF SellerAvailable, TotalAvailable
    <3> HIDE DEF target, u, n
    <3> QED BY <2>1, <2>11, <3>1, <3>2, <3>4, <3>5
  <2> HIDE DEF r, step, mine, moves, target, u, n
  <2>9. FreezeFigures(r, available)
    BY <2>2, <2>3, <2>4, <2>5, <2>7, <2>8 DEF FreezeFigures
  <2>10. PaymentFigures(r, wallet) /\ ReleaseFigures(r, account, available)
    BY <2>4, <2>5 DEF PaymentFigures, ReleaseFigures
  <2> QED BY <1>1, <1>3, <2>4, <2>5, <2>6, <2>9, <2>10, ReadKeeps DEF Midway
<1> QED BY <1>1, <1>2, <1>3

\* What a request reads after its first query.
LEMMA FurtherReads ==
  ASSUME IInv, Numbers, Serial, NEW p, p = Lead,
         \/ RereadSeller(p) \/ ReadFrozen(p) \/ ReadBuyerWallet(p) \/ ReadSellerWallet(p)
         \/ ReadSellerVA(p) \/ ReadBuyerVA(p)
  PROVE  Serial' /\ Calm
<1> DEFINE q == req[Lead]
           row == q.row
<1>1. UNCHANGED <<order, ledgers, rows>>
  BY DEF RereadSeller, ReadFrozen, ReadBuyerWallet, ReadSellerWallet, ReadSellerVA, ReadBuyerVA
<1>2. /\ OnStage(q, order[q.o]) /\ FreezeFigures(q, available) /\ PaymentFigures(q, wallet)
      /\ ReleaseFigures(q, account, available) /\ NoOverdraft
  BY DEF Serial
<1>3. ASSUME NEW r, req' = [req EXCEPT ![Lead] = r], r.o = q.o, r.row = row,
             OnStage(r, order[r.o]), FreezeFigures(r, available), PaymentFigures(r, wallet),
             ReleaseFigures(r, account, available), q.pc \notin Midway,
             r.pc \notin Midway
      PROVE  Serial' /\ Calm
  BY <1>1, <1>3, ReadKeeps DEF Midway
<1>4. CASE RereadSeller(p)
  <2>1. q.pc = "reread" /\ Onward(Lead, "freeze", available[row.held], 0, 0)
    BY <1>4 DEF RereadSeller, At
  <2>2. PICK r : /\ req' = [req EXCEPT ![Lead] = r] /\ r.pc = "freeze" /\ r.o = q.o
                 /\ r.row = row /\ r.x = available[row.held]
    BY <2>1, GoesOn
  <2>3. /\ OnStage(r, order[r.o]) /\ FreezeFigures(r, available)
        /\ PaymentFigures(r, wallet) /\ ReleaseFigures(r, account, available)
    BY <1>2, <2>1, <2>2 DEF OnStage, FreezeFigures, PaymentFigures, ReleaseFigures
  <2> QED BY <1>3, <2>1, <2>2, <2>3 DEF Midway
<1>5. CASE ReadFrozen(p)
  <2>1. /\ q.pc = "lookup" /\ order[q.o].status = "awaiting_payment"
        /\ row.held = order[q.o].held
    BY <1>2, <1>5 DEF ReadFrozen, At, OnStage
  <2>2. q.o \in OrderIds /\ SameDeal(row, order[q.o])
    BY <2>1, LeadIsRequest DEF IInv, RequestsSound, Established
  <2>3. Backed(order[q.o])
    BY <2>1, <2>2 DEF IInv, Evidence
  <2>4. SellerVA(row) # NoVA
    BY <2>1, <2>2, <2>3, BackedAccount
  <2>5. Onward(Lead, "unfreeze", available[SellerVA(row)], 0, 0)
    BY <1>5, <2>4 DEF ReadFrozen
  <2>6. PICK r : /\ req' = [req EXCEPT ![Lead] = r] /\ r.pc = "unfreeze" /\ r.o = q.o
                 /\ r.row = row /\ r.x = available[SellerVA(row)]
    BY <2>5, GoesOn
  <2>7. /\ OnStage(r, order[r.o]) /\ FreezeFigures(r, available)
        /\ PaymentFigures(r, wallet) /\ ReleaseFigures(r, account, available)
    BY <2>1, <2>6 DEF OnStage, FreezeFigures, PaymentFigures, ReleaseFigures
  <2> QED BY <1>3, <2>1, <2>6, <2>7 DEF Midway
<1>6. CASE ReadBuyerWallet(p)
  <2>1. /\ q.pc = "buyer"
        /\ \/ Finish(Lead)
           \/ /\ ~(wallet[Buyer(row)] < Fiat(row))
              /\ Onward(Lead, "seller", wallet[Buyer(row)], 0, 0)
    BY <1>6 DEF ReadBuyerWallet, At
  <2>2. CASE ~(wallet[Buyer(row)] < Fiat(row))
             /\ Onward(Lead, "seller", wallet[Buyer(row)], 0, 0)
    <3>1. PICK r : /\ req' = [req EXCEPT ![Lead] = r] /\ r.pc = "seller" /\ r.o = q.o
                   /\ r.row = row /\ r.x = wallet[Buyer(row)]
      BY <2>2, GoesOn
    <3>2. Fiat(row) <= wallet[Buyer(row)]
      <4>1. wallet[Buyer(row)] \in Int /\ Fiat(row) \in Int
        BY LeadTyped
      <4> QED BY <2>2, <4>1
    <3>3. /\ OnStage(r, order[r.o]) /\ FreezeFigures(r, available)
          /\ PaymentFigures(r, wallet) /\ ReleaseFigures(r, account, available)
      BY <1>2, <2>1, <3>1, <3>2 DEF OnStage, FreezeFigures, PaymentFigures, ReleaseFigures
    <3> QED BY <1>3, <2>1, <3>1, <3>3 DEF Midway
  <2> QED BY <1>1, <2>1, <2>2, EndKeeps DEF Midway
<1>7. CASE ReadSellerWallet(p)
  <2>1. q.pc = "seller" /\ Onward(Lead, "debit", q.x, wallet[Seller(row)], 0)
    BY <1>7 DEF ReadSellerWallet, At
  <2>2. PICK r : /\ req' = [req EXCEPT ![Lead] = r] /\ r.pc = "debit" /\ r.o = q.o
                 /\ r.row = row /\ r.x = q.x /\ r.y = wallet[Seller(row)]
    BY <2>1, GoesOn
  <2>3. /\ OnStage(r, order[r.o]) /\ FreezeFigures(r, available)
        /\ PaymentFigures(r, wallet) /\ ReleaseFigures(r, account, available)
    BY <1>2, <2>1, <2>2 DEF OnStage, FreezeFigures, PaymentFigures, ReleaseFigures
  <2> QED BY <1>3, <2>1, <2>2, <2>3 DEF Midway
<1>8. CASE ReadSellerVA(p)
  <2> DEFINE va == SellerVA(row)
  <2>1. /\ q.pc = "releaseSeller"
        /\ \/ Finish(Lead)
           \/ va # NoVA /\ Onward(Lead, "releaseBuyer", account[va], available[va], 0)
    BY <1>8 DEF ReadSellerVA, At
  <2>2. CASE va # NoVA /\ Onward(Lead, "releaseBuyer", account[va], available[va], 0)
    <3>1. PICK r : /\ req' = [req EXCEPT ![Lead] = r] /\ r.pc = "releaseBuyer" /\ r.o = q.o
                   /\ r.row = row /\ r.x = account[va] /\ r.y = available[va]
      BY <2>2, GoesOn
    <3>2. /\ OnStage(r, order[r.o]) /\ FreezeFigures(r, available)
          /\ PaymentFigures(r, wallet) /\ ReleaseFigures(r, account, available)
      BY <1>2, <2>1, <2>2, <3>1 DEF OnStage, FreezeFigures, PaymentFigures, ReleaseFigures
    <3> QED BY <1>3, <2>1, <3>1, <3>2 DEF Midway
  <2> QED BY <1>1, <2>1, <2>2, EndKeeps DEF Midway
<1>9. CASE ReadBuyerVA(p)
  <2> DEFINE va == BuyerVA(row)
  <2>1. /\ q.pc = "releaseBuyer"
        /\ \/ Finish(Lead)
           \/ /\ va # NoVA /\ ~(q.x - q.y < row.amount)
              /\ Onward(Lead, "debitCoin", q.x, q.y, account[va])
    BY <1>9 DEF ReadBuyerVA, At
  <2>2. CASE /\ va # NoVA /\ ~(q.x - q.y < row.amount)
             /\ Onward(Lead, "debitCoin", q.x, q.y, account[va])
    <3>1. PICK r : /\ req' = [req EXCEPT ![Lead] = r] /\ r.pc = "debitCoin" /\ r.o = q.o
                   /\ r.row = row /\ r.x = q.x /\ r.y = q.y /\ r.z = account[va]
      BY <2>2, GoesOn
    <3>2. row.amount <= q.x - q.y /\ 0 <= account[va]
      <4>1. q.x \in Int /\ q.y \in Int /\ row.amount \in Int /\ account \in [VAs -> Int]
        BY LeadTyped
      <4>2. va \in VAs
        BY <2>2, BuyerVAOwner
      <4>3. account[va] >= 0 /\ account[va] \in Int
        BY <1>2, <4>1, <4>2 DEF NoOverdraft
      <4> HIDE DEF va
      <4> QED BY <2>2, <4>1, <4>3
    <3>3. /\ OnStage(r, order[r.o]) /\ FreezeFigures(r, available)
          /\ PaymentFigures(r, wallet) /\ ReleaseFigures(r, account, available)
      BY <1>2, <2>1, <2>2, <3>1, <3>2
         DEF OnStage, FreezeFigures, PaymentFigures, ReleaseFigures
    <3> QED BY <1>3, <2>1, <3>1, <3>3 DEF Midway
  <2> QED BY <1>1, <2>1, <2>2, EndKeeps DEF Midway
<1> QED BY <1>4, <1>5, <1>6, <1>7, <1>8, <1>9

\* A step that writes an order: what its row is then due, and what it holds.
LEMMA WriteKeeps ==
  ASSUME IInv, Serial, UNCHANGED <<ledgers, rows>>,
         NEW o \in OrderIds, NEW s, Write(o, s), NEW r, req' = [req EXCEPT ![Lead] = r],
         r.pc \in {"idle", "count", "release"},
         r.pc = "release" => r.o = o /\ s.status = "awaiting_coin_release",
         req[Lead].pc = "insert" \/ req[Lead].o = o,
         req[Lead].pc \notin {"credit", "creditCoin"},
         RowsDue(s, rows[o], r, o),
         HeldIn(r, s, o) = HeldOn(o) \/ (HeldIn(r, s, o) = NoVA /\ rows[o].coin = 1),
         HeldOn(o) # NoVA => s.amount = order[o].amount,
         \/ SameDeal(order[o], s) /\ s.held = order[o].held
         \/ rows[o].coin = 0 /\ rows[o].fiat = 0
  PROVE  Serial' /\ Calm
<1>1. /\ account' = account /\ available' = available /\ wallet' = wallet /\ rows' = rows
      /\ order'[o] = s /\ \A k \in OrderIds \ {o} : order'[k] = order[k]
  BY DEF ledgers, Write, IInv, Structure
<1>2. NoOverdraft'
  BY <1>1 DEF Serial, NoOverdraft
<1>3. OnStage(r, order'[r.o])
  BY <1>1 DEF OnStage
<1>4. FreezeFigures(r, available') /\ PaymentFigures(r, wallet')
      /\ ReleaseFigures(r, account', available')
  BY NoFigures
<1>5. ASSUME NEW k \in OrderIds \ {o}, NEW step \in Midway
      PROVE  ~Doing(req[Lead], step, k) /\ ~Doing(r, step, k)
  BY DEF Doing, Midway
<1>6. ASSUME NEW k \in OrderIds PROVE RowsDue(order'[k], rows'[k], r, k)
  <2>1. CASE k = o
    BY <1>1, <2>1
  <2>2. CASE k # o
    <3>1. RowsDue(order[k], rows[k], req[Lead], k)
      BY DEF Serial
    <3>2. /\ ~Doing(req[Lead], "complete", k) /\ ~Doing(r, "complete", k)
          /\ ~Doing(req[Lead], "settle", k) /\ ~Doing(r, "settle", k)
      BY <1>5, <2>2 DEF Midway
    <3> QED BY <1>1, <2>2, <3>1, <3>2 DEF RowsDue
  <2> QED BY <2>1, <2>2
<1>7. Serial' /\ req'[Lead] = r
  BY <1>2, <1>3, <1>4, <1>6, SerialKept
<1>8. \A k \in OrderIds : HeldOn(k)' = HeldIn(r, order'[k], k)
  BY <1>7 DEF HeldOn, HeldIn, Doing
<1>9. ASSUME NEW k \in OrderIds
      PROVE  /\ \/ HeldOn(k)' = HeldOn(k)
                \/ HeldOn(k)' = NoVA /\ rows[k].coin = 1
             /\ HeldOn(k) # NoVA => order'[k].amount = order[k].amount
             /\ \/ SameDeal(order[k], order'[k]) /\ order'[k].held = order[k].held
                \/ rows[k].coin = 0 /\ rows[k].fiat = 0
  <2>1. CASE k = o
    BY <1>1, <1>8, <2>1
  <2>2. CASE k # o
    <3>1. /\ ~Doing(req[Lead], "accepted", k) /\ ~Doing(r, "accepted", k)
          /\ ~Doing(req[Lead], "cancel", k) /\ ~Doing(r, "cancel", k)
      BY <1>5, <2>2 DEF Midway
    <3>2. HeldOn(k)' = HeldOn(k)
      BY <1>1, <1>8, <2>2, <3>1 DEF HeldOn, HeldIn
    <3> QED BY <1>1, <2>2, <3>2 DEF SameDeal
  <2> QED BY <2>1, <2>2
<1>10. ASSUME NEW k \in OrderIds, NEW step \in {"credit", "creditCoin"}
       PROVE  ~Doing(req'[Lead], step, k) /\ ~Doing(req[Lead], step, k)
  BY <1>7 DEF Doing
<1> QED BY <1>1, <1>7, <1>9, <1>10 DEF Calm, ledgers

\* The account of a row depends on the deal and on what it recorded.
LEMMA KeptAccount ==
  ASSUME NEW r, NEW s, SameDeal(r, s), s.held = r.held
  PROVE  SellerVA(s) = SellerVA(r) /\ BuyerVA(s) = BuyerVA(r)
BY SameParties DEF SellerVA, BuyerVA, SameDeal

\* The first write of an order.
LEMMA InsertKeeps ==
  ASSUME IInv, Serial, InsertOrder(Lead)
  PROVE  /\ Serial' /\ Calm
         /\ \E o \in OrderIds :
              /\ Write(o, req[Lead].row) /\ order[o].status = "none"
              /\ req[Lead].row.status = "pending"
<1> DEFINE row == req[Lead].row
<1>1. PICK o \in OrderIds :
        /\ \A k \in OrderIds : (order[k].status = "none") <=> (k >= o)
        /\ Write(o, row)
        /\ req' = [req EXCEPT ![Lead] = Locals("count", o, row, req[Lead].x, {})]
        /\ UNCHANGED <<ledgers, rows>> /\ req[Lead].pc = "insert"
  BY DEF InsertOrder, At
<1>2. order[o].status = "none"
  BY <1>1, DataAssumption, AccountAssumption
<1>3. row.status = "pending" /\ row.user \in Customers[row.ad]
  BY <1>1, LeadIsRequest DEF IInv, RequestsSound, Established, Serial, OnStage
<1>4. rows[o].coin = 0 /\ rows[o].fiat = 0
  BY <1>1, <1>2 DEF Serial, RowsDue, Doing
<1> DEFINE r == Locals("count", o, row, req[Lead].x, {})
<1>5. r.pc = "count" /\ r.o = o
  BY LocalsAre
<1> HIDE DEF r
<1>6. RowsDue(row, rows[o], r, o)
  BY <1>3, <1>4, <1>5 DEF RowsDue, Doing
<1>7. HeldIn(r, row, o) = NoVA /\ HeldOn(o) = NoVA
  BY <1>1, <1>2, <1>3, <1>5 DEF HeldIn, HeldOn, Doing
<1>8. req' = [req EXCEPT ![Lead] = r]
  BY <1>1 DEF r
<1>9. Serial' /\ Calm
  BY <1>1, <1>4, <1>5, <1>6, <1>7, <1>8, WriteKeeps
<1> QED BY <1>1, <1>2, <1>3, <1>9

\* The later ones, with the transition of the order that each of them is.
Moving(o, from, to) ==
  \E s : Write(o, s) /\ order[o].status = from /\ s.status = to /\ s.channel = order[o].channel
LEMMA WritingSteps ==
  ASSUME IInv, Serial, NEW p, p = Lead,
         \/ MarkAccepted(p) \/ MarkCancelled(p) \/ MarkPaid(p) \/ MarkSettled(p)
         \/ MarkReceived(p) \/ MarkCompleted(p)
  PROVE  /\ Serial' /\ Calm
         /\ \E o \in OrderIds :
              \/ Moving(o, "pending", "awaiting_payment")
              \/ \E from \in {"pending", "awaiting_payment"} : Moving(o, from, "cancelled")
              \/ Moving(o, "awaiting_payment", "payment_made") /\ order[o].channel = "offline"
              \/ /\ Moving(o, "awaiting_payment", "awaiting_coin_release")
                 /\ order[o].channel = "rhinoxpay_id"
              \/ Moving(o, "payment_made", "awaiting_coin_release")
              \/ Moving(o, "awaiting_coin_release", "completed")
<1> DEFINE q == req[Lead]
           o == q.o
<1>1. /\ UNCHANGED <<ledgers, rows>>
      /\ q.pc \in {"accepted", "cancel", "paid", "settle", "received", "complete"}
  BY DEF MarkAccepted, MarkCancelled, MarkPaid, MarkSettled, MarkReceived, MarkCompleted, At
<1>2. /\ OnStage(q, order[o]) /\ o \in OrderIds /\ order[o] \in OrderRow
      /\ SameDeal(q.row, order[o]) /\ RowsDue(order[o], rows[o], q, o)
      /\ q.pc = "accepted" => q.row.held \in VAs /\ Owner[q.row.held] = Seller(q.row)
      /\ order[o].status = "awaiting_payment" => Backed(order[o])
  <2>1. Established(Lead)
    BY LeadIsRequest DEF IInv, RequestsSound
  <2>2. o \in OrderIds /\ SameDeal(q.row, order[o])
    BY <1>1, <2>1 DEF Established
  <2>3. q.pc = "accepted" => q.row.held \in VAs /\ Owner[q.row.held] = Seller(q.row)
    BY <1>1, <2>1 DEF Established
  <2> QED BY <2>2, <2>3 DEF Serial, IInv, Structure, Evidence
<1>12. order[o] \in OrderRow
  BY <1>2
<1>3. ASSUME NEW s, Write(o, s), SameDeal(order[o], s), s.channel = order[o].channel,
             NEW r, req' = [req EXCEPT ![Lead] = r],
             \/ r.pc = "idle"
             \/ r.pc = "release" /\ r.o = o /\ s.status = "awaiting_coin_release",
             RowsDue(s, rows[o], r, o),
             HeldIn(r, s, o) = HeldOn(o) \/ (HeldIn(r, s, o) = NoVA /\ rows[o].coin = 1),
             s.held = order[o].held \/ (rows[o].coin = 0 /\ rows[o].fiat = 0)
      PROVE  Serial' /\ Calm /\ Moving(o, order[o].status, s.status)
  <2>1. s.amount = order[o].amount
    BY <1>3 DEF SameDeal
  <2>2. Serial' /\ Calm
    BY <1>1, <1>2, <1>3, <2>1, WriteKeeps
  <2> QED BY <1>3, <2>2 DEF Moving
<1>4. Finish(Lead) => req' = [req EXCEPT ![Lead] = Idle] /\ Idle.pc = "idle"
  BY DEF Finish, Idle, Locals
<1>5. Goto(Lead, "release") =>
        \E r : req' = [req EXCEPT ![Lead] = r] /\ r.pc = "release" /\ r.o = o
  BY GoesOn DEF Goto
<1>6. CASE MarkAccepted(p)
  <2> DEFINE va == q.row.held
             s == [order[o] EXCEPT !.status = "awaiting_payment", !.accepted = TRUE,
                                   !.overdue = FALSE, !.held = va]
  <2>1. Write(o, s) /\ q.pc = "accepted" /\ Finish(Lead)
    BY <1>6 DEF MarkAccepted, At
  <2>8. va \in VAs
    BY <1>2, <2>1
  <2>2. SameDeal(order[o], s) /\ s.channel = order[o].channel
        /\ s.status = "awaiting_payment" /\ s.accepted /\ s.held = va
    BY <1>12, <2>8, AcceptedRow, Zenon
  <2>3. s.status = "awaiting_payment" /\ s.accepted /\ s.held = va
    BY <2>2
  <2> HIDE DEF s, va
  <2>4. order[o].status = "pending"
    BY <1>2, <2>1 DEF OnStage
  <2>5. /\ RowsDue(s, rows[o], Idle, o) /\ rows[o].coin = 0 /\ rows[o].fiat = 0
    BY <1>2, <1>4, <2>1, <2>2, <2>3, <2>4 DEF RowsDue, Doing, SameDeal
  <2>6. HeldIn(Idle, s, o) = HeldOn(o)
    <3>1. Seller(s) = Seller(q.row)
      BY <1>2, <2>2, SameParties
    <3>2. SellerVA(s) = va
      BY <1>2, <2>1, <2>3, <3>1 DEF SellerVA, AccountsOf, va
    <3> QED BY <1>4, <2>1, <2>3, <3>2 DEF HeldIn, HeldOn, Doing, va
  <2>7. Serial' /\ Calm /\ Moving(o, "pending", "awaiting_payment")
    BY <1>3, <1>4, <2>1, <2>2, <2>3, <2>4, <2>5, <2>6
  <2> QED BY <1>2, <2>7
<1>7. CASE MarkCancelled(p)
  <2> DEFINE s == [order[o] EXCEPT !.status = "cancelled"]
  <2>1. Write(o, s) /\ q.pc = "cancel" /\ Finish(Lead)
    BY <1>7 DEF MarkCancelled, At
  <2>2. SameDeal(order[o], s) /\ s.channel = order[o].channel /\ s.held = order[o].held
        /\ s.status = "cancelled"
    BY <1>12, CancelledRow, Zenon
  <2>3. s.status = "cancelled"
    BY <2>2
  <2> HIDE DEF s
  <2>4. order[o].status \in {"pending", "awaiting_payment"}
    BY <1>2, <2>1 DEF OnStage
  <2>5. RowsDue(s, rows[o], Idle, o)
    BY <1>2, <1>4, <2>1, <2>2, <2>3, <2>4 DEF RowsDue, Doing, SameDeal
  <2>6. HeldIn(Idle, s, o) = HeldOn(o)
    BY <1>4, <2>1, <2>3 DEF HeldIn, HeldOn, Doing
  <2>7. Serial' /\ Calm /\ Moving(o, order[o].status, "cancelled")
    BY <1>3, <1>4, <2>1, <2>2, <2>3, <2>5, <2>6
  <2> QED BY <1>2, <2>4, <2>7
<1>8. CASE MarkPaid(p)
  <2> DEFINE s == [order[o] EXCEPT !.status = "payment_made", !.confirmed = TRUE]
  <2>1. Write(o, s) /\ q.pc = "paid" /\ Finish(Lead)
    BY <1>8 DEF MarkPaid, At
  <2>2. SameDeal(order[o], s) /\ s.channel = order[o].channel /\ s.held = order[o].held
        /\ s.status = "payment_made"
    BY <1>12, PaidRow, Zenon
  <2>3. s.status = "payment_made"
    BY <2>2
  <2> HIDE DEF s
  <2>4. order[o].status = "awaiting_payment" /\ order[o].channel = "offline"
    BY <1>2, <2>1 DEF OnStage
  <2>5. RowsDue(s, rows[o], Idle, o)
    BY <1>2, <1>4, <2>1, <2>2, <2>3, <2>4 DEF RowsDue, Doing, SameDeal
  <2>6. HeldIn(Idle, s, o) = HeldOn(o)
    <3>1. SellerVA(s) = SellerVA(order[o])
      BY <2>2, KeptAccount
    <3> QED BY <1>4, <2>1, <2>3, <2>4, <3>1 DEF HeldIn, HeldOn, Doing
  <2>7. Serial' /\ Calm /\ Moving(o, "awaiting_payment", "payment_made")
    BY <1>3, <1>4, <2>1, <2>2, <2>3, <2>4, <2>5, <2>6
  <2> QED BY <1>2, <2>4, <2>7
<1>9. CASE MarkSettled(p)
  <2> DEFINE s == [order[o] EXCEPT !.status = "awaiting_coin_release",
                                   !.confirmed = TRUE, !.received = TRUE]
  <2>1. Write(o, s) /\ q.pc = "settle" /\ Goto(Lead, "release")
    BY <1>9 DEF MarkSettled, At
  <2>2. SameDeal(order[o], s) /\ s.channel = order[o].channel /\ s.held = order[o].held
        /\ s.status = "awaiting_coin_release"
    BY <1>12, SettledRow, Zenon
  <2>3. s.status = "awaiting_coin_release"
    BY <2>2
  <2> HIDE DEF s
  <2>4. order[o].status = "awaiting_payment" /\ order[o].channel = "rhinoxpay_id"
    BY <1>2, <2>1 DEF OnStage
  <2>5. PICK r : req' = [req EXCEPT ![Lead] = r] /\ r.pc = "release" /\ r.o = o
    BY <1>5, <2>1
  <2>6. RowsDue(s, rows[o], r, o)
    BY <1>2, <2>1, <2>2, <2>3, <2>4, <2>5 DEF RowsDue, Doing, SameDeal
  <2>7. HeldIn(r, s, o) = HeldOn(o)
    <3>1. SellerVA(s) = SellerVA(order[o])
      BY <2>2, KeptAccount
    <3> QED BY <2>1, <2>3, <2>4, <2>5, <3>1 DEF HeldIn, HeldOn, Doing
  <2>8. Serial' /\ Calm /\ Moving(o, "awaiting_payment", "awaiting_coin_release")
    BY <1>3, <2>1, <2>2, <2>3, <2>4, <2>5, <2>6, <2>7
  <2> QED BY <1>2, <2>4, <2>8
<1>10. CASE MarkReceived(p)
  <2> DEFINE s == [order[o] EXCEPT !.status = "awaiting_coin_release", !.received = TRUE]
  <2>1. Write(o, s) /\ q.pc = "received" /\ Goto(Lead, "release")
    BY <1>10 DEF MarkReceived, At
  <2>2. SameDeal(order[o], s) /\ s.channel = order[o].channel /\ s.held = order[o].held
        /\ s.status = "awaiting_coin_release"
    BY <1>12, ReceivedRow, Zenon
  <2>3. s.status = "awaiting_coin_release"
    BY <2>2
  <2> HIDE DEF s
  <2>4. order[o].status = "payment_made"
    BY <1>2, <2>1 DEF OnStage
  <2>5. PICK r : req' = [req EXCEPT ![Lead] = r] /\ r.pc = "release" /\ r.o = o
    BY <1>5, <2>1
  <2>6. RowsDue(s, rows[o], r, o)
    BY <1>2, <2>1, <2>2, <2>3, <2>4, <2>5 DEF RowsDue, Doing, SameDeal
  <2>7. HeldIn(r, s, o) = HeldOn(o)
    <3>1. SellerVA(s) = SellerVA(order[o])
      BY <2>2, KeptAccount
    <3> QED BY <2>1, <2>3, <2>4, <2>5, <3>1 DEF HeldIn, HeldOn, Doing
  <2>8. Serial' /\ Calm /\ Moving(o, "payment_made", "awaiting_coin_release")
    BY <1>3, <2>1, <2>2, <2>3, <2>4, <2>5, <2>6, <2>7
  <2> QED BY <1>2, <2>8
<1>11. CASE MarkCompleted(p)
  <2> DEFINE s == [order[o] EXCEPT !.status = "completed", !.released = TRUE]
  <2>1. Write(o, s) /\ q.pc = "complete" /\ Finish(Lead)
    BY <1>11 DEF MarkCompleted, At
  <2>2. SameDeal(order[o], s) /\ s.channel = order[o].channel /\ s.held = order[o].held
        /\ s.status = "completed"
    BY <1>12, CompletedRow, Zenon
  <2>3. s.status = "completed"
    BY <2>2
  <2> HIDE DEF s
  <2>4. order[o].status = "awaiting_coin_release"
    BY <1>2, <2>1 DEF OnStage
  <2>5. RowsDue(s, rows[o], Idle, o) /\ rows[o].coin = 1
    BY <1>2, <1>4, <2>1, <2>2, <2>3, <2>4 DEF RowsDue, Doing, SameDeal
  <2>6. HeldIn(Idle, s, o) = NoVA
    BY <1>4, <2>1, <2>3 DEF HeldIn, Doing
  <2>7. Serial' /\ Calm /\ Moving(o, "awaiting_coin_release", "completed")
    BY <1>3, <1>4, <2>1, <2>2, <2>3, <2>4, <2>5, <2>6
  <2> QED BY <1>2, <2>7
<1> QED BY <1>6, <1>7, <1>8, <1>9, <1>10, <1>11

\* A deadline that passes changes nothing that anyone in turn goes by.
LEMMA DeadlineIsCalm ==
  ASSUME IInv, Serial, DeadlinePasses
  PROVE  /\ Serial' /\ Calm
         /\ \A k \in OrderIds : /\ order'[k].status = order[k].status
                                /\ order'[k].channel = order[k].channel
<1> DEFINE q == req[Lead]
<1>1. PICK o \in OrderIds :
        /\ Write(o, [order[o] EXCEPT !.overdue = TRUE]) /\ UNCHANGED <<ledgers, rows, req>>
  BY DEF DeadlinePasses
<1>2. order \in [OrderIds -> OrderRow]
  BY DEF IInv, Structure
<1> DEFINE s == [order[o] EXCEPT !.overdue = TRUE]
<1>3. /\ SameDeal(order[o], s) /\ s.channel = order[o].channel /\ s.status = order[o].status
      /\ s.held = order[o].held
  <2>1. order[o] \in OrderRow
    BY <1>2
  <2> QED BY <2>1, OverdueRow, Zenon
<1>4. Write(o, s)
  BY <1>1
<1> HIDE DEF s
<1>5. ASSUME NEW k \in OrderIds
      PROVE  /\ SameDeal(order[k], order'[k]) /\ order'[k].channel = order[k].channel
             /\ order'[k].status = order[k].status /\ order'[k].held = order[k].held
  BY <1>2, <1>3, <1>4 DEF Write, SameDeal
<1>6. /\ account' = account /\ available' = available /\ wallet' = wallet /\ rows' = rows
      /\ req' = req
  BY <1>1 DEF ledgers
<1>7. req' = [req EXCEPT ![Lead] = q]
  BY <1>6, LeadIsRequest DEF IInv, Structure
<1>8. /\ OnStage(q, order[q.o]) /\ FreezeFigures(q, available) /\ PaymentFigures(q, wallet)
      /\ ReleaseFigures(q, account, available) /\ NoOverdraft
      /\ \A k \in OrderIds : RowsDue(order[k], rows[k], q, k)
  BY DEF Serial
<1>9. q.pc \notin {"idle", "insert"} => q.o \in OrderIds
  BY LeadIsRequest DEF IInv, RequestsSound, Established
<1>10. OnStage(q, order'[q.o])
  <2>1. CASE q.pc \in {"idle", "insert"}
    BY <1>8, <2>1 DEF OnStage
  <2>2. CASE q.pc \notin {"idle", "insert"}
    <3>1. /\ order'[q.o].channel = order[q.o].channel
          /\ order'[q.o].status = order[q.o].status /\ order'[q.o].held = order[q.o].held
      BY <1>5, <1>9, <2>2
    <3> HIDE DEF q
    <3> QED BY <1>8, <3>1 DEF OnStage
  <2> QED BY <2>1, <2>2
<1>11. ASSUME NEW k \in OrderIds PROVE RowsDue(order'[k], rows'[k], q, k)
  <2>1. RowsDue(order[k], rows[k], q, k)
    BY <1>8
  <2> QED BY <1>5, <1>6, <2>1 DEF RowsDue, SameDeal
<1>12. NoOverdraft'
  BY <1>6, <1>8 DEF NoOverdraft
<1>13. Serial'
  BY <1>6, <1>7, <1>8, <1>10, <1>11, <1>12, SerialKept
<1>14. ASSUME NEW k \in OrderIds PROVE HeldOn(k)' = HeldOn(k)
  <2>1. SellerVA(order'[k]) = SellerVA(order[k])
    BY <1>5, KeptAccount
  <2> QED BY <1>5, <1>6, <2>1 DEF HeldOn, HeldIn, Doing
<1>15. Calm
  <2>1. ASSUME NEW k \in OrderIds
        PROVE  /\ order'[k].amount = order[k].amount
               /\ Doing(req'[Lead], "credit", k) <=> Doing(req[Lead], "credit", k)
               /\ Doing(req'[Lead], "creditCoin", k) <=> Doing(req[Lead], "creditCoin", k)
    BY <1>5, <1>6 DEF SameDeal
  <2> QED BY <1>5, <1>6, <1>14, <2>1 DEF Calm, ledgers
<1> QED BY <1>5, <1>13, <1>15

-----------------------------------------------------------------------------
(* The steps in turn that move something                                   *)

\* The request goes from one step to another, with the order and the row it has.
Passes(from, to) ==
  /\ req[Lead].pc = from /\ req'[Lead].pc = to
  /\ req'[Lead].o = req[Lead].o /\ req'[Lead].row = req[Lead].row

\* What such a request knows of its order.
LEMMA LeadKnows ==
  ASSUME IInv, Serial,
         req[Lead].pc \notin {"idle", "insert", "count", "autoAccept"}
  PROVE  LET q == req[Lead]
         IN  /\ q.o \in OrderIds /\ order[q.o] \in OrderRow /\ SameDeal(q.row, order[q.o])
             /\ order[q.o].status # "none"
             /\ OnStage(q, order[q.o]) /\ RowsDue(order[q.o], rows[q.o], q, q.o)
             /\ FreezeFigures(q, available) /\ PaymentFigures(q, wallet)
             /\ ReleaseFigures(q, account, available)
             /\ order[q.o].status = "awaiting_payment" => Backed(order[q.o])
             /\ order[q.o].status = "awaiting_coin_release" => Backed(order[q.o])
             /\ q.pc \in {"allocate", "reread", "freeze", "accepted"} =>
                  q.row.held \in VAs /\ Owner[q.row.held] = Seller(q.row)
<1> DEFINE q == req[Lead]
<1>1. Established(Lead)
  BY LeadIsRequest DEF IInv, RequestsSound
<1>2. /\ q.o \in OrderIds /\ SameDeal(q.row, order[q.o]) /\ order[q.o].status # "none"
      /\ q.pc \in {"allocate", "reread", "freeze", "accepted"} =>
           q.row.held \in VAs /\ Owner[q.row.held] = Seller(q.row)
  BY <1>1 DEF Established
<1>3. /\ order[q.o] \in OrderRow
      /\ order[q.o].status = "awaiting_payment" => Backed(order[q.o])
      /\ order[q.o].status = "awaiting_coin_release" => Backed(order[q.o])
  BY <1>2 DEF IInv, Structure, Evidence, PaidFor
<1>4. /\ OnStage(q, order[q.o]) /\ FreezeFigures(q, available) /\ PaymentFigures(q, wallet)
      /\ ReleaseFigures(q, account, available)
  BY DEF Serial
<1>5. RowsDue(order[q.o], rows[q.o], q, q.o)
  BY <1>2 DEF Serial
<1> QED BY <1>2, <1>3, <1>4, <1>5

\* Serial after a step that moves a balance and leaves the orders and their rows alone.
LEMMA BalanceKeeps ==
  ASSUME IInv, Serial, UNCHANGED <<order, rows>>, NEW step,
         Goto(Lead, step), {req[Lead].pc, step} \cap {"complete", "settle"} = {},
         NEW r, req' = [req EXCEPT ![Lead] = r], r.pc = step, r.o = req[Lead].o,
         r.row = req[Lead].row,
         OnStage(r, order[r.o]), FreezeFigures(r, available'), PaymentFigures(r, wallet'),
         ReleaseFigures(r, account', available'), NoOverdraft'
  PROVE  Serial' /\ Passes(req[Lead].pc, step)
<1>1. ASSUME NEW o \in OrderIds PROVE RowsDue(order'[o], rows'[o], r, o)
  <2>1. RowsDue(order[o], rows[o], req[Lead], o)
    BY DEF Serial
  <2> QED BY <2>1 DEF RowsDue, Doing
<1>2. order' = order
  OBVIOUS
<1>3. Serial' /\ req'[Lead] = r
  BY <1>1, <1>2, SerialKept
<1> QED BY <1>3 DEF Passes

\* The pool gives the account of the order what it lacks, and has as much as before.
LEMMA AllocationKeeps ==
  ASSUME IInv, Numbers, Serial, CommitAllocation(Lead)
  PROVE  /\ Serial' /\ Passes("allocate", "reread")
         /\ \E u \in Users :
              /\ SumFunctionOnSet(available', Family(u))
                   = SumFunctionOnSet(available, Family(u))
              /\ \A va \in VAs \ Family(u) : available'[va] = available[va]
<1> DEFINE q == req[Lead]
           n == q.row.amount
           held == q.row.held
           u == Seller(q.row)
           pool == Family(u)
<1>1. /\ q.pc = "allocate" /\ available' = Apply(q.plan, available) /\ Goto(Lead, "reread")
      /\ UNCHANGED <<order, account, wallet, rows>>
  BY DEF CommitAllocation, At
<1>2. /\ held \in pool /\ available[held] < n /\ n <= SumFunctionOnSet(available, pool)
      /\ q.plan = Plan(available, pool, held, n)
      /\ OnStage(q, order[q.o])
  BY <1>1, LeadKnows DEF FreezeFigures
<1>3. u \in Users /\ n \in Nat /\ available \in [VAs -> Int]
  BY LeadTyped
<1>4. \A va \in VAs : available[va] \in Nat /\ account[va] >= 0
  BY <1>3 DEF Serial, NoOverdraft
<1>5. pool \in SUBSET VAs /\ IsFiniteSet(pool) /\ pool \in SUBSET Nat
  <2>1. pool \in SUBSET VAs
    BY DEF Family, AccountsOf
  <2> QED BY <2>1, AccountAssumption, FS_Subset
<1> HIDE DEF pool, u, n, held
<1>6. Short(pool, available, held, n)
  BY <1>2, <1>3, <1>4, <1>5 DEF Short
<1>7. /\ available'[held] = n
      /\ SumFunctionOnSet(available', pool) = SumFunctionOnSet(available, pool)
      /\ \A va \in pool : available'[va] \in Nat
      /\ \A va \in VAs \ pool : available'[va] = available[va]
  <2>1. pool \subseteq DOMAIN available /\ DOMAIN available = VAs
    BY <1>3, <1>5
  <2>2. available' = Apply(Plan(available, pool, held, n), available)
    BY <1>1, <1>2
  <2> QED BY <1>2, <1>6, <2>1, <2>2, PoolKept
<1>8. NoOverdraft'
  BY <1>1, <1>4, <1>7 DEF Serial, NoOverdraft
<1>9. PICK r : /\ req' = [req EXCEPT ![Lead] = r] /\ r.pc = "reread" /\ r.o = q.o
               /\ r.row = q.row
  BY <1>1, GoesOn DEF Goto
<1>10. /\ OnStage(r, order[r.o]) /\ FreezeFigures(r, available')
       /\ PaymentFigures(r, wallet') /\ ReleaseFigures(r, account', available')
  <2>1. n <= n
    BY <1>3
  <2>2. FreezeFigures(r, available')
    BY <1>7, <1>9, <2>1 DEF FreezeFigures, n, held
  <2> QED BY <1>1, <1>2, <1>9, <2>2 DEF OnStage, PaymentFigures, ReleaseFigures
<1>11. Serial' /\ Passes("allocate", "reread")
  BY <1>1, <1>8, <1>9, <1>10, BalanceKeeps
<1> QED BY <1>3, <1>7, <1>11 DEF pool

\* An acceptance freezes what the account has been read to have.
LEMMA FreezeKeeps ==
  ASSUME IInv, Numbers, Serial, FreezeCrypto(Lead)
  PROVE  /\ Serial' /\ Passes("freeze", "accepted")
         /\ available' = [available EXCEPT ![req[Lead].row.held] =
                            available[req[Lead].row.held] - order[req[Lead].o].amount]
<1> DEFINE q == req[Lead]
           n == q.row.amount
           held == q.row.held
<1>1. /\ q.pc = "freeze" /\ available' = [available EXCEPT ![held] = q.x - n]
      /\ Goto(Lead, "accepted") /\ UNCHANGED <<order, account, wallet, rows>>
  BY DEF FreezeCrypto, At
<1>2. /\ n <= available[held] /\ q.x = available[held] /\ OnStage(q, order[q.o])
      /\ held \in VAs /\ order[q.o].amount = n
  BY <1>1, LeadKnows DEF FreezeFigures, SameDeal
<1>3. n \in Nat /\ available \in [VAs -> Int]
  BY LeadTyped
<1> HIDE DEF n, held
<1>4. NoOverdraft'
  <2>1. available[held] - n >= 0
    BY <1>2, <1>3
  <2> QED BY <1>1, <1>2, <1>3, <2>1 DEF Serial, NoOverdraft
<1>5. PICK r : /\ req' = [req EXCEPT ![Lead] = r] /\ r.pc = "accepted" /\ r.o = q.o
               /\ r.row = q.row
  BY <1>1, GoesOn DEF Goto
<1>6. /\ OnStage(r, order[r.o]) /\ FreezeFigures(r, available')
      /\ PaymentFigures(r, wallet') /\ ReleaseFigures(r, account', available')
  BY <1>1, <1>2, <1>5, NoFigures DEF OnStage
<1>7. Serial' /\ Passes("freeze", "accepted")
  BY <1>1, <1>4, <1>5, <1>6, BalanceKeeps
<1> QED BY <1>1, <1>2, <1>7 DEF n, held

\* A cancellation gives the same amount back, to the account that holds it.
LEMMA UnfreezeKeeps ==
  ASSUME IInv, Numbers, Serial, Unfreeze(Lead)
  PROVE  LET o  == req[Lead].o
             va == SellerVA(order[o])
         IN  /\ Serial' /\ Passes("unfreeze", "cancel") /\ va \in VAs
             /\ available' = [available EXCEPT ![va] = available[va] + order[o].amount]
<1> DEFINE q == req[Lead]
           n == q.row.amount
           va == SellerVA(q.row)
<1>1. /\ q.pc = "unfreeze" /\ available' = [available EXCEPT ![va] = q.x + n]
      /\ Goto(Lead, "cancel") /\ UNCHANGED <<order, account, wallet, rows>>
  BY DEF Unfreeze, At
<1>2. /\ q.x = available[va] /\ OnStage(q, order[q.o]) /\ SameDeal(q.row, order[q.o])
      /\ Backed(order[q.o]) /\ q.row.held = order[q.o].held
      /\ order[q.o].status = "awaiting_payment"
  BY <1>1, LeadKnows DEF FreezeFigures, OnStage
<1>3. va = SellerVA(order[q.o]) /\ va \in VAs
  BY <1>2, BackedAccount
<1>4. n \in Nat /\ available \in [VAs -> Int] /\ order[q.o].amount = n
  BY <1>2, LeadTyped DEF SameDeal
<1> HIDE DEF n, va
<1>5. NoOverdraft'
  <2>1. available[va] >= 0
    BY <1>3 DEF Serial, NoOverdraft
  <2>2. available[va] + n >= 0
    BY <1>3, <1>4, <2>1
  <2> QED BY <1>1, <1>2, <1>3, <1>4, <2>2 DEF Serial, NoOverdraft
<1>6. PICK r : /\ req' = [req EXCEPT ![Lead] = r] /\ r.pc = "cancel" /\ r.o = q.o
               /\ r.row = q.row
  BY <1>1, GoesOn DEF Goto
<1>7. /\ OnStage(r, order[r.o]) /\ FreezeFigures(r, available')
      /\ PaymentFigures(r, wallet') /\ ReleaseFigures(r, account', available')
  BY <1>1, <1>2, <1>6, NoFigures DEF OnStage
<1>8. Serial' /\ Passes("unfreeze", "cancel")
  BY <1>1, <1>5, <1>6, <1>7, BalanceKeeps
<1> QED BY <1>1, <1>2, <1>3, <1>4, <1>8

\* The buyer's wallet pays: it has been read to have enough.
LEMMA DebitKeeps ==
  ASSUME IInv, Numbers, Serial, DebitFiat(Lead)
  PROVE  LET s == order[req[Lead].o]
         IN  /\ Serial' /\ Passes("debit", "credit") /\ Buyer(s) \in Users
             /\ wallet' = [wallet EXCEPT ![Buyer(s)] = wallet[Buyer(s)] - Fiat(s)]
<1> DEFINE q == req[Lead]
           u == Buyer(q.row)
           n == Fiat(q.row)
<1>1. /\ q.pc = "debit" /\ wallet' = [wallet EXCEPT ![u] = q.x - n]
      /\ Goto(Lead, "credit") /\ UNCHANGED <<order, account, available, rows>>
  BY DEF DebitFiat, At
<1>2. /\ q.x = wallet[u] /\ n <= q.x /\ q.y = wallet[Seller(q.row)] /\ OnStage(q, order[q.o])
      /\ SameDeal(q.row, order[q.o])
  BY <1>1, LeadKnows DEF PaymentFigures
<1>3. u \in Users /\ Seller(q.row) \in Users /\ n \in Nat /\ wallet \in [Users -> Int]
  BY LeadTyped
<1>4. Buyer(order[q.o]) = u /\ Fiat(order[q.o]) = n
  BY <1>2, SameParties DEF SameDeal, Fiat
<1> HIDE DEF u, n
<1>5. Seller(order[q.o]) = Seller(q.row)
  BY <1>2, SameParties DEF SameDeal
<1>6. NoOverdraft'
  <2>1. q.x - n >= 0
    BY <1>2, <1>3
  <2> QED BY <1>1, <1>3, <2>1 DEF Serial, NoOverdraft
<1>7. Onward(Lead, "credit", q.x, q.y, q.z)
  BY <1>1 DEF Goto
<1>8. PICK r : /\ req' = [req EXCEPT ![Lead] = r] /\ r.pc = "credit" /\ r.o = q.o
               /\ r.row = q.row /\ r.y = q.y
  BY <1>7, GoesOn
<1>9. PaymentFigures(r, wallet')
  <2>1. wallet[Seller(q.row)]
          = wallet'[Seller(q.row)] + (IF Seller(q.row) = u THEN n ELSE 0)
    BY <1>1, <1>2, <1>3
  <2> QED BY <1>2, <1>8, <2>1 DEF PaymentFigures, Refunded, u, n
<1>10. /\ OnStage(r, order[r.o]) /\ FreezeFigures(r, available')
       /\ ReleaseFigures(r, account', available')
  BY <1>1, <1>2, <1>8 DEF OnStage, FreezeFigures, ReleaseFigures
<1>11. Serial' /\ Passes("debit", "credit")
  BY <1>1, <1>6, <1>8, <1>9, <1>10, BalanceKeeps
<1> QED BY <1>1, <1>2, <1>3, <1>4, <1>11

\* What a row is after one of its numbers has been counted up.
LEMMA CountedUp ==
  ASSUME Numbers, NEW o \in OrderIds
  PROVE  /\ LET k == [rows EXCEPT ![o].fiat = @ + 1]
            IN  /\ k[o].fiat = rows[o].fiat + 1 /\ k[o].coin = rows[o].coin
                /\ \A i \in OrderIds \ {o} : k[i] = rows[i]
         /\ LET k == [rows EXCEPT ![o].coin = @ + 1]
            IN  /\ k[o].coin = rows[o].coin + 1 /\ k[o].fiat = rows[o].fiat
                /\ \A i \in OrderIds \ {o} : k[i] = rows[i]
BY DEF Numbers

\* The seller's wallet is paid, and the order's payment recorded.
LEMMA CreditKeeps ==
  ASSUME IInv, Numbers, Serial, CreditFiat(Lead)
  PROVE  LET o == req[Lead].o
             s == order[o]
         IN  /\ Serial' /\ Passes("credit", "settle") /\ Seller(s) \in Users
             /\ wallet' = [wallet EXCEPT ![Seller(s)] =
                                            wallet[Seller(s)] + Refunded(s) + Fiat(s)]
             /\ rows[o].fiat = 0 /\ rows'[o].fiat = 1 /\ rows'[o].coin = rows[o].coin
             /\ \A k \in OrderIds \ {o} : rows'[k] = rows[k]
<1> DEFINE q == req[Lead]
           o == q.o
           u == Seller(q.row)
           n == Fiat(q.row)
<1>1. /\ q.pc = "credit" /\ wallet' = [wallet EXCEPT ![u] = q.y + n]
      /\ rows' = [rows EXCEPT ![o].fiat = @ + 1]
      /\ Goto(Lead, "settle") /\ UNCHANGED <<order, account, available>>
  BY DEF CreditFiat, At
<1>2. /\ q.y = wallet[u] + Refunded(q.row) /\ OnStage(q, order[o])
      /\ SameDeal(q.row, order[o]) /\ o \in OrderIds /\ RowsDue(order[o], rows[o], q, o)
  BY <1>1, LeadKnows DEF PaymentFigures
<1>3. u \in Users /\ n \in Nat /\ wallet \in [Users -> Int] /\ q.y \in Int
  BY LeadTyped
<1>4. Seller(order[o]) = u /\ Fiat(order[o]) = n /\ Refunded(order[o]) = Refunded(q.row)
  BY <1>2, SameParties DEF SameDeal, Fiat, Refunded
<1>5. /\ rows'[o].fiat = rows[o].fiat + 1 /\ rows'[o].coin = rows[o].coin
      /\ \A k \in OrderIds \ {o} : rows'[k] = rows[k]
  <2> HIDE DEF o
  <2> QED BY <1>1, <1>2, CountedUp
<1>6. rows[o].fiat = 0
  BY <1>1, <1>2 DEF RowsDue, OnStage, Doing
<1> HIDE DEF u, n
<1>7. NoOverdraft'
  <2>1. wallet[u] >= 0 /\ Refunded(q.row) \in Nat
    BY <1>3, LeadTyped DEF Serial, NoOverdraft, Refunded
  <2>2. q.y + n >= 0
    BY <1>2, <1>3, <2>1
  <2> QED BY <1>1, <1>3, <2>2 DEF Serial, NoOverdraft
<1>8. PICK r : req' = [req EXCEPT ![Lead] = r] /\ r.pc = "settle" /\ r.o = o /\ r.row = q.row
  BY <1>1, GoesOn DEF Goto
<1>9. OnStage(r, order[r.o])
  BY <1>1, <1>2, <1>8 DEF OnStage
<1>10. /\ FreezeFigures(r, available') /\ PaymentFigures(r, wallet')
       /\ ReleaseFigures(r, account', available')
  BY <1>8, NoFigures
<1>11. ASSUME NEW k \in OrderIds PROVE RowsDue(order'[k], rows'[k], r, k)
  <2>1. RowsDue(order[k], rows[k], q, k)
    BY DEF Serial
  <2>2. CASE k = o
    <3>1. /\ order'[k] = order[k] /\ rows'[k].fiat = 1 /\ rows'[k].coin = rows[k].coin
          /\ order[k].status = "awaiting_payment" /\ order[k].channel = "rhinoxpay_id"
      BY <1>1, <1>2, <1>5, <1>6, <2>2 DEF OnStage
    <3>2. Doing(r, "settle", k) /\ ~Doing(r, "complete", k) /\ ~Doing(q, "complete", k)
      BY <1>1, <1>8, <2>2 DEF Doing
    <3> HIDE DEF q, o
    <3> QED BY <2>1, <3>1, <3>2 DEF RowsDue
  <2>3. CASE k # o
    BY <1>1, <1>5, <1>8, <2>1, <2>3 DEF RowsDue, Doing
  <2> QED BY <2>2, <2>3
<1>12. OnStage(r, order'[r.o])
  BY <1>1, <1>9
<1>13. Serial' /\ req'[Lead] = r
  BY <1>7, <1>8, <1>10, <1>11, <1>12, SerialKept
<1>14. Passes("credit", "settle")
  BY <1>1, <1>8, <1>13 DEF Passes
<1>15. wallet' = [wallet EXCEPT ![u] = wallet[u] + Refunded(q.row) + n]
  BY <1>1, <1>2
<1> QED BY <1>3, <1>4, <1>5, <1>6, <1>13, <1>14, <1>15

\* The seller's coins go: what was frozen was on the account that recorded it.
LEMMA DebitCoinKeeps ==
  ASSUME IInv, Numbers, Serial, DebitCoin(Lead)
  PROVE  LET s == order[req[Lead].o]
             va == SellerVA(s)
         IN  /\ Serial' /\ Passes("debitCoin", "creditCoin") /\ va \in VAs
             /\ account' = [account EXCEPT ![va] = account[va] - s.amount]
             /\ \A w \in VAs \ {va} : available'[w] = available[w]
<1> DEFINE q == req[Lead]
           va == SellerVA(q.row)
           its == BuyerVA(q.row)
           n == q.row.amount
<1>1. /\ q.pc = "debitCoin" /\ account' = [account EXCEPT ![va] = q.x - n]
      /\ available' = [available EXCEPT ![va] = q.x - n]
      /\ Goto(Lead, "creditCoin") /\ UNCHANGED <<order, wallet, rows>>
  BY DEF DebitCoin, At
<1>2. /\ q.x = account[va] /\ q.y = available[va] /\ n <= q.x - q.y
      /\ its # NoVA /\ q.z = account[its]
      /\ OnStage(q, order[q.o]) /\ SameDeal(q.row, order[q.o]) /\ Backed(order[q.o])
      /\ q.row.held = order[q.o].held
  BY <1>1, LeadKnows DEF ReleaseFigures, OnStage
<1>3. va \in VAs /\ va = SellerVA(order[q.o]) /\ va # NoVA /\ its \in VAs
  BY <1>2, BackedAccount, BuyerVAOwner
<1>4. /\ n \in Nat /\ account \in [VAs -> Int] /\ available \in [VAs -> Int]
      /\ order[q.o].amount = n
  BY <1>2, LeadTyped DEF SameDeal
<1> HIDE DEF n, va, its
<1>5. NoOverdraft'
  <2>1. available[va] >= 0
    BY <1>3 DEF Serial, NoOverdraft
  <2>2. q.x - n >= 0
    BY <1>2, <1>3, <1>4, <2>1
  <2> QED BY <1>1, <1>3, <1>4, <2>2 DEF Serial, NoOverdraft
<1>6. Onward(Lead, "creditCoin", q.x, q.y, q.z)
  BY <1>1 DEF Goto
<1>7. PICK r : /\ req' = [req EXCEPT ![Lead] = r] /\ r.pc = "creditCoin" /\ r.o = q.o
               /\ r.row = q.row /\ r.z = q.z
  BY <1>6, GoesOn
<1>8. ReleaseFigures(r, account', available')
  <2>1. account[its] = account'[its] + (IF va = its THEN n ELSE 0)
    BY <1>1, <1>2, <1>3, <1>4
  <2> QED BY <1>2, <1>3, <1>7, <2>1 DEF ReleaseFigures, Returned, va, its, n
<1>9. /\ OnStage(r, order[r.o]) /\ FreezeFigures(r, available')
      /\ PaymentFigures(r, wallet')
  BY <1>1, <1>2, <1>7 DEF OnStage, FreezeFigures, PaymentFigures
<1>10. Serial' /\ Passes("debitCoin", "creditCoin")
  BY <1>1, <1>5, <1>7, <1>8, <1>9, BalanceKeeps
<1>11. \A w \in VAs \ {va} : available'[w] = available[w]
  BY <1>1, <1>4
<1> QED BY <1>1, <1>2, <1>3, <1>4, <1>10, <1>11

\* The buyer's account gets them, and the order's release is recorded.
LEMMA CreditCoinKeeps ==
  ASSUME IInv, Numbers, Serial, CreditCoin(Lead)
  PROVE  LET o == req[Lead].o
             s == order[o]
             va == BuyerVA(s)
         IN  /\ Serial' /\ Passes("creditCoin", "complete") /\ va \in VAs
             /\ Owner[va] = Buyer(s) /\ SellerVA(s) \in VAs
             /\ account' = [account EXCEPT ![va] = account[va] + Returned(s) + s.amount]
             /\ \A w \in VAs \ {va} : account'[w] = account[w] /\ available'[w] = available[w]
             /\ rows[o].coin = 0 /\ rows'[o].coin = 1 /\ rows'[o].fiat = rows[o].fiat
             /\ \A k \in OrderIds \ {o} : rows'[k] = rows[k]
<1> DEFINE q == req[Lead]
           o == q.o
           va == BuyerVA(q.row)
           n == q.row.amount
<1>1. /\ q.pc = "creditCoin" /\ account' = [account EXCEPT ![va] = q.z + n]
      /\ available' = [available EXCEPT ![va] = q.z + n]
      /\ rows' = [rows EXCEPT ![o].coin = @ + 1]
      /\ Goto(Lead, "complete") /\ UNCHANGED <<order, wallet>>
  BY DEF CreditCoin, At
<1>2. /\ va # NoVA /\ q.z = account[va] + Returned(q.row)
      /\ OnStage(q, order[o]) /\ SameDeal(q.row, order[o]) /\ Backed(order[o])
      /\ q.row.held = order[o].held
      /\ o \in OrderIds /\ RowsDue(order[o], rows[o], q, o)
  BY <1>1, LeadKnows DEF ReleaseFigures, OnStage
<1>3. /\ va \in VAs /\ Owner[va] = Buyer(q.row)
      /\ SellerVA(q.row) = SellerVA(order[o]) /\ SellerVA(order[o]) \in VAs
      /\ BuyerVA(order[o]) = va /\ Buyer(order[o]) = Buyer(q.row)
  BY <1>2, BackedAccount, BuyerVAOwner, KeptAccount, SameParties
<1>4. Returned(order[o]) = Returned(q.row)
  BY <1>2, <1>3 DEF Returned, SameDeal
<1>5. /\ n \in Nat /\ account \in [VAs -> Int] /\ available \in [VAs -> Int]
      /\ order[o].amount = n /\ q.z \in Int
  BY <1>2, LeadTyped DEF SameDeal
<1>6. /\ rows'[o].coin = rows[o].coin + 1 /\ rows'[o].fiat = rows[o].fiat
      /\ \A k \in OrderIds \ {o} : rows'[k] = rows[k]
  <2> HIDE DEF o
  <2> QED BY <1>1, <1>2, CountedUp
<1>7. rows[o].coin = 0
  BY <1>1, <1>2 DEF RowsDue, OnStage, Doing
<1> HIDE DEF n, va
<1>8. NoOverdraft'
  <2>1. account[va] >= 0 /\ Returned(q.row) \in Nat
    BY <1>3, <1>5 DEF Serial, NoOverdraft, Returned, n
  <2>2. q.z + n >= 0
    BY <1>2, <1>3, <1>5, <2>1
  <2> QED BY <1>1, <1>3, <1>5, <2>2 DEF Serial, NoOverdraft
<1>9. PICK r : /\ req' = [req EXCEPT ![Lead] = r] /\ r.pc = "complete" /\ r.o = o
               /\ r.row = q.row
  BY <1>1, GoesOn DEF Goto
<1>10. OnStage(r, order'[r.o])
  BY <1>1, <1>2, <1>9 DEF OnStage
<1>11. /\ FreezeFigures(r, available') /\ PaymentFigures(r, wallet')
       /\ ReleaseFigures(r, account', available')
  BY <1>9, NoFigures
<1>12. ASSUME NEW k \in OrderIds PROVE RowsDue(order'[k], rows'[k], r, k)
  <2>1. RowsDue(order[k], rows[k], q, k)
    BY DEF Serial
  <2>2. CASE k = o
    <3>1. /\ order'[k] = order[k] /\ rows'[k].coin = 1 /\ rows'[k].fiat = rows[k].fiat
          /\ order[k].status = "awaiting_coin_release"
      BY <1>1, <1>2, <1>6, <1>7, <2>2 DEF OnStage
    <3>2. Doing(r, "complete", k)
      BY <1>9, <2>2 DEF Doing
    <3> HIDE DEF q, o
    <3> QED BY <2>1, <3>1, <3>2 DEF RowsDue
  <2>3. CASE k # o
    BY <1>1, <1>6, <1>9, <2>1, <2>3 DEF RowsDue, Doing
  <2> QED BY <2>2, <2>3
<1>13. Serial' /\ req'[Lead] = r
  BY <1>8, <1>9, <1>10, <1>11, <1>12, SerialKept
<1>14. Passes("creditCoin", "complete")
  BY <1>1, <1>9, <1>13 DEF Passes
<1>15. /\ account' = [account EXCEPT ![va] = account[va] + Returned(q.row) + n]
       /\ \A w \in VAs \ {va} : account'[w] = account[w] /\ available'[w] = available[w]
  BY <1>1, <1>2, <1>5
<1> QED BY <1>3, <1>5, <1>6, <1>7, <1>4, <1>13, <1>14, <1>15

\* A step in turn either moves nothing of the books, or is one of seven.
LEMMA TurnSteps ==
  ASSUME IInv, Numbers, Serial, Turn
  PROVE  /\ Serial'
         /\ \/ Calm
            \/ CommitAllocation(Lead) \/ FreezeCrypto(Lead) \/ Unfreeze(Lead)
            \/ DebitFiat(Lead) \/ CreditFiat(Lead) \/ DebitCoin(Lead) \/ CreditCoin(Lead)
<1>1. CASE DeadlinePasses
  BY <1>1, DeadlineIsCalm
<1>2. CASE \/ StartDecline(Lead) \/ StartCancel(Lead) \/ StartExpire(Lead)
           \/ StartConfirm(Lead) \/ StartReceived(Lead) \/ StartAccept(Lead)
           \/ StartRelease(Lead)
  BY <1>2, LoadingSteps
<1>3. CASE SubmitOrder(Lead) \/ CountOrder(Lead)
  BY <1>3, OrderingReads
<1>4. CASE InsertOrder(Lead)
  BY <1>4, InsertKeeps
<1>5. CASE CheckSeller(Lead)
  BY <1>5, CheckKeeps
<1>6. CASE \/ RereadSeller(Lead) \/ ReadFrozen(Lead) \/ ReadBuyerWallet(Lead)
           \/ ReadSellerWallet(Lead) \/ ReadSellerVA(Lead) \/ ReadBuyerVA(Lead)
  BY <1>6, FurtherReads
<1>7. CASE \/ MarkAccepted(Lead) \/ MarkCancelled(Lead) \/ MarkPaid(Lead)
           \/ MarkSettled(Lead) \/ MarkReceived(Lead) \/ MarkCompleted(Lead)
  BY <1>7, WritingSteps
<1>8. CASE CommitAllocation(Lead)
  BY <1>8, AllocationKeeps
<1>9. CASE FreezeCrypto(Lead)
  BY <1>9, FreezeKeeps
<1>10. CASE Unfreeze(Lead)
  BY <1>10, UnfreezeKeeps
<1>11. CASE DebitFiat(Lead)
  BY <1>11, DebitKeeps
<1>12. CASE CreditFiat(Lead)
  BY <1>12, CreditKeeps
<1>13. CASE DebitCoin(Lead)
  BY <1>13, DebitCoinKeeps
<1>14. CASE CreditCoin(Lead)
  BY <1>14, CreditCoinKeeps
<1> QED BY <1>1, <1>2, <1>3, <1>4, <1>5, <1>6, <1>7, <1>8, <1>9, <1>10, <1>11, <1>12, <1>13,
           <1>14 DEF Turn, Begin, Advance

-----------------------------------------------------------------------------
(* What is frozen is what open orders have frozen                          *)

LEMMA PoolTyped ==
  ASSUME NEW u, NEW pool \in Pools(u)
  PROVE  /\ pool \in SUBSET VAs /\ IsFiniteSet(pool) /\ NoVA \notin pool
         /\ \A va \in pool : Owner[va] = u
<1>1. pool \in SUBSET VAs /\ \A va \in pool : Owner[va] = u
  BY DEF Pools, Family, AccountsOf
<1> QED BY <1>1, AccountAssumption, FS_Subset, NoVAOutside

\* What is held is held on an account of the seller's.
LEMMA HeldBySeller ==
  ASSUME IInv, Serial, NEW o \in OrderIds, HeldOn(o) # NoVA
  PROVE  HeldOn(o) \in VAs /\ Owner[HeldOn(o)] = Seller(order[o])
<1>1. CASE Doing(req[Lead], "accepted", o)
  <2>1. req[Lead].pc = "accepted" /\ req[Lead].o = o
    BY <1>1 DEF Doing
  <2>2. /\ req[Lead].row.held \in VAs /\ Owner[req[Lead].row.held] = Seller(req[Lead].row)
        /\ SameDeal(req[Lead].row, order[o])
    BY <2>1, LeadKnows
  <2>3. Seller(req[Lead].row) = Seller(order[o])
    BY <2>2, SameParties
  <2> QED BY <1>1, <2>2, <2>3 DEF HeldOn, HeldIn
<1>2. CASE ~Doing(req[Lead], "accepted", o)
  <2>1. HeldOn(o) = SellerVA(order[o])
    BY <1>2 DEF HeldOn, HeldIn
  <2> QED BY <2>1, SellerVAOwner
<1> QED BY <1>1, <1>2

\* The difference that no step has made.
LEMMA ExactSame ==
  ASSUME NEW pool, IsFiniteSet(pool), NEW whole, NEW free, NEW whole2, NEW free2,
         NEW held, NEW held2, Exact(whole, free, held, pool),
         \A va \in pool : whole2[va] = whole[va] /\ free2[va] = free[va],
         \A o \in OrderIds : held2[o] = held[o]
  PROVE  Exact(whole2, free2, held2, pool)
<1>1. /\ SumFunctionOnSet(whole2, pool) = SumFunctionOnSet(whole, pool)
      /\ SumFunctionOnSet(free2, pool) = SumFunctionOnSet(free, pool)
  BY SumSame
<1>2. SumFunctionOnSet(held2, OrderIds) = SumFunctionOnSet(held, OrderIds)
  BY DataAssumption, SumSame
<1> QED BY <1>1, <1>2 DEF Exact

\* n is frozen on an account of the pool for an order, or given back.
LEMMA ExactMoves ==
  ASSUME NEW pool, IsFiniteSet(pool), NEW whole, \A x \in pool : whole[x] \in Int,
         NEW free, NEW free2, NEW va, NEW m, Rises(pool, free, free2, va, m),
         NEW held, NEW held2, NEW o, NEW n, Rises(OrderIds, held, held2, o, n),
         m + n = 0, Exact(whole, free, held, pool)
  PROVE  Exact(whole, free2, held2, pool)
<1> DEFINE W == SumFunctionOnSet(whole, pool)
           F == SumFunctionOnSet(free, pool)
           H == SumFunctionOnSet(held, OrderIds)
           F2 == SumFunctionOnSet(free2, pool)
           H2 == SumFunctionOnSet(held2, OrderIds)
<1>1. W \in Int
  BY SumType
<1>2. F2 = F + m /\ F \in Int /\ m \in Int
  BY SumOfRise
<1>3. H2 = H + n /\ H \in Int /\ n \in Int
  BY DataAssumption, SumOfRise
<1>4. W - F = H
  BY DEF Exact
<1>5. W - F2 = H2
  <2> HIDE DEF W, F, H, F2, H2
  <2> QED BY <1>1, <1>2, <1>3, <1>4
<1> QED BY <1>5 DEF Exact

LEMMA HoldsTyped ==
  ASSUME IInv, NEW pool
  PROVE  \A o \in OrderIds : /\ Holds(pool)[o] = IF HeldOn(o) \in pool THEN order[o].amount
                                                 ELSE 0
                             /\ Holds(pool)[o] \in Int
<1>1. \A o \in OrderIds : order[o].amount \in Nat
  BY PartiesTyped DEF IInv, Structure
<1> QED BY <1>1 DEF Holds

LEMMA HoldsThen ==
  ASSUME NEW pool
  PROVE  \A o \in OrderIds : Holds(pool)'[o] = IF HeldOn(o)' \in pool THEN order'[o].amount
                                               ELSE 0
BY DEF Holds

\* Calm steps leave it.
LEMMA CalmFreezes ==
  ASSUME IInv, Serial, FreezeBooks, Calm
  PROVE  FreezeBooks'
<1> SUFFICES ASSUME NEW u \in Users, Untouched(u)', NEW pool \in Pools(u)
             PROVE  Exact(account, available, Holds(pool), pool)'
  BY DEF FreezeBooks
<1>1. account' = account /\ available' = available /\ rows' = rows
  BY DEF Calm, ledgers
<1>2. ASSUME NEW o \in OrderIds, u \in {Seller(order[o]), Buyer(order[o])}
      PROVE  rows[o].coin = 0 /\ ~Doing(req[Lead], "creditCoin", o)
  <2>1. CASE SameDeal(order[o], order'[o])
    <3>1. u \in {Seller(order'[o]), Buyer(order'[o])}
      BY <1>2, <2>1, SameParties
    <3>2. rows'[o].coin = 0 /\ ~Doing(req'[Lead], "creditCoin", o)
      BY <3>1 DEF Untouched
    <3> QED BY <1>1, <3>2 DEF Calm
  <2> QED BY <2>1 DEF Calm
<1>3. Untouched(u)
  BY <1>2 DEF Untouched
<1>4. Exact(account, available, Holds(pool), pool)
  BY <1>3 DEF FreezeBooks
<1>5. ASSUME NEW o \in OrderIds PROVE Holds(pool)'[o] = Holds(pool)[o]
  <2>1. /\ Holds(pool)'[o] = IF HeldOn(o)' \in pool THEN order'[o].amount ELSE 0
        /\ Holds(pool)[o] = IF HeldOn(o) \in pool THEN order[o].amount ELSE 0
    BY HoldsThen, HoldsTyped
  <2>2. NoVA \notin pool /\ \A va \in pool : Owner[va] = u
    BY PoolTyped
  <2>3. CASE HeldOn(o)' = HeldOn(o)
    <3>1. HeldOn(o) \in pool => order'[o].amount = order[o].amount
      BY <2>2 DEF Calm
    <3> QED BY <2>1, <2>3, <3>1
  <2>4. CASE HeldOn(o)' = NoVA /\ rows[o].coin = 1
    <3>1. ~(HeldOn(o) \in pool)
      <4> SUFFICES ASSUME HeldOn(o) \in pool PROVE FALSE
        OBVIOUS
      <4>1. Owner[HeldOn(o)] = Seller(order[o])
        BY <2>2, HeldBySeller
      <4>2. u = Seller(order[o])
        BY <2>2, <4>1
      <4> QED BY <1>2, <2>4, <4>2
    <3> QED BY <2>1, <2>2, <2>4, <3>1
  <2> QED BY <2>3, <2>4 DEF Calm
<1>6. Exact(account', available', Holds(pool)', pool)
  BY <1>1, <1>4, <1>5, PoolTyped, ExactSame
<1> QED BY <1>6 DEF Exact

\* An order that a step leaves alone still holds what it held, unless it is just being
\* accepted or cancelled.
LEMMA HeldKept ==
  ASSUME UNCHANGED order, NEW from, NEW to, Passes(from, to), NEW o \in OrderIds,
         o # req[Lead].o \/ {from, to} \cap {"accepted", "cancel"} = {}
  PROVE  HeldOn(o)' = HeldOn(o)
BY DEF Passes, HeldOn, HeldIn, Doing

\* Of the others, those that move nothing on a pool's accounts leave it too.
LEMMA FreezesKept ==
  ASSUME IInv, FreezeBooks, UNCHANGED order, NEW from, NEW to, Passes(from, to),
         {from, to} \cap {"accepted", "cancel"} = {},
         NEW u \in Users, Untouched(u), NEW pool \in Pools(u),
         \A va \in pool : account'[va] = account[va] /\ available'[va] = available[va]
  PROVE  Exact(account', available', Holds(pool)', pool)
<1>1. Exact(account, available, Holds(pool), pool)
  BY DEF FreezeBooks
<1>2. \A o \in OrderIds : Holds(pool)'[o] = Holds(pool)[o]
  BY HeldKept, HoldsThen, HoldsTyped
<1> QED BY <1>1, <1>2, PoolTyped, ExactSame

\* A balance of a pool's total moves within the pool.
LEMMA AllocationFreezes ==
  ASSUME IInv, Numbers, Serial, FreezeBooks, CommitAllocation(Lead)
  PROVE  FreezeBooks'
<1> SUFFICES ASSUME NEW u \in Users, Untouched(u)', NEW pool \in Pools(u)
             PROVE  Exact(account, available, Holds(pool), pool)'
  BY DEF FreezeBooks
<1>1. UNCHANGED <<order, account, rows>> /\ Passes("allocate", "reread")
  BY AllocationKeeps DEF CommitAllocation
<1>2. PICK v \in Users :
        /\ SumFunctionOnSet(available', Family(v)) = SumFunctionOnSet(available, Family(v))
        /\ \A va \in VAs \ Family(v) : available'[va] = available[va]
  BY AllocationKeeps
<1>3. Untouched(u)
  BY <1>1 DEF Untouched, Passes, Doing
<1>4. CASE pool = Family(v)
  <2>1. Exact(account, available, Holds(pool), pool)
    BY <1>3 DEF FreezeBooks
  <2>2. ASSUME NEW o \in OrderIds PROVE Holds(pool)'[o] = Holds(pool)[o]
    BY <1>1, HeldKept, HoldsThen, HoldsTyped
  <2>3. SumFunctionOnSet(Holds(pool)', OrderIds) = SumFunctionOnSet(Holds(pool), OrderIds)
    BY <2>2, DataAssumption, SumSame
  <2> QED BY <1>1, <1>2, <1>4, <2>1, <2>3 DEF Exact
<1>5. CASE pool # Family(v)
  <2>1. \A va \in pool : va \in VAs \ Family(v)
    BY <1>5 DEF Pools, Family, AccountsOf
  <2>2. \A va \in pool : account'[va] = account[va] /\ available'[va] = available[va]
    BY <1>1, <1>2, <2>1
  <2>3. Exact(account', available', Holds(pool)', pool)
    BY <1>1, <1>3, <2>2, FreezesKept
  <2> QED BY <2>3 DEF Exact
<1> QED BY <1>4, <1>5

\* What is frozen for an order, or given back, is what it then holds, or no longer holds.
LEMMA FreezingFreezes ==
  ASSUME IInv, Numbers, Serial, FreezeBooks, FreezeCrypto(Lead) \/ Unfreeze(Lead)
  PROVE  FreezeBooks'
<1> SUFFICES ASSUME NEW u \in Users, Untouched(u)', NEW pool \in Pools(u)
             PROVE  Exact(account, available, Holds(pool), pool)'
  BY DEF FreezeBooks
<1> DEFINE q == req[Lead]
<1>1. UNCHANGED <<order, account, rows>> /\ q.pc \in {"freeze", "unfreeze"}
  BY DEF FreezeCrypto, Unfreeze, At
<1>0. PICK o \in OrderIds : o = q.o
  <2>1. q.pc \notin {"idle", "insert", "count", "autoAccept"}
    BY <1>1
  <2> QED BY <2>1, LeadKnows
<1> DEFINE n == order[o].amount
<1>2. OnStage(q, order[o])
  BY <1>0 DEF Serial
<1>3. account \in [VAs -> Int] /\ available \in [VAs -> Int] /\ n \in Nat
  BY LeadTyped, PartiesTyped DEF IInv, Structure
<1>4. \E va \in VAs, m \in Int, k \in Int :
        /\ m + k = 0 /\ available' = [available EXCEPT ![va] = available[va] + m]
        /\ Untouched(u)
        /\ \A i \in OrderIds \ {o} : HeldOn(i)' = HeldOn(i)
        /\ \/ HeldOn(o) = NoVA /\ HeldOn(o)' = va /\ k = n
           \/ HeldOn(o) = va /\ HeldOn(o)' = NoVA /\ k = -n
  <2>1. CASE FreezeCrypto(Lead)
    <3> DEFINE va == q.row.held
    <3>1. /\ Passes("freeze", "accepted") /\ q.pc = "freeze" /\ va \in VAs
          /\ available' = [available EXCEPT ![va] = available[va] - n]
      BY <1>0, <2>1, FreezeKeeps, LeadKnows DEF FreezeCrypto, At
    <3>2. HeldOn(o) = NoVA /\ HeldOn(o)' = va
      BY <1>0, <1>2, <3>1 DEF OnStage, Passes, HeldOn, HeldIn, Doing
    <3>3. \A i \in OrderIds \ {o} : HeldOn(i)' = HeldOn(i)
      BY <1>0, <1>1, <3>1, HeldKept
    <3>4. Untouched(u)
      BY <1>1, <3>1 DEF Untouched, Passes, Doing
    <3> HIDE DEF va, n
    <3>5. -n \in Int /\ -n + n = 0 /\ n \in Int /\ available[va] - n = available[va] + (-n)
      BY <1>3, <3>1
    <3> QED BY <3>1, <3>2, <3>3, <3>4, <3>5
  <2>2. CASE Unfreeze(Lead)
    <3> DEFINE va == SellerVA(order[o])
    <3>1. /\ Passes("unfreeze", "cancel") /\ q.pc = "unfreeze" /\ va \in VAs
          /\ available' = [available EXCEPT ![va] = available[va] + n]
      BY <1>0, <2>2, UnfreezeKeeps DEF Unfreeze, At
    <3>2. HeldOn(o) = va /\ HeldOn(o)' = NoVA
      BY <1>0, <1>1, <1>2, <3>1 DEF OnStage, Passes, HeldOn, HeldIn, Doing
    <3>3. \A i \in OrderIds \ {o} : HeldOn(i)' = HeldOn(i)
      BY <1>0, <1>1, <3>1, HeldKept
    <3>4. Untouched(u)
      BY <1>1, <3>1 DEF Untouched, Passes, Doing
    <3> HIDE DEF va, n
    <3>5. -n \in Int /\ n + (-n) = 0 /\ n \in Int
      BY <1>3
    <3> QED BY <3>1, <3>2, <3>3, <3>4, <3>5
  <2> QED BY <2>1, <2>2
<1>5. PICK va \in VAs, m \in Int, k \in Int :
        /\ m + k = 0 /\ available' = [available EXCEPT ![va] = available[va] + m]
        /\ Untouched(u)
        /\ \A i \in OrderIds \ {o} : HeldOn(i)' = HeldOn(i)
        /\ \/ HeldOn(o) = NoVA /\ HeldOn(o)' = va /\ k = n
           \/ HeldOn(o) = va /\ HeldOn(o)' = NoVA /\ k = -n
  BY <1>4
<1> HIDE DEF n
<1>6. Exact(account, available, Holds(pool), pool)
  BY <1>5 DEF FreezeBooks
<1>7. /\ pool \in SUBSET VAs /\ IsFiniteSet(pool) /\ NoVA \notin pool
      /\ \A i \in OrderIds : Holds(pool)[i] \in Int
  BY PoolTyped, HoldsTyped
<1>8. ASSUME NEW i \in OrderIds \ {o} PROVE Holds(pool)'[i] = Holds(pool)[i]
  BY <1>1, <1>5, HoldsThen, HoldsTyped
<1>9. /\ Holds(pool)[o] = IF HeldOn(o) \in pool THEN n ELSE 0
      /\ Holds(pool)'[o] = IF HeldOn(o)' \in pool THEN n ELSE 0
  <2>1. Holds(pool)[o] = IF HeldOn(o) \in pool THEN order[o].amount ELSE 0
    BY HoldsTyped
  <2>2. Holds(pool)'[o] = IF HeldOn(o)' \in pool THEN order'[o].amount ELSE 0
    BY HoldsThen
  <2> QED BY <1>1, <2>1, <2>2 DEF n
<1>10. CASE va \in pool
  <2>1. Holds(pool)'[o] = Holds(pool)[o] + k
    BY <1>3, <1>5, <1>7, <1>9, <1>10
  <2>2. /\ available'[va] = available[va] + m
        /\ \A x \in pool \ {va} : available'[x] = available[x]
        /\ \A x \in pool : account[x] \in Int
        /\ \A x \in pool : available[x] \in Int
    BY <1>3, <1>5, <1>7
  <2>4. m \in Int /\ k \in Int /\ m + k = 0 /\ o \in OrderIds
    BY <1>0, <1>5
  <2>5. Rises(pool, available, available', va, m)
    BY <1>10, <2>2, <2>4 DEF Rises
  <2>6. Rises(OrderIds, Holds(pool), Holds(pool)', o, k)
    BY <1>7, <1>8, <2>1, <2>4 DEF Rises
  <2>3. Exact(account, available', Holds(pool)', pool)
    BY <1>6, <1>7, <2>2, <2>4, <2>5, <2>6, ExactMoves
  <2> QED BY <1>1, <2>3 DEF Exact
<1>11. CASE va \notin pool
  <2>1. Holds(pool)'[o] = Holds(pool)[o]
    BY <1>5, <1>7, <1>9, <1>11
  <2>2. \A x \in pool : account[x] = account[x] /\ available'[x] = available[x]
    BY <1>3, <1>5, <1>7, <1>11
  <2>3. \A i \in OrderIds : Holds(pool)'[i] = Holds(pool)[i]
    BY <1>8, <2>1
  <2>4. Exact(account, available', Holds(pool)', pool)
    BY <1>6, <1>7, <2>2, <2>3, ExactSame
  <2> QED BY <1>1, <2>4 DEF Exact
<1> QED BY <1>10, <1>11

\* A payment moves no coin, and a release those of its two parties only.
LEMMA PaymentFreezes ==
  ASSUME IInv, Numbers, Serial, FreezeBooks, DebitFiat(Lead) \/ CreditFiat(Lead)
  PROVE  FreezeBooks'
<1> SUFFICES ASSUME NEW u \in Users, Untouched(u)', NEW pool \in Pools(u)
             PROVE  Exact(account, available, Holds(pool), pool)'
  BY DEF FreezeBooks
<1>1. /\ UNCHANGED <<order, account, available>>
      /\ Passes("debit", "credit") \/ Passes("credit", "settle")
  BY DebitKeeps, CreditKeeps DEF DebitFiat, CreditFiat
<1>2. \A o \in OrderIds : rows'[o].coin = rows[o].coin
  BY CreditKeeps DEF DebitFiat
<1>3. Untouched(u)
  BY <1>1, <1>2 DEF Untouched, Passes, Doing
<1>4. Exact(account', available', Holds(pool)', pool)
  BY <1>1, <1>3, FreezesKept
<1> QED BY <1>4 DEF Exact

LEMMA ReleaseFreezes ==
  ASSUME IInv, Numbers, Serial, FreezeBooks, DebitCoin(Lead) \/ CreditCoin(Lead)
  PROVE  FreezeBooks'
<1> SUFFICES ASSUME NEW u \in Users, Untouched(u)', NEW pool \in Pools(u)
             PROVE  Exact(account, available, Holds(pool), pool)'
  BY DEF FreezeBooks
<1>1. UNCHANGED order /\ req[Lead].pc \in {"debitCoin", "creditCoin"}
  BY DEF DebitCoin, CreditCoin, At
<1>2. PICK o \in OrderIds : o = req[Lead].o
  BY <1>1, LeadKnows
<1>3. \A va \in pool : va \in VAs /\ Owner[va] = u
  BY PoolTyped
<1>4. CASE DebitCoin(Lead)
  <2>1. /\ Passes("debitCoin", "creditCoin") /\ SellerVA(order[o]) \in VAs
        /\ SellerVA(order[o]) # NoVA
        /\ account' = [account EXCEPT ![SellerVA(order[o])] =
                         account[SellerVA(order[o])] - order[o].amount]
        /\ \A w \in VAs \ {SellerVA(order[o])} : available'[w] = available[w]
    BY <1>2, <1>4, DebitCoinKeeps, NoVAOutside
  <2>2. UNCHANGED rows
    BY <1>4 DEF DebitCoin
  <2>3. Doing(req'[Lead], "creditCoin", o)
    BY <1>2, <2>1 DEF Passes, Doing
  <2>4. u # Seller(order[o])
    BY <1>1, <1>2, <2>3 DEF Untouched
  <2>5. SellerVA(order[o]) \notin pool
    BY <1>3, <2>1, <2>4, SellerVAOwner
  <2>6. Untouched(u)
    BY <1>1, <2>1, <2>2 DEF Untouched, Passes, Doing
  <2>7. account \in [VAs -> Int]
    BY LeadTyped
  <2>8. \A va \in pool : account'[va] = account[va] /\ available'[va] = available[va]
    BY <1>3, <2>1, <2>5, <2>7
  <2>9. Exact(account', available', Holds(pool)', pool)
    BY <1>1, <2>1, <2>6, <2>8, FreezesKept
  <2> QED BY <2>9 DEF Exact
<1>5. CASE CreditCoin(Lead)
  <2>1. /\ Passes("creditCoin", "complete") /\ Owner[BuyerVA(order[o])] = Buyer(order[o])
        /\ \A w \in VAs \ {BuyerVA(order[o])} :
             account'[w] = account[w] /\ available'[w] = available[w]
        /\ rows'[o].coin = 1 /\ \A k \in OrderIds \ {o} : rows'[k] = rows[k]
    BY <1>2, <1>5, CreditCoinKeeps
  <2>2. u # Seller(order[o]) /\ u # Buyer(order[o])
    BY <1>1, <1>2, <2>1 DEF Untouched
  <2>3. Untouched(u)
    <3>1. ASSUME NEW k \in OrderIds, u \in {Seller(order[k]), Buyer(order[k])}
          PROVE  rows[k].coin = 0 /\ ~Doing(req[Lead], "creditCoin", k)
      <4>1. k # o
        BY <2>2, <3>1
      <4>2. rows'[k].coin = 0
        BY <1>1, <3>1 DEF Untouched
      <4> QED BY <1>2, <2>1, <4>1, <4>2 DEF Doing
    <3> QED BY <3>1 DEF Untouched
  <2>4. \A va \in pool : account'[va] = account[va] /\ available'[va] = available[va]
    BY <1>3, <2>1, <2>2
  <2>5. Exact(account', available', Holds(pool)', pool)
    BY <1>1, <2>1, <2>3, <2>4, FreezesKept
  <2> QED BY <2>5 DEF Exact
<1> QED BY <1>4, <1>5

LEMMA TurnFreezes ==
  ASSUME IInv, Numbers, Serial, FreezeBooks, Turn
  PROVE  FreezeBooks'
BY TurnSteps, CalmFreezes, AllocationFreezes, FreezingFreezes, PaymentFreezes, ReleaseFreezes

-----------------------------------------------------------------------------
(* The books are what the orders moved                                     *)

LEMMA MovesTyped ==
  ASSUME IInv, NEW o \in OrderIds, NEW u
  PROVE  MoneyOf(o, u) \in Int /\ CoinOf(o, u) \in Int
<1>1. Fiat(order[o]) \in Nat /\ order[o].amount \in Nat
  BY PartiesTyped DEF IInv, Structure
<1>2. MoneyOf(o, u) \in Int
  BY <1>1 DEF MoneyOf
<1>3. CoinOf(o, u) \in Int
  BY <1>1 DEF CoinOf
<1> QED BY <1>2, <1>3

\* What a step has moved for order o, in the books and for the order alike.
Posts(o) ==
  /\ \A u \in Users : \E n \in Int :
       /\ wallet'[u] = wallet[u] + n /\ MoneyOf(o, u)' = MoneyOf(o, u) + n
       /\ \A k \in OrderIds \ {o} : MoneyOf(k, u)' = MoneyOf(k, u)
  /\ \A va \in VAs : \E n \in Int :
       /\ account'[va] = account[va] + n /\ CoinOf(o, va)' = CoinOf(o, va) + n
       /\ \A k \in OrderIds \ {o} : CoinOf(k, va)' = CoinOf(k, va)

LEMMA PostsKeep ==
  ASSUME IInv, Numbers, PartyBooks, NEW o \in OrderIds, Posts(o)
  PROVE  PartyBooks'
<1>1. ASSUME NEW u \in Users
      PROVE  wallet'[u] = InitWallet[u] + SumFunctionOnSet(Moneys(u)', OrderIds)
  <2>1. PICK n \in Int :
          /\ wallet'[u] = wallet[u] + n /\ MoneyOf(o, u)' = MoneyOf(o, u) + n
          /\ \A k \in OrderIds \ {o} : MoneyOf(k, u)' = MoneyOf(k, u)
    BY DEF Posts
  <2>2. /\ \A k \in OrderIds : Moneys(u)[k] = MoneyOf(k, u) /\ Moneys(u)[k] \in Int
        /\ \A k \in OrderIds : Moneys(u)'[k] = MoneyOf(k, u)'
    BY MovesTyped DEF Moneys
  <2>3. Rises(OrderIds, Moneys(u), Moneys(u)', o, n)
    BY <2>1, <2>2 DEF Rises
  <2>4. wallet[u] = InitWallet[u] + SumFunctionOnSet(Moneys(u), OrderIds)
    BY DEF PartyBooks
  <2>5. InitWallet[u] \in Int /\ wallet'[u] = wallet[u] + n
    BY <2>1, DataAssumption
  <2>6. Posted(OrderIds, wallet[u], wallet'[u], InitWallet[u], Moneys(u), Moneys(u)', o, n)
    BY <2>3, <2>4, <2>5 DEF Posted
  <2> QED BY DataAssumption, <2>6, BookMoves
<1>2. ASSUME NEW va \in VAs
      PROVE  account'[va] = InitAccount[va] + SumFunctionOnSet(Coinage(va)', OrderIds)
  <2>1. PICK n \in Int :
          /\ account'[va] = account[va] + n /\ CoinOf(o, va)' = CoinOf(o, va) + n
          /\ \A k \in OrderIds \ {o} : CoinOf(k, va)' = CoinOf(k, va)
    BY DEF Posts
  <2>2. /\ \A k \in OrderIds : Coinage(va)[k] = CoinOf(k, va) /\ Coinage(va)[k] \in Int
        /\ \A k \in OrderIds : Coinage(va)'[k] = CoinOf(k, va)'
    BY MovesTyped DEF Coinage
  <2>3. Rises(OrderIds, Coinage(va), Coinage(va)', o, n)
    BY <2>1, <2>2 DEF Rises
  <2>4. account[va] = InitAccount[va] + SumFunctionOnSet(Coinage(va), OrderIds)
    BY DEF PartyBooks
  <2>5. InitAccount[va] \in Int /\ account'[va] = account[va] + n
    BY <2>1, DataAssumption
  <2>6. Posted(OrderIds, account[va], account'[va], InitAccount[va],
               Coinage(va), Coinage(va)', o, n)
    BY <2>3, <2>4, <2>5 DEF Posted
  <2> QED BY DataAssumption, <2>6, BookMoves
<1> QED BY <1>1, <1>2 DEF PartyBooks

\* Calm steps move nothing, in the books or for an order.
LEMMA CalmBooks ==
  ASSUME IInv, PartyBooks, Calm
  PROVE  PartyBooks'
<1>1. account' = account /\ wallet' = wallet /\ rows' = rows
  BY DEF Calm, ledgers
<1>2. ASSUME NEW o \in OrderIds, NEW u
      PROVE  MoneyOf(o, u)' = MoneyOf(o, u) /\ CoinOf(o, u)' = CoinOf(o, u)
  <2>1. /\ Doing(req'[Lead], "credit", o) <=> Doing(req[Lead], "credit", o)
        /\ Doing(req'[Lead], "creditCoin", o) <=> Doing(req[Lead], "creditCoin", o)
    BY DEF Calm
  <2>2. CASE SameDeal(order[o], order'[o]) /\ order'[o].held = order[o].held
    <3>1. /\ Seller(order'[o]) = Seller(order[o]) /\ Buyer(order'[o]) = Buyer(order[o])
          /\ SellerVA(order'[o]) = SellerVA(order[o]) /\ BuyerVA(order'[o]) = BuyerVA(order[o])
          /\ order'[o].amount = order[o].amount /\ Fiat(order'[o]) = Fiat(order[o])
      BY <2>2, SameParties, KeptAccount DEF SameDeal, Fiat
    <3>2. MoneyOf(o, u)' = MoneyOf(o, u)
      BY <1>1, <2>1, <3>1 DEF MoneyOf, PaysFiat
    <3>3. CoinOf(o, u)' = CoinOf(o, u)
      BY <1>1, <2>1, <3>1 DEF CoinOf, PaysCoin
    <3> QED BY <3>2, <3>3
  <2>3. CASE /\ rows[o].coin = 0 /\ rows[o].fiat = 0
             /\ ~Doing(req[Lead], "credit", o) /\ ~Doing(req[Lead], "creditCoin", o)
    <3>1. MoneyOf(o, u) = 0 - 0 /\ MoneyOf(o, u)' = 0 - 0
      BY <1>1, <2>1, <2>3 DEF MoneyOf
    <3>2. CoinOf(o, u) = 0 - 0 /\ CoinOf(o, u)' = 0 - 0
      BY <1>1, <2>1, <2>3 DEF CoinOf
    <3> QED BY <3>1, <3>2
  <2> QED BY <2>2, <2>3 DEF Calm
<1>3. ASSUME NEW u \in Users
      PROVE  SumFunctionOnSet(Moneys(u)', OrderIds) = SumFunctionOnSet(Moneys(u), OrderIds)
  <2>1. \A o \in OrderIds : Moneys(u)'[o] = Moneys(u)[o]
    BY <1>2 DEF Moneys
  <2> QED BY <2>1, DataAssumption, SumSame
<1>4. ASSUME NEW va \in VAs
      PROVE  SumFunctionOnSet(Coinage(va)', OrderIds) = SumFunctionOnSet(Coinage(va), OrderIds)
  <2>1. \A o \in OrderIds : Coinage(va)'[o] = Coinage(va)[o]
    BY <1>2 DEF Coinage
  <2> QED BY <2>1, DataAssumption, SumSame
<1>5. \A u \in Users : wallet'[u] = InitWallet[u] + SumFunctionOnSet(Moneys(u)', OrderIds)
  BY <1>1, <1>3 DEF PartyBooks
<1>6. \A va \in VAs :
        account'[va] = InitAccount[va] + SumFunctionOnSet(Coinage(va)', OrderIds)
  BY <1>1, <1>4 DEF PartyBooks
<1> QED BY <1>5, <1>6 DEF PartyBooks

\* A step of one order concerns no other.
LEMMA OnlyItsOrder ==
  ASSUME UNCHANGED order, NEW from, NEW to, Passes(from, to), NEW o, o = req[Lead].o,
         \A k \in OrderIds \ {o} : rows'[k] = rows[k]
  PROVE  \A k \in OrderIds \ {o} : \A u :
           MoneyOf(k, u)' = MoneyOf(k, u) /\ CoinOf(k, u)' = CoinOf(k, u)
BY DEF Passes, MoneyOf, CoinOf, PaysFiat, PaysCoin, Doing

\* A step that moves neither.
LEMMA NothingMoves ==
  ASSUME IInv, Numbers, Serial, PartyBooks,
         CommitAllocation(Lead) \/ FreezeCrypto(Lead) \/ Unfreeze(Lead)
  PROVE  PartyBooks'
<1>1. /\ UNCHANGED <<order, account, wallet, rows>>
      /\ \/ Passes("allocate", "reread") \/ Passes("freeze", "accepted")
         \/ Passes("unfreeze", "cancel")
  BY AllocationKeeps, FreezeKeeps, UnfreezeKeeps DEF CommitAllocation, FreezeCrypto, Unfreeze
<1>2. PICK o \in OrderIds : o = req[Lead].o
  <2>1. req[Lead].pc \in {"allocate", "freeze", "unfreeze"}
    BY <1>1 DEF Passes
  <2> QED BY <2>1, LeadKnows
<1>3. ASSUME NEW k \in OrderIds, NEW u
      PROVE  MoneyOf(k, u)' = MoneyOf(k, u) + 0 /\ CoinOf(k, u)' = CoinOf(k, u) + 0
  <2>1. MoneyOf(k, u) \in Int /\ CoinOf(k, u) \in Int
    BY MovesTyped
  <2>2. MoneyOf(k, u)' = MoneyOf(k, u)
    BY <1>1 DEF Passes, MoneyOf, PaysFiat, Doing
  <2>3. CoinOf(k, u)' = CoinOf(k, u)
    BY <1>1 DEF Passes, CoinOf, PaysCoin, Doing
  <2> QED BY <2>1, <2>2, <2>3
<1>4. ASSUME NEW k \in OrderIds, NEW u
      PROVE  MoneyOf(k, u)' = MoneyOf(k, u) /\ CoinOf(k, u)' = CoinOf(k, u)
  BY <1>3, MovesTyped
<1>5. wallet \in [Users -> Int] /\ account \in [VAs -> Int]
  BY LeadTyped
<1>6. /\ \A u \in Users : wallet'[u] = wallet[u] + 0
      /\ \A va \in VAs : account'[va] = account[va] + 0
  BY <1>1, <1>5
<1>7. Posts(o)
  BY <1>3, <1>4, <1>6 DEF Posts
<1> QED BY <1>7, PostsKeep

\* The buyer's wallet pays for the order.
LEMMA DebitBooks ==
  ASSUME IInv, Numbers, Serial, PartyBooks, DebitFiat(Lead)
  PROVE  PartyBooks'
<1>1. UNCHANGED <<order, account, rows>> /\ Passes("debit", "credit")
  BY DebitKeeps DEF DebitFiat
<1>2. PICK o \in OrderIds : o = req[Lead].o
  BY <1>1, LeadKnows DEF Passes
<1> DEFINE s == order[o]
<1>3. /\ Buyer(s) \in Users
      /\ wallet' = [wallet EXCEPT ![Buyer(s)] = wallet[Buyer(s)] - Fiat(s)]
      /\ RowsDue(s, rows[o], req[Lead], o) /\ OnStage(req[Lead], s)
  BY <1>1, <1>2, DebitKeeps, LeadKnows DEF Passes
<1>4. wallet \in [Users -> Int] /\ account \in [VAs -> Int] /\ Fiat(s) \in Nat
  BY LeadTyped, PartiesTyped DEF IInv, Structure
<1>5. rows[o].fiat = 0
  BY <1>1, <1>3 DEF RowsDue, OnStage, Passes, Doing
<1>6. \A k \in OrderIds \ {o} : \A u :
        MoneyOf(k, u)' = MoneyOf(k, u) /\ CoinOf(k, u)' = CoinOf(k, u)
  BY <1>1, <1>2, OnlyItsOrder
<1>7. ASSUME NEW u \in Users
      PROVE  \E n \in Int : wallet'[u] = wallet[u] + n /\ MoneyOf(o, u)' = MoneyOf(o, u) + n
  <2> DEFINE n == IF u = Buyer(s) THEN -Fiat(s) ELSE 0
  <2>1. MoneyOf(o, u) = 0 - 0
    BY <1>1, <1>5 DEF MoneyOf, PaysFiat, Passes, Doing
  <2>2. MoneyOf(o, u)' = 0 - (IF u = Buyer(s) THEN Fiat(s) ELSE 0)
    BY <1>1, <1>2, <1>5 DEF MoneyOf, PaysFiat, Passes, Doing
  <2> HIDE DEF s
  <2>3. n \in Int /\ wallet'[u] = wallet[u] + n /\ MoneyOf(o, u)' = MoneyOf(o, u) + n
    BY <1>3, <1>4, <2>1, <2>2
  <2> HIDE DEF n
  <2> QED BY <2>3
<1>8. ASSUME NEW va \in VAs
      PROVE  account'[va] = account[va] + 0 /\ CoinOf(o, va)' = CoinOf(o, va) + 0
  <2>1. CoinOf(o, va)' = CoinOf(o, va)
    BY <1>1 DEF CoinOf, PaysCoin, Passes, Doing
  <2> QED BY <1>1, <1>4, <2>1, MovesTyped
<1>9. Posts(o)
  BY <1>6, <1>7, <1>8 DEF Posts
<1> QED BY <1>9, PostsKeep

\* The seller's is paid.
LEMMA CreditBooks ==
  ASSUME IInv, Numbers, Serial, PartyBooks, CreditFiat(Lead)
  PROVE  PartyBooks'
<1>1. UNCHANGED <<order, account>> /\ Passes("credit", "settle")
  BY CreditKeeps DEF CreditFiat
<1>2. PICK o \in OrderIds : o = req[Lead].o
  BY <1>1, LeadKnows DEF Passes
<1> DEFINE s == order[o]
<1>3. Refunded(s) = IF Seller(s) = Buyer(s) THEN Fiat(s) ELSE 0
  BY DEF Refunded
<1>4. /\ Seller(s) \in Users
      /\ wallet' = [wallet EXCEPT ![Seller(s)] = wallet[Seller(s)] + Refunded(s) + Fiat(s)]
      /\ rows[o].fiat = 0 /\ rows'[o].fiat = 1 /\ rows'[o].coin = rows[o].coin
      /\ \A k \in OrderIds \ {o} : rows'[k] = rows[k]
  BY <1>2, CreditKeeps
<1>5. wallet \in [Users -> Int] /\ account \in [VAs -> Int] /\ Fiat(s) \in Nat
  BY LeadTyped, PartiesTyped DEF IInv, Structure
<1>6. \A k \in OrderIds \ {o} : \A u :
        MoneyOf(k, u)' = MoneyOf(k, u) /\ CoinOf(k, u)' = CoinOf(k, u)
  BY <1>1, <1>2, <1>4, OnlyItsOrder
<1>7. ASSUME NEW u \in Users
      PROVE  \E n \in Int : wallet'[u] = wallet[u] + n /\ MoneyOf(o, u)' = MoneyOf(o, u) + n
  <2> DEFINE n == IF u = Seller(s) THEN Refunded(s) + Fiat(s) ELSE 0
  <2>1. MoneyOf(o, u) = 0 - (IF u = Buyer(s) THEN Fiat(s) ELSE 0)
    BY <1>1, <1>2, <1>4 DEF MoneyOf, PaysFiat, Passes, Doing
  <2>2. MoneyOf(o, u)' = (IF u = Seller(s) THEN Fiat(s) ELSE 0)
                           - (IF u = Buyer(s) /\ u # Seller(s) THEN Fiat(s) ELSE 0)
    BY <1>1, <1>4 DEF MoneyOf, PaysFiat, Passes, Doing
  <2> HIDE DEF s
  <2>3. n \in Int /\ wallet'[u] = wallet[u] + n /\ MoneyOf(o, u)' = MoneyOf(o, u) + n
    BY <1>3, <1>4, <1>5, <2>1, <2>2
  <2> HIDE DEF n
  <2> QED BY <2>3
<1>8. ASSUME NEW va \in VAs
      PROVE  account'[va] = account[va] + 0 /\ CoinOf(o, va)' = CoinOf(o, va) + 0
  <2>1. CoinOf(o, va)' = CoinOf(o, va)
    BY <1>1, <1>4 DEF CoinOf, PaysCoin, Passes, Doing
  <2> QED BY <1>1, <1>5, <2>1, MovesTyped
<1>9. Posts(o)
  BY <1>6, <1>7, <1>8 DEF Posts
<1> QED BY <1>9, PostsKeep

\* The seller's account gives the order's coins.
LEMMA DebitCoinBooks ==
  ASSUME IInv, Numbers, Serial, PartyBooks, DebitCoin(Lead)
  PROVE  PartyBooks'
<1>1. UNCHANGED <<order, wallet, rows>> /\ Passes("debitCoin", "creditCoin")
  BY DebitCoinKeeps DEF DebitCoin
<1>2. PICK o \in OrderIds : o = req[Lead].o
  BY <1>1, LeadKnows DEF Passes
<1> DEFINE s == order[o]
<1>3. /\ SellerVA(s) \in VAs
      /\ account' = [account EXCEPT ![SellerVA(s)] = account[SellerVA(s)] - s.amount]
      /\ RowsDue(s, rows[o], req[Lead], o) /\ OnStage(req[Lead], s)
  BY <1>1, <1>2, DebitCoinKeeps, LeadKnows DEF Passes
<1>4. wallet \in [Users -> Int] /\ account \in [VAs -> Int] /\ s.amount \in Nat
  BY LeadTyped, PartiesTyped DEF IInv, Structure
<1>5. rows[o].coin = 0
  BY <1>1, <1>3 DEF RowsDue, OnStage, Passes, Doing
<1>6. \A k \in OrderIds \ {o} : \A u :
        MoneyOf(k, u)' = MoneyOf(k, u) /\ CoinOf(k, u)' = CoinOf(k, u)
  BY <1>1, <1>2, OnlyItsOrder
<1>7. ASSUME NEW va \in VAs
      PROVE  \E n \in Int : account'[va] = account[va] + n /\ CoinOf(o, va)' = CoinOf(o, va) + n
  <2> DEFINE n == IF va = SellerVA(s) THEN -s.amount ELSE 0
  <2>1. CoinOf(o, va) = 0 - 0
    BY <1>1, <1>5 DEF CoinOf, PaysCoin, Passes, Doing
  <2>2. CoinOf(o, va)' = 0 - (IF va = SellerVA(s) THEN s.amount ELSE 0)
    BY <1>1, <1>2, <1>5 DEF CoinOf, PaysCoin, Passes, Doing
  <2> HIDE DEF s
  <2>3. n \in Int /\ account'[va] = account[va] + n /\ CoinOf(o, va)' = CoinOf(o, va) + n
    BY <1>3, <1>4, <2>1, <2>2
  <2> HIDE DEF n
  <2> QED BY <2>3
<1>8. ASSUME NEW u \in Users
      PROVE  wallet'[u] = wallet[u] + 0 /\ MoneyOf(o, u)' = MoneyOf(o, u) + 0
  <2>1. MoneyOf(o, u)' = MoneyOf(o, u)
    BY <1>1 DEF MoneyOf, PaysFiat, Passes, Doing
  <2> QED BY <1>1, <1>4, <2>1, MovesTyped
<1>9. Posts(o)
  BY <1>6, <1>7, <1>8 DEF Posts
<1> QED BY <1>9, PostsKeep

\* The buyer's gets them.
LEMMA CreditCoinBooks ==
  ASSUME IInv, Numbers, Serial, PartyBooks, CreditCoin(Lead)
  PROVE  PartyBooks'
<1>1. UNCHANGED <<order, wallet>> /\ Passes("creditCoin", "complete")
  BY CreditCoinKeeps DEF CreditCoin
<1>2. PICK o \in OrderIds : o = req[Lead].o
  BY <1>1, LeadKnows DEF Passes
<1> DEFINE s == order[o]
<1>3. Returned(s) = IF SellerVA(s) = BuyerVA(s) THEN s.amount ELSE 0
  BY DEF Returned
<1>4. /\ BuyerVA(s) \in VAs
      /\ account' = [account EXCEPT ![BuyerVA(s)] =
                                       account[BuyerVA(s)] + Returned(s) + s.amount]
      /\ rows[o].coin = 0 /\ rows'[o].coin = 1 /\ rows'[o].fiat = rows[o].fiat
      /\ \A k \in OrderIds \ {o} : rows'[k] = rows[k]
  BY <1>2, CreditCoinKeeps
<1>5. wallet \in [Users -> Int] /\ account \in [VAs -> Int] /\ s.amount \in Nat
  BY LeadTyped, PartiesTyped DEF IInv, Structure
<1>6. \A k \in OrderIds \ {o} : \A u :
        MoneyOf(k, u)' = MoneyOf(k, u) /\ CoinOf(k, u)' = CoinOf(k, u)
  BY <1>1, <1>2, <1>4, OnlyItsOrder
<1>7. ASSUME NEW va \in VAs
      PROVE  \E n \in Int : account'[va] = account[va] + n /\ CoinOf(o, va)' = CoinOf(o, va) + n
  <2> DEFINE n == IF va = BuyerVA(s) THEN Returned(s) + s.amount ELSE 0
  <2>1. CoinOf(o, va) = 0 - (IF va = SellerVA(s) THEN s.amount ELSE 0)
    BY <1>1, <1>2, <1>4 DEF CoinOf, PaysCoin, Passes, Doing
  <2>2. CoinOf(o, va)' = (IF va = BuyerVA(s) THEN s.amount ELSE 0)
                           - (IF va = SellerVA(s) /\ va # BuyerVA(s) THEN s.amount ELSE 0)
    BY <1>1, <1>4 DEF CoinOf, PaysCoin, Passes, Doing
  <2> HIDE DEF s
  <2>3. n \in Int /\ account'[va] = account[va] + n /\ CoinOf(o, va)' = CoinOf(o, va) + n
    BY <1>3, <1>4, <1>5, <2>1, <2>2
  <2> HIDE DEF n
  <2> QED BY <2>3
<1>8. ASSUME NEW u \in Users
      PROVE  wallet'[u] = wallet[u] + 0 /\ MoneyOf(o, u)' = MoneyOf(o, u) + 0
  <2>1. MoneyOf(o, u)' = MoneyOf(o, u)
    BY <1>1, <1>4 DEF MoneyOf, PaysFiat, Passes, Doing
  <2> QED BY <1>1, <1>5, <2>1, MovesTyped
<1>9. Posts(o)
  BY <1>6, <1>7, <1>8 DEF Posts
<1> QED BY <1>9, PostsKeep

LEMMA TurnBooks ==
  ASSUME IInv, Numbers, Serial, PartyBooks, Turn
  PROVE  PartyBooks'
BY TurnSteps, CalmBooks, NothingMoves, DebitBooks, CreditBooks, DebitCoinBooks, CreditCoinBooks

-----------------------------------------------------------------------------
(* What holds of orders served in turn                                     *)

\* The sum of nothing.
LEMMA SerialAtFirst ==
  ASSUME Init
  PROVE  Serial /\ FreezeBooks /\ PartyBooks
<1>1. /\ \A o \in OrderIds : /\ order[o] = BlankRow /\ rows[o].fiat = 0 /\ rows[o].coin = 0
      /\ \A p \in Requests : req[p] = Idle
      /\ account = InitAccount /\ available = InitAccount /\ wallet = InitWallet
  BY DEF Init
<1>2. BlankRow.status = "none" /\ Idle.pc = "idle"
  BY DEF BlankRow, FreshRow, Idle, Locals
<1>3. req[Lead] = Idle
  BY <1>1, LeadIsRequest
<1>4. Serial
  <2>1. Others
    BY <1>1 DEF Others
  <2>2. OnStage(req[Lead], order[req[Lead].o])
    BY <1>2, <1>3 DEF OnStage
  <2>3. /\ FreezeFigures(req[Lead], available) /\ PaymentFigures(req[Lead], wallet)
        /\ ReleaseFigures(req[Lead], account, available)
    BY <1>2, <1>3, NoFigures
  <2>4. NoOverdraft
    BY <1>1, DataAssumption DEF NoOverdraft
  <2>5. \A o \in OrderIds : RowsDue(order[o], rows[o], req[Lead], o)
    BY <1>1, <1>2, <1>3 DEF RowsDue, Doing
  <2> QED BY <2>1, <2>2, <2>3, <2>4, <2>5 DEF Serial
<1>5. FreezeBooks
  <2>1. ASSUME NEW u \in Users, NEW pool \in Pools(u)
        PROVE  Exact(account, available, Holds(pool), pool)
    <3>1. \A o \in OrderIds : HeldOn(o) = NoVA
      BY <1>1, <1>2, <1>3 DEF HeldOn, HeldIn, Doing
    <3>2. \A o \in OrderIds : Holds(pool)[o] = 0
      BY <3>1, PoolTyped DEF Holds
    <3>3. SumFunctionOnSet(Holds(pool), OrderIds) = 0
      BY <3>2, DataAssumption, SumOfZeros
    <3>4. SumFunctionOnSet(InitAccount, pool) \in Int
      BY PoolTyped, DataAssumption, SumType
    <3> QED BY <1>1, <3>3, <3>4 DEF Exact
  <2> QED BY <2>1 DEF FreezeBooks
<1>6. PartyBooks
  <2>1. ASSUME NEW o \in OrderIds, NEW u PROVE MoneyOf(o, u) = 0 /\ CoinOf(o, u) = 0
    <3>1. ~Doing(req[Lead], "credit", o) /\ ~Doing(req[Lead], "creditCoin", o)
      BY <1>2, <1>3 DEF Doing
    <3> QED BY <1>1, <3>1 DEF MoneyOf, CoinOf
  <2>2. ASSUME NEW u \in Users PROVE SumFunctionOnSet(Moneys(u), OrderIds) = 0
    <3>1. \A o \in OrderIds : Moneys(u)[o] = 0
      BY <2>1 DEF Moneys
    <3> QED BY <3>1, DataAssumption, SumOfZeros
  <2>3. ASSUME NEW va \in VAs PROVE SumFunctionOnSet(Coinage(va), OrderIds) = 0
    <3>1. \A o \in OrderIds : Coinage(va)[o] = 0
      BY <2>1 DEF Coinage
    <3> QED BY <3>1, DataAssumption, SumOfZeros
  <2>4. /\ \A u \in Users : InitWallet[u] \in Nat
        /\ \A va \in VAs : InitAccount[va] \in Nat
    BY DataAssumption
  <2> QED BY <1>1, <2>2, <2>3, <2>4 DEF PartyBooks
<1> QED BY <1>4, <1>5, <1>6

\* When all is quiet, no order is between two of its writes.
LEMMA NothingDoing ==
  ASSUME Quiet
  PROVE  \A o : /\ ~Doing(req[Lead], "complete", o) /\ ~Doing(req[Lead], "settle", o)
                /\ ~Doing(req[Lead], "accepted", o) /\ ~Doing(req[Lead], "cancel", o)
                /\ ~Doing(req[Lead], "credit", o) /\ ~Doing(req[Lead], "creditCoin", o)
<1>1. req[Lead].pc = "idle"
  BY LeadIsRequest DEF Quiet, At
<1> QED BY <1>1 DEF Doing

LEMMA OnceEach ==
  ASSUME Serial
  PROVE  PaidAndReleasedOnce
BY NothingDoing DEF PaidAndReleasedOnce, Serial, RowsDue

LEMMA FrozenExactly ==
  ASSUME IInv, FreezeBooks
  PROVE  FreezeIsExact
<1> SUFFICES ASSUME Quiet, NEW u \in Users,
                    \A o \in OrderIds :
                      u \in {Seller(order[o]), Buyer(order[o])} => rows[o].coin = 0,
                    NEW pool \in Pools(u)
             PROVE  SumFunctionOnSet(account, pool) - SumFunctionOnSet(available, pool)
                      = AmountOf(Frozen(pool))
  BY DEF FreezeIsExact
<1>1. Untouched(u)
  BY NothingDoing DEF Untouched
<1>2. Exact(account, available, Holds(pool), pool)
  BY <1>1 DEF FreezeBooks
<1> DEFINE g == [o \in OrderIds |-> order[o].amount]
           T == Frozen(pool)
           part == [o \in OrderIds |-> IF o \in T THEN g[o] ELSE 0]
<1>3. T \in SUBSET OrderIds /\ \A o \in T : g[o] \in Int
  <2>1. T \in SUBSET OrderIds
    BY DEF Frozen
  <2>2. \A o \in OrderIds : order[o].amount \in Int
    BY PartiesTyped DEF IInv, Structure
  <2> QED BY <2>1, <2>2
<1>4. SumFunctionOnSet(g, T) = SumFunctionOnSet(part, OrderIds)
  <2> HIDE DEF g, T
  <2> QED BY <1>3, DataAssumption, SumOfPart
<1>5. ASSUME NEW o \in OrderIds PROVE Holds(pool)[o] = part[o]
  <2>1. HeldOn(o) = IF order[o].status \in {"awaiting_payment", "payment_made",
                                            "awaiting_coin_release"}
                    THEN SellerVA(order[o]) ELSE NoVA
    BY NothingDoing DEF HeldOn, HeldIn
  <2>2. HeldOn(o) \in pool <=> o \in T
    BY <2>1, PoolTyped DEF Frozen
  <2> HIDE DEF T
  <2> QED BY <2>2 DEF Holds
<1>6. SumFunctionOnSet(Holds(pool), OrderIds) = SumFunctionOnSet(part, OrderIds)
  <2> HIDE DEF part
  <2> QED BY <1>5, DataAssumption, SumSame
<1> QED BY <1>2, <1>4, <1>6 DEF Exact, AmountOf

LEMMA BooksAreBalanced ==
  ASSUME IInv, Numbers, Serial, PartyBooks
  PROVE  BooksBalance
<1> SUFFICES ASSUME Quiet
             PROVE  /\ \A u \in Users :
                         wallet[u] = InitWallet[u]
                           + FiatOf({o \in OrderIds : Seller(order[o]) = u})
                           - FiatOf({o \in OrderIds : PaysFiat(o, u)})
                    /\ \A va \in VAs :
                         account[va] = InitAccount[va]
                           + CryptoOf({o \in OrderIds : rows[o].coin > 0
                                                          /\ BuyerVA(order[o]) = va})
                           - CryptoOf({o \in OrderIds : rows[o].coin > 0 /\ PaysCoin(o, va)})
  BY DEF BooksBalance
<1>1. \A o \in OrderIds : rows[o].fiat \in {0, 1} /\ rows[o].coin \in {0, 1}
  BY DEF Serial, RowsDue
<1>2. \A o \in OrderIds : Fiat(order[o]) \in Nat /\ order[o].amount \in Nat
  BY PartiesTyped DEF IInv, Structure
<1> DEFINE paid == [o \in OrderIds |-> rows[o].fiat * Fiat(order[o])]
           sent == [o \in OrderIds |-> rows[o].coin * order[o].amount]
<1>3. \A o \in OrderIds : /\ paid[o] = (IF rows[o].fiat = 1 THEN Fiat(order[o]) ELSE 0)
                          /\ paid[o] \in Int
  BY <1>1, <1>2
<1>4. \A o \in OrderIds : /\ sent[o] = (IF rows[o].coin = 1 THEN order[o].amount ELSE 0)
                          /\ sent[o] \in Int
  BY <1>1, <1>2
<1>5. \A S : FiatOf(S) = SumFunctionOnSet(paid, S) /\ CryptoOf(S) = SumFunctionOnSet(sent, S)
  BY DEF FiatOf, CryptoOf
<1> HIDE DEF paid, sent
<1>6. ASSUME NEW u \in Users
      PROVE  wallet[u] = InitWallet[u]
               + FiatOf({o \in OrderIds : Seller(order[o]) = u})
               - FiatOf({o \in OrderIds : PaysFiat(o, u)})
  <2> DEFINE A == {o \in OrderIds : Seller(order[o]) = u}
             B == {o \in OrderIds : PaysFiat(o, u)}
  <2>1. ASSUME NEW o \in OrderIds
        PROVE  Moneys(u)[o] = (IF o \in A THEN paid[o] ELSE 0)
                                - (IF o \in B THEN paid[o] ELSE 0)
    BY <1>3, NothingDoing DEF Moneys, MoneyOf
  <2>2. A \in SUBSET OrderIds /\ B \in SUBSET OrderIds
    OBVIOUS
  <2> HIDE DEF A, B
  <2>3. /\ SumFunctionOnSet(paid, A) \in Int /\ SumFunctionOnSet(paid, B) \in Int
        /\ SumFunctionOnSet(Moneys(u), OrderIds)
             = SumFunctionOnSet(paid, A) - SumFunctionOnSet(paid, B)
    <3>1. Splits(OrderIds, Moneys(u), paid, paid, A, B)
      BY <1>3, <2>1 DEF Splits
    <3>2. IsFiniteSet(OrderIds)
      BY DataAssumption
    <3> QED BY <2>2, <3>1, <3>2, SumOfTwo
  <2>4. wallet[u] = InitWallet[u] + SumFunctionOnSet(Moneys(u), OrderIds)
    BY DEF PartyBooks
  <2>5. InitWallet[u] \in Int
    BY DataAssumption
  <2>6. wallet[u] = InitWallet[u] + FiatOf(A) - FiatOf(B)
    BY <1>5, <2>3, <2>4, <2>5
  <2> QED BY <2>6 DEF A, B
<1>7. ASSUME NEW va \in VAs
      PROVE  account[va] = InitAccount[va]
               + CryptoOf({o \in OrderIds : rows[o].coin > 0 /\ BuyerVA(order[o]) = va})
               - CryptoOf({o \in OrderIds : rows[o].coin > 0 /\ PaysCoin(o, va)})
  <2> DEFINE A == {o \in OrderIds : rows[o].coin > 0 /\ BuyerVA(order[o]) = va}
             B == {o \in OrderIds : rows[o].coin > 0 /\ PaysCoin(o, va)}
  <2>1. ASSUME NEW o \in OrderIds
        PROVE  Coinage(va)[o] = (IF o \in A THEN sent[o] ELSE 0)
                                  - (IF o \in B THEN sent[o] ELSE 0)
    <3>1. rows[o].coin = 1 <=> rows[o].coin > 0
      BY <1>1
    <3>2. /\ o \in A <=> (rows[o].coin = 1 /\ BuyerVA(order[o]) = va)
          /\ o \in B <=> (rows[o].coin = 1 /\ PaysCoin(o, va))
      BY <3>1
    <3> HIDE DEF A, B
    <3> QED BY <1>4, <3>2, NothingDoing DEF Coinage, CoinOf
  <2>2. A \in SUBSET OrderIds /\ B \in SUBSET OrderIds
    OBVIOUS
  <2> HIDE DEF A, B
  <2>3. /\ SumFunctionOnSet(sent, A) \in Int /\ SumFunctionOnSet(sent, B) \in Int
        /\ SumFunctionOnSet(Coinage(va), OrderIds)
             = SumFunctionOnSet(sent, A) - SumFunctionOnSet(sent, B)
    <3>1. Splits(OrderIds, Coinage(va), sent, sent, A, B)
      BY <1>4, <2>1 DEF Splits
    <3>2. IsFiniteSet(OrderIds)
      BY DataAssumption
    <3> QED BY <2>2, <3>1, <3>2, SumOfTwo
  <2>4. account[va] = InitAccount[va] + SumFunctionOnSet(Coinage(va), OrderIds)
    BY DEF PartyBooks
  <2>5. InitAccount[va] \in Int
    BY DataAssumption
  <2>6. account[va] = InitAccount[va] + CryptoOf(A) - CryptoOf(B)
    BY <1>5, <2>3, <2>4, <2>5
  <2> QED BY <2>6 DEF A, B
<1> QED BY <1>6, <1>7

\* A step that changes nothing is calm too.
LEMMA StillKeeps ==
  ASSUME IInv, Serial, UNCHANGED vars
  PROVE  Serial' /\ Calm
<1>1. /\ order' = order /\ account' = account /\ available' = available /\ wallet' = wallet
      /\ rows' = rows /\ req' = req
  BY DEF vars, ledgers
<1>2. req' = [req EXCEPT ![Lead] = req[Lead]]
  BY <1>1, LeadIsRequest DEF IInv, Structure
<1>3. /\ OnStage(req[Lead], order'[req[Lead].o]) /\ FreezeFigures(req[Lead], available')
      /\ PaymentFigures(req[Lead], wallet') /\ ReleaseFigures(req[Lead], account', available')
      /\ \A o \in OrderIds : RowsDue(order'[o], rows'[o], req[Lead], o)
  BY <1>1 DEF Serial
<1>4. NoOverdraft'
  BY <1>1 DEF Serial, NoOverdraft
<1>5. Serial'
  BY <1>2, <1>3, <1>4, SerialKept
<1>6. \A o \in OrderIds : HeldOn(o)' = HeldOn(o)
  BY <1>1 DEF HeldOn, HeldIn, Doing
<1>7. Calm
  BY <1>1, <1>6 DEF Calm, ledgers, SameDeal
<1> QED BY <1>5, <1>7

\* The invariant of MCP2PTurn: in turn, nothing that the request has read is
\* stale, and the books hold at every step.
TurnInv ==
  /\ IInv /\ Numbers
  /\ mode = "in turn" => Serial /\ FreezeBooks /\ PartyBooks

everything == <<mode, vars>>

\* A step of OrdersSpec is one of the orders; in turn, of their one request.
LEMMA StepOfModes ==
  ASSUME [OrdersNext]_everything
  PROVE  /\ mode' = mode /\ [Next]_vars
         /\ mode = "in turn" => Turn \/ UNCHANGED vars
<1>1. CASE UNCHANGED everything
  BY <1>1 DEF everything
<1>2. CASE OrdersNext
  <2>1. mode' = mode
    BY <1>2 DEF OrdersNext
  <2>2. CASE mode = "in turn"
    <3>1. Turn
      BY <1>2, <2>2 DEF OrdersNext, InTurn
    <3>2. Next
      BY <3>1, LeadIsRequest DEF Turn, Next
    <3> QED BY <2>1, <3>1, <3>2
  <2>3. CASE mode # "in turn"
    BY <1>2, <2>1, <2>3 DEF OrdersNext, Interleaved
  <2> QED BY <2>2, <2>3
<1> QED BY <1>1, <1>2

LEMMA TurnInvHolds == OrdersSpec => []TurnInv
<1>1. Init => TurnInv
  <2> SUFFICES ASSUME Init PROVE TurnInv
    OBVIOUS
  <2>1. IInv /\ Numbers
    BY InitEstablishes, NumbersAtFirst
  <2> QED BY <2>1, SerialAtFirst DEF TurnInv
<1>2. TurnInv /\ [OrdersNext]_everything => TurnInv'
  <2> SUFFICES ASSUME TurnInv, [OrdersNext]_everything PROVE TurnInv'
    OBVIOUS
  <2>1. /\ mode' = mode /\ [Next]_vars
        /\ mode = "in turn" => Turn \/ UNCHANGED vars
    BY StepOfModes
  <2>2. IInv /\ Numbers
    BY DEF TurnInv
  <2>3. IInv' /\ Numbers'
    BY <2>1, <2>2, NextPreserves, NumbersNext
  <2>4. ASSUME mode = "in turn" PROVE Serial' /\ FreezeBooks' /\ PartyBooks'
    <3>1. Serial /\ FreezeBooks /\ PartyBooks
      BY <2>4 DEF TurnInv
    <3>2. CASE Turn
      BY <2>2, <3>1, <3>2, TurnSteps, TurnFreezes, TurnBooks
    <3>3. CASE UNCHANGED vars
      BY <2>2, <3>1, <3>3, StillKeeps, CalmFreezes, CalmBooks
    <3> QED BY <2>1, <2>4, <3>2, <3>3
  <2> QED BY <2>1, <2>3, <2>4 DEF TurnInv
<1> QED BY <1>1, <1>2, PTL DEF OrdersSpec, everything

\* Whatever the handlers' interleaving may break: served one after the other, requests
\* overdraw no wallet and no account, pay and release each order once or not at all,
\* and freeze exactly the crypto of open orders.
THEOREM InTurnHolds ==
  OrdersSpec => [](mode = "in turn" => NoOverdraft /\ FreezeIsExact /\ PaidAndReleasedOnce)
<1>1. TurnInv => (mode = "in turn" => NoOverdraft /\ FreezeIsExact /\ PaidAndReleasedOnce)
  BY FrozenExactly, OnceEach DEF TurnInv, Serial
<1> QED BY <1>1, TurnInvHolds, PTL

\* And they leave every wallet and every account as the rows of the orders say: what one
\* party of an order is short of is what the other has got, and an order of a vendor on
\* his own ad, which createOrder does not refuse, adds what it should have moved.
THEOREM SerialBooksHold == OrdersSpec => []SerialBooks
<1>1. TurnInv => SerialBooks
  BY FrozenExactly, OnceEach, BooksAreBalanced DEF TurnInv, SerialBooks, Serial
<1> QED BY <1>1, TurnInvHolds, PTL

-----------------------------------------------------------------------------
(* The lifecycle, in turn                                                  *)

\* What P2PLifecycle is told of the orders.
trades == [o \in OrderIds |-> IF mode = "in turn" THEN order[o].status ELSE "none"]
channels == [o \in OrderIds |-> IF mode = "in turn" THEN order[o].channel ELSE "offline"]

\* A step in turn leaves every order's status and channel as they are, or is a transition
\* of one.
LEMMA TurnTransitions ==
  ASSUME IInv, Serial, Turn
  PROVE  \/ \A k \in OrderIds : /\ order'[k].status = order[k].status
                                /\ order'[k].channel = order[k].channel
         \/ \E o \in OrderIds :
              \/ /\ Write(o, req[Lead].row) /\ order[o].status = "none"
                 /\ req[Lead].row.status = "pending" /\ req[Lead].row.channel \in Channels
              \/ Moving(o, "pending", "awaiting_payment")
              \/ \E from \in {"pending", "awaiting_payment"} : Moving(o, from, "cancelled")
              \/ Moving(o, "awaiting_payment", "payment_made") /\ order[o].channel = "offline"
              \/ /\ Moving(o, "awaiting_payment", "awaiting_coin_release")
                 /\ order[o].channel = "rhinoxpay_id"
              \/ Moving(o, "payment_made", "awaiting_coin_release")
              \/ Moving(o, "awaiting_coin_release", "completed")
<1>1. CASE DeadlinePasses
  BY <1>1, DeadlineIsCalm
<1>2. CASE InsertOrder(Lead)
  <2>1. PICK o \in OrderIds : /\ Write(o, req[Lead].row) /\ order[o].status = "none"
                              /\ req[Lead].row.status = "pending"
    BY <1>2, InsertKeeps
  <2>2. req[Lead].row.channel \in Channels
    <3>1. req[Lead].row \in OrderRow
      BY LeadIsRequest DEF IInv, Structure
    <3> QED BY <3>1 DEF OrderRow
  <2> QED BY <2>1, <2>2
<1>3. CASE \/ MarkAccepted(Lead) \/ MarkCancelled(Lead) \/ MarkPaid(Lead)
           \/ MarkSettled(Lead) \/ MarkReceived(Lead) \/ MarkCompleted(Lead)
  BY <1>3, WritingSteps
<1>4. CASE \/ StartDecline(Lead) \/ StartCancel(Lead) \/ StartExpire(Lead)
           \/ StartConfirm(Lead) \/ StartReceived(Lead) \/ StartAccept(Lead)
           \/ StartRelease(Lead) \/ CheckSeller(Lead)
           \/ RereadSeller(Lead) \/ ReadFrozen(Lead) \/ ReadBuyerWallet(Lead)
           \/ ReadSellerWallet(Lead) \/ ReadSellerVA(Lead) \/ ReadBuyerVA(Lead)
  <2>1. order' = order
    BY <1>4, Zenon DEF StartDecline, StartCancel, StartExpire, StartConfirm, StartReceived,
       StartAccept, StartRelease, CheckSeller, RereadSeller, ReadFrozen, ReadBuyerWallet,
       ReadSellerWallet, ReadSellerVA, ReadBuyerVA
  <2> QED BY <2>1
<1>5. CASE \/ SubmitOrder(Lead) \/ CountOrder(Lead)
           \/ CommitAllocation(Lead) \/ FreezeCrypto(Lead) \/ Unfreeze(Lead)
           \/ DebitFiat(Lead) \/ CreditFiat(Lead) \/ DebitCoin(Lead) \/ CreditCoin(Lead)
  <2>1. order' = order
    BY <1>5 DEF SubmitOrder, Submit, CountOrder, CommitAllocation, FreezeCrypto, Unfreeze,
       DebitFiat, CreditFiat, DebitCoin, CreditCoin
  <2> QED BY <2>1
<1> QED BY <1>1, <1>2, <1>3, <1>4, <1>5 DEF Turn, Begin, Advance

\* In turn it is told what the orders are, and otherwise nothing ever.
LEMMA TradesAre ==
  /\ mode = "in turn" => /\ trades = [o \in OrderIds |-> order[o].status]
                         /\ channels = [o \in OrderIds |-> order[o].channel]
  /\ mode # "in turn" => /\ trades = [o \in OrderIds |-> "none"]
                         /\ channels = [o \in OrderIds |-> "offline"]
BY Zenon DEF trades, channels
LEMMA TradesThen ==
  ASSUME mode' = mode
  PROVE  /\ mode = "in turn" => /\ trades' = [o \in OrderIds |-> order'[o].status]
                                /\ channels' = [o \in OrderIds |-> order'[o].channel]
         /\ mode # "in turn" => /\ trades' = [o \in OrderIds |-> "none"]
                                /\ channels' = [o \in OrderIds |-> "offline"]
BY Zenon DEF trades, channels

LEMMA LifecycleSteps ==
  ASSUME TurnInv, [OrdersNext]_everything
  PROVE  [Documented!Next]_<<trades, channels>>
<1>1. /\ mode' = mode
      /\ mode = "in turn" => Turn \/ UNCHANGED vars
  BY StepOfModes
<1>2. /\ IInv /\ order \in [OrderIds -> OrderRow]
      /\ mode = "in turn" => Serial
  BY Zenon DEF TurnInv, IInv, Structure
<1>3. CASE mode # "in turn"
  BY <1>1, <1>3, TradesAre, TradesThen, Zenon
<1>4. CASE mode = "in turn" /\ UNCHANGED vars
  <2>1. order' = order
    BY <1>4, Zenon DEF vars
  <2> QED BY <1>1, <1>4, <2>1, TradesAre, TradesThen, Zenon
<1>5. CASE mode = "in turn" /\ Turn
  <2> DEFINE Told == /\ trades = [o \in OrderIds |-> order[o].status]
                     /\ channels = [o \in OrderIds |-> order[o].channel]
                     /\ trades' = [o \in OrderIds |-> order'[o].status]
                     /\ channels' = [o \in OrderIds |-> order'[o].channel]
  <2>t. Told
    BY <1>1, <1>5, TradesAre, TradesThen, Zenon
  <2>1. CASE \A k \in OrderIds : /\ order'[k].status = order[k].status
                                 /\ order'[k].channel = order[k].channel
    BY <2>t, <2>1
  <2>2. ASSUME NEW o \in OrderIds, NEW s, Write(o, s)
        PROVE  /\ trades[o] = order[o].status /\ channels[o] = order[o].channel
               /\ trades' = [trades EXCEPT ![o] = s.status]
               /\ channels' = [channels EXCEPT ![o] = s.channel]
    BY <2>t, <1>2, <2>2 DEF Write
  <2>3. ASSUME NEW o \in OrderIds, NEW from, NEW to, Moving(o, from, to)
        PROVE  /\ trades[o] = from /\ channels[o] = order[o].channel
               /\ trades' = [trades EXCEPT ![o] = to] /\ channels' = channels
    <3>1. PICK s : /\ Write(o, s) /\ order[o].status = from /\ s.status = to
                   /\ s.channel = order[o].channel
      BY <2>3 DEF Moving
    <3>2. /\ trades[o] = order[o].status /\ channels[o] = order[o].channel
          /\ trades' = [trades EXCEPT ![o] = s.status]
          /\ channels' = [channels EXCEPT ![o] = s.channel]
      BY <3>1, <2>2
    <3>3. [channels EXCEPT ![o] = channels[o]] = channels
      BY <2>t
    <3> QED BY <3>1, <3>2, <3>3
  <2>4. ASSUME NEW o \in OrderIds, Write(o, req[Lead].row), order[o].status = "none",
               req[Lead].row.status = "pending", req[Lead].row.channel \in Channels
        PROVE  Documented!Place(o)
    <3>1. /\ trades[o] = "none" /\ trades' = [trades EXCEPT ![o] = "pending"]
          /\ \E c \in {"offline", "rhinoxpay_id"} : channels' = [channels EXCEPT ![o] = c]
      BY <2>2, <2>4 DEF Channels
    <3> QED BY <3>1, Zenon DEF Documented!Place, Documented!Moves, trades, channels
  <2>5. ASSUME NEW o \in OrderIds, Moving(o, "pending", "awaiting_payment")
        PROVE  Documented!Accept(o)
    BY <2>3, <2>5, Zenon DEF Documented!Accept, Documented!Moves, trades, channels
  <2>6. ASSUME NEW o \in OrderIds, NEW from \in {"pending", "awaiting_payment"},
               Moving(o, from, "cancelled")
        PROVE  Documented!Cancel(o)
    BY <2>3, <2>6, Zenon DEF Documented!Cancel, Documented!Moves, trades, channels
  <2>7. ASSUME NEW o \in OrderIds, Moving(o, "awaiting_payment", "payment_made"),
               order[o].channel = "offline"
        PROVE  Documented!Pay(o)
    BY <2>3, <2>7, Zenon DEF Documented!Pay, Documented!Moves, trades, channels
  <2>8. ASSUME NEW o \in OrderIds, Moving(o, "awaiting_payment", "awaiting_coin_release"),
               order[o].channel = "rhinoxpay_id"
        PROVE  Documented!Settle(o)
    BY <2>3, <2>8, Zenon DEF Documented!Settle, Documented!Moves, trades, channels
  <2>9. ASSUME NEW o \in OrderIds, Moving(o, "payment_made", "awaiting_coin_release")
        PROVE  Documented!Receive(o)
    BY <2>3, <2>9, Zenon DEF Documented!Receive, Documented!Moves, trades, channels
  <2>10. ASSUME NEW o \in OrderIds, Moving(o, "awaiting_coin_release", "completed")
         PROVE  Documented!Complete(o)
    BY <2>3, <2>10, Zenon DEF Documented!Complete, Documented!Moves, trades, channels
  <2>11. CASE Documented!Next
    BY <2>11
  <2> QED BY <1>2, <1>5, <2>1, <2>4, <2>5, <2>6, <2>7, <2>8, <2>9, <2>10, <2>11,
             TurnTransitions DEF Documented!Next
<1> QED BY <1>2, <1>3, <1>4, <1>5, <1>1, Zenon

\* Requests served one after the other implement the documented lifecycle: what a handler
\* does to an order in several writes is one transition of it, and no order leaves its
\* last state.
THEOREM SerialLifecycleHolds == OrdersSpec => SerialLifecycle
<1>1. Init => Documented!Init
  <2> SUFFICES ASSUME Init PROVE Documented!Init
    OBVIOUS
  <2>1. \A o \in OrderIds : order[o].status = "none" /\ order[o].channel = "offline"
    BY DEF Init, BlankRow, FreshRow
  <2> QED BY <2>1 DEF Documented!Init, Documented!Placed, trades, channels
<1>2. TurnInv /\ [OrdersNext]_everything => [Documented!Next]_<<trades, channels>>
  BY LifecycleSteps
<1> QED BY <1>1, <1>2, TurnInvHolds, PTL
        DEF OrdersSpec, SerialLifecycle, Documented!Spec, everything, trades, channels
=============================================================================
