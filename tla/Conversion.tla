----------------------------- MODULE Conversion -----------------------------
(***************************************************************************)
(* A user converts money between two fiat wallets                          *)
(* (modules/conversion), at the rates an administrator keeps               *)
(* (modules/exchange).  A conversion is priced and written when it is      *)
(* initiated, as a debit row and a credit row, and takes effect when it is *)
(* confirmed.                                                              *)
(*                                                                         *)
(* A confirmation reads the rows, then their wallets, and writes each      *)
(* wallet from what it had read, one query after the other and outside of  *)
(* any transaction, while other requests move the same wallets.            *)
(***************************************************************************)
EXTENDS Integers, FiniteSets, FiniteSetsExt

CONSTANTS
  Currencies,
  Conversions,   \* bound: the conversions that may be initiated
  Amounts,       \* bound: what may be converted from each currency
  Rates,         \* bound: the rates an administrator may set, as <<from, to, num, den>>
  MinFees,       \* the least fee in each currency
  Opening,       \* the balances at the start
  Requests,      \* the confirmations and initiations in progress at the same time
  MaxChanges     \* bound: the rare events, which are handlers cut short, changes of a
                 \* rate, and movements of a wallet by other requests

NoConversion == "no conversion"

VARIABLES
  wallet,      \* the currencies the user has a wallet in, and what is free in them (no
               \* request locks part of a fiat wallet)
  rate,        \* exchange_rates: the rows, by their pair of currencies
  row,         \* the two rows of each conversion
  req,         \* the locals of each handler in progress
  elsewhere,   \* history: what other requests added to each wallet
  met,         \* history: a confirmation was cut short, or a wallet moved during one
  changes      \* how many rare events there were

vars == <<wallet, rate, row, req, elsewhere, met, changes>>

Absent == [from |-> "none", to |-> "none", amount |-> 0, worth |-> 0, fee |-> 0,
           debit |-> "none", credit |-> "none"]
\* The locals: the conversion, its rows as read or priced, and the balances as read.
Idle == [pc |-> "idle", conv |-> NoConversion, read |-> Absent, has |-> 0, gets |-> 0]

Init ==
  /\ wallet = Opening
  /\ rate = {}
  /\ row = [k \in Conversions |-> Absent]
  /\ req = [p \in Requests |-> Idle]
  /\ elsewhere = [c \in Currencies |-> 0]
  /\ met = FALSE /\ changes = 0

At(p, step) == req[p].pc = step
Goto(p, step) == req' = [req EXCEPT ![p].pc = step]
Finish(p) == req' = [req EXCEPT ![p] = Idle]
HasWallet(c) == c \in DOMAIN wallet

-----------------------------------------------------------------------------
(* Rates and fees                                                          *)

Direct(from, to) == {r \in rate : r.from = from /\ r.to = to /\ r.active}
\* The row of the pair if it is active, or the inverse of the opposite one.
ExchangeRate(from, to) ==
  IF from = to THEN {<<1, 1>>}
  ELSE IF Direct(from, to) # {} THEN {<<r.num, r.den>> : r \in Direct(from, to)}
  ELSE {<<r.den, r.num>> : r \in Direct(to, from)}

\* A quarter of a percent, or the least fee of the currency.
ConversionFee(worth, c) ==
  IF worth > 400 * MinFees[c] THEN worth \div 400 ELSE MinFees[c]

\* The prices that a conversion may be given.
CalculateConversion(from, to, amount) ==
  {[from |-> from, to |-> to, amount |-> amount,
    worth |-> (amount * q[1]) \div q[2],
    fee |-> ConversionFee((amount * q[1]) \div q[2], to),
    debit |-> "pending", credit |-> "none"] :
     q \in {x \in ExchangeRate(from, to) :
              from # to /\ HasWallet(from) /\ amount <= wallet[from]}}

-----------------------------------------------------------------------------
(* Initiation                                                              *)

InitiateConversion(p, k) ==
  /\ At(p, "idle") /\ row[k] = Absent /\ \A q \in Requests : req[q].conv # k
  /\ \E from, to \in Currencies : \E n \in Amounts[from] :
       \E price \in CalculateConversion(from, to, n) :
         req' = [req EXCEPT ![p] = [Idle EXCEPT !.pc = "wallet", !.conv = k, !.read = price]]
  /\ UNCHANGED <<wallet, row>>
\* The wallet is made if there is none, and the debit row is inserted.
CreateWallet(p) ==
  /\ At(p, "wallet") /\ Goto(p, "insertDebit")
  /\ wallet' = [c \in DOMAIN wallet \cup {req[p].read.to} |->
                  IF HasWallet(c) THEN wallet[c] ELSE 0]
  /\ UNCHANGED row
InsertDebit(p) ==
  /\ At(p, "insertDebit") /\ Goto(p, "insertCredit")
  /\ row' = [row EXCEPT ![req[p].conv] = req[p].read]
  /\ UNCHANGED wallet
InsertCredit(p) ==
  /\ At(p, "insertCredit") /\ Finish(p)
  /\ row' = [row EXCEPT ![req[p].conv].credit = "pending"]
  /\ UNCHANGED wallet

-----------------------------------------------------------------------------
(* Confirmation                                                            *)

\* Both rows are there and pending.
ConfirmConversion(p, k) ==
  /\ At(p, "idle")
  /\ row[k].debit = "pending" /\ row[k].credit = "pending"
  /\ req' = [req EXCEPT ![p] = [Idle EXCEPT !.pc = "load", !.conv = k, !.read = row[k]]]
  /\ UNCHANGED <<wallet, row>>
LoadWallets(p) ==
  /\ At(p, "load")
  /\ req' = [req EXCEPT ![p].pc = "secure", ![p].has = wallet[req[p].read.from],
                        ![p].gets = wallet[req[p].read.to]]
  /\ UNCHANGED <<wallet, row>>
\* The user's PIN and code are good or not, and the balance that was read is enough.
AssertSecurity(p) ==
  /\ At(p, "secure")
  /\ \/ req[p].read.amount <= req[p].has /\ Goto(p, "debitRow")
     \/ Finish(p)
  /\ UNCHANGED <<wallet, row>>
CompleteDebit(p) ==
  /\ At(p, "debitRow") /\ Goto(p, "creditRow")
  /\ row' = [row EXCEPT ![req[p].conv].debit = "completed"]
  /\ UNCHANGED wallet
CompleteCredit(p) ==
  /\ At(p, "creditRow") /\ Goto(p, "debit")
  /\ row' = [row EXCEPT ![req[p].conv].credit = "completed"]
  /\ UNCHANGED wallet
WriteSource(p) ==
  /\ At(p, "debit") /\ Goto(p, "credit")
  /\ wallet' = [wallet EXCEPT ![req[p].read.from] = req[p].has - req[p].read.amount]
  /\ UNCHANGED row
\* Mutant: the fee is not taken.
WriteGross(p) ==
  /\ At(p, "credit") /\ Finish(p)
  /\ wallet' = [wallet EXCEPT ![req[p].read.to] = req[p].gets + req[p].read.worth]
  /\ UNCHANGED row
WriteDestination(p) ==
  /\ At(p, "credit") /\ Finish(p)
  /\ wallet' = [wallet EXCEPT ![req[p].read.to] =
                  req[p].gets + (req[p].read.worth - req[p].read.fee)]
  /\ UNCHANGED row

-----------------------------------------------------------------------------
(* Rates, other requests, and handlers cut short                           *)

Rare == changes < MaxChanges /\ changes' = changes + 1
RowsWithout(from, to) == {r \in rate : ~(r.from = from /\ r.to = to)}
SetExchangeRate(q) ==
  /\ rate' = RowsWithout(q[1], q[2]) \cup
               {[from |-> q[1], to |-> q[2], num |-> q[3], den |-> q[4], active |-> TRUE]}
  /\ IF rate = {} THEN UNCHANGED changes ELSE Rare
DeactivateRate(r) ==
  /\ r.active /\ Rare
  /\ rate' = RowsWithout(r.from, r.to) \cup {[r EXCEPT !.active = FALSE]}
Administration ==
  /\ (\E q \in Rates : SetExchangeRate(q)) \/ (\E r \in rate : DeactivateRate(r))
  /\ UNCHANGED <<wallet, row, req, elsewhere, met>>

Confirming(p) == req[p].pc \in {"load", "secure", "debitRow", "creditRow", "debit", "credit"}
\* Any other request adds to a wallet or takes from it.
MoveElsewhere(c, n) ==
  /\ HasWallet(c) /\ wallet[c] + n >= 0 /\ Rare
  /\ wallet' = [wallet EXCEPT ![c] = @ + n]
  /\ elsewhere' = [elsewhere EXCEPT ![c] = @ + n]
  /\ met' = (met \/ \E p \in Requests : Confirming(p))
  /\ UNCHANGED <<rate, row, req>>
\* A query fails or the server restarts, and the handler ends where it is.
RequestLost(p) ==
  /\ ~At(p, "idle") /\ Rare /\ Finish(p)
  /\ met' = (met \/ Confirming(p))
  /\ UNCHANGED <<wallet, rate, row, elsewhere>>

Step(p) ==
  \/ \E k \in Conversions : InitiateConversion(p, k) \/ ConfirmConversion(p, k)
  \/ CreateWallet(p) \/ InsertDebit(p) \/ InsertCredit(p)
  \/ LoadWallets(p) \/ AssertSecurity(p) \/ CompleteDebit(p) \/ CompleteCredit(p)
  \/ WriteSource(p) \/ WriteDestination(p)
Meet == \E p, q \in Requests : p # q /\ Confirming(p) /\ Confirming(q)

Next ==
  \/ \E p \in Requests : /\ Step(p) /\ met' = (met \/ Meet')
                         /\ UNCHANGED <<rate, elsewhere, changes>>
  \/ \E p \in Requests : RequestLost(p)
  \/ \E c \in Currencies : \E n \in Amounts[c] : MoveElsewhere(c, n) \/ MoveElsewhere(c, -n)
  \/ Administration

Spec == Init /\ [][Next]_vars

-----------------------------------------------------------------------------
(* Properties                                                              *)

\* Every variable has its type.
TypeOK ==
  /\ DOMAIN wallet \subseteq Currencies /\ \A c \in DOMAIN wallet : wallet[c] \in Int
  /\ Cardinality(rate) <= Cardinality(Currencies) * Cardinality(Currencies)
  /\ \A k \in Conversions : /\ row[k].debit \in {"none", "pending", "completed"}
                            /\ row[k].credit \in {"none", "pending", "completed"}
  /\ \A p \in Requests : req[p].conv \in Conversions \cup {NoConversion}

Done == {k \in Conversions : row[k].debit = "completed"}
Taken(c) == MapThenSumSet(LAMBDA k : row[k].amount, {k \in Done : row[k].from = c})
Received(c) ==
  MapThenSumSet(LAMBDA k : row[k].worth - row[k].fee, {k \in Done : row[k].to = c})
Start(c) == IF c \in DOMAIN Opening THEN Opening[c] ELSE 0
\* A conversion worth less than its fee takes from the wallet it goes to.
Shrinks(c) == \E k \in Done : row[k].to = c /\ row[k].worth < row[k].fee

\* With no confirmation under way, both rows of a conversion agree and the wallets hold
\* what was there, less what was converted, more what it was worth less the fee; and no
\* wallet is below zero, but by a conversion worth less than its fee: unless a wallet
\* moved during a confirmation, or one was cut short.
ConversionsBalance ==
  ~met /\ (\A p \in Requests : ~Confirming(p)) =>
    /\ \A k \in Conversions : row[k].debit = "completed" <=> row[k].credit = "completed"
    /\ \A c \in DOMAIN wallet :
         /\ wallet[c] = Start(c) + elsewhere[c] - Taken(c) + Received(c)
         /\ wallet[c] < 0 => Shrinks(c)
=============================================================================
