-------------------------- MODULE BillPaymentProofs --------------------------
(***************************************************************************)
(* TypeOK, Evidence, BooksBalance and GiftOnce hold of bill payments for   *)
(* any number of users, payments, claims and handlers, however they        *)
(* interleave and whichever are lost.  The inductive invariant has four    *)
(* parts: what each handler knows of its payment; what more it knows of    *)
(* one that no other handler met; the wallet, which follows the rows; and, *)
(* for each claim, that one payment at a time is active for it.            *)
(***************************************************************************)
EXTENDS BillPayment, Sums, TLAPS

Local == [pc : Steps, b : BillIds \cup {NoId}, told : Word, should : BOOLEAN,
          seen : Row]
LocalOK(r) ==
  r \in Local /\ (r.pc # "idle" => r.b \in BillIds) /\ (r.pc = "idle" => r.b = NoId)
Typed == TypeOK /\ \A p \in Requests : LocalOK(req[p])

Undoing == {"undo", "undoClaim", "undoRow"}
\* The steps that use what the provider told.
Heeding == {"refund", "answer", "poll", "persist", "park", "read", "lock", "settle",
            "claimEnd", "crumb"}
Confirmed(s) == s.status \notin {"none", "pending"}

\* What a word that ends a payment b says of its order o.
Says(word, b, o) ==
  /\ word = "completed" => o \in IF Asked[b].via = "palmpay" THEN {"completed"} ELSE Taken
  /\ word = "cancelled" => o = "cancelled"
  /\ word = "failed" => o \in {"failed", "lapsed"}

\* What a handler with locals r knows of its payment, whoever it met: from the row s
\* and the order o.
Known(r, s, o) ==
  /\ s.status # "none"
  /\ r.pc # "debit" => Confirmed(s)
  /\ r.pc \in Heeding => r.told # "none" /\ Says(r.told, r.b, o)
  /\ r.pc = "refund" => r.told \in Unpaid
  /\ r.pc = "answer" => r.told \notin Unpaid
  /\ r.pc \in {"refund", "answer"} => Asked[r.b].via = "palmpay"
  /\ r.pc = "undo" => ~IsReward(r.b)
  /\ r.pc \in {"undoClaim", "undoRow", "claimEnd"} => IsReward(r.b)
  /\ r.pc \in {"read", "claimEnd"} => r.told \in Ended
  /\ r.pc \in {"lock", "settle"} /\ Asked[r.b].via # "palmpay" => r.told \in Ended

\* What it knows besides if it met nobody: the row is as it left or read it.
KnownAlone(r, s, o) ==
  /\ r.pc = "debit" => s.status = "pending"
  /\ r.pc \notin {"debit", "claimEnd"} => s.status = "processing"
  /\ r.pc \in {"order"} \cup Undoing => o = "none"
  /\ r.pc \in {"crumb", "settle"} => r.seen = s
  /\ r.pc = "claimEnd" => s.status = r.told

KnownAt(p) ==
  LET b == req[p].b
  IN  /\ Known(req[p], bill[b], order[b])
      /\ b \notin disturbed => KnownAlone(req[p], bill[b], order[b])

\* What b's row s and its order o say of each other.
Sound(b, s, o) ==
  /\ ~Confirmed(s) => o = "none"
  /\ s.status # "failed" => Says(s.status, b, o)
  /\ Asked[b].via = "palmpay" => o \in Word
SoundAlone(b, s, o) ==
  /\ s.status = "failed" => o \in {"none", "failed", "lapsed"}
  /\ s.status = "pending" => ~s.debited /\ ~s.refunded
  /\ s.status = "processing" => s.debited = ~IsReward(b) /\ ~s.refunded
SoundAt(b) ==
  /\ Sound(b, bill[b], order[b])
  /\ b \notin disturbed => SoundAlone(b, bill[b], order[b])

\* Two handlers on one payment have disturbed it.
Met ==
  \A p, q \in Requests :
    p # q /\ req[p].b = req[q].b /\ req[p].b \in BillIds => req[p].b \in disturbed

\* A claim is completed by an order that was taken.
ClaimsServed ==
  \A c \in Claims : claim[c] = "completed" =>
    \E b \in BillIds : Asked[b].claim = c /\ order[b] \in Taken

\* One payment at a time is active for a claim; one that is served or may yet be is,
\* until it has completed the claim, after which none is.
Serving == {"accepted", "completed"}
Active(b) == Served(b) \/ bill[b].status \in Open
GiftSound(c) ==
  LET P == PaymentsOf(c)
  IN  /\ \A x, y \in P : Active(x) /\ Active(y) => x = y
      /\ \A x \in P : order[x] \in Serving => Active(x) \/ claim[c] = "completed"
      /\ \A x \in P : bill[x].status = "completed" => Served(x) \/ claim[c] = "completed"
      /\ claim[c] = "completed" =>
           (\A x \in P : ~Active(x)) /\ \E x \in P : bill[x].status = "completed"
      /\ \A x, y \in P : order[x] \in Serving /\ order[y] \in Serving => x = y
Gifts == \A c \in Claims : disturbed \cap PaymentsOf(c) = {} => GiftSound(c)

Knowledge ==
  /\ Typed
  /\ \A b \in BillIds : SoundAt(b)
  /\ \A p \in Requests : Busy(p) => KnownAt(p)
  /\ Met
  /\ ClaimsServed
IInv == Knowledge /\ BooksBalance /\ Gifts

-----------------------------------------------------------------------------
(* A step of a handler                                                     *)

ClaimStatus == {"none", "pending", "completed", "failed"}

\* The step of p, which is on b or starts on it, leaves it locals r and b the row s
\* and the order o.
Leaves(p, b, r, s, o) ==
  /\ req' = [req EXCEPT ![p] = r] /\ LocalOK(r) /\ r.b \in {b, NoId}
  /\ req[p].b \in {b, NoId} /\ (r.pc = "idle" => req[p].b = b)
  /\ bill' = [bill EXCEPT ![b] = s] /\ s \in Row
  /\ order' = [order EXCEPT ![b] = o] /\ o \in OrderStatus
  /\ wallet' \in [Users -> Int] /\ claim' \in [Claims -> ClaimStatus]
  /\ mishaps' \in 0 .. MaxMishaps
  /\ disturbed \subseteq disturbed' /\ disturbed' \subseteq BillIds

\* It met nobody unless b is disturbed; it takes no confirmation and no order
\* back; and what it leaves is true.
Lawful(p, b, r, s, o) ==
  /\ req[p].b = b \/ b \in disturbed' \/ \A q \in Requests : req[q].b # b
  /\ s.status # "none" /\ (Confirmed(bill[b]) => Confirmed(s))
  /\ order[b] # "none" => o = order[b]
  /\ Sound(b, s, o)
  /\ b \notin disturbed' => SoundAlone(b, s, o)
  /\ r.pc # "idle" => Known(r, s, o)
  /\ r.pc # "idle" /\ b \notin disturbed' => KnownAlone(r, s, o)

\* It takes the amount of b when b begins to count, gives it back when it ceases to,
\* and otherwise leaves the wallets alone.
Counts(b, s) == s.status \in {"processing", "completed"} /\ ~IsReward(b)
Booked(b, s) ==
  \/ (Counts(b, bill[b]) <=> Counts(b, s)) /\ wallet' = wallet
  \/ ~Counts(b, bill[b]) /\ Counts(b, s) /\ Take(b)
  \/ Counts(b, bill[b]) /\ ~Counts(b, s) /\ GiveBack(b)
Bookkeeping(b, s) ==
  /\ Booked(b, s) \/ b \in disturbed'
  /\ \A u \in Users \ {Asked[b].user} : wallet'[u] = wallet[u]

\* Only an order that was taken completes a claim; and once it is done with a gift, the claim is
\* completed exactly if the gift is.
Giving(b, r, s, o) ==
  /\ \A c \in Claims : c # Asked[b].claim => claim'[c] = claim[c]
  /\ IsReward(b) => LET was == claim[Asked[b].claim]
                        now == claim'[Asked[b].claim]
                    IN  /\ Active(b)
                        /\ now = "completed" => was = "completed" \/ o \in Taken
                        /\ r.pc # "idle" => now = was \/ now # "completed"
                        /\ r.pc = "idle" /\ b \notin disturbed' /\ was # "completed" =>
                             \/ s.status \in Open /\ now # "completed"
                             \/ /\ s.status \notin Open
                                /\ now = "completed" <=> s.status = "completed"
                                /\ o \in Serving => s.status = "completed"

LEMMA StepAt ==
  ASSUME Typed, NEW p \in Requests, NEW b \in BillIds, NEW r, NEW s, NEW o,
         Leaves(p, b, r, s, o)
  PROVE  /\ Typed'
         /\ \A q \in Requests : req'[q] = IF q = p THEN r ELSE req[q]
         /\ \A x \in BillIds : bill'[x] = IF x = b THEN s ELSE bill[x]
         /\ \A x \in BillIds : order'[x] = IF x = b THEN o ELSE order[x]
<1>1. \A q \in Requests : req'[q] = IF q = p THEN r ELSE req[q]
  BY DEF Typed, TypeOK, Leaves
<1>2. TypeOK'
  BY DEF Typed, TypeOK, Leaves, LocalOK, Local, ClaimStatus
<1>3. \A q \in Requests : LocalOK(req'[q])
  BY <1>1 DEF Typed, Leaves
<1>4. /\ \A x \in BillIds : bill'[x] = IF x = b THEN s ELSE bill[x]
      /\ \A x \in BillIds : order'[x] = IF x = b THEN o ELSE order[x]
  BY DEF Typed, TypeOK, Leaves
<1> QED BY <1>1, <1>2, <1>3, <1>4 DEF Typed

\* The other handlers keep what they know.
LEMMA KnowledgeStep ==
  ASSUME Knowledge, NEW p \in Requests, NEW b \in BillIds, NEW r, NEW s, NEW o,
         Leaves(p, b, r, s, o), Lawful(p, b, r, s, o), ClaimsServed'
  PROVE  Knowledge'
<1>1. /\ Typed'
      /\ \A q \in Requests : req'[q] = IF q = p THEN r ELSE req[q]
      /\ \A x \in BillIds : bill'[x] = IF x = b THEN s ELSE bill[x]
      /\ \A x \in BillIds : order'[x] = IF x = b THEN o ELSE order[x]
  BY StepAt DEF Knowledge
<1>2. disturbed \subseteq disturbed'
  BY DEF Leaves
<1>3. ASSUME NEW x \in BillIds PROVE SoundAt(x)'
  <2>1. CASE x = b
    BY <1>1, <2>1 DEF Lawful, SoundAt
  <2>2. CASE x # b
    BY <1>1, <1>2, <2>2 DEF Knowledge, SoundAt
  <2> QED BY <2>1, <2>2
<1>4. ASSUME NEW q \in Requests, Busy(q)' PROVE KnownAt(q)'
  <2>1. CASE q = p
    <3>1. r.pc # "idle" /\ r.b = b
      BY <1>1, <1>4, <2>1, AskedAssumption DEF Busy, At, Leaves, LocalOK
    <3> QED BY <1>1, <2>1, <3>1 DEF Lawful, KnownAt
  <2>2. CASE q # p
    <3>1. req'[q] = req[q] /\ req[q].pc # "idle" /\ KnownAt(q) /\ req[q].b \in BillIds
      BY <1>1, <1>4, <2>2 DEF Knowledge, Typed, LocalOK, Busy, At
    <3>2. CASE req[q].b # b
      BY <1>1, <1>2, <3>1, <3>2 DEF KnownAt
    <3>3. CASE req[q].b = b
      <4>1. b \in disturbed'
        BY <1>2, <2>2, <3>3 DEF Lawful, Knowledge, Met
      <4>2. Known(req[q], bill[b], order[b])
        BY <3>1, <3>3 DEF KnownAt
      <4>3. Says(req[q].told, b, order[b]) => Says(req[q].told, b, o)
        BY DEF Lawful, Says, Taken
      <4>4. Known(req[q], s, o)
        BY <3>3, <4>2, <4>3 DEF Lawful, Known
      <4> QED BY <1>1, <3>1, <3>3, <4>1, <4>4 DEF KnownAt
    <3> QED BY <3>2, <3>3
  <2> QED BY <2>1, <2>2
<1>5. Met'
  <2> SUFFICES ASSUME NEW q1 \in Requests, NEW q2 \in Requests, q1 # q2,
                      req'[q1].b = req'[q2].b, req'[q1].b \in BillIds
               PROVE  req'[q1].b \in disturbed'
    BY DEF Met
  <2>1. CASE q1 # p /\ q2 # p
    BY <1>1, <1>2, <2>1 DEF Knowledge, Met
  <2>2. CASE q1 = p
    BY <1>1, <1>2, <2>2, AskedAssumption DEF Knowledge, Met, Leaves, Lawful
  <2>3. CASE q2 = p
    BY <1>1, <1>2, <2>3, AskedAssumption DEF Knowledge, Met, Leaves, Lawful
  <2> QED BY <2>1, <2>2, <2>3
<1> QED BY <1>1, <1>3, <1>4, <1>5 DEF Knowledge

\* The wallets follow the rows.
LEMMA BooksStep ==
  ASSUME Typed, BooksBalance, NEW b \in BillIds, NEW s, Bookkeeping(b, s), bill'[b] = s,
         \A x \in BillIds \ {b} : bill'[x] = bill[x], disturbed \subseteq disturbed'
  PROVE  BooksBalance'
<1> SUFFICES ASSUME NEW u \in Users, disturbed' \cap BillsOf(u) = {}
             PROVE  wallet'[u] = InitWallet[u] - SumFunctionOnSet(Amounts, Spent(u)')
  BY DEF BooksBalance, BillsOf
<1>1. wallet[u] = InitWallet[u] - SumFunctionOnSet(Amounts, Spent(u))
  BY DEF BooksBalance, BillsOf
<1>2. CASE u # Asked[b].user
  <2>1. Spent(u)' = Spent(u)
    BY <1>2 DEF Spent, BillsOf
  <2> QED BY <1>1, <1>2, <2>1 DEF Bookkeeping
<1>3. CASE u = Asked[b].user
  <2> DEFINE S == Spent(u)
  <2>1. IsFiniteSet(S) /\ IsFiniteSet(S') /\ S \ {b} = S' \ {b}
    <3>1. S \subseteq BillIds /\ S' \subseteq BillIds
      BY DEF Spent, BillsOf
    <3>2. IsFiniteSet(S) /\ IsFiniteSet(S')
      BY <3>1, AskedAssumption, FS_Subset
    <3> QED BY <3>2 DEF Spent, BillsOf
  <2>2. Amounts[b] = Amount(b) /\ \A x \in S \cup S' \cup {b} : Amounts[x] \in Int
    BY AskedAssumption DEF Amounts, Amount, Price, Spent, BillsOf
  <2>3. InitWallet[u] \in Int /\ wallet[u] \in Int
    BY AskedAssumption DEF Typed, TypeOK
  <2>4. Booked(b, s)
    BY <1>3 DEF BillsOf, Bookkeeping
  <2>5. (b \in S <=> Counts(b, bill[b])) /\ (b \in S' <=> Counts(b, s))
    BY <1>3 DEF Spent, BillsOf, Counts
  <2>6. /\ SumFunctionOnSet(Amounts, S) \in Int
        /\ b \in S' /\ b \notin S =>
             SumFunctionOnSet(Amounts, S') = SumFunctionOnSet(Amounts, S) + Amounts[b]
        /\ b \in S /\ b \notin S' =>
             SumFunctionOnSet(Amounts, S') = SumFunctionOnSet(Amounts, S) - Amounts[b]
        /\ (b \in S <=> b \in S') =>
             SumFunctionOnSet(Amounts, S') = SumFunctionOnSet(Amounts, S)
    <3> HIDE DEF S
    <3> QED BY <2>1, <2>2, SumDiffers
  <2>7. Take(b) => wallet'[u] = wallet[u] - Amounts[b]
    BY <1>3, <2>2 DEF Take, Typed, TypeOK
  <2>8. GiveBack(b) => wallet'[u] = wallet[u] + Amounts[b]
    BY <1>3, <2>2 DEF GiveBack, Typed, TypeOK
  <2> HIDE DEF S
  <2>9. wallet'[u] = InitWallet[u] - SumFunctionOnSet(Amounts, S')
    BY <1>1, <2>2, <2>3, <2>4, <2>5, <2>6, <2>7, <2>8 DEF Booked, S
  <2> QED BY <2>9 DEF S
<1> QED BY <1>2, <1>3

\* One gift at a time, given once.
LEMMA GiftStep ==
  ASSUME Knowledge, Gifts, NEW p \in Requests, NEW b \in BillIds, NEW r, NEW s, NEW o,
         Leaves(p, b, r, s, o), Lawful(p, b, r, s, o), Giving(b, r, s, o)
  PROVE  Gifts'
<1>1. /\ \A q \in Requests : req'[q] = IF q = p THEN r ELSE req[q]
      /\ \A x \in BillIds : bill'[x] = IF x = b THEN s ELSE bill[x]
      /\ \A x \in BillIds : order'[x] = IF x = b THEN o ELSE order[x]
  BY StepAt DEF Knowledge
<1>2. \A x \in BillIds \ {b} : Served(x)' <=> Served(x)
  BY <1>1, AskedAssumption DEF Served, Leaves
<1>3. \A x \in BillIds \ {b} : Active(x)' <=> Active(x)
  BY <1>1, <1>2 DEF Active
<1> SUFFICES ASSUME NEW c \in Claims, disturbed' \cap PaymentsOf(c) = {}
             PROVE  GiftSound(c)'
  BY DEF Gifts, PaymentsOf
<1>4. GiftSound(c)
  BY DEF Gifts, PaymentsOf, Leaves
<1>5. PaymentsOf(c)' = PaymentsOf(c) /\ PaymentsOf(c) \subseteq BillIds
  BY DEF PaymentsOf
<1>6. CASE c # Asked[b].claim
  <2>1. b \notin PaymentsOf(c) /\ claim'[c] = claim[c]
    BY <1>6 DEF PaymentsOf, Giving
  <2> QED BY <1>1, <1>2, <1>3, <1>4, <1>5, <2>1 DEF GiftSound
<1>7. CASE c = Asked[b].claim
  <2>1. b \in PaymentsOf(c) /\ IsReward(b) /\ b \notin disturbed'
    BY <1>7, AskedAssumption DEF PaymentsOf, IsReward
  <2>2. Active(b) /\ claim[c] # "completed"
    BY <1>4, <1>7, <2>1 DEF Giving, GiftSound
  <2>3. \A x \in PaymentsOf(c) \ {b} : ~Active(x) /\ bill[x].status # "completed"
                                       /\ order[x] \notin Serving
    BY <1>4, <2>1, <2>2 DEF GiftSound, Active
  <2>4. \A x \in PaymentsOf(c) \ {b} : ~Active(x)' /\ bill'[x].status # "completed"
                                       /\ order'[x] \notin Serving
    BY <1>1, <1>3, <1>5, <2>3
  <2>5. CASE r.pc # "idle"
    <3>1. Served(b)' /\ Active(b)'
      BY <1>1, <2>5, AskedAssumption DEF Served, Active, Leaves, LocalOK
    <3>2. claim'[c] # "completed"
      BY <1>7, <2>1, <2>2, <2>5 DEF Giving
    <3> QED BY <1>5, <2>4, <3>1, <3>2 DEF GiftSound
  <2>6. CASE r.pc = "idle"
    <3>1. ~Served(b)'
      <4>1. req[p].b = b /\ b \notin disturbed
        BY <2>1, <2>6 DEF Leaves
      <4>2. \A q \in Requests : q # p => req[q].b # b
        BY <4>1 DEF Knowledge, Met
      <4>3. r.b = NoId
        BY <2>6 DEF Leaves, LocalOK
      <4> QED BY <1>1, <4>2, <4>3, AskedAssumption DEF Served
    <3>2. bill'[b] = s /\ order'[b] = o
      BY <1>1
    <3>3. Active(b)' <=> s.status \in Open
      BY <3>1, <3>2 DEF Active
    <3>4. \/ s.status \in Open /\ claim'[c] # "completed"
          \/ /\ s.status \notin Open
             /\ claim'[c] = "completed" <=> s.status = "completed"
             /\ o \in Serving => s.status = "completed"
      BY <1>7, <2>1, <2>2, <2>6 DEF Giving
    <3>5. s.status \in Open => s.status # "completed"
      BY DEF Open
    <3> QED BY <1>5, <2>1, <2>4, <3>2, <3>3, <3>4, <3>5 DEF GiftSound
  <2> QED BY <2>5, <2>6
<1> QED BY <1>6, <1>7

LEMMA HandlerStep ==
  ASSUME IInv, NEW p \in Requests, NEW b \in BillIds, NEW r, NEW s, NEW o,
         Leaves(p, b, r, s, o), Lawful(p, b, r, s, o), Bookkeeping(b, s),
         Giving(b, r, s, o)
  PROVE  IInv'
<1>1. /\ \A x \in BillIds : bill'[x] = IF x = b THEN s ELSE bill[x]
      /\ \A x \in BillIds : order'[x] = IF x = b THEN o ELSE order[x]
  BY StepAt DEF IInv, Knowledge
<1>2. ClaimsServed'
  <2> SUFFICES ASSUME NEW c \in Claims, claim'[c] = "completed"
               PROVE  \E x \in BillIds : Asked[x].claim = c /\ order'[x] \in Taken
    BY DEF ClaimsServed
  <2>1. ASSUME claim[c] = "completed"
        PROVE  \E x \in BillIds : Asked[x].claim = c /\ order'[x] \in Taken
    <3>1. PICK x \in BillIds : Asked[x].claim = c /\ order[x] \in Taken
      BY <2>1 DEF IInv, Knowledge, ClaimsServed
    <3>2. order'[x] = order[x]
      BY <1>1, <3>1 DEF Lawful, Taken
    <3> QED BY <3>1, <3>2
  <2>2. ASSUME claim[c] # "completed"
        PROVE  \E x \in BillIds : Asked[x].claim = c /\ order'[x] \in Taken
    BY <1>1, <2>2, AskedAssumption DEF Giving, IsReward
  <2> QED BY <2>1, <2>2
<1>3. Knowledge'
  BY <1>2, KnowledgeStep DEF IInv
<1>4. BooksBalance'
  <2>1. bill'[b] = s /\ \A x \in BillIds \ {b} : bill'[x] = bill[x]
    BY <1>1
  <2>2. disturbed \subseteq disturbed'
    BY DEF Leaves
  <2> QED BY <2>1, <2>2, BooksStep DEF IInv, Knowledge
<1>5. Gifts'
  BY GiftStep DEF IInv
<1> QED BY <1>3, <1>4, <1>5 DEF IInv

-----------------------------------------------------------------------------
(* Steps that only move a handler                                          *)

\* What is known of the payment that a handler is at work on.
LEMMA AtWork ==
  ASSUME IInv, NEW p \in Requests, Busy(p)
  PROVE  \E b \in BillIds :
           /\ req[p].b = b /\ req[p] \in Local /\ LocalOK(req[p])
           /\ bill[b] \in Row /\ order[b] \in OrderStatus
           /\ Known(req[p], bill[b], order[b]) /\ Sound(b, bill[b], order[b])
           /\ b \notin disturbed => /\ KnownAlone(req[p], bill[b], order[b])
                                    /\ SoundAlone(b, bill[b], order[b])
           /\ Active(b)
<1>1. LocalOK(req[p]) /\ req[p].pc # "idle"
  BY DEF IInv, Knowledge, Typed, Busy, At
<1>2. PICK b \in BillIds : req[p].b = b
  BY <1>1 DEF LocalOK
<1>3. bill[b] \in Row /\ order[b] \in OrderStatus
  BY DEF IInv, Knowledge, Typed, TypeOK
<1>4. KnownAt(p) /\ SoundAt(b)
  BY DEF IInv, Knowledge
<1>5. Active(b)
  BY <1>2 DEF Active, Served
<1> QED BY <1>1, <1>2, <1>3, <1>4, <1>5 DEF KnownAt, SoundAt, LocalOK

LEMMA MoveStep ==
  ASSUME IInv, NEW p \in Requests, NEW b \in BillIds, NEW r, LocalOK(r),
         r.b \in {b, NoId}, req' = [req EXCEPT ![p] = r], req[p].b \in {b, NoId},
         r.pc = "idle" => req[p].b = b /\ b \in disturbed',
         UNCHANGED <<bill, wallet, claim, order>>, mishaps' \in 0 .. MaxMishaps,
         disturbed \subseteq disturbed', disturbed' \subseteq BillIds,
         req[p].b = b \/ b \in disturbed' \/ \A q \in Requests : req[q].b # b,
         bill[b].status # "none", Active(b),
         r.pc # "idle" => Known(r, bill[b], order[b]),
         r.pc # "idle" /\ b \notin disturbed' => KnownAlone(r, bill[b], order[b])
  PROVE  IInv'
<1>1. Leaves(p, b, r, bill[b], order[b])
  <2>1. bill' = [bill EXCEPT ![b] = bill[b]] /\ order' = [order EXCEPT ![b] = order[b]]
    BY DEF IInv, Knowledge, Typed, TypeOK
  <2> QED BY <2>1 DEF Leaves, IInv, Knowledge, Typed, TypeOK, ClaimStatus
<1>2. Lawful(p, b, r, bill[b], order[b])
  <2>1. SoundAt(b)
    BY DEF IInv, Knowledge
  <2> QED BY <2>1 DEF Lawful, SoundAt
<1>3. Bookkeeping(b, bill[b])
  BY DEF Bookkeeping, Booked
<1>4. Giving(b, r, bill[b], order[b])
  BY DEF Giving
<1> QED BY <1>1, <1>2, <1>3, <1>4, HandlerStep

LEMMA LocalsTyped ==
  ASSUME NEW step \in Steps \ {"idle"}, NEW b \in BillIds, NEW told \in Word,
         NEW should \in BOOLEAN, NEW seen \in Row, NEW r,
         r = Locals(step, b, told, should, seen)
  PROVE  /\ LocalOK(r) /\ r.b = b /\ r.pc = step /\ r.told = told /\ r.should = should
         /\ r.seen = seen
BY DEF LocalOK, Local, Locals

LEMMA IdleTyped == LocalOK(Idle) /\ Idle.pc = "idle" /\ Idle.b = NoId
BY DEF LocalOK, Local, Idle, Locals, Steps, Word, NoRow, RowOf, Row

LEMMA MeetSays ==
  ASSUME Typed, NEW b \in BillIds, Meet(b)
  PROVE  /\ disturbed \subseteq disturbed' /\ disturbed' \subseteq BillIds
         /\ \/ b \in disturbed' /\ Kin(b) \subseteq disturbed'
            \/ \A x \in Kin(b) : ~Served(x) /\ (x # b => bill[x].status \notin Open)
BY DEF Typed, TypeOK, Meet, Kin

\* A handler starts on an open payment.
LEMMA StartStep ==
  ASSUME IInv, NEW p \in Requests, NEW b \in BillIds, NEW step \in Steps \ {"idle"},
         NEW told \in Word, Start(p, b, step, told),
         UNCHANGED <<bill, wallet, claim, order>>, mishaps' \in 0 .. MaxMishaps,
         bill[b].status \in Open,
         \A r : /\ r.pc = step /\ r.b = b /\ r.told = told /\ r.seen = bill[b]
                => Known(r, bill[b], order[b]) /\ KnownAlone(r, bill[b], order[b])
  PROVE  IInv'
<1> DEFINE r == Locals(step, b, told, FALSE, bill[b])
<1>1. LocalOK(r) /\ r.b = b /\ r.pc = step /\ r.told = told /\ r.seen = bill[b]
  <2>1. bill[b] \in Row
    BY DEF IInv, Knowledge, Typed, TypeOK
  <2> QED BY <2>1 DEF LocalOK, Local, Locals
<1>2. req' = [req EXCEPT ![p] = r] /\ req[p].b = NoId
  BY DEF Start, Become, At, IInv, Knowledge, Typed, LocalOK
<1>3. /\ disturbed \subseteq disturbed' /\ disturbed' \subseteq BillIds
      /\ b \in disturbed' \/ \A q \in Requests : req[q].b # b
  <2>1. b \in Kin(b)
    BY DEF Kin
  <2> QED BY <2>1, MeetSays DEF Start, IInv, Knowledge, Served
<1>4. Known(r, bill[b], order[b]) /\ KnownAlone(r, bill[b], order[b])
  BY <1>1
<1>5. Active(b) /\ bill[b].status # "none" /\ r.pc # "idle"
  BY <1>1 DEF Active, Open
<1> HIDE DEF r
<1> QED BY <1>1, <1>2, <1>3, <1>4, <1>5, MoveStep

LEMMA ConfirmKeeps ==
  ASSUME IInv, NEW p \in Requests, NEW b \in BillIds, Confirm(p, b)
  PROVE  IInv'
<1>1. mishaps' \in 0 .. MaxMishaps /\ UNCHANGED <<bill, wallet, claim, order>>
  BY DEF Confirm, IInv, Knowledge, Typed, TypeOK
<1>2. \A r : r.pc = "debit" =>
        Known(r, bill[b], order[b]) /\ KnownAlone(r, bill[b], order[b])
  BY DEF Confirm, Known, KnownAlone, Heeding, Undoing
<1>3. "debit" \in Steps \ {"idle"} /\ "none" \in Word /\ bill[b].status \in Open
  BY DEF Steps, Word, Open, Confirm
<1>4. Start(p, b, "debit", "none")
  BY DEF Confirm
<1> QED BY <1>1, <1>2, <1>3, <1>4, StartStep

\* An order that its provider knows is of a payment that was confirmed.
LEMMA OrderedConfirmed ==
  ASSUME IInv, NEW b \in BillIds, order[b] # "none"
  PROVE  Confirmed(bill[b])
BY DEF IInv, Knowledge, SoundAt, Sound

\* How the provider's word is read agrees with the order.
LEMMA WordSays ==
  ASSUME NEW b \in BillIds, NEW o \in OrderStatus, NEW told \in MapBillStatus(o),
         Asked[b].via = "palmpay" => o \in Word
  PROVE  told \in Word /\ Says(told, b, o) /\ (o # "none" => told # "none")
BY DEF MapBillStatus, OrderStatus, Word, Taken, Ended, Says

\* A handler that starts with the provider's word.
LEMMA HeedStep ==
  ASSUME IInv, NEW p \in Requests, NEW b \in BillIds, NEW step \in {"lock", "crumb", "read"},
         NEW told \in {"pending"} \cup BillStatus(b), order[b] # "none",
         Start(p, b, step, told),
         UNCHANGED <<bill, wallet, claim, order>>, mishaps' \in 0 .. MaxMishaps,
         bill[b].status \in Open, step = "read" => told \in Ended,
         step = "lock" => Asked[b].via = "palmpay"
  PROVE  IInv'
<1>1. Confirmed(bill[b]) /\ bill[b].status = "processing"
  BY OrderedConfirmed DEF Confirmed, Open
<1>2. order[b] \in OrderStatus /\ (Asked[b].via = "palmpay" => order[b] \in Word)
  BY DEF IInv, Knowledge, Typed, TypeOK, SoundAt, Sound
<1>3. told \in Word /\ told # "none" /\ Says(told, b, order[b])
  <2>1. CASE told = "pending"
    BY <2>1 DEF Word, Says
  <2>2. CASE told \in BillStatus(b)
    BY <1>2, <2>2, WordSays DEF BillStatus
  <2> QED BY <2>1, <2>2
<1>4. \A r : r.pc = step /\ r.b = b /\ r.told = told /\ r.seen = bill[b] =>
        Known(r, bill[b], order[b]) /\ KnownAlone(r, bill[b], order[b])
  BY <1>1, <1>3 DEF Known, KnownAlone, Undoing
<1>5. step \in Steps \ {"idle"}
  BY DEF Steps
<1> QED BY <1>3, <1>4, <1>5, StartStep

LEMMA NoticeKeeps ==
  ASSUME IInv, NEW p \in Requests, NEW b \in BillIds, Notice(p, b)
  PROVE  IInv'
<1>1. PICK told \in {"pending"} \cup BillStatus(b) :
        /\ order[b] # "none" /\ mishaps' = IF told = "pending" THEN mishaps + 1 ELSE mishaps
        /\ mishaps' <= MaxMishaps /\ UNCHANGED <<bill, wallet, claim, order>>
        /\ NoticePalmPay(p, b, told) \/ NoticeFlutterwave(p, b, told)
  BY DEF Notice
<1>2. mishaps' \in 0 .. MaxMishaps
  BY <1>1, AskedAssumption DEF IInv, Knowledge, Typed, TypeOK
<1>3. bill[b].status \in Open
  BY <1>1 DEF NoticePalmPay, NoticeFlutterwave, FindPalmPay, FindFlutterwave, Open
<1>4. CASE NoticePalmPay(p, b, told)
  <2>1. Asked[b].via = "palmpay"
    BY <1>4 DEF NoticePalmPay, FindPalmPay
  <2>2. Start(p, b, "lock", told)
    BY <1>4 DEF NoticePalmPay
  <2> QED BY <1>1, <1>2, <1>3, <2>1, <2>2, HeedStep
<1>5. CASE NoticeFlutterwave(p, b, told)
  <2>1. \/ Start(p, b, "crumb", told)
        \/ told \in Ended /\ Start(p, b, "read", told)
    BY <1>5 DEF NoticeFlutterwave
  <2> QED BY <1>1, <1>2, <1>3, <2>1, HeedStep
<1> QED BY <1>1, <1>4, <1>5

LEMMA SyncKeeps ==
  ASSUME IInv, NEW p \in Requests, NEW b \in BillIds, SyncBillPayment(p, b)
  PROVE  IInv'
<1>1. PICK told \in BillStatus(b) \cap Ended : Start(p, b, "read", told)
  BY DEF SyncBillPayment, SyncStatus
<1>2. /\ bill[b].status \in Open /\ UNCHANGED <<bill, wallet, claim, order>>
      /\ mishaps' \in 0 .. MaxMishaps
  BY DEF SyncBillPayment, FindFlutterwave, IInv, Knowledge, Typed, TypeOK
<1>3. order[b] # "none"
  BY <1>1 DEF BillStatus, MapBillStatus, Ended
<1> QED BY <1>1, <1>2, <1>3, HeedStep

\* The locals that Told, Goto and Finish leave.
LEMMA ToldLocals ==
  ASSUME NEW p \in Requests, LocalOK(req[p]), req[p].pc # "idle",
         NEW step \in Steps \ {"idle"}, NEW told \in Word, Told(p, step, told)
  PROVE  \E r : /\ req' = [req EXCEPT ![p] = r] /\ LocalOK(r)
                /\ r.pc = step /\ r.b = req[p].b /\ r.told = told
                /\ r.should = req[p].should /\ r.seen = req[p].seen
<1> DEFINE r == Locals(step, req[p].b, told, req[p].should, req[p].seen)
<1>1. req[p].b \in BillIds /\ req[p].should \in BOOLEAN /\ req[p].seen \in Row
  BY DEF LocalOK, Local
<1>2. /\ LocalOK(r) /\ r.b = req[p].b /\ r.pc = step /\ r.told = told
      /\ r.should = req[p].should /\ r.seen = req[p].seen
  BY <1>1, LocalsTyped
<1>3. req' = [req EXCEPT ![p] = r]
  BY DEF Told, Become
<1> QED BY <1>2, <1>3

LEMMA PollKeeps ==
  ASSUME IInv, NEW p \in Requests, Poll(p)
  PROVE  IInv'
<1>1. Busy(p) /\ req[p].pc = "poll"
  BY DEF Poll, Busy, At
<1>2. PICK b \in BillIds :
           /\ req[p].b = b /\ req[p] \in Local /\ LocalOK(req[p])
           /\ bill[b] \in Row /\ order[b] \in OrderStatus
           /\ Known(req[p], bill[b], order[b]) /\ Sound(b, bill[b], order[b])
           /\ b \notin disturbed => /\ KnownAlone(req[p], bill[b], order[b])
                                    /\ SoundAlone(b, bill[b], order[b])
           /\ Active(b)
  BY <1>1, AtWork
<1>3. PICK told : /\ Told(p, "persist", told)
                  /\ told = req[p].told \/ told \in BillStatus(b) \cap Ended
  BY <1>2 DEF Poll, Goto
<1>4. PICK r : /\ req' = [req EXCEPT ![p] = r] /\ LocalOK(r) /\ r.pc = "persist"
               /\ r.b = b /\ r.told = told
  <2>1. told \in Word /\ "persist" \in Steps \ {"idle"}
    BY <1>2, <1>3 DEF Local, Steps, Word
  <2> QED BY <1>1, <1>2, <1>3, <2>1, ToldLocals
<1>5. Known(r, bill[b], order[b])
  <2>1. told # "none" /\ Says(told, b, order[b])
    <3>1. CASE told = req[p].told
      BY <1>1, <1>2, <3>1 DEF Known, Heeding
    <3>2. CASE told \in BillStatus(b) \cap Ended
      BY <1>2, <3>2, WordSays DEF BillStatus, Ended, Sound
    <3> QED BY <1>3, <3>1, <3>2
  <2> QED BY <1>1, <1>2, <1>4, <2>1 DEF Known, Heeding
<1>6. b \notin disturbed => KnownAlone(r, bill[b], order[b])
  BY <1>1, <1>2, <1>4 DEF KnownAlone, Undoing
<1>7. /\ UNCHANGED <<bill, wallet, claim, order>> /\ mishaps' \in 0 .. MaxMishaps
      /\ disturbed' = disturbed /\ disturbed \subseteq BillIds
  BY DEF Poll, IInv, Knowledge, Typed, TypeOK
<1>8. bill[b].status # "none"
  BY <1>2 DEF Known
<1> QED BY <1>2, <1>4, <1>5, <1>6, <1>7, <1>8, MoveStep

LEMMA ReadFreshKeeps ==
  ASSUME IInv, NEW p \in Requests, ReadFresh(p)
  PROVE  IInv'
<1>1. Busy(p) /\ req[p].pc = "read"
  BY DEF ReadFresh, Busy, At
<1>2. PICK b \in BillIds :
           /\ req[p].b = b /\ req[p] \in Local /\ LocalOK(req[p])
           /\ bill[b] \in Row /\ order[b] \in OrderStatus
           /\ Known(req[p], bill[b], order[b]) /\ Sound(b, bill[b], order[b])
           /\ b \notin disturbed => /\ KnownAlone(req[p], bill[b], order[b])
                                    /\ SoundAlone(b, bill[b], order[b])
           /\ Active(b)
  BY <1>1, AtWork
<1>3. /\ UNCHANGED <<bill, wallet, claim, order>> /\ mishaps' \in 0 .. MaxMishaps
      /\ disturbed' = disturbed /\ disturbed \subseteq BillIds
  BY DEF ReadFresh, IInv, Knowledge, Typed, TypeOK
<1>4. bill[b].status # "none" /\ req[p].told \in Ended
  BY <1>1, <1>2 DEF Known
<1>5. CASE bill[b].status \in Ended
  <2>1. b \in disturbed
    BY <1>1, <1>2, <1>5 DEF KnownAlone, Ended
  <2>2. req' = [req EXCEPT ![p] = Idle]
    BY <1>2, <1>5 DEF ReadFresh, Finish, Become
  <2> QED BY <1>2, <1>3, <1>4, <2>1, <2>2, IdleTyped, MoveStep
<1>6. CASE bill[b].status \notin Ended
  <2>1. PICK should \in BOOLEAN :
          req' = [req EXCEPT ![p] = Locals("lock", b, req[p].told, should, bill[b])]
    <3>1. (Refundable(bill[b], req[p].told) /\ ~IsReward(b)) \in BOOLEAN
      BY DEF Refundable
    <3> QED BY <1>2, <1>6, <3>1 DEF ReadFresh, Become
  <2> DEFINE r == Locals("lock", b, req[p].told, should, bill[b])
  <2>2. /\ LocalOK(r) /\ r.b = b /\ r.pc = "lock" /\ r.told = req[p].told
    BY <1>2, <2>1 DEF LocalOK, Local, Locals, Steps
  <2>3. req' = [req EXCEPT ![p] = r]
    BY <2>1
  <2> HIDE DEF r
  <2>4. Known(r, bill[b], order[b])
    BY <1>1, <1>2, <1>4, <2>2 DEF Known, Heeding
  <2>5. b \notin disturbed => KnownAlone(r, bill[b], order[b])
    BY <1>1, <1>2, <2>2 DEF KnownAlone, Undoing
  <2> QED BY <1>2, <1>3, <1>4, <2>2, <2>3, <2>4, <2>5, MoveStep
<1> QED BY <1>5, <1>6

\* What a handler leaves when it is done with the row.
LEMMA LeaveLocals ==
  ASSUME NEW p \in Requests, LocalOK(req[p]), req[p].pc # "idle", Leave(p)
  PROVE  \E r : /\ req' = [req EXCEPT ![p] = r] /\ LocalOK(r)
                /\ \/ IsReward(req[p].b) /\ r.pc = "claimEnd" /\ r.b = req[p].b
                                         /\ r.told = req[p].told
                   \/ ~IsReward(req[p].b) /\ r.pc = "idle" /\ r.b = NoId
<1>1. req[p].told \in Word /\ "claimEnd" \in Steps \ {"idle"}
  BY DEF LocalOK, Local, Steps
<1>2. CASE IsReward(req[p].b)
  <2>1. Told(p, "claimEnd", req[p].told)
    BY <1>2 DEF Leave, Goto
  <2> QED BY <1>1, <1>2, <2>1, ToldLocals
<1>3. CASE ~IsReward(req[p].b)
  BY <1>3, IdleTyped DEF Leave, Finish, Become
<1> QED BY <1>2, <1>3

\* PalmPay's payments are never gifts.
LEMMA PalmPayIsPaid ==
  ASSUME NEW b \in BillIds, Asked[b].via = "palmpay" PROVE ~IsReward(b)
BY AskedAssumption DEF IsReward

LEMMA LockKeeps ==
  ASSUME IInv, NEW p \in Requests, Lock(p)
  PROVE  IInv'
<1>1. Busy(p) /\ req[p].pc = "lock"
  BY DEF Lock, Busy, At
<1>2. PICK b \in BillIds :
           /\ req[p].b = b /\ req[p] \in Local /\ LocalOK(req[p])
           /\ bill[b] \in Row /\ order[b] \in OrderStatus
           /\ Known(req[p], bill[b], order[b]) /\ Sound(b, bill[b], order[b])
           /\ b \notin disturbed => /\ KnownAlone(req[p], bill[b], order[b])
                                    /\ SoundAlone(b, bill[b], order[b])
           /\ Active(b)
  BY <1>1, AtWork
<1>3. /\ UNCHANGED <<bill, wallet, claim, order>> /\ mishaps' \in 0 .. MaxMishaps
      /\ disturbed' = disturbed /\ disturbed \subseteq BillIds
  BY DEF Lock, IInv, Knowledge, Typed, TypeOK
<1>4. bill[b].status # "none"
  BY <1>2 DEF Known
<1>5. CASE bill[b].status \in Ended
  <2>1. b \in disturbed
    BY <1>1, <1>2, <1>5 DEF KnownAlone, Ended
  <2>2. PICK r : /\ req' = [req EXCEPT ![p] = r] /\ LocalOK(r)
                 /\ \/ IsReward(b) /\ r.pc = "claimEnd" /\ r.b = b /\ r.told = req[p].told
                    \/ ~IsReward(b) /\ r.pc = "idle" /\ r.b = NoId
    BY <1>1, <1>2, <1>5, LeaveLocals DEF Lock
  <2>3. r.pc # "idle" => Known(r, bill[b], order[b])
    BY <1>1, <1>2, <2>2, PalmPayIsPaid DEF Known, Heeding
  <2> QED BY <1>2, <1>3, <1>4, <2>1, <2>2, <2>3, MoveStep
<1>6. CASE bill[b].status \notin Ended
  <2> DEFINE r == Locals("settle", b, req[p].told, req[p].should, bill[b])
  <2>1. req' = [req EXCEPT ![p] = r]
    BY <1>2, <1>6 DEF Lock, Become
  <2>2. /\ LocalOK(r) /\ r.b = b /\ r.pc = "settle" /\ r.told = req[p].told
        /\ r.seen = bill[b]
    BY <1>2, <2>1 DEF LocalOK, Local, Locals, Steps
  <2> HIDE DEF r
  <2>3. Known(r, bill[b], order[b])
    BY <1>1, <1>2, <1>4, <2>2 DEF Known, Heeding
  <2>4. b \notin disturbed => KnownAlone(r, bill[b], order[b])
    BY <1>1, <1>2, <2>2 DEF KnownAlone, Undoing
  <2> QED BY <1>2, <1>3, <1>4, <2>1, <2>2, <2>3, <2>4, MoveStep
<1> QED BY <1>5, <1>6

LEMMA RequestLostKeeps ==
  ASSUME IInv, NEW p \in Requests, RequestLost(p)
  PROVE  IInv'
<1>1. Busy(p)
  BY DEF RequestLost
<1>2. PICK b \in BillIds :
           /\ req[p].b = b /\ req[p] \in Local /\ LocalOK(req[p])
           /\ bill[b] \in Row /\ order[b] \in OrderStatus
           /\ Known(req[p], bill[b], order[b]) /\ Sound(b, bill[b], order[b])
           /\ b \notin disturbed => /\ KnownAlone(req[p], bill[b], order[b])
                                    /\ SoundAlone(b, bill[b], order[b])
           /\ Active(b)
  BY <1>1, AtWork
<1>3. /\ UNCHANGED <<bill, wallet, claim, order>> /\ mishaps' \in 0 .. MaxMishaps
      /\ disturbed' = disturbed \cup {b} /\ disturbed' \subseteq BillIds
      /\ req' = [req EXCEPT ![p] = Idle]
  BY <1>2, AskedAssumption
  DEF RequestLost, Finish, Become, IInv, Knowledge, Typed, TypeOK
<1>4. bill[b].status # "none"
  BY <1>2 DEF Known
<1> QED BY <1>2, <1>3, <1>4, IdleTyped, MoveStep

-----------------------------------------------------------------------------
(* Steps that write the row                                                *)

LEMMA RowTyped ==
  ASSUME NEW status \in {"none"} \cup Open \cup Ended, NEW debited \in BOOLEAN,
         NEW refunded \in BOOLEAN
  PROVE  /\ RowOf(status, debited, refunded) \in Row
         /\ RowOf(status, debited, refunded).status = status
         /\ RowOf(status, debited, refunded).debited = debited
         /\ RowOf(status, debited, refunded).refunded = refunded
BY DEF RowOf, Row

\* A payment moves its user's wallet alone.
LEMMA WalletMoves ==
  ASSUME Typed, NEW b \in BillIds, Take(b) \/ GiveBack(b) \/ wallet' = wallet
  PROVE  /\ wallet' \in [Users -> Int]
         /\ \A u \in Users \ {Asked[b].user} : wallet'[u] = wallet[u]
<1>1. Amount(b) \in Int /\ Asked[b].user \in Users
  BY AskedAssumption DEF Amount, Price
<1> QED BY <1>1 DEF Take, GiveBack, Typed, TypeOK

\* A step of a handler that writes the row and perhaps the wallet.
LEMMA RowStep ==
  ASSUME IInv, NEW p \in Requests, NEW b \in BillIds, NEW r, NEW s \in Row, LocalOK(r),
         r.b \in {b, NoId}, req' = [req EXCEPT ![p] = r], req[p].b = b, Active(b),
         bill' = [bill EXCEPT ![b] = s],
         UNCHANGED <<claim, order, mishaps, disturbed>>,
         Take(b) \/ GiveBack(b) \/ wallet' = wallet,
         Confirmed(s), Sound(b, s, order[b]),
         b \notin disturbed => SoundAlone(b, s, order[b]),
         r.pc # "idle" => Known(r, s, order[b]),
         r.pc # "idle" /\ b \notin disturbed => KnownAlone(r, s, order[b]),
         b \notin disturbed => Booked(b, s),
         r.pc = "idle" /\ IsReward(b) /\ b \notin disturbed =>
           s.status # "completed" /\ (s.status \in Open \/ order[b] \notin Serving)
  PROVE  IInv'
<1>1. Leaves(p, b, r, s, order[b])
  <2>1. order' = [order EXCEPT ![b] = order[b]]
    BY DEF IInv, Knowledge, Typed, TypeOK
  <2>2. wallet' \in [Users -> Int]
    BY WalletMoves DEF IInv, Knowledge
  <2> QED BY <2>1, <2>2 DEF Leaves, IInv, Knowledge, Typed, TypeOK, ClaimStatus
<1>2. Lawful(p, b, r, s, order[b])
  BY DEF Lawful, Confirmed
<1>3. Bookkeeping(b, s)
  BY WalletMoves DEF Bookkeeping, IInv, Knowledge
<1>4. Giving(b, r, s, order[b])
  BY DEF Giving
<1> QED BY <1>1, <1>2, <1>3, <1>4, HandlerStep

LEMMA DebitKeeps ==
  ASSUME IInv, NEW p \in Requests, NEW via, Debit(p, via)
  PROVE  IInv'
<1>1. Busy(p) /\ req[p].pc = "debit"
  BY DEF Debit, Busy, At
<1>2. PICK b \in BillIds :
           /\ req[p].b = b /\ req[p] \in Local /\ LocalOK(req[p])
           /\ bill[b] \in Row /\ order[b] \in OrderStatus
           /\ Known(req[p], bill[b], order[b]) /\ Sound(b, bill[b], order[b])
           /\ b \notin disturbed => /\ KnownAlone(req[p], bill[b], order[b])
                                    /\ SoundAlone(b, bill[b], order[b])
           /\ Active(b)
  BY <1>1, AtWork
<1>3. PICK s : s = RowOf("processing", ~IsReward(b), FALSE)
  OBVIOUS
<1>4. s \in Row /\ s.status = "processing" /\ s.debited = ~IsReward(b) /\ s.refunded = FALSE
  BY <1>3, RowTyped DEF Open, IsReward
<1>5. PICK r : req' = [req EXCEPT ![p] = r] /\ LocalOK(r) /\ r.pc = "order" /\ r.b = b
  <2>1. Told(p, "order", req[p].told) /\ req[p].told \in Word
    BY <1>2 DEF Debit, Goto, Local
  <2>2. "order" \in Steps \ {"idle"}
    BY DEF Steps
  <2> QED BY <1>1, <1>2, <2>1, <2>2, ToldLocals
<1>6. /\ bill' = [bill EXCEPT ![b] = s] /\ UNCHANGED <<claim, order, mishaps, disturbed>>
      /\ IF IsReward(b) THEN wallet' = wallet ELSE Take(b)
  BY <1>2, <1>3 DEF Debit, SetRow
<1>7. Confirmed(s) /\ Sound(b, s, order[b]) /\ SoundAlone(b, s, order[b])
  BY <1>2, <1>4 DEF Confirmed, Sound, SoundAlone, Says
<1>8. Known(r, s, order[b])
  BY <1>4, <1>5, <1>7 DEF Known, Heeding
<1>9. b \notin disturbed => bill[b].status = "pending" /\ order[b] = "none"
  BY <1>1, <1>2 DEF KnownAlone, Sound, Confirmed
<1>10. b \notin disturbed => KnownAlone(r, s, order[b])
  BY <1>4, <1>5, <1>9 DEF KnownAlone
<1>11. b \notin disturbed => Booked(b, s)
  BY <1>4, <1>6, <1>9 DEF Booked, Counts
<1> QED
  BY <1>2, <1>4, <1>5, <1>6, <1>7, <1>8, <1>10, <1>11, RowStep

LEMMA UndoKeeps ==
  ASSUME IInv, NEW p \in Requests, Undo(p)
  PROVE  IInv'
<1>1. Busy(p) /\ req[p].pc = "undo"
  BY DEF Undo, Busy, At
<1>2. PICK b \in BillIds :
           /\ req[p].b = b /\ req[p] \in Local /\ LocalOK(req[p])
           /\ bill[b] \in Row /\ order[b] \in OrderStatus
           /\ Known(req[p], bill[b], order[b]) /\ Sound(b, bill[b], order[b])
           /\ b \notin disturbed => /\ KnownAlone(req[p], bill[b], order[b])
                                    /\ SoundAlone(b, bill[b], order[b])
           /\ Active(b)
  BY <1>1, AtWork
<1>3. PICK s : s = RowOf("failed", FALSE, TRUE)
  OBVIOUS
<1>4. s \in Row /\ s.status = "failed"
  BY <1>3, RowTyped DEF Ended
<1>5. /\ bill' = [bill EXCEPT ![b] = s] /\ UNCHANGED <<claim, order, mishaps, disturbed>>
      /\ GiveBack(b) /\ req' = [req EXCEPT ![p] = Idle]
  BY <1>2, <1>3 DEF Undo, SetRow, Finish, Become
<1>6. ~IsReward(b)
  BY <1>1, <1>2 DEF Known
<1>7. b \notin disturbed => bill[b].status = "processing" /\ order[b] = "none"
  BY <1>1, <1>2 DEF KnownAlone, Undoing
<1>8. Confirmed(s) /\ Sound(b, s, order[b]) /\ (b \notin disturbed => SoundAlone(b, s, order[b]))
  BY <1>2, <1>4, <1>7 DEF Confirmed, Sound, SoundAlone
<1>9. b \notin disturbed => Booked(b, s)
  BY <1>4, <1>5, <1>6, <1>7 DEF Booked, Counts
<1> QED BY <1>2, <1>4, <1>5, <1>6, <1>8, <1>9, IdleTyped, RowStep

LEMMA UndoRowKeeps ==
  ASSUME IInv, NEW p \in Requests, UndoRow(p)
  PROVE  IInv'
<1>1. Busy(p) /\ req[p].pc = "undoRow"
  BY DEF UndoRow, Busy, At
<1>2. PICK b \in BillIds :
           /\ req[p].b = b /\ req[p] \in Local /\ LocalOK(req[p])
           /\ bill[b] \in Row /\ order[b] \in OrderStatus
           /\ Known(req[p], bill[b], order[b]) /\ Sound(b, bill[b], order[b])
           /\ b \notin disturbed => /\ KnownAlone(req[p], bill[b], order[b])
                                    /\ SoundAlone(b, bill[b], order[b])
           /\ Active(b)
  BY <1>1, AtWork
<1>3. PICK s : s = RowOf("failed", FALSE, FALSE)
  OBVIOUS
<1>4. s \in Row /\ s.status = "failed"
  BY <1>3, RowTyped DEF Ended
<1>5. /\ bill' = [bill EXCEPT ![b] = s] /\ UNCHANGED <<claim, order, mishaps, disturbed>>
      /\ wallet' = wallet /\ req' = [req EXCEPT ![p] = Idle]
  BY <1>2, <1>3 DEF UndoRow, SetRow, Finish, Become
<1>6. IsReward(b)
  BY <1>1, <1>2 DEF Known
<1>7. b \notin disturbed => order[b] = "none" /\ order[b] \notin Serving
  BY <1>1, <1>2 DEF KnownAlone, Undoing, Serving
<1>8. Confirmed(s) /\ Sound(b, s, order[b]) /\ (b \notin disturbed => SoundAlone(b, s, order[b]))
  BY <1>2, <1>4, <1>7 DEF Confirmed, Sound, SoundAlone
<1>9. Booked(b, s)
  BY <1>5, <1>6 DEF Booked, Counts
<1> QED BY <1>2, <1>4, <1>5, <1>7, <1>8, <1>9, IdleTyped, RowStep

LEMMA RefundNowKeeps ==
  ASSUME IInv, NEW p \in Requests, RefundNow(p)
  PROVE  IInv'
<1>1. Busy(p) /\ req[p].pc = "refund"
  BY DEF RefundNow, Busy, At
<1>2. PICK b \in BillIds :
           /\ req[p].b = b /\ req[p] \in Local /\ LocalOK(req[p])
           /\ bill[b] \in Row /\ order[b] \in OrderStatus
           /\ Known(req[p], bill[b], order[b]) /\ Sound(b, bill[b], order[b])
           /\ b \notin disturbed => /\ KnownAlone(req[p], bill[b], order[b])
                                    /\ SoundAlone(b, bill[b], order[b])
           /\ Active(b)
  BY <1>1, AtWork
<1>3. req[p].told \in Unpaid /\ Says(req[p].told, b, order[b]) /\ ~IsReward(b)
  BY <1>1, <1>2, PalmPayIsPaid DEF Known, Heeding
<1>4. PICK s : s = RowOf(req[p].told, TRUE, TRUE)
  OBVIOUS
<1>5. s \in Row /\ s.status = req[p].told
  BY <1>3, <1>4, RowTyped DEF Ended, Unpaid
<1>6. /\ bill' = [bill EXCEPT ![b] = s] /\ UNCHANGED <<claim, order, mishaps, disturbed>>
      /\ GiveBack(b) /\ req' = [req EXCEPT ![p] = Idle]
  BY <1>2, <1>4 DEF RefundNow, SetRow, Finish, Become
<1>7. b \notin disturbed => bill[b].status = "processing"
  BY <1>1, <1>2 DEF KnownAlone
<1>8. Confirmed(s) /\ Sound(b, s, order[b]) /\ SoundAlone(b, s, order[b])
  BY <1>2, <1>3, <1>5 DEF Confirmed, Sound, SoundAlone, Unpaid, Says
<1>9. b \notin disturbed => Booked(b, s)
  BY <1>3, <1>5, <1>6, <1>7 DEF Booked, Counts, Unpaid
<1> QED BY <1>2, <1>3, <1>5, <1>6, <1>8, <1>9, IdleTyped, RowStep

\* What is written of the provider's word.
LEMMA ProcessingTyped ==
  ASSUME NEW told \in Word, told # "none"
  PROVE  /\ ProcessingOr(told) \in Open \cup Ended
         /\ told \in Ended => ProcessingOr(told) = told
         /\ told \notin Ended => told = "pending" /\ ProcessingOr(told) = "processing"
BY DEF Word, ProcessingOr, Open, Ended

LEMMA AnswerKeeps ==
  ASSUME IInv, NEW p \in Requests, Answer(p)
  PROVE  IInv'
<1>1. Busy(p) /\ req[p].pc = "answer"
  BY DEF Answer, Busy, At
<1>2. PICK b \in BillIds :
           /\ req[p].b = b /\ req[p] \in Local /\ LocalOK(req[p])
           /\ bill[b] \in Row /\ order[b] \in OrderStatus
           /\ Known(req[p], bill[b], order[b]) /\ Sound(b, bill[b], order[b])
           /\ b \notin disturbed => /\ KnownAlone(req[p], bill[b], order[b])
                                    /\ SoundAlone(b, bill[b], order[b])
           /\ Active(b)
  BY <1>1, AtWork
<1>3. /\ req[p].told \notin Unpaid /\ req[p].told # "none" /\ req[p].told \in Word
      /\ Says(req[p].told, b, order[b]) /\ ~IsReward(b)
  BY <1>1, <1>2, PalmPayIsPaid DEF Known, Heeding, Local
<1>4. PICK s : s = RowOf(ProcessingOr(req[p].told), TRUE, FALSE)
  OBVIOUS
<1>5. /\ s \in Row /\ s.debited = TRUE /\ s.refunded = FALSE
      /\ \/ s.status = "processing"
         \/ s.status = "completed" /\ Says("completed", b, order[b])
  <2>1. PICK now : now = ProcessingOr(req[p].told) /\ now \in Open \cup Ended
    BY <1>3, ProcessingTyped
  <2>2. s \in Row /\ s.status = now /\ s.debited = TRUE /\ s.refunded = FALSE
    BY <1>4, <2>1, RowTyped
  <2>3. now = "processing" \/ (now = "completed" /\ Says("completed", b, order[b]))
    BY <1>3, <2>1, ProcessingTyped DEF Ended, Unpaid
  <2> QED BY <2>2, <2>3
<1>6. /\ bill' = [bill EXCEPT ![b] = s] /\ UNCHANGED <<claim, order, mishaps, disturbed>>
      /\ wallet' = wallet /\ req' = [req EXCEPT ![p] = Idle]
  BY <1>2, <1>4 DEF Answer, SetRow, Finish, Become
<1>7. b \notin disturbed => bill[b].status = "processing"
  BY <1>1, <1>2 DEF KnownAlone
<1>8. Confirmed(s) /\ Sound(b, s, order[b]) /\ SoundAlone(b, s, order[b])
  BY <1>2, <1>3, <1>5 DEF Confirmed, Sound, SoundAlone, Says
<1>9. b \notin disturbed => Booked(b, s)
  BY <1>3, <1>5, <1>6, <1>7 DEF Booked, Counts
<1> QED BY <1>2, <1>3, <1>5, <1>6, <1>8, <1>9, IdleTyped, RowStep

LEMMA PersistKeeps ==
  ASSUME IInv, NEW p \in Requests, Persist(p)
  PROVE  IInv'
<1>1. Busy(p) /\ req[p].pc = "persist"
  BY DEF Persist, Busy, At
<1>2. PICK b \in BillIds :
           /\ req[p].b = b /\ req[p] \in Local /\ LocalOK(req[p])
           /\ bill[b] \in Row /\ order[b] \in OrderStatus
           /\ Known(req[p], bill[b], order[b]) /\ Sound(b, bill[b], order[b])
           /\ b \notin disturbed => /\ KnownAlone(req[p], bill[b], order[b])
                                    /\ SoundAlone(b, bill[b], order[b])
           /\ Active(b)
  BY <1>1, AtWork
<1>3. PICK s : s = RowOf(bill[b].status, ~IsReward(b), FALSE)
  OBVIOUS
<1>4. /\ s \in Row /\ s.status = bill[b].status
      /\ s.debited = ~IsReward(b) /\ s.refunded = FALSE
  BY <1>2, <1>3, RowTyped DEF Row, IsReward
<1>5. PICK r : /\ req' = [req EXCEPT ![p] = r] /\ LocalOK(r) /\ r.b = b
               /\ r.pc = IF req[p].told \in Ended THEN "read" ELSE "park"
               /\ r.told = req[p].told
  <2> DEFINE step == IF req[p].told \in Ended THEN "read" ELSE "park"
  <2>1. Told(p, step, req[p].told) /\ req[p].told \in Word
    BY <1>2 DEF Persist, Goto, Local
  <2>2. step \in Steps \ {"idle"}
    BY DEF Steps
  <2> HIDE DEF step
  <2>3. PICK r : /\ req' = [req EXCEPT ![p] = r] /\ LocalOK(r) /\ r.b = b
                 /\ r.pc = step /\ r.told = req[p].told
    BY <1>1, <1>2, <2>1, <2>2, ToldLocals
  <2> QED BY <2>3 DEF step
<1>6. /\ bill' = [bill EXCEPT ![b] = s] /\ UNCHANGED <<claim, order, mishaps, disturbed>>
      /\ wallet' = wallet
  BY <1>2, <1>3 DEF Persist, Forget, SetRow
<1>7. Confirmed(s) /\ Sound(b, s, order[b]) /\ (b \notin disturbed => SoundAlone(b, s, order[b]))
  BY <1>1, <1>2, <1>4 DEF Known, Confirmed, Sound, SoundAlone
<1>8. Known(r, s, order[b])
  BY <1>1, <1>2, <1>4, <1>5, <1>7 DEF Known, Heeding, Confirmed
<1>9. b \notin disturbed => KnownAlone(r, s, order[b])
  BY <1>1, <1>2, <1>4, <1>5 DEF KnownAlone, Undoing
<1>10. Booked(b, s)
  BY <1>4, <1>6 DEF Booked, Counts
<1>11. r.pc # "idle"
  BY <1>5
<1> QED BY <1>2, <1>4, <1>5, <1>6, <1>7, <1>8, <1>9, <1>10, <1>11, RowStep

LEMMA ParkKeeps ==
  ASSUME IInv, NEW p \in Requests, Park(p)
  PROVE  IInv'
<1>1. Busy(p) /\ req[p].pc = "park"
  BY DEF Park, Busy, At
<1>2. PICK b \in BillIds :
           /\ req[p].b = b /\ req[p] \in Local /\ LocalOK(req[p])
           /\ bill[b] \in Row /\ order[b] \in OrderStatus
           /\ Known(req[p], bill[b], order[b]) /\ Sound(b, bill[b], order[b])
           /\ b \notin disturbed => /\ KnownAlone(req[p], bill[b], order[b])
                                    /\ SoundAlone(b, bill[b], order[b])
           /\ Active(b)
  BY <1>1, AtWork
<1>3. PICK s : s = RowOf("processing", ~IsReward(b), FALSE)
  OBVIOUS
<1>4. s \in Row /\ s.status = "processing" /\ s.debited = ~IsReward(b) /\ s.refunded = FALSE
  BY <1>3, RowTyped DEF Open, IsReward
<1>5. /\ bill' = [bill EXCEPT ![b] = s] /\ UNCHANGED <<claim, order, mishaps, disturbed>>
      /\ wallet' = wallet /\ req' = [req EXCEPT ![p] = Idle]
  BY <1>2, <1>3 DEF Park, Forget, SetRow, Finish, Become
<1>6. Confirmed(s) /\ Sound(b, s, order[b]) /\ SoundAlone(b, s, order[b])
  BY <1>2, <1>4 DEF Confirmed, Sound, SoundAlone, Says
<1>7. b \notin disturbed => bill[b].status = "processing"
  BY <1>1, <1>2 DEF KnownAlone
<1>8. b \notin disturbed => Booked(b, s)
  BY <1>4, <1>5, <1>7 DEF Booked, Counts
<1>9. s.status \in Open /\ s.status # "completed"
  BY <1>4 DEF Open
<1> QED BY <1>2, <1>4, <1>5, <1>6, <1>8, <1>9, IdleTyped, RowStep

LEMMA CrumbKeeps ==
  ASSUME IInv, NEW p \in Requests, Crumb(p)
  PROVE  IInv'
<1>1. Busy(p) /\ req[p].pc = "crumb"
  BY DEF Crumb, Busy, At
<1>2. PICK b \in BillIds :
           /\ req[p].b = b /\ req[p] \in Local /\ LocalOK(req[p])
           /\ bill[b] \in Row /\ order[b] \in OrderStatus
           /\ Known(req[p], bill[b], order[b]) /\ Sound(b, bill[b], order[b])
           /\ b \notin disturbed => /\ KnownAlone(req[p], bill[b], order[b])
                                    /\ SoundAlone(b, bill[b], order[b])
           /\ Active(b)
  BY <1>1, AtWork
<1>3. PICK s : s = RowOf("processing", req[p].seen.debited, req[p].seen.refunded)
  OBVIOUS
<1>4. /\ s \in Row /\ s.status = "processing"
      /\ s.debited = req[p].seen.debited /\ s.refunded = req[p].seen.refunded
  <2>1. req[p].seen.debited \in BOOLEAN /\ req[p].seen.refunded \in BOOLEAN
    BY <1>2 DEF Local, Row
  <2> QED BY <1>3, <2>1, RowTyped DEF Open
<1>5. /\ bill' = [bill EXCEPT ![b] = s] /\ UNCHANGED <<claim, order, mishaps, disturbed>>
      /\ wallet' = wallet /\ req' = [req EXCEPT ![p] = Idle]
  BY <1>2, <1>3 DEF Crumb, SetRow, Finish, Become
<1>6. b \notin disturbed => bill[b].status = "processing" /\ req[p].seen = bill[b]
  BY <1>1, <1>2 DEF KnownAlone, Undoing
<1>7. Confirmed(s) /\ Sound(b, s, order[b]) /\ (b \notin disturbed => SoundAlone(b, s, order[b]))
  BY <1>2, <1>4, <1>6 DEF Confirmed, Sound, SoundAlone, Says
<1>8. b \notin disturbed => Booked(b, s)
  BY <1>4, <1>5, <1>6 DEF Booked, Counts
<1>9. s.status \in Open /\ s.status # "completed"
  BY <1>4 DEF Open
<1> QED BY <1>2, <1>4, <1>5, <1>7, <1>8, <1>9, IdleTyped, RowStep

LEMMA SettleKeeps ==
  ASSUME IInv, NEW p \in Requests, Settle(p)
  PROVE  IInv'
<1>1. Busy(p) /\ req[p].pc = "settle"
  BY DEF Settle, Busy, At
<1>2. PICK b \in BillIds :
           /\ req[p].b = b /\ req[p] \in Local /\ LocalOK(req[p])
           /\ bill[b] \in Row /\ order[b] \in OrderStatus
           /\ Known(req[p], bill[b], order[b]) /\ Sound(b, bill[b], order[b])
           /\ b \notin disturbed => /\ KnownAlone(req[p], bill[b], order[b])
                                    /\ SoundAlone(b, bill[b], order[b])
           /\ Active(b)
  BY <1>1, AtWork
<1> DEFINE told == req[p].told
           seen == req[p].seen
           noted == IF Asked[b].via = "palmpay" THEN NotedPalmPay(seen, told)
                    ELSE NotedFlutterwave(seen, req[p].should)
<1>3. /\ told \in Word /\ told # "none" /\ Says(told, b, order[b])
      /\ Asked[b].via # "palmpay" => told \in Ended
  BY <1>1, <1>2 DEF Known, Heeding, Local
<1>4. PICK s : s = RowOf(ProcessingOr(told), seen.debited, seen.refunded \/ noted)
  OBVIOUS
<1>5. /\ s \in Row /\ s.status = ProcessingOr(told) /\ s.debited = seen.debited
      /\ s.refunded = (seen.refunded \/ noted)
  <2>1. seen \in Row /\ req[p].should \in BOOLEAN
    BY <1>2 DEF Local
  <2>2. seen.debited \in BOOLEAN /\ seen.refunded \in BOOLEAN
    BY <2>1 DEF Row
  <2>3. (seen.refunded \/ noted) \in BOOLEAN
    BY <2>2 DEF NotedPalmPay, NotedFlutterwave
  <2>4. ProcessingOr(told) \in {"none"} \cup Open \cup Ended
    BY <1>3, ProcessingTyped
  <2> HIDE DEF told, seen, noted
  <2> QED BY <1>4, <2>2, <2>3, <2>4, RowTyped
<1>6. /\ bill' = [bill EXCEPT ![b] = s] /\ UNCHANGED <<claim, order, mishaps, disturbed>>
      /\ IF Refundable(seen, told) /\ ~IsReward(b) THEN GiveBack(b) ELSE wallet' = wallet
      /\ Leave(p)
  BY <1>2, <1>4 DEF Settle, SetRow
<1>7. PICK r : /\ req' = [req EXCEPT ![p] = r] /\ LocalOK(r)
               /\ \/ IsReward(b) /\ r.pc = "claimEnd" /\ r.b = b /\ r.told = told
                  \/ ~IsReward(b) /\ r.pc = "idle" /\ r.b = NoId
  BY <1>1, <1>2, <1>6, LeaveLocals
<1>8. b \notin disturbed =>
        /\ bill[b].status = "processing" /\ seen = bill[b]
        /\ seen.debited = ~IsReward(b) /\ ~seen.refunded
  BY <1>1, <1>2 DEF KnownAlone, SoundAlone, Undoing
<1>9. /\ told \in Ended => s.status = told
      /\ told \notin Ended => told = "pending" /\ s.status = "processing"
                              /\ Asked[b].via = "palmpay"
  BY <1>3, <1>5, ProcessingTyped
<1>10. IsReward(b) => told \in Ended
  BY <1>3, PalmPayIsPaid
<1>11. Confirmed(s) /\ Sound(b, s, order[b])
  BY <1>2, <1>3, <1>9 DEF Confirmed, Sound, Ended, Says
<1>12. b \notin disturbed => SoundAlone(b, s, order[b])
  <2>1. told = "pending" /\ Asked[b].via = "palmpay" => ~noted
    BY DEF NotedPalmPay, Unpaid
  <2> QED BY <1>3, <1>5, <1>8, <1>9, <2>1 DEF SoundAlone, Ended, Says
<1>13. r.pc # "idle" => Known(r, s, order[b])
  BY <1>3, <1>7, <1>9, <1>10, <1>11 DEF Known, Confirmed, Heeding, Ended
<1>14. r.pc # "idle" /\ b \notin disturbed => KnownAlone(r, s, order[b])
  BY <1>7, <1>9, <1>10 DEF KnownAlone, Undoing
<1>15. b \notin disturbed => Booked(b, s)
  <2>1. ASSUME b \notin disturbed, ~IsReward(b) PROVE Booked(b, s)
    <3>1. Refundable(seen, told) <=> told \in Unpaid
      BY <1>8, <2>1 DEF Refundable
    <3>2. told \in Unpaid => s.status = told
      BY <1>9 DEF Unpaid, Ended
    <3>3. told \notin Unpaid => s.status \in {"processing", "completed"}
      BY <1>9 DEF Unpaid, Ended
    <3> QED BY <1>6, <1>8, <2>1, <3>1, <3>2, <3>3 DEF Booked, Counts, Unpaid
  <2>2. ASSUME IsReward(b) PROVE Booked(b, s)
    BY <1>6, <2>2 DEF Booked, Counts
  <2> QED BY <2>1, <2>2
<1>16. r.b \in {b, NoId} /\ (GiveBack(b) \/ wallet' = wallet)
       /\ (r.pc = "idle" => ~IsReward(b))
  BY <1>6, <1>7
<1> HIDE DEF told, seen, noted
<1> QED
  BY <1>2, <1>5, <1>6, <1>7, <1>11, <1>12, <1>13, <1>14, <1>15, <1>16, RowStep

-----------------------------------------------------------------------------
(* Steps that touch the order or the claim                                 *)

LEMMA OrderKeeps ==
  ASSUME IInv, NEW p \in Requests, NEW via, NEW next, Order(p, via, next),
         \A told \in Word \ {"none"} :
           /\ next[told] \in {"refund", "answer", "poll"}
           /\ next[told] = "refund" => told \in Unpaid
           /\ next[told] = "answer" => told \notin Unpaid
           /\ next[told] # "poll" => via = "palmpay"
  PROVE  IInv'
<1>1. Busy(p) /\ req[p].pc = "order"
  BY DEF Order, Busy, At
<1>2. PICK b \in BillIds :
           /\ req[p].b = b /\ req[p] \in Local /\ LocalOK(req[p])
           /\ bill[b] \in Row /\ order[b] \in OrderStatus
           /\ Known(req[p], bill[b], order[b]) /\ Sound(b, bill[b], order[b])
           /\ b \notin disturbed => /\ KnownAlone(req[p], bill[b], order[b])
                                    /\ SoundAlone(b, bill[b], order[b])
           /\ Active(b)
  BY <1>1, AtWork
<1> DEFINE undo == IF IsReward(b) THEN "undoClaim" ELSE "undo"
<1>3. /\ Confirmed(bill[b]) /\ bill[b].status # "none"
      /\ b \notin disturbed => bill[b].status = "processing" /\ order[b] = "none"
      /\ Asked[b].via = via /\ UNCHANGED <<bill, wallet, claim>>
  BY <1>1, <1>2 DEF Known, KnownAlone, Order, Heeding
<1>4. \A r : Told(p, undo, req[p].told) =>
        \E x : /\ req' = [req EXCEPT ![p] = x] /\ LocalOK(x) /\ x.pc = undo /\ x.b = b
  <2>1. undo \in Steps \ {"idle"} /\ req[p].told \in Word
    BY <1>2 DEF Steps, Local
  <2> HIDE DEF undo
  <2> QED BY <1>1, <1>2, <2>1, ToldLocals
<1>5. \A x, o : x.pc = undo /\ x.b = b => Known(x, bill[b], o)
  BY <1>3 DEF Known, Heeding
<1>6. CASE Goto(p, undo) /\ UNCHANGED <<order, mishaps, disturbed>>
  <2>1. PICK r : req' = [req EXCEPT ![p] = r] /\ LocalOK(r) /\ r.pc = undo /\ r.b = b
    BY <1>4, <1>6 DEF Goto
  <2>2. Known(r, bill[b], order[b]) /\ r.pc # "idle"
    BY <1>5, <2>1
  <2>3. b \notin disturbed => KnownAlone(r, bill[b], order[b])
    BY <1>3, <2>1 DEF KnownAlone, Undoing
  <2>4. mishaps' \in 0 .. MaxMishaps /\ disturbed' \subseteq BillIds
    BY <1>6 DEF IInv, Knowledge, Typed, TypeOK
  <2> HIDE DEF undo
  <2> QED BY <1>2, <1>3, <1>6, <2>1, <2>2, <2>3, <2>4, MoveStep
<1>7. CASE \E o \in Placed(via) :
             /\ order[b] = "none" /\ order' = [order EXCEPT ![b] = o]
             /\ \/ /\ \E told \in MapBillStatus(o) : Told(p, next[told], told)
                   /\ UNCHANGED <<mishaps, disturbed>>
                \/ /\ mishaps < MaxMishaps /\ mishaps' = mishaps + 1
                   /\ disturbed' = disturbed \cup {b} /\ Goto(p, undo)
  <2>1. PICK o \in Placed(via) :
             /\ order[b] = "none" /\ order' = [order EXCEPT ![b] = o]
             /\ \/ /\ \E told \in MapBillStatus(o) : Told(p, next[told], told)
                   /\ UNCHANGED <<mishaps, disturbed>>
                \/ /\ mishaps < MaxMishaps /\ mishaps' = mishaps + 1
                   /\ disturbed' = disturbed \cup {b} /\ Goto(p, undo)
    BY <1>7
  <2>2. o \in OrderStatus \ {"none"} /\ (Asked[b].via = "palmpay" => o \in Word)
    BY <1>3 DEF Placed, OrderStatus, Word, Taken, Ended
  <2>3. PICK r : /\ req' = [req EXCEPT ![p] = r] /\ LocalOK(r) /\ r.b = b
                 /\ r.pc # "idle" /\ Known(r, bill[b], o)
                 /\ b \notin disturbed' => KnownAlone(r, bill[b], o)
    <3>1. CASE /\ \E told \in MapBillStatus(o) : Told(p, next[told], told)
               /\ UNCHANGED <<mishaps, disturbed>>
      <4>1. PICK told \in MapBillStatus(o) : Told(p, next[told], told)
        BY <3>1
      <4>2. told \in Word \ {"none"} /\ Says(told, b, o)
        BY <2>2, WordSays
      <4>3. next[told] \in {"refund", "answer", "poll"}
        BY <4>2
      <4>4. next[told] \in Steps \ {"idle"}
        BY <4>3 DEF Steps
      <4>5. PICK r : /\ req' = [req EXCEPT ![p] = r] /\ LocalOK(r) /\ r.b = b
                     /\ r.pc = next[told] /\ r.told = told
        BY <1>1, <1>2, <4>1, <4>2, <4>4, ToldLocals
      <4>6. Known(r, bill[b], o)
        BY <1>3, <4>3, <4>5, <4>2 DEF Known
      <4>7. b \notin disturbed' => KnownAlone(r, bill[b], o)
        BY <1>3, <3>1, <4>3, <4>5 DEF KnownAlone, Undoing
      <4> QED BY <4>3, <4>5, <4>6, <4>7
    <3>2. CASE Goto(p, undo) /\ b \in disturbed'
      <4>1. PICK r : req' = [req EXCEPT ![p] = r] /\ LocalOK(r) /\ r.pc = undo /\ r.b = b
        BY <1>4, <3>2 DEF Goto
      <4> QED BY <1>5, <3>2, <4>1
    <3> HIDE DEF undo
    <3> QED BY <2>1, <3>1, <3>2
  <2>4. mishaps' \in 0 .. MaxMishaps /\ disturbed \subseteq disturbed'
        /\ disturbed' \subseteq BillIds
    BY <2>1, AskedAssumption DEF IInv, Knowledge, Typed, TypeOK
  <2>5. Leaves(p, b, r, bill[b], o)
    <3>1. bill' = [bill EXCEPT ![b] = bill[b]]
      BY <1>3 DEF IInv, Knowledge, Typed, TypeOK
    <3> QED
      BY <1>2, <1>3, <2>1, <2>3, <2>4, <2>2, <3>1
      DEF Leaves, IInv, Knowledge, Typed, TypeOK, ClaimStatus
  <2>6. Lawful(p, b, r, bill[b], o)
    <3>1. Sound(b, bill[b], o)
      BY <1>2, <1>3, <2>1, <2>2 DEF Sound, Says, Taken
    <3>2. b \notin disturbed' => SoundAlone(b, bill[b], o)
      BY <1>2, <1>3, <2>4 DEF SoundAlone
    <3> QED BY <1>2, <1>3, <2>1, <2>3, <3>1, <3>2 DEF Lawful
  <2>7. Bookkeeping(b, bill[b])
    BY <1>3 DEF Bookkeeping, Booked
  <2>8. Giving(b, r, bill[b], o)
    BY <1>2, <1>3, <2>3 DEF Giving
  <2> QED BY <2>5, <2>6, <2>7, <2>8, HandlerStep
<1> QED BY <1>2, <1>6, <1>7 DEF Order

LEMMA OrderPalmPayKeeps ==
  ASSUME IInv, NEW p \in Requests, OrderPalmPay(p) PROVE IInv'
<1> DEFINE next == [s \in Word |-> IF s \in Unpaid THEN "refund" ELSE "answer"]
<1>1. \A told \in Word \ {"none"} :
        /\ next[told] \in {"refund", "answer", "poll"}
        /\ next[told] = "refund" => told \in Unpaid
        /\ next[told] = "answer" => told \notin Unpaid
  OBVIOUS
<1>2. Order(p, "palmpay", next)
  BY DEF OrderPalmPay
<1> HIDE DEF next
<1> QED BY <1>1, <1>2, OrderKeeps

LEMMA OrderFlutterwaveKeeps ==
  ASSUME IInv, NEW p \in Requests, OrderFlutterwave(p) PROVE IInv'
<1> DEFINE next == [s \in Word |-> "poll"]
<1>1. \A told \in Word \ {"none"} : next[told] = "poll"
  OBVIOUS
<1>2. Order(p, "flutterwave", next)
  BY DEF OrderFlutterwave
<1> HIDE DEF next
<1> QED BY <1>1, <1>2, OrderKeeps

\* A step of a handler that touches the claim alone.
LEMMA ClaimStep ==
  ASSUME IInv, NEW p \in Requests, NEW b \in BillIds, NEW r, NEW st \in {"completed", "failed"},
         LocalOK(r), r.b \in {b, NoId}, req' = [req EXCEPT ![p] = r], req[p].b = b,
         Active(b), IsReward(b), bill[b].status # "none",
         claim' = [claim EXCEPT ![Asked[b].claim] = st],
         UNCHANGED <<bill, wallet, order, mishaps, disturbed>>,
         st = "completed" => order[b] \in Taken,
         r.pc # "idle" => st = "failed",
         r.pc # "idle" => Known(r, bill[b], order[b]),
         r.pc # "idle" /\ b \notin disturbed => KnownAlone(r, bill[b], order[b]),
         r.pc = "idle" /\ b \notin disturbed =>
           /\ bill[b].status \notin Open
           /\ st = "completed" <=> bill[b].status = "completed"
           /\ order[b] \in Serving => bill[b].status = "completed"
  PROVE  IInv'
<1>1. /\ Asked[b].claim \in Claims /\ claim \in [Claims -> ClaimStatus]
      /\ claim' \in [Claims -> ClaimStatus] /\ claim'[Asked[b].claim] = st
      /\ \A c \in Claims : c # Asked[b].claim => claim'[c] = claim[c]
  BY AskedAssumption DEF IsReward, IInv, Knowledge, Typed, TypeOK, ClaimStatus
<1>2. Leaves(p, b, r, bill[b], order[b])
  <2>1. bill' = [bill EXCEPT ![b] = bill[b]] /\ order' = [order EXCEPT ![b] = order[b]]
    BY DEF IInv, Knowledge, Typed, TypeOK
  <2> QED BY <1>1, <2>1 DEF Leaves, IInv, Knowledge, Typed, TypeOK
<1>3. Lawful(p, b, r, bill[b], order[b])
  <2>1. SoundAt(b)
    BY DEF IInv, Knowledge
  <2> QED BY <2>1 DEF Lawful, SoundAt
<1>4. Bookkeeping(b, bill[b])
  BY DEF Bookkeeping, Booked
<1>5. Giving(b, r, bill[b], order[b])
  BY <1>1 DEF Giving
<1> QED BY <1>2, <1>3, <1>4, <1>5, HandlerStep

LEMMA UndoClaimKeeps ==
  ASSUME IInv, NEW p \in Requests, UndoClaim(p)
  PROVE  IInv'
<1>1. Busy(p) /\ req[p].pc = "undoClaim"
  BY DEF UndoClaim, Busy, At
<1>2. PICK b \in BillIds :
           /\ req[p].b = b /\ req[p] \in Local /\ LocalOK(req[p])
           /\ bill[b] \in Row /\ order[b] \in OrderStatus
           /\ Known(req[p], bill[b], order[b]) /\ Sound(b, bill[b], order[b])
           /\ b \notin disturbed => /\ KnownAlone(req[p], bill[b], order[b])
                                    /\ SoundAlone(b, bill[b], order[b])
           /\ Active(b)
  BY <1>1, AtWork
<1>3. IsReward(b) /\ bill[b].status # "none" /\ Confirmed(bill[b])
  BY <1>1, <1>2 DEF Known
<1>4. PICK r : req' = [req EXCEPT ![p] = r] /\ LocalOK(r) /\ r.pc = "undoRow" /\ r.b = b
  <2>1. Told(p, "undoRow", req[p].told) /\ req[p].told \in Word
    BY <1>2 DEF UndoClaim, Goto, Local
  <2>2. "undoRow" \in Steps \ {"idle"}
    BY DEF Steps
  <2> QED BY <1>1, <1>2, <2>1, <2>2, ToldLocals
<1>5. /\ claim' = [claim EXCEPT ![Asked[b].claim] = "failed"]
      /\ UNCHANGED <<bill, wallet, order, mishaps, disturbed>>
  BY <1>2 DEF UndoClaim, FailClaim
<1>6. Known(r, bill[b], order[b])
  BY <1>3, <1>4 DEF Known, Heeding
<1>7. b \notin disturbed => KnownAlone(r, bill[b], order[b])
  BY <1>1, <1>2, <1>4 DEF KnownAlone, Undoing
<1> QED BY <1>2, <1>3, <1>4, <1>5, <1>6, <1>7, ClaimStep

LEMMA ClaimEndKeeps ==
  ASSUME IInv, NEW p \in Requests, ClaimEnd(p)
  PROVE  IInv'
<1>1. Busy(p) /\ req[p].pc = "claimEnd"
  BY DEF ClaimEnd, Busy, At
<1>2. PICK b \in BillIds :
           /\ req[p].b = b /\ req[p] \in Local /\ LocalOK(req[p])
           /\ bill[b] \in Row /\ order[b] \in OrderStatus
           /\ Known(req[p], bill[b], order[b]) /\ Sound(b, bill[b], order[b])
           /\ b \notin disturbed => /\ KnownAlone(req[p], bill[b], order[b])
                                    /\ SoundAlone(b, bill[b], order[b])
           /\ Active(b)
  BY <1>1, AtWork
<1>3. /\ IsReward(b) /\ bill[b].status # "none"
      /\ req[p].told \in Ended /\ Says(req[p].told, b, order[b])
  BY <1>1, <1>2 DEF Known, Heeding
<1>4. b \notin disturbed => bill[b].status = req[p].told
  BY <1>1, <1>2 DEF KnownAlone
<1>5. PICK st \in {"completed", "failed"} :
        /\ claim' = [claim EXCEPT ![Asked[b].claim] = st]
        /\ st = "completed" <=> req[p].told = "completed"
  BY <1>2 DEF ClaimEnd, CompleteClaim, FailClaim
<1>6. req' = [req EXCEPT ![p] = Idle] /\ UNCHANGED <<bill, wallet, order, mishaps, disturbed>>
  BY DEF ClaimEnd, Finish, Become
<1>7. /\ req[p].told \notin Open /\ (req[p].told = "completed" => order[b] \in Taken)
      /\ order[b] \in Serving => req[p].told = "completed"
  BY <1>3 DEF Open, Ended, Says, Taken, Serving
<1> QED
  BY <1>2, <1>3, <1>4, <1>5, <1>6, <1>7, IdleTyped, ClaimStep

-----------------------------------------------------------------------------
(* Steps of the user and of the provider                                   *)

\* Nobody is at work on a payment that was not initiated, and no order is open for it.
LEMMA Untouched ==
  ASSUME IInv, NEW b \in BillIds, bill[b].status = "none"
  PROVE  order[b] = "none" /\ \A q \in Requests : req[q].b # b
<1>1. order[b] = "none"
  BY DEF IInv, Knowledge, SoundAt, Sound, Confirmed
<1>2. ASSUME NEW q \in Requests, req[q].b = b PROVE FALSE
  <2>1. req[q].pc # "idle"
    BY <1>2, AskedAssumption DEF IInv, Knowledge, Typed, LocalOK
  <2>2. KnownAt(q)
    BY <2>1 DEF IInv, Knowledge, Busy, At
  <2> QED BY <1>2, <2>2 DEF KnownAt, Known
<1> QED BY <1>1, <1>2

LEMMA InitiateKeeps ==
  ASSUME IInv, NEW b \in BillIds, Initiate(b)
  PROVE  IInv'
<1> DEFINE s == RowOf("pending", FALSE, FALSE)
<1>1. /\ bill[b].status = "none" /\ Redeemable(b) /\ Meet(b)
      /\ bill' = [bill EXCEPT ![b] = s] /\ UNCHANGED <<wallet, claim, order, req, mishaps>>
  BY DEF Initiate, SetRow
<1>2. s \in Row /\ s.status = "pending" /\ ~s.debited /\ ~s.refunded
  <2>1. "pending" \in {"none"} \cup Open \cup Ended
    BY DEF Open
  <2> QED BY <2>1, RowTyped
<1> HIDE DEF s
<1>3. Typed /\ \A x \in BillIds : bill'[x] = IF x = b THEN s ELSE bill[x]
  BY <1>1 DEF IInv, Knowledge, Typed, TypeOK
<1>4. order[b] = "none" /\ \A q \in Requests : req[q].b # b
  BY <1>1, Untouched
<1>5. /\ disturbed \subseteq disturbed' /\ disturbed' \subseteq BillIds
      /\ \/ Kin(b) \subseteq disturbed'
         \/ \A x \in Kin(b) : ~Served(x) /\ (x # b => bill[x].status \notin Open)
  BY <1>1, <1>3, MeetSays
<1>6. Knowledge'
  <2>1. Typed'
    BY <1>1, <1>2, <1>3, <1>5 DEF Typed, TypeOK
  <2>2. ASSUME NEW x \in BillIds PROVE SoundAt(x)'
    <3>1. CASE x = b
      BY <1>1, <1>2, <1>3, <1>4, <3>1
      DEF SoundAt, Sound, SoundAlone, Confirmed, Says, Word
    <3>2. CASE x # b
      BY <1>1, <1>3, <1>5, <3>2 DEF IInv, Knowledge, SoundAt
    <3> QED BY <3>1, <3>2
  <2>3. ASSUME NEW q \in Requests, Busy(q)' PROVE KnownAt(q)'
    <3>1. Busy(q) /\ req[q].b \in BillIds \ {b}
      BY <1>1, <1>3, <1>4, <2>3 DEF Busy, At, Typed, LocalOK
    <3> QED BY <1>1, <1>3, <1>5, <3>1 DEF IInv, Knowledge, KnownAt
  <2>4. Met' /\ ClaimsServed'
    BY <1>1, <1>5 DEF IInv, Knowledge, Met, ClaimsServed
  <2> QED BY <2>1, <2>2, <2>3, <2>4 DEF Knowledge
<1>7. BooksBalance'
  <2>1. Bookkeeping(b, s)
    BY <1>1, <1>2 DEF Bookkeeping, Booked, Counts
  <2>2. bill'[b] = s /\ \A x \in BillIds \ {b} : bill'[x] = bill[x]
    BY <1>3
  <2> QED BY <1>3, <1>5, <2>1, <2>2, BooksStep DEF IInv
<1>8. Gifts'
  <2> SUFFICES ASSUME NEW c \in Claims, disturbed' \cap PaymentsOf(c) = {}
               PROVE  GiftSound(c)'
    BY DEF Gifts, PaymentsOf
  <2>1. GiftSound(c)
    BY <1>5 DEF IInv, Gifts, PaymentsOf
  <2>2. PaymentsOf(c)' = PaymentsOf(c) /\ PaymentsOf(c) \subseteq BillIds
    BY DEF PaymentsOf
  <2>3. \A x \in BillIds : Served(x)' <=> Served(x)
    BY <1>1 DEF Served
  <2>4. CASE c # Asked[b].claim
    <3>1. b \notin PaymentsOf(c)
      BY <2>4 DEF PaymentsOf
    <3>2. \A x \in PaymentsOf(c) : bill'[x] = bill[x] /\ (Active(x)' <=> Active(x))
      BY <1>3, <2>2, <2>3, <3>1 DEF Active
    <3> QED BY <1>1, <2>1, <2>2, <2>3, <3>2 DEF GiftSound
  <2>5. CASE c = Asked[b].claim
    <3>1. IsReward(b) /\ b \in PaymentsOf(c) /\ claim[c] = "pending"
      BY <1>1, <2>5, AskedAssumption DEF IsReward, PaymentsOf, Redeemable
    <3>2. PaymentsOf(c) \subseteq Kin(b)
      BY <2>5, <3>1 DEF PaymentsOf, Kin
    <3>3. \A x \in PaymentsOf(c) : ~Served(x) /\ (x # b => ~Active(x))
      BY <1>5, <3>1, <3>2 DEF Active
    <3>4. \A x \in PaymentsOf(c) : order[x] \notin Serving /\ bill[x].status # "completed"
      BY <1>4, <2>1, <3>1, <3>3 DEF GiftSound, Serving
    <3>5. \A x \in PaymentsOf(c) : x # b => ~Active(x)'
      BY <1>3, <2>2, <2>3, <3>3 DEF Active
    <3>6. \A x \in PaymentsOf(c) : bill'[x].status # "completed"
      BY <1>2, <1>3, <2>2, <3>4
    <3> QED BY <1>1, <2>2, <3>1, <3>4, <3>5, <3>6 DEF GiftSound
  <2> QED BY <2>4, <2>5
<1> QED BY <1>6, <1>7, <1>8 DEF IInv

\* What was said of an order under way remains true when it ends, and its payment, if
\* no handlers met on it, is under way or was completed.
LEMMA OrderEndsKeeps ==
  ASSUME IInv, NEW b \in BillIds, OrderEnds(b)
  PROVE  IInv'
<1>1. PICK s \in OrderStatus :
        /\ order' = [order EXCEPT ![b] = s] /\ s # "none"
        /\ \/ order[b] = "pending" /\ s \in Ended
           \/ order[b] = "accepted" /\ s \in {"completed", "lapsed"}
  BY DEF OrderEnds, OrderStatus, Word, Taken, Ended
<1>2. UNCHANGED <<bill, wallet, claim, req, mishaps, disturbed>>
  BY DEF OrderEnds
<1>3. Typed /\ \A x \in BillIds : order'[x] = IF x = b THEN s ELSE order[x]
  BY <1>1 DEF IInv, Knowledge, Typed, TypeOK
<1>4. SoundAt(b) /\ bill[b] \in Row
  BY <1>3 DEF IInv, Knowledge, Typed, TypeOK
<1>5. Confirmed(bill[b]) /\ bill[b].status # "cancelled"
      /\ (b \notin disturbed => bill[b].status \in {"processing", "completed"})
      /\ (b \notin disturbed /\ order[b] = "pending" => bill[b].status = "processing")
  BY <1>1, <1>4
  DEF SoundAt, Sound, SoundAlone, Says, Confirmed, Row, Open, Ended, Taken
<1>6. \A word \in Word : Says(word, b, order[b]) => Says(word, b, s)
  BY <1>1 DEF Says, Taken, Ended
<1>7. Knowledge'
  <2>1. Typed'
    BY <1>1, <1>2, <1>3 DEF Typed, TypeOK
  <2>2. ASSUME NEW x \in BillIds PROVE SoundAt(x)'
    <3>1. CASE x = b
      <4>1. Sound(b, bill[b], s)
        <5>1. Says(bill[b].status, b, order[b]) => Says(bill[b].status, b, s)
          BY <1>1 DEF Says, Taken, Ended
        <5>2. Asked[b].via = "palmpay" => s \in Word
          BY <1>1, <1>4 DEF SoundAt, Sound, Word, Ended
        <5> QED BY <1>4, <1>5, <5>1, <5>2 DEF SoundAt, Sound
      <4>2. b \notin disturbed => SoundAlone(b, bill[b], s)
        BY <1>4, <1>5 DEF SoundAt, SoundAlone
      <4> QED BY <1>2, <1>3, <3>1, <4>1, <4>2 DEF SoundAt
    <3>2. CASE x # b
      BY <1>2, <1>3, <3>2 DEF IInv, Knowledge, SoundAt
    <3> QED BY <3>1, <3>2
  <2>3. ASSUME NEW q \in Requests, Busy(q)' PROVE KnownAt(q)'
    <3>1. KnownAt(q) /\ req[q].b \in BillIds /\ req[q].told \in Word
      BY <1>2, <1>3, <2>3 DEF IInv, Knowledge, Busy, At, Typed, LocalOK, Local
    <3>2. CASE req[q].b # b
      BY <1>2, <1>3, <3>1, <3>2 DEF KnownAt
    <3>3. CASE req[q].b = b
      <4>1. Known(req[q], bill[b], s)
        BY <1>6, <3>1, <3>3 DEF KnownAt, Known
      <4>2. b \notin disturbed => KnownAlone(req[q], bill[b], s)
        BY <1>1, <3>1, <3>3 DEF KnownAt, KnownAlone
      <4> QED BY <1>2, <1>3, <3>3, <4>1, <4>2 DEF KnownAt
    <3> QED BY <3>2, <3>3
  <2>4. Met'
    BY <1>2 DEF IInv, Knowledge, Met
  <2>5. ClaimsServed'
    <3> SUFFICES ASSUME NEW c \in Claims, claim'[c] = "completed"
                 PROVE  \E x \in BillIds : Asked[x].claim = c /\ order'[x] \in Taken
      BY DEF ClaimsServed
    <3>1. PICK x \in BillIds : Asked[x].claim = c /\ order[x] \in Taken
      BY <1>2 DEF IInv, Knowledge, ClaimsServed
    <3>2. order'[x] \in Taken
      BY <1>1, <1>3, <3>1 DEF Taken
    <3> QED BY <3>1, <3>2
  <2> QED BY <2>1, <2>2, <2>3, <2>4, <2>5 DEF Knowledge
<1>8. BooksBalance'
  BY <1>2 DEF IInv, BooksBalance, BillsOf, Spent
<1>9. Gifts'
  <2> SUFFICES ASSUME NEW c \in Claims, disturbed' \cap PaymentsOf(c) = {}
               PROVE  GiftSound(c)'
    BY DEF Gifts, PaymentsOf
  <2>1. GiftSound(c)
    BY <1>2 DEF IInv, Gifts, PaymentsOf
  <2>2. PaymentsOf(c)' = PaymentsOf(c) /\ PaymentsOf(c) \subseteq BillIds
    BY DEF PaymentsOf
  <2>3. \A x \in BillIds : (Served(x)' <=> Served(x)) /\ (Active(x)' <=> Active(x))
    BY <1>2 DEF Served, Active
  <2>4. CASE order[b] = "accepted" \/ b \notin PaymentsOf(c)
    <3>1. \A x \in PaymentsOf(c) : order'[x] \in Serving => order[x] \in Serving
      BY <1>1, <1>3, <2>2, <2>4 DEF Serving
    <3> QED BY <1>2, <2>1, <2>2, <2>3, <3>1 DEF GiftSound
  <2>5. CASE order[b] = "pending" /\ b \in PaymentsOf(c)
    <3>1. Active(b)
      BY <1>2, <1>5, <2>5 DEF Active, Open
    <3>2. claim[c] # "completed"
      BY <2>1, <2>5, <3>1 DEF GiftSound
    <3>3. \A x \in PaymentsOf(c) : order[x] \notin Serving
      BY <2>1, <2>5, <3>1, <3>2 DEF GiftSound, Serving
    <3> QED BY <1>2, <1>3, <2>1, <2>2, <2>3, <3>1, <3>2, <3>3 DEF GiftSound
  <2> QED BY <1>1, <2>4, <2>5
<1> QED BY <1>7, <1>8, <1>9 DEF IInv

\* A claim is made, or made again after its gift failed.
LEMMA ClaimRewardKeeps ==
  ASSUME IInv, NEW c \in Claims, ClaimReward(c)
  PROVE  IInv'
<1>1. claim[c] # "completed" /\ UNCHANGED <<bill, wallet, order, req, mishaps, disturbed>>
  BY DEF ClaimReward
<1>2. /\ claim' \in [Claims -> ClaimStatus]
      /\ \A d \in Claims : claim'[d] = IF d = c THEN "pending" ELSE claim[d]
  BY DEF ClaimReward, ClaimStatus, IInv, Knowledge, Typed, TypeOK
<1>3. Knowledge'
  <2>1. Typed'
    BY <1>1, <1>2 DEF ClaimStatus, IInv, Knowledge, Typed, TypeOK
  <2>2. (\A b \in BillIds : SoundAt(b))' /\ (\A p \in Requests : Busy(p) => KnownAt(p))'
    BY <1>1 DEF IInv, Knowledge, SoundAt, Busy, At, KnownAt
  <2>3. Met' /\ ClaimsServed'
    BY <1>1, <1>2 DEF IInv, Knowledge, Met, ClaimsServed
  <2> QED BY <2>1, <2>2, <2>3 DEF Knowledge
<1>4. BooksBalance'
  BY <1>1 DEF IInv, BooksBalance, BillsOf, Spent
<1>5. Gifts'
  <2> SUFFICES ASSUME NEW d \in Claims, disturbed' \cap PaymentsOf(d) = {}
               PROVE  GiftSound(d)'
    BY DEF Gifts, PaymentsOf
  <2>1. GiftSound(d)
    BY <1>1 DEF IInv, Gifts, PaymentsOf
  <2>2. PaymentsOf(d)' = PaymentsOf(d) /\ PaymentsOf(d) \subseteq BillIds
    BY DEF PaymentsOf
  <2>3. \A x \in BillIds : (Served(x)' <=> Served(x)) /\ (Active(x)' <=> Active(x))
    BY <1>1 DEF Served, Active
  <2>4. claim'[d] = "completed" <=> claim[d] = "completed"
    BY <1>1, <1>2
  <2> QED BY <1>1, <2>1, <2>2, <2>3, <2>4 DEF GiftSound
<1> QED BY <1>3, <1>4, <1>5 DEF IInv

-----------------------------------------------------------------------------
(* The invariant                                                           *)

LEMMA InitKeeps == Init => IInv
<1> SUFFICES ASSUME Init PROVE IInv
  OBVIOUS
<1>1. Typed
  BY AskedAssumption, IdleTyped
  DEF Init, Typed, TypeOK, Local, LocalOK, NoRow, RowOf, Row, OrderStatus, Word
<1>2. \A b \in BillIds : bill[b].status = "none" /\ order[b] = "none"
  BY DEF Init, NoRow, RowOf
<1>3. \A p \in Requests : ~Busy(p) /\ req[p].b = NoId
  BY IdleTyped DEF Init, Busy, At
<1>4. \A b \in BillIds : SoundAt(b)
  BY <1>2 DEF SoundAt, Sound, SoundAlone, Confirmed, Says, Word
<1>5. Met /\ ClaimsServed
  BY <1>3, AskedAssumption DEF Met, ClaimsServed, Init
<1>6. BooksBalance
  <2> SUFFICES ASSUME NEW u \in Users
               PROVE  wallet[u] = InitWallet[u] - SumFunctionOnSet(Amounts, Spent(u))
    BY DEF BooksBalance
  <2>1. Spent(u) = {}
    BY <1>2 DEF Spent, BillsOf
  <2>2. SumFunctionOnSet(Amounts, Spent(u)) = 0
    BY <2>1, SumEmpty
  <2>3. wallet[u] = InitWallet[u] /\ InitWallet[u] \in Int
    BY AskedAssumption DEF Init
  <2> QED BY <2>2, <2>3
<1>7. Gifts
  <2>1. \A b \in BillIds : ~Active(b)
    BY <1>2, <1>3, AskedAssumption DEF Active, Served, Open
  <2>2. \A c \in Claims : claim[c] = "none"
    BY DEF Init
  <2> QED BY <1>2, <2>1, <2>2 DEF Gifts, GiftSound, PaymentsOf, Serving
<1> QED BY <1>1, <1>3, <1>4, <1>5, <1>6, <1>7 DEF IInv, Knowledge

LEMMA AdvanceKeeps ==
  ASSUME IInv, NEW p \in Requests, Advance(p)
  PROVE  IInv'
<1>1. CASE DebitPalmPay(p) \/ DebitFlutterwave(p)
  BY <1>1, DebitKeeps DEF DebitPalmPay, DebitFlutterwave
<1>2. CASE OrderPalmPay(p)
  BY <1>2, OrderPalmPayKeeps
<1>3. CASE OrderFlutterwave(p)
  BY <1>3, OrderFlutterwaveKeeps
<1>4. CASE Undo(p)
  BY <1>4, UndoKeeps
<1>5. CASE UndoClaim(p)
  BY <1>5, UndoClaimKeeps
<1>6. CASE UndoRow(p)
  BY <1>6, UndoRowKeeps
<1>7. CASE RefundNow(p)
  BY <1>7, RefundNowKeeps
<1>8. CASE Answer(p)
  BY <1>8, AnswerKeeps
<1>9. CASE Poll(p)
  BY <1>9, PollKeeps
<1>10. CASE Persist(p)
  BY <1>10, PersistKeeps
<1>11. CASE Park(p)
  BY <1>11, ParkKeeps
<1>12. CASE Crumb(p)
  BY <1>12, CrumbKeeps
<1>13. CASE ReadFresh(p)
  BY <1>13, ReadFreshKeeps
<1>14. CASE Lock(p)
  BY <1>14, LockKeeps
<1>15. CASE Settle(p)
  BY <1>15, SettleKeeps
<1>16. CASE ClaimEnd(p)
  BY <1>16, ClaimEndKeeps
<1> QED
  BY <1>1, <1>2, <1>3, <1>4, <1>5, <1>6, <1>7, <1>8, <1>9, <1>10, <1>11, <1>12, <1>13,
     <1>14, <1>15, <1>16
  DEF Advance

LEMMA NextKeeps == IInv /\ [Next]_vars => IInv'
<1> SUFFICES ASSUME IInv, [Next]_vars PROVE IInv'
  OBVIOUS
<1>1. ASSUME NEW c \in Claims, ClaimReward(c) PROVE IInv'
  BY <1>1, ClaimRewardKeeps
<1>2. ASSUME NEW p \in Requests, NEW b \in BillIds, Confirm(p, b) PROVE IInv'
  BY <1>2, ConfirmKeeps
<1>3. ASSUME NEW p \in Requests, NEW b \in BillIds, Notice(p, b) PROVE IInv'
  BY <1>3, NoticeKeeps
<1>4. ASSUME NEW p \in Requests, NEW b \in BillIds, SyncBillPayment(p, b) PROVE IInv'
  BY <1>4, SyncKeeps
<1>5. ASSUME NEW p \in Requests, Advance(p) PROVE IInv'
  BY <1>5, AdvanceKeeps
<1>6. ASSUME NEW p \in Requests, RequestLost(p) PROVE IInv'
  BY <1>6, RequestLostKeeps
<1>7. ASSUME NEW b \in BillIds, InitiatePalmPay(b) \/ InitiateFlutterwave(b) PROVE IInv'
  BY <1>7, InitiateKeeps DEF InitiatePalmPay, InitiateFlutterwave
<1>8. ASSUME NEW b \in BillIds, OrderEnds(b) PROVE IInv'
  BY <1>8, OrderEndsKeeps
<1>9. CASE UNCHANGED vars
  <2>1. UNCHANGED <<bill, wallet, claim, order, req, mishaps, disturbed>>
    BY <1>9 DEF vars
  <2>2. Knowledge'
    BY <2>1
    DEF IInv, Knowledge, Typed, TypeOK, SoundAt, Busy, At, KnownAt, Met, ClaimsServed
  <2>3. BooksBalance'
    BY <2>1 DEF IInv, BooksBalance, BillsOf, Spent
  <2>4. Gifts'
    BY <2>1 DEF IInv, Gifts, GiftSound, PaymentsOf, Active, Served
  <2> QED BY <2>2, <2>3, <2>4 DEF IInv
<1> QED
  BY <1>1, <1>2, <1>3, <1>4, <1>5, <1>6, <1>7, <1>8, <1>9 DEF Next

\* The parts of the invariant hold of every reachable state.
THEOREM BillInvariant == Spec => []IInv
BY InitKeeps, NextKeeps, PTL DEF Spec

\* Every variable has its type, however the handlers of
\* modules/bill-payment/bill-payment.service.ts and the webhooks interleave.
THEOREM BillTypeOK == Spec => []TypeOK
<1>1. IInv => TypeOK
  BY DEF IInv, Knowledge, Typed
<1> QED BY <1>1, BillInvariant, PTL

\* A payment is completed only when PalmPay has served its order, or Flutterwave has
\* served or accepted it, and cancelled or failed only on the provider's word, or,
\* failing against it, where handlers met or one was lost; nothing is ordered before it
\* is confirmed; and a claim is completed only by an order that was so taken.
THEOREM BillEvidence == Spec => []Evidence
<1>1. IInv => Evidence
  <2> SUFFICES ASSUME IInv PROVE Evidence
    OBVIOUS
  <2>1. \A b \in BillIds : SoundAt(b)
    BY DEF IInv, Knowledge
  <2>2. ClaimsServed
    BY DEF IInv, Knowledge
  <2> QED
    BY <2>1, <2>2 DEF Evidence, SoundAt, Sound, SoundAlone, Says, ClaimsServed, Confirmed
<1> QED BY <1>1, BillInvariant, PTL

\* The NGN wallet of a user on none of whose payments handlers met or were lost lacks
\* exactly what the payments under way and completed cost.
THEOREM BillBooksBalance == Spec => []BooksBalance
<1>1. IInv => BooksBalance
  BY DEF IInv
<1> QED BY <1>1, BillInvariant, PTL

\* A reward is given once, unless two of its payments were open together or one was
\* disturbed; and when no handler is at work its claim says whether it was.
THEOREM BillGiftOnce == Spec => []GiftOnce
<1>1. IInv => GiftOnce
  <2> SUFFICES ASSUME IInv, NEW c \in Claims, disturbed \cap PaymentsOf(c) = {}
               PROVE  /\ Cardinality({b \in PaymentsOf(c) : order[b] = "completed"}) <= 1
                      /\ (\A b \in PaymentsOf(c) : ~Served(b)) =>
                           (claim[c] = "completed" <=>
                              \E b \in PaymentsOf(c) : bill[b].status = "completed")
    BY DEF GiftOnce
  <2>1. GiftSound(c)
    BY DEF IInv, Gifts
  <2> DEFINE G == {b \in PaymentsOf(c) : order[b] = "completed"}
  <2>2. \A x, y \in G : x = y
    BY <2>1 DEF GiftSound, Serving
  <2>3. G = {} \/ \E x : G = {x}
    BY <2>2
  <2>4. Cardinality(G) <= 1
    <3> HIDE DEF G
    <3>1. Cardinality(G) = 0 \/ Cardinality(G) = 1
      BY <2>3, FS_EmptySet, FS_Singleton, Zenon
    <3> QED BY <3>1
  <2> QED BY <2>1, <2>4 DEF GiftSound
<1> QED BY <1>1, BillInvariant, PTL
=============================================================================
