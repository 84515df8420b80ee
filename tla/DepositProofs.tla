---------------------------- MODULE DepositProofs ----------------------------
(***************************************************************************)
(* TypeOK and Evidence hold of deposits for any number of users, deposits  *)
(* and handlers, however they interleave and whichever are lost.  The      *)
(* inductive invariant adds what each handler knows of the provider's      *)
(* order, and that one handler at a time opens it.                         *)
(***************************************************************************)
EXTENDS Deposit, Sums, TLAPS

Local == [pc : Steps, d : DepositIds \cup {NoId}, told : Status]
LocalOK(r) == r \in Local /\ (r.pc # "idle" => r.d \in DepositIds)
Typed == TypeOK /\ \A p \in Requests : LocalOK(req[p])

\* Steps of the initiation that may still write the row or open an order.
Opening == {"ask", "account", "markFailed"}

\* What a handler with locals r knows of its deposit, from its row s, its charge
\* c, and whether it is disturbed.
Known(r, s, c, dist) ==
  /\ r.pc = "ask" => s = "pending" /\ c = "none"
  /\ r.pc = "markFailed" => c = "none" \/ dist
  /\ r.pc \in {"find", "apply"} /\ r.told \in Ended => c = r.told
  /\ r.pc = "apply" => r.told \in Ended
KnownAt(p) ==
  Known(req[p], row[req[p].d], charge[req[p].d], req[p].d \in disturbed)

Sound(s, c, dist) ==
  /\ s = "none" => c = "none"
  /\ s \in {"completed", "cancelled"} => c = s
  /\ s = "failed" /\ c # "failed" => c = "none" \/ dist
SoundAt(d) == Sound(row[d], charge[d], d \in disturbed)

Alone ==
  \A p, q \in Requests :
    p # q /\ req[p].pc \in Opening /\ req[q].pc \in Opening => req[p].d # req[q].d

IInv ==
  /\ Typed
  /\ \A d \in DepositIds : SoundAt(d)
  /\ \A p \in Requests : Busy(p) => KnownAt(p)
  /\ Alone

\* A step of p that leaves it locals of their type.
LEMMA TypedStep ==
  ASSUME Typed, NEW p \in Requests, NEW r, LocalOK(r), req' = [req EXCEPT ![p] = r],
         row' \in [DepositIds -> Status], account' \subseteq DepositIds,
         wallet' \in [Users -> Int], charge' \in [DepositIds -> Status],
         lost' \in 0 .. MaxLost, disturbed' \subseteq DepositIds
  PROVE  Typed'
<1>1. TypeOK'
  BY DEF Typed, TypeOK, LocalOK, Local
<1>2. \A q \in Requests : req'[q] = IF q = p THEN r ELSE req[q]
  BY DEF Typed, TypeOK
<1>3. \A q \in Requests : LocalOK(req'[q])
  BY <1>2 DEF Typed
<1> QED BY <1>1, <1>3 DEF Typed

\* A step of p on deposit d: the others keep what they know, if only the one
\* that is opening the order opens it.
LEMMA DepositStep ==
  ASSUME IInv, NEW p \in Requests, NEW d \in DepositIds, NEW r, LocalOK(r),
         req' = [req EXCEPT ![p] = r], r.pc # "idle" => r.d = d,
         row' \in [DepositIds -> Status], account' \subseteq DepositIds,
         wallet' \in [Users -> Int], charge' \in [DepositIds -> Status],
         lost' \in 0 .. MaxLost, disturbed' \subseteq DepositIds,
         \A e \in DepositIds \ {d} : row'[e] = row[e] /\ charge'[e] = charge[e],
         disturbed \subseteq disturbed', disturbed' \subseteq disturbed \cup {d},
         charge[d] \in Ended => charge'[d] = charge[d],
         charge[d] = "none" /\ (charge'[d] # "none" \/ row'[d] # row[d]) =>
           \/ req[p].pc \in Opening /\ req[p].d = d
           \/ \A q \in Requests \ {p} : req[q].d # d,
         r.pc \in Opening =>
           \/ req[p].pc \in Opening /\ req[p].d = d
           \/ \A q \in Requests \ {p} : req[q].d # d,
         SoundAt(d)', r.pc # "idle" => Known(r, row'[d], charge'[d], d \in disturbed')
  PROVE  IInv'
<1>1. Typed'
  BY TypedStep DEF IInv
<1>2. \A q \in Requests : req'[q] = IF q = p THEN r ELSE req[q]
  BY DEF IInv, Typed, TypeOK
<1>3. ASSUME NEW e \in DepositIds PROVE SoundAt(e)'
  <2>1. CASE e = d
    BY <2>1
  <2>2. CASE e # d
    BY <2>2 DEF IInv, SoundAt
  <2> QED BY <2>1, <2>2
<1>4. ASSUME NEW q \in Requests, Busy(q)' PROVE KnownAt(q)'
  <2>1. CASE q = p
    BY <1>2, <1>4, <2>1 DEF Busy, At, KnownAt
  <2>2. CASE q # p /\ req[q].d # d
    <3>1. Busy(q) /\ KnownAt(q) /\ req[q].d \in DepositIds
      BY <1>2, <1>4, <2>2 DEF IInv, Typed, LocalOK, Busy, At
    <3> QED BY <1>2, <2>2, <3>1 DEF KnownAt, Known
  <2>3. CASE q # p /\ req[q].d = d
    <3>1. Busy(q) /\ KnownAt(q)
      BY <1>2, <1>4, <2>3 DEF IInv, Busy, At
    <3>2. charge[d] = "none" /\ (charge'[d] # "none" \/ row'[d] # row[d])
            => req[q].pc \notin Opening
      BY <2>3 DEF IInv, Alone
    <3> QED BY <1>2, <2>3, <3>1, <3>2 DEF KnownAt, Known, Opening, Ended
  <2> QED BY <2>1, <2>2, <2>3
<1>5. Alone'
  <2> SUFFICES ASSUME NEW q1 \in Requests, NEW q2 \in Requests, q1 # q2,
                      req'[q1].pc \in Opening, req'[q2].pc \in Opening
               PROVE  req'[q1].d # req'[q2].d
    BY DEF Alone
  <2>1. r.pc \in Opening => r.d = d
    BY DEF Opening
  <2> QED BY <1>2, <2>1 DEF IInv, Alone
<1> QED BY <1>1, <1>3, <1>4, <1>5 DEF IInv

-----------------------------------------------------------------------------
(* One lemma per action                                                    *)

LEMMA LocalsTyped ==
  ASSUME NEW step \in Steps \ {"idle"}, NEW d \in DepositIds, NEW told \in Status
  PROVE  LocalOK(Locals(step, d, told))
BY DEF LocalOK, Local, Locals

LEMMA IdleTyped == LocalOK(Idle) /\ Idle.pc = "idle"
BY DEF LocalOK, Local, Idle, Locals, Steps, Status

\* The deposit of a busy handler.
LEMMA DepositOf ==
  ASSUME IInv, NEW p \in Requests, Busy(p)
  PROVE  \E d \in DepositIds, told \in Status :
           /\ req[p].d = d /\ req[p].told = told
           /\ Known(req[p], row[d], charge[d], d \in disturbed) /\ SoundAt(d)
<1>1. req[p].d \in DepositIds /\ req[p].told \in Status
  BY DEF IInv, Typed, LocalOK, Local, Busy, At
<1> QED BY <1>1 DEF IInv, KnownAt

LEMMA InitiateKeeps ==
  ASSUME IInv, NEW p \in Requests, NEW d \in DepositIds, NEW via, Initiate(p, d, via)
  PROVE  IInv'
<1> DEFINE r == Locals("ask", d, "none")
<1>1. LocalOK(r) /\ r.pc = "ask" /\ r.d = d
  BY LocalsTyped DEF Locals, Steps, Status
<1>2. SoundAt(d)' /\ Known(r, row'[d], charge'[d], d \in disturbed')
  BY <1>1 DEF Initiate, IInv, Typed, TypeOK, SoundAt, Sound, Known, SetRow, Ended
<1>3. req' = [req EXCEPT ![p] = r]
  BY DEF Initiate, Become
<1> HIDE DEF r
<1> QED
  BY <1>1, <1>2, <1>3, DepositStep
  DEF Initiate, IInv, Typed, TypeOK, SetRow, Status, At, Opening

LEMMA AskKeeps ==
  ASSUME IInv, NEW p \in Requests, NEW via, NEW GoOn, Ask(p, via, GoOn),
         GoOn => Goto(p, "account") \/ Finish(p)
  PROVE  IInv'
<1>1. PICK d \in DepositIds, told \in Status :
        /\ req[p].d = d /\ req[p].told = told
        /\ Known(req[p], row[d], charge[d], d \in disturbed) /\ SoundAt(d)
  BY DepositOf DEF Ask, Busy, At
<1>2. req[p].pc = "ask" /\ row[d] = "pending" /\ charge[d] = "none"
  BY <1>1 DEF Ask, At, Known
<1>3. PICK r : /\ LocalOK(r) /\ req' = [req EXCEPT ![p] = r]
               /\ \/ r.pc = "markFailed" /\ r.d = d /\ charge' = charge
                                         /\ disturbed' = disturbed
                  \/ r.pc = "markFailed" /\ r.d = d /\ disturbed' = disturbed \cup {d}
                  \/ r.pc = "account" /\ r.d = d /\ disturbed' = disturbed
                  \/ r.pc = "idle" /\ disturbed' = disturbed
  <2>1. \/ Goto(p, "markFailed") /\ charge' = charge /\ disturbed' = disturbed
        \/ Goto(p, "markFailed") /\ disturbed' = disturbed \cup {d}
        \/ Goto(p, "account") /\ disturbed' = disturbed
        \/ Finish(p) /\ disturbed' = disturbed
    BY <1>1 DEF Ask
  <2>2. CASE Goto(p, "markFailed")
             /\ \/ charge' = charge /\ disturbed' = disturbed
                \/ disturbed' = disturbed \cup {d}
    <3> DEFINE r == Locals("markFailed", d, told)
    <3>1. LocalOK(r) /\ r.pc = "markFailed" /\ r.d = d
      BY LocalsTyped DEF Locals, Steps
    <3>2. req' = [req EXCEPT ![p] = r]
      BY <1>1, <2>2 DEF Goto, Become
    <3> HIDE DEF r
    <3> QED BY <3>1, <3>2, <2>2
  <2>3. CASE Goto(p, "account") /\ disturbed' = disturbed
    <3> DEFINE r == Locals("account", d, told)
    <3>1. LocalOK(r) /\ r.pc = "account" /\ r.d = d
      BY LocalsTyped DEF Locals, Steps
    <3>2. req' = [req EXCEPT ![p] = r]
      BY <1>1, <2>3 DEF Goto, Become
    <3> HIDE DEF r
    <3> QED BY <3>1, <3>2, <2>3
  <2>4. CASE Finish(p) /\ disturbed' = disturbed
    BY <2>4, IdleTyped DEF Finish, Become
  <2> QED BY <2>1, <2>2, <2>3, <2>4
<1>4. /\ row' = row /\ account' = account /\ wallet' = wallet /\ lost' \in 0 .. MaxLost
      /\ \/ charge' = charge \/ charge' = [charge EXCEPT ![d] = "pending"]
  BY <1>1, AskedAssumption DEF Ask, IInv, Typed, TypeOK
<1>5. charge' \in [DepositIds -> Status] /\ SoundAt(d)'
  BY <1>2, <1>4 DEF IInv, Typed, TypeOK, Status, SoundAt, Sound, Ended
<1>6. r.pc # "idle" => Known(r, row'[d], charge'[d], d \in disturbed')
  BY <1>2, <1>3 DEF Known
<1>7. \A e \in DepositIds \ {d} : row'[e] = row[e] /\ charge'[e] = charge[e]
  BY <1>4 DEF IInv, Typed, TypeOK
<1>8. disturbed \subseteq disturbed' /\ disturbed' \subseteq disturbed \cup {d}
      /\ disturbed' \subseteq DepositIds /\ (r.pc # "idle" => r.d = d)
  BY <1>3 DEF IInv, Typed, TypeOK
<1>9. account' \subseteq DepositIds /\ wallet' \in [Users -> Int]
      /\ row' \in [DepositIds -> Status] /\ charge[d] \notin Ended
  BY <1>2, <1>4 DEF IInv, Typed, TypeOK, Ended
<1>10. req[p].pc \in Opening /\ req[p].d = d
  BY <1>1, <1>2 DEF Opening
<1> QED
  BY <1>3, <1>4, <1>5, <1>6, <1>7, <1>8, <1>9, <1>10, DepositStep

LEMMA CreateAccountKeeps ==
  ASSUME IInv, NEW p \in Requests, CreateAccount(p)
  PROVE  IInv'
<1>1. PICK d \in DepositIds, told \in Status :
        /\ req[p].d = d /\ req[p].told = told
        /\ Known(req[p], row[d], charge[d], d \in disturbed) /\ SoundAt(d)
  BY DepositOf DEF CreateAccount, Busy, At
<1>2. SoundAt(d)'
  BY <1>1 DEF CreateAccount, SoundAt
<1> QED
  BY <1>1, <1>2, IdleTyped, DepositStep
  DEF CreateAccount, Finish, Become, IInv, Typed, TypeOK, Opening

LEMMA MarkFailedKeeps ==
  ASSUME IInv, NEW p \in Requests, MarkFailed(p)
  PROVE  IInv'
<1>1. PICK d \in DepositIds, told \in Status :
        /\ req[p].d = d /\ req[p].told = told
        /\ Known(req[p], row[d], charge[d], d \in disturbed) /\ SoundAt(d)
  BY DepositOf DEF MarkFailed, Busy, At
<1>2. SoundAt(d)'
  BY <1>1 DEF MarkFailed, SoundAt, Sound, At, Known, SetRow, IInv, Typed, TypeOK
<1>3. req[p].pc \in Opening
  BY DEF MarkFailed, At, Opening
<1>4. row' = [row EXCEPT ![d] = "failed"] /\ req' = [req EXCEPT ![p] = Idle]
  BY <1>1 DEF MarkFailed, SetRow, Finish, Become
<1> QED
  BY <1>1, <1>2, <1>3, <1>4, IdleTyped, DepositStep
  DEF MarkFailed, IInv, Typed, TypeOK, Status, Ended, Opening

\* Steps that move a handler alone.
LEMMA MoveKeeps ==
  ASSUME IInv, NEW p \in Requests, NEW d \in DepositIds, NEW r, LocalOK(r),
         req' = [req EXCEPT ![p] = r], r.pc # "idle" => r.d = d, r.pc \notin Opening,
         row' = row, account' = account, wallet' = wallet, charge' = charge,
         lost' = lost, disturbed \subseteq disturbed', disturbed' \subseteq disturbed \cup {d},
         r.pc # "idle" => Known(r, row[d], charge[d], d \in disturbed)
  PROVE  IInv'
<1>1. SoundAt(d)'
  BY DEF IInv, SoundAt, Sound
<1>2. r.pc # "idle" => Known(r, row'[d], charge'[d], d \in disturbed')
  BY DEF Known
<1>3. disturbed' \subseteq DepositIds
  BY DEF IInv, Typed, TypeOK
<1> QED BY <1>1, <1>2, <1>3, DepositStep DEF IInv, Typed, TypeOK

LEMMA NoticeKeeps ==
  ASSUME IInv, NEW p \in Requests, NEW d \in DepositIds, Notice(p, d)
  PROVE  IInv'
<1> DEFINE r == Locals("find", d, charge[d])
<1>1. LocalOK(r) /\ r.pc = "find" /\ r.d = d /\ r.told = charge[d]
  BY LocalsTyped DEF Locals, Steps, IInv, Typed, TypeOK
<1>2. Known(r, row[d], charge[d], d \in disturbed)
  BY <1>1 DEF Known
<1>3. req' = [req EXCEPT ![p] = r]
  BY DEF Notice, Become
<1>4. disturbed \subseteq disturbed' /\ disturbed' \subseteq disturbed \cup {d}
  BY DEF Notice, Meet
<1> HIDE DEF r
<1> QED BY <1>1, <1>2, <1>3, <1>4, MoveKeeps DEF Notice, Opening

LEMMA CheckDepositStatusKeeps ==
  ASSUME IInv, NEW p \in Requests, NEW d \in DepositIds, CheckDepositStatus(p, d)
  PROVE  IInv'
<1> DEFINE r == Locals("query", d, "none")
<1>1. LocalOK(r) /\ r.pc = "query" /\ r.d = d
  BY LocalsTyped DEF Locals, Steps, Status
<1>2. Known(r, row[d], charge[d], d \in disturbed)
  BY <1>1 DEF Known
<1>3. req' = [req EXCEPT ![p] = r]
  BY DEF CheckDepositStatus, Become
<1>4. disturbed \subseteq disturbed' /\ disturbed' \subseteq disturbed \cup {d}
  BY DEF CheckDepositStatus, Meet
<1> HIDE DEF r
<1> QED BY <1>1, <1>2, <1>3, <1>4, MoveKeeps DEF CheckDepositStatus, Opening

LEMMA QueryStatusKeeps ==
  ASSUME IInv, NEW p \in Requests, QueryStatus(p)
  PROVE  IInv'
<1>1. PICK d \in DepositIds, told \in Status :
        /\ req[p].d = d /\ req[p].told = told
        /\ Known(req[p], row[d], charge[d], d \in disturbed) /\ SoundAt(d)
  BY DepositOf DEF QueryStatus, Busy, At
<1> DEFINE r == Locals("find", d, charge[d])
<1>2. LocalOK(r) /\ r.pc = "find" /\ r.d = d /\ r.told = charge[d]
  BY LocalsTyped DEF Locals, Steps, IInv, Typed, TypeOK
<1>3. Known(r, row[d], charge[d], d \in disturbed)
  BY <1>2 DEF Known
<1>4. req' = [req EXCEPT ![p] = r]
  BY <1>1 DEF QueryStatus, Become
<1> HIDE DEF r
<1> QED BY <1>2, <1>3, <1>4, MoveKeeps DEF QueryStatus, Opening

LEMMA FindDepositKeeps ==
  ASSUME IInv, NEW p \in Requests, FindDeposit(p)
  PROVE  IInv'
<1>1. PICK d \in DepositIds, told \in Status :
        /\ req[p].d = d /\ req[p].told = told
        /\ Known(req[p], row[d], charge[d], d \in disturbed) /\ SoundAt(d)
  BY DepositOf DEF FindDeposit, Busy, At
<1>2. CASE told \in Ended /\ Goto(p, "apply")
  <2> DEFINE r == Locals("apply", d, told)
  <2>1. LocalOK(r) /\ r.pc = "apply" /\ r.d = d /\ r.told = told
    BY LocalsTyped DEF Locals, Steps
  <2>2. Known(r, row[d], charge[d], d \in disturbed)
    BY <1>1, <1>2, <2>1 DEF Known, FindDeposit, At
  <2>3. req' = [req EXCEPT ![p] = r]
    BY <1>1, <1>2 DEF Goto, Become
  <2> HIDE DEF r
  <2> QED BY <2>1, <2>2, <2>3, MoveKeeps DEF FindDeposit, Opening
<1>3. CASE Finish(p)
  BY <1>3, IdleTyped, MoveKeeps DEF FindDeposit, Finish, Become, Opening
<1> QED BY <1>1, <1>2, <1>3 DEF FindDeposit

LEMMA ApplyStatusKeeps ==
  ASSUME IInv, NEW p \in Requests, ApplyStatus(p)
  PROVE  IInv'
<1>1. PICK d \in DepositIds, told \in Status :
        /\ req[p].d = d /\ req[p].told = told
        /\ Known(req[p], row[d], charge[d], d \in disturbed) /\ SoundAt(d)
  BY DepositOf DEF ApplyStatus, Busy, At
<1>2. told \in Ended /\ charge[d] = told
  BY <1>1 DEF ApplyStatus, At, Known
<1>3. row' = [row EXCEPT ![d] = told] /\ req' = [req EXCEPT ![p] = Idle]
  BY <1>1 DEF ApplyStatus, SetRow, Finish, Become
<1>4. wallet' \in [Users -> Int]
  <2>1. Asked[d].user \in Users /\ Asked[d].amount \in Int
    BY AskedAssumption
  <2> QED BY <1>1, <2>1 DEF ApplyStatus, IInv, Typed, TypeOK
<1>5. SoundAt(d)'
  BY <1>2, <1>3 DEF ApplyStatus, SoundAt, Sound, Ended, IInv, Typed, TypeOK
<1>6. /\ row' \in [DepositIds -> Status] /\ account' = account /\ charge' = charge
      /\ lost' = lost /\ disturbed' = disturbed /\ charge[d] # "none"
      /\ \A e \in DepositIds \ {d} : row'[e] = row[e]
  BY <1>2, <1>3 DEF ApplyStatus, IInv, Typed, TypeOK, Ended
<1> QED
  BY <1>3, <1>4, <1>5, <1>6, IdleTyped, DepositStep DEF IInv, Typed, TypeOK, Opening

LEMMA RequestLostKeeps ==
  ASSUME IInv, NEW p \in Requests, RequestLost(p)
  PROVE  IInv'
<1>1. PICK d \in DepositIds, told \in Status :
        /\ req[p].d = d /\ req[p].told = told
        /\ Known(req[p], row[d], charge[d], d \in disturbed) /\ SoundAt(d)
  BY DepositOf DEF RequestLost
<1>2. PICK r : /\ LocalOK(r) /\ req' = [req EXCEPT ![p] = r]
               /\ r.pc = "idle" \/ (r.pc = "markFailed" /\ r.d = d /\ At(p, "account"))
  <2>1. CASE Finish(p)
    BY <2>1, IdleTyped DEF Finish, Become
  <2>2. CASE At(p, "account") /\ Goto(p, "markFailed")
    <3> DEFINE r == Locals("markFailed", d, told)
    <3>1. LocalOK(r) /\ r.pc = "markFailed" /\ r.d = d
      BY LocalsTyped DEF Locals, Steps
    <3>2. req' = [req EXCEPT ![p] = r]
      BY <1>1, <2>2 DEF Goto, Become
    <3> HIDE DEF r
    <3> QED BY <3>1, <3>2, <2>2
  <2> QED BY <2>1, <2>2 DEF RequestLost
<1>3. /\ row' = row /\ account' = account /\ wallet' = wallet /\ charge' = charge
      /\ disturbed' = disturbed \cup {d}
  BY <1>1 DEF RequestLost
<1>4. lost' \in 0 .. MaxLost
  BY AskedAssumption DEF RequestLost, IInv, Typed, TypeOK
<1>5. SoundAt(d)'
  BY <1>1, <1>3 DEF SoundAt, Sound
<1>6. r.pc # "idle" => Known(r, row'[d], charge'[d], d \in disturbed')
  BY <1>2, <1>3 DEF Known
<1>7. r.pc \in Opening => req[p].pc \in Opening /\ req[p].d = d
  BY <1>1, <1>2 DEF Opening, At
<1>8. row \in [DepositIds -> Status] /\ account \subseteq DepositIds
      /\ wallet \in [Users -> Int] /\ charge \in [DepositIds -> Status]
      /\ disturbed' \subseteq DepositIds
  BY <1>3 DEF IInv, Typed, TypeOK
<1> QED BY <1>2, <1>3, <1>4, <1>5, <1>6, <1>7, <1>8, DepositStep

LEMMA ChargeEndsKeeps ==
  ASSUME IInv, NEW d \in DepositIds, ChargeEnds(d)
  PROVE  IInv'
<1>1. PICK s \in Ended : charge' = [charge EXCEPT ![d] = s]
  BY DEF ChargeEnds
<1>2. /\ charge[d] = "pending" /\ row' = row /\ req' = req /\ disturbed' = disturbed
      /\ account' = account /\ wallet' = wallet /\ lost' = lost
  BY DEF ChargeEnds
<1>3. charge' \in [DepositIds -> Status] /\ charge'[d] = s
      /\ \A e \in DepositIds \ {d} : charge'[e] = charge[e]
  BY <1>1 DEF IInv, Typed, TypeOK, Status
<1>4. Typed'
  BY <1>2, <1>3 DEF IInv, Typed, TypeOK
<1>5. ASSUME NEW e \in DepositIds PROVE SoundAt(e)'
  <2>1. CASE e = d
    BY <1>2, <1>3, <2>1 DEF IInv, SoundAt, Sound
  <2>2. CASE e # d
    BY <1>2, <1>3, <2>2 DEF IInv, SoundAt
  <2> QED BY <2>1, <2>2
<1>6. ASSUME NEW q \in Requests, Busy(q)' PROVE KnownAt(q)'
  <2>1. Busy(q) /\ KnownAt(q) /\ req[q].d \in DepositIds
    BY <1>2, <1>6 DEF IInv, Typed, LocalOK, Busy, At
  <2>2. CASE req[q].d = d
    BY <1>2, <1>3, <2>1, <2>2 DEF KnownAt, Known, Ended
  <2>3. CASE req[q].d # d
    BY <1>2, <1>3, <2>1, <2>3 DEF KnownAt
  <2> QED BY <2>2, <2>3
<1>7. Alone'
  BY <1>2 DEF IInv, Alone
<1> QED BY <1>4, <1>5, <1>6, <1>7 DEF IInv

-----------------------------------------------------------------------------
(* The theorems                                                            *)

LEMMA InitKeeps ==
  ASSUME Init PROVE IInv
<1>1. \A p \in Requests : req[p] = Idle /\ LocalOK(req[p]) /\ req[p].pc = "idle"
  BY IdleTyped DEF Init
<1>2. TypeOK
  BY AskedAssumption, <1>1 DEF Init, TypeOK, Status, LocalOK, Local
<1>3. \A d \in DepositIds : SoundAt(d)
  BY DEF Init, SoundAt, Sound
<1> QED BY <1>1, <1>2, <1>3 DEF IInv, Typed, Busy, At, Alone, Opening

LEMMA AdvanceKeeps ==
  ASSUME IInv, NEW p \in Requests, Advance(p)
  PROVE  IInv'
<1>1. CASE AskPalmPay(p)
  BY <1>1, AskKeeps DEF AskPalmPay
<1>2. CASE AskFlutterwave(p)
  BY <1>2, AskKeeps DEF AskFlutterwave
<1>3. CASE CreateAccount(p)
  BY <1>3, CreateAccountKeeps
<1>4. CASE MarkFailed(p)
  BY <1>4, MarkFailedKeeps
<1>5. CASE QueryStatus(p)
  BY <1>5, QueryStatusKeeps
<1>6. CASE FindDeposit(p)
  BY <1>6, FindDepositKeeps
<1>7. CASE ApplyStatus(p)
  BY <1>7, ApplyStatusKeeps
<1> QED BY <1>1, <1>2, <1>3, <1>4, <1>5, <1>6, <1>7 DEF Advance

LEMMA NextKeeps ==
  ASSUME IInv, [Next]_vars
  PROVE  IInv'
<1>1. ASSUME NEW p \in Requests, NEW d \in DepositIds, InitiateBank(p, d) \/ InitiateMomo(p, d)
      PROVE  IInv'
  BY <1>1, InitiateKeeps DEF InitiateBank, InitiateMomo
<1>2. ASSUME NEW p \in Requests, NEW d \in DepositIds, Notice(p, d) PROVE IInv'
  BY <1>2, NoticeKeeps
<1>3. ASSUME NEW p \in Requests, NEW d \in DepositIds, CheckDepositStatus(p, d) PROVE IInv'
  BY <1>3, CheckDepositStatusKeeps
<1>4. ASSUME NEW p \in Requests, Advance(p) PROVE IInv'
  BY <1>4, AdvanceKeeps
<1>5. ASSUME NEW p \in Requests, RequestLost(p) PROVE IInv'
  BY <1>5, RequestLostKeeps
<1>6. ASSUME NEW d \in DepositIds, ChargeEnds(d) PROVE IInv'
  BY <1>6, ChargeEndsKeeps
<1>7. CASE UNCHANGED vars
  BY <1>7 DEF vars, IInv, Typed, TypeOK, SoundAt, KnownAt, Alone, Busy, At
<1> QED BY <1>1, <1>2, <1>3, <1>4, <1>5, <1>6, <1>7 DEF Next

\* What every handler knows of its order is true however handlers interleave.
THEOREM DepositKnowledgeHolds == Spec => []IInv
BY InitKeeps, NextKeeps, PTL DEF Spec

\* Every variable of the deposits keeps its type.
THEOREM DepositTypesHold == Spec => []TypeOK
<1>1. IInv => TypeOK
  BY DEF IInv, Typed
<1> QED BY <1>1, DepositKnowledgeHolds, PTL

\* No handler completes, cancels or fails a deposit against its provider's word,
\* however notices, looks and initiations interleave and whichever are lost.
THEOREM DepositEvidenceHolds == Spec => []Evidence
<1>1. IInv => Evidence
  BY DEF IInv, SoundAt, Sound, Evidence
<1> QED BY <1>1, DepositKnowledgeHolds, PTL

-----------------------------------------------------------------------------
(* The books                                                               *)

\* Two handlers on one deposit have disturbed it.
Met ==
  \A p, q \in Requests :
    p # q /\ req[p].d = req[q].d /\ req[p].d \in DepositIds => req[p].d \in disturbed

\* What a handler is about to apply has not been applied, unless it met another.
Unapplied ==
  \A p \in Requests :
    At(p, "apply") => row[req[p].d] # "completed" \/ req[p].d \in disturbed

BInv == IInv /\ Met /\ Unapplied /\ BooksBalance

\* A step on d credits its user if it completes the row, and nobody otherwise.
Booked(d) ==
  \/ /\ row[d] = "completed" <=> row'[d] = "completed"
     /\ wallet' = wallet
  \/ /\ row[d] # "completed" /\ row'[d] = "completed"
     /\ wallet' = [wallet EXCEPT ![Asked[d].user] = @ + Asked[d].amount]

LEMMA BooksKept ==
  ASSUME Typed, BooksBalance, NEW d \in DepositIds, Booked(d) \/ d \in disturbed',
         \A u \in Users \ {Asked[d].user} : wallet'[u] = wallet[u],
         \A e \in DepositIds \ {d} : row'[e] = row[e], disturbed \subseteq disturbed'
  PROVE  BooksBalance'
<1> SUFFICES ASSUME NEW u \in Users, disturbed' \cap DepositsOf(u) = {}
             PROVE  wallet'[u] = InitWallet[u] + SumFunctionOnSet(Amounts, Credited(u)')
  BY DEF BooksBalance, DepositsOf
<1>1. wallet[u] = InitWallet[u] + SumFunctionOnSet(Amounts, Credited(u))
  BY DEF BooksBalance, DepositsOf
<1>2. CASE u # Asked[d].user
  <2>1. Credited(u)' = Credited(u)
    BY <1>2 DEF Credited, DepositsOf
  <2> QED BY <1>1, <1>2, <2>1
<1>3. CASE u = Asked[d].user
  <2> DEFINE C == Credited(u)
  <2>1. IsFiniteSet(C) /\ IsFiniteSet(C') /\ C \ {d} = C' \ {d}
    <3>1. C \subseteq DepositIds /\ C' \subseteq DepositIds
      BY DEF Credited, DepositsOf
    <3>2. IsFiniteSet(C) /\ IsFiniteSet(C')
      BY <3>1, AskedAssumption, FS_Subset
    <3> QED BY <3>2 DEF Credited, DepositsOf
  <2>2. Amounts[d] = Asked[d].amount /\ \A e \in C \cup C' : Amounts[e] \in Int
    BY AskedAssumption DEF Amounts, Credited, DepositsOf
  <2>3. Amounts[d] \in Int /\ InitWallet[u] \in Int /\ wallet[u] \in Int
    BY <2>2, AskedAssumption DEF Typed, TypeOK
  <2>4. Booked(d)
    BY <1>3 DEF DepositsOf
  <2>5. (d \in C <=> row[d] = "completed") /\ (d \in C' <=> row'[d] = "completed")
    BY <1>3 DEF Credited, DepositsOf
  <2>6. /\ SumFunctionOnSet(Amounts, C) \in Int
        /\ d \in C' /\ d \notin C =>
             SumFunctionOnSet(Amounts, C') = SumFunctionOnSet(Amounts, C) + Amounts[d]
        /\ (d \in C <=> d \in C') =>
             SumFunctionOnSet(Amounts, C') = SumFunctionOnSet(Amounts, C)
    <3> HIDE DEF C
    <3> QED BY <2>1, <2>2, <2>3, SumDiffers
  <2>7. CASE (row[d] = "completed" <=> row'[d] = "completed") /\ wallet' = wallet
    BY <1>1, <2>5, <2>6, <2>7
  <2>8. CASE /\ row[d] # "completed" /\ row'[d] = "completed"
             /\ wallet' = [wallet EXCEPT ![Asked[d].user] = @ + Asked[d].amount]
    <3>1. SumFunctionOnSet(Amounts, C') = SumFunctionOnSet(Amounts, C) + Amounts[d]
      BY <2>5, <2>6, <2>8
    <3>2. wallet'[u] = wallet[u] + Amounts[d]
      BY <1>3, <2>2, <2>8 DEF Typed, TypeOK
    <3> HIDE DEF C
    <3> QED BY <1>1, <2>3, <2>6, <3>1, <3>2 DEF C
  <2> QED BY <2>4, <2>7, <2>8 DEF Booked
<1> QED BY <1>2, <1>3

\* A step of p that leaves it on d or without a deposit, where it met nobody or
\* has disturbed d, and after which it will not apply what has been applied.
LEMMA BooksStep ==
  ASSUME BInv, NEW p \in Requests, NEW d \in DepositIds, NEW r,
         req' = [req EXCEPT ![p] = r], r.d = d \/ (r.d = NoId /\ r.pc # "apply"),
         r.pc = "apply" => row'[d] # "completed" \/ d \in disturbed',
         req[p].d = d \/ d \in disturbed' \/ \A q \in Requests : req[q].d # d,
         row'[d] = "completed" /\ row[d] # "completed" => req[p].d = d,
         \A e \in DepositIds \ {d} : row'[e] = row[e], disturbed \subseteq disturbed',
         Booked(d) \/ d \in disturbed',
         \A u \in Users \ {Asked[d].user} : wallet'[u] = wallet[u]
  PROVE  Met' /\ Unapplied' /\ BooksBalance'
<1>1. \A q \in Requests : req'[q] = IF q = p THEN r ELSE req[q]
  BY DEF BInv, IInv, Typed, TypeOK
<1>2. Met'
  <2> SUFFICES ASSUME NEW q1 \in Requests, NEW q2 \in Requests, q1 # q2,
                      req'[q1].d = req'[q2].d, req'[q1].d \in DepositIds
               PROVE  req'[q1].d \in disturbed'
    BY DEF Met
  <2>1. CASE q1 # p /\ q2 # p
    BY <1>1, <2>1 DEF BInv, Met
  <2>2. CASE q1 = p
    BY <1>1, <2>2, AskedAssumption DEF BInv, Met
  <2>3. CASE q2 = p
    BY <1>1, <2>3, AskedAssumption DEF BInv, Met
  <2> QED BY <2>1, <2>2, <2>3
<1>3. ASSUME NEW q \in Requests, At(q, "apply")'
      PROVE  row'[req'[q].d] # "completed" \/ req'[q].d \in disturbed'
  <2>1. CASE q = p
    BY <1>1, <1>3, <2>1 DEF At
  <2>2. CASE q # p
    <3>1. At(q, "apply") /\ req[q].d \in DepositIds /\ req'[q].d = req[q].d
      BY <1>1, <1>3, <2>2 DEF At, BInv, IInv, Typed, LocalOK
    <3>2. row[req[q].d] # "completed" \/ req[q].d \in disturbed
      BY <3>1 DEF BInv, Unapplied
    <3>3. CASE req[q].d = d /\ req[p].d = d
      BY <2>2, <3>1, <3>3 DEF BInv, Met
    <3>4. CASE req[q].d # d \/ req[p].d # d
      BY <3>1, <3>2, <3>4
    <3> QED BY <3>3, <3>4
  <2> QED BY <2>1, <2>2
<1>4. BooksBalance'
  BY BooksKept DEF BInv, IInv
<1> QED BY <1>2, <1>3, <1>4 DEF Unapplied

\* A step that leaves the rows and the wallets alone.
LEMMA QuietStep ==
  ASSUME BInv, NEW p \in Requests, NEW d \in DepositIds, NEW r,
         req' = [req EXCEPT ![p] = r], r.d = d \/ (r.d = NoId /\ r.pc # "apply"),
         r.pc = "apply" => row[d] # "completed" \/ d \in disturbed',
         req[p].d = d \/ d \in disturbed' \/ \A q \in Requests : req[q].d # d,
         disturbed \subseteq disturbed', row' = row, wallet' = wallet
  PROVE  Met' /\ Unapplied' /\ BooksBalance'
<1>1. Booked(d)
  BY DEF Booked
<1> QED BY <1>1, BooksStep

LEMMA IdleLocals == Idle.d = NoId /\ Idle.pc = "idle"
BY DEF Idle, Locals

LEMMA InitiateBooks ==
  ASSUME BInv, NEW p \in Requests, NEW d \in DepositIds, NEW via, Initiate(p, d, via)
  PROVE  Met' /\ Unapplied' /\ BooksBalance'
<1> DEFINE r == Locals("ask", d, "none")
<1>1. r.pc = "ask" /\ r.d = d /\ req' = [req EXCEPT ![p] = r]
  BY DEF Locals, Initiate, Become
<1>2. /\ row[d] = "none" /\ row'[d] = "pending" /\ wallet' = wallet /\ disturbed' = disturbed
      /\ \A e \in DepositIds \ {d} : row'[e] = row[e]
      /\ \A q \in Requests : req[q].d # d
  BY DEF Initiate, SetRow, BInv, IInv, Typed, TypeOK
<1>3. Booked(d)
  BY <1>2 DEF Booked
<1> HIDE DEF r
<1> QED BY <1>1, <1>2, <1>3, BooksStep

\* The locals that Goto and Finish leave.
LEMMA GotoLocals ==
  ASSUME NEW p \in Requests, NEW step, Goto(p, step) \/ Finish(p)
  PROVE  \E r : /\ req' = [req EXCEPT ![p] = r]
                /\ (r.d = req[p].d /\ r.pc = step) \/ (r.d = NoId /\ r.pc = "idle")
<1>1. CASE Goto(p, step)
  <2> DEFINE r == Locals(step, req[p].d, req[p].told)
  <2>1. r.d = req[p].d /\ r.pc = step /\ req' = [req EXCEPT ![p] = r]
    BY <1>1 DEF Goto, Become, Locals
  <2> QED BY <2>1
<1>2. CASE Finish(p)
  BY <1>2, IdleLocals DEF Finish, Become
<1> QED BY <1>1, <1>2

LEMMA AskBooks ==
  ASSUME BInv, NEW p \in Requests, NEW via, NEW GoOn, Ask(p, via, GoOn),
         GoOn => Goto(p, "account") \/ Finish(p)
  PROVE  Met' /\ Unapplied' /\ BooksBalance'
<1>1. PICK d \in DepositIds : req[p].d = d
  BY DepositOf DEF Ask, Busy, At, BInv
<1>2. PICK step \in {"markFailed", "account"} : Goto(p, step) \/ Finish(p)
  BY DEF Ask
<1>3. PICK r : /\ req' = [req EXCEPT ![p] = r]
               /\ (r.d = req[p].d /\ r.pc = step) \/ (r.d = NoId /\ r.pc = "idle")
  BY <1>2, GotoLocals
<1>4. row' = row /\ wallet' = wallet /\ disturbed \subseteq disturbed'
  BY DEF Ask
<1> QED BY <1>1, <1>3, <1>4, QuietStep

LEMMA CreateAccountBooks ==
  ASSUME BInv, NEW p \in Requests, CreateAccount(p)
  PROVE  Met' /\ Unapplied' /\ BooksBalance'
<1>1. PICK d \in DepositIds : req[p].d = d
  BY DepositOf DEF CreateAccount, Busy, At, BInv
<1> QED BY <1>1, IdleLocals, QuietStep DEF CreateAccount, Finish, Become

LEMMA MarkFailedBooks ==
  ASSUME BInv, NEW p \in Requests, MarkFailed(p)
  PROVE  Met' /\ Unapplied' /\ BooksBalance'
<1>1. PICK d \in DepositIds : /\ req[p].d = d /\ SoundAt(d)
                              /\ Known(req[p], row[d], charge[d], d \in disturbed)
  BY DepositOf DEF MarkFailed, Busy, At, BInv
<1>2. /\ row' = [row EXCEPT ![d] = "failed"] /\ req' = [req EXCEPT ![p] = Idle]
      /\ wallet' = wallet /\ disturbed' = disturbed
  BY <1>1 DEF MarkFailed, SetRow, Finish, Become
<1>3. row'[d] = "failed" /\ \A e \in DepositIds \ {d} : row'[e] = row[e]
  BY <1>2 DEF BInv, IInv, Typed, TypeOK
<1>4. row[d] # "completed" \/ d \in disturbed
  BY <1>1 DEF MarkFailed, At, Known, SoundAt, Sound
<1>5. Booked(d) \/ d \in disturbed'
  BY <1>2, <1>3, <1>4 DEF Booked
<1> QED BY <1>1, <1>2, <1>3, <1>5, IdleLocals, BooksStep

LEMMA StartBooks ==
  ASSUME BInv, NEW p \in Requests, NEW d \in DepositIds,
         Notice(p, d) \/ CheckDepositStatus(p, d)
  PROVE  Met' /\ Unapplied' /\ BooksBalance'
<1>1. PICK r : req' = [req EXCEPT ![p] = r] /\ r.d = d /\ r.pc # "apply"
  <2>1. \A told : Locals("find", d, told).d = d /\ Locals("find", d, told).pc # "apply"
    BY DEF Locals
  <2>2. Locals("query", d, "none").d = d /\ Locals("query", d, "none").pc # "apply"
    BY DEF Locals
  <2> QED BY <2>1, <2>2 DEF Notice, CheckDepositStatus, Become
<1>2. /\ row' = row /\ wallet' = wallet /\ disturbed \subseteq disturbed'
      /\ d \in disturbed' \/ \A q \in Requests : req[q].d # d
  BY DEF Notice, CheckDepositStatus, Meet
<1> QED BY <1>1, <1>2, QuietStep

LEMMA QueryStatusBooks ==
  ASSUME BInv, NEW p \in Requests, QueryStatus(p)
  PROVE  Met' /\ Unapplied' /\ BooksBalance'
<1>1. PICK d \in DepositIds : req[p].d = d
  BY DepositOf DEF QueryStatus, Busy, At, BInv
<1> DEFINE r == Locals("find", d, charge[d])
<1>2. r.d = d /\ r.pc # "apply" /\ req' = [req EXCEPT ![p] = r]
  BY <1>1 DEF QueryStatus, Become, Locals
<1>3. row' = row /\ wallet' = wallet /\ disturbed' = disturbed
  BY DEF QueryStatus
<1> HIDE DEF r
<1> QED BY <1>1, <1>2, <1>3, QuietStep

LEMMA FindDepositBooks ==
  ASSUME BInv, NEW p \in Requests, FindDeposit(p)
  PROVE  Met' /\ Unapplied' /\ BooksBalance'
<1>1. PICK d \in DepositIds : req[p].d = d
  BY DepositOf DEF FindDeposit, Busy, At, BInv
<1>2. PICK r : /\ req' = [req EXCEPT ![p] = r]
               /\ (r.d = req[p].d /\ r.pc = "apply") \/ (r.d = NoId /\ r.pc = "idle")
               /\ r.pc = "apply" => row[d] # "completed"
  <2>1. CASE Found(d) /\ Goto(p, "apply")
    <3>1. row[d] # "completed"
      BY <2>1 DEF Found, FoundByAccount, FoundByReference
    <3>2. PICK r : /\ req' = [req EXCEPT ![p] = r]
                   /\ (r.d = req[p].d /\ r.pc = "apply") \/ (r.d = NoId /\ r.pc = "idle")
      BY <2>1, GotoLocals
    <3> QED BY <3>1, <3>2
  <2>2. CASE Finish(p)
    BY <2>2, IdleLocals DEF Finish, Become
  <2> QED BY <1>1, <2>1, <2>2 DEF FindDeposit
<1>3. row' = row /\ wallet' = wallet /\ disturbed' = disturbed
  BY DEF FindDeposit
<1> QED BY <1>1, <1>2, <1>3, QuietStep

LEMMA ApplyStatusBooks ==
  ASSUME BInv, NEW p \in Requests, ApplyStatus(p)
  PROVE  Met' /\ Unapplied' /\ BooksBalance'
<1>1. PICK d \in DepositIds : req[p].d = d
  BY DepositOf DEF ApplyStatus, Busy, At, BInv
<1>2. row[d] # "completed" \/ d \in disturbed
  BY <1>1 DEF ApplyStatus, BInv, Unapplied
<1>3. /\ row' = [row EXCEPT ![d] = req[p].told] /\ req' = [req EXCEPT ![p] = Idle]
      /\ disturbed' = disturbed
      /\ wallet' = IF req[p].told = "completed"
                   THEN [wallet EXCEPT ![Asked[d].user] = @ + Asked[d].amount] ELSE wallet
  BY <1>1 DEF ApplyStatus, SetRow, Finish, Become
<1>4. /\ row'[d] = req[p].told /\ \A e \in DepositIds \ {d} : row'[e] = row[e]
      /\ \A u \in Users \ {Asked[d].user} : wallet'[u] = wallet[u]
  BY <1>3 DEF BInv, IInv, Typed, TypeOK
<1>5. Booked(d) \/ d \in disturbed'
  BY <1>2, <1>3, <1>4 DEF Booked
<1> QED BY <1>1, <1>3, <1>4, <1>5, IdleLocals, BooksStep

LEMMA RequestLostBooks ==
  ASSUME BInv, NEW p \in Requests, RequestLost(p)
  PROVE  Met' /\ Unapplied' /\ BooksBalance'
<1>1. PICK d \in DepositIds : req[p].d = d
  BY DepositOf DEF RequestLost, BInv
<1>2. PICK r : /\ req' = [req EXCEPT ![p] = r]
               /\ (r.d = req[p].d /\ r.pc = "markFailed") \/ (r.d = NoId /\ r.pc = "idle")
  BY GotoLocals DEF RequestLost
<1>3. row' = row /\ wallet' = wallet /\ disturbed \subseteq disturbed'
  BY DEF RequestLost
<1> QED BY <1>1, <1>2, <1>3, QuietStep

LEMMA StillBooks ==
  ASSUME BInv, row' = row, wallet' = wallet, req' = req, disturbed' = disturbed
  PROVE  Met' /\ Unapplied' /\ BooksBalance'
<1>1. BooksBalance'
  BY DEF BInv, BooksBalance, DepositsOf, Credited
<1> QED BY <1>1 DEF BInv, Met, Unapplied, At

LEMMA NextBooks ==
  ASSUME BInv, [Next]_vars
  PROVE  BInv'
<1>1. IInv'
  BY NextKeeps DEF BInv
<1>2. Met' /\ Unapplied' /\ BooksBalance'
  <2>1. ASSUME NEW p \in Requests, NEW d \in DepositIds,
               InitiateBank(p, d) \/ InitiateMomo(p, d)
        PROVE  Met' /\ Unapplied' /\ BooksBalance'
    BY <2>1, InitiateBooks DEF InitiateBank, InitiateMomo
  <2>2. ASSUME NEW p \in Requests, NEW d \in DepositIds,
               Notice(p, d) \/ CheckDepositStatus(p, d)
        PROVE  Met' /\ Unapplied' /\ BooksBalance'
    BY <2>2, StartBooks
  <2>3. ASSUME NEW p \in Requests, AskPalmPay(p) \/ AskFlutterwave(p)
        PROVE  Met' /\ Unapplied' /\ BooksBalance'
    BY <2>3, AskBooks DEF AskPalmPay, AskFlutterwave
  <2>4. ASSUME NEW p \in Requests, CreateAccount(p) \/ MarkFailed(p)
        PROVE  Met' /\ Unapplied' /\ BooksBalance'
    BY <2>4, CreateAccountBooks, MarkFailedBooks
  <2>5. ASSUME NEW p \in Requests, QueryStatus(p) \/ FindDeposit(p) \/ ApplyStatus(p)
        PROVE  Met' /\ Unapplied' /\ BooksBalance'
    BY <2>5, QueryStatusBooks, FindDepositBooks, ApplyStatusBooks
  <2>6. ASSUME NEW p \in Requests, RequestLost(p)
        PROVE  Met' /\ Unapplied' /\ BooksBalance'
    BY <2>6, RequestLostBooks
  <2>7. ASSUME NEW d \in DepositIds, ChargeEnds(d)
        PROVE  Met' /\ Unapplied' /\ BooksBalance'
    BY <2>7, StillBooks DEF ChargeEnds
  <2>8. CASE UNCHANGED vars
    BY <2>8, StillBooks DEF vars
  <2> QED
    BY <2>1, <2>2, <2>3, <2>4, <2>5, <2>6, <2>7, <2>8 DEF Next, Advance
<1> QED BY <1>1, <1>2 DEF BInv

LEMMA InitBooks ==
  ASSUME Init PROVE BInv
<1>1. \A p \in Requests : req[p].d = NoId /\ req[p].pc = "idle"
  BY IdleLocals DEF Init
<1>2. ASSUME NEW u \in Users
      PROVE  wallet[u] = InitWallet[u] + SumFunctionOnSet(Amounts, Credited(u))
  <2>1. Credited(u) = {}
    BY DEF Init, Credited, DepositsOf
  <2>2. wallet[u] = InitWallet[u] /\ InitWallet[u] \in Int
    BY AskedAssumption DEF Init
  <2> QED BY <2>1, <2>2, SumEmpty
<1> QED
  BY <1>1, <1>2, InitKeeps, AskedAssumption
  DEF BInv, Met, Unapplied, BooksBalance, At

\* Where handlers did not meet and none was lost, each completed deposit is in its
\* user's wallet once and nothing else is, for any number of users and deposits.
THEOREM DepositBooksHold == Spec => []BooksBalance
<1>1. BInv => BooksBalance
  BY DEF BInv
<1> QED BY <1>1, InitBooks, NextBooks, PTL DEF Spec
=============================================================================
