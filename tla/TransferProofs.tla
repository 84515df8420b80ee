---------------------------- MODULE TransferProofs ----------------------------
(***************************************************************************)
(* Evidence holds of transfers for any number of users, transfers and      *)
(* concurrent requests and webhooks, and whichever of them are lost.  The  *)
(* inductive invariant adds to it what each request knows: the row it read *)
(* may be stale, but what it says of a payout cannot be taken back.        *)
(***************************************************************************)
EXTENDS MCTransferModes, Sums

PayoutState == {"none", "accepted"} \cup Final

\* The structure of the variables.  Evidence does not depend on balances: their
\* types are the last section's.
Structure ==
  /\ tx \in [TxIds -> TxRow]
  /\ payout \in [TxIds -> PayoutState]
  /\ req = [p \in Requests |->
              Locals(req[p].pc, req[p].t, req[p].row, req[p].x, req[p].y,
                     req[p].plan, req[p].told)]

\* What a row says is borne out by the state s of its payout.
Sound(row, s) ==
  /\ row.status = "processing" => row.debited /\ s # "none"
  /\ row.form.channel \in Payouts /\ row.status = "completed" => s = "completed"
  /\ row.refunded => row.debited /\ s \in {"failed", "cancelled"}
  /\ row.status = "pending" /\ ~row.asked => ~row.debited

\* A transfer to a user that is done.
Done(row) ==
  row.form.channel \notin Payouts /\ row.status = "completed" /\ row.debited

PayoutSteps == {"payout", "refused", "debit", "ask", "answer", "palmpay",
                "flutterwave"}
UserSteps == {"allocate", "source", "complete", "debitFiat", "debitCoin",
              "recipient", "creditFiat", "creditCoin"}
Moving == {"debitFiat", "debitCoin", "recipient", "creditFiat", "creditCoin"}

\* What the locals r of a request tell, row being what its transfer is now and
\* s the state of its payout.
Known(r, row, s) ==
  /\ r.row \in TxRow /\ Sound(r.row, s)
  /\ row.status # "none" /\ r.row.form = row.form
  /\ r.pc \in PayoutSteps => r.row.form.channel \in Payouts
  /\ r.pc = "debit" => s # "none"
  /\ r.pc \in UserSteps => r.row.form.channel \notin Payouts
  /\ r.pc \in Moving => Done(row)
  /\ r.pc \in {"ask", "answer"} => r.row.asked
  /\ r.pc = "answer" /\ r.told \in Final => r.told = s
  /\ r.pc \in {"palmpay", "flutterwave"} => s \in Final

Tells(r) ==
  r.pc # "idle" => r.t \in TxIds /\ Known(r, tx[r.t], payout[r.t])

IInv ==
  /\ Structure
  /\ \A t \in TxIds : Sound(tx[t], payout[t])
  /\ \A t \in TxIds \cap credited : Done(tx[t])
  /\ \A p \in Requests : Tells(req[p])

-----------------------------------------------------------------------------
(* Rows and payouts only go forward                                        *)

\* How a row may differ later: its form stays, and so does being done.
Later(r, s) == s.form = r.form /\ s.status # "none" /\ (Done(r) => Done(s))
\* How the state of a payout may differ later.
Further(s, u) == s = u \/ (s \notin Final /\ u # "none")

LEMMA SoundLasts ==
  ASSUME NEW row, NEW s, NEW u, Sound(row, s), Further(s, u)
  PROVE  Sound(row, u)
BY DEF Sound, Further, Final

LEMMA KnownLasts ==
  ASSUME NEW r, NEW row, NEW s, NEW new, NEW u, Known(r, row, s),
         Later(row, new), Further(s, u)
  PROVE  Known(r, new, u)
<1>1. Sound(r.row, u)
  BY SoundLasts DEF Known
<1> QED BY <1>1 DEF Known, Later, Further, Final

\* The rows that the steps write, field by field.
LEMMA StatusWritten ==
  ASSUME NEW r \in TxRow, NEW st \in Status, NEW s, s = [r EXCEPT !.status = st]
  PROVE  /\ s \in TxRow /\ s.form = r.form /\ s.status = st /\ s.asked = r.asked
         /\ s.debited = r.debited /\ s.refunded = r.refunded
BY DEF TxRow
LEMMA FailureWritten ==
  ASSUME NEW r \in TxRow, NEW s, s = [r EXCEPT !.status = "failed", !.asked = TRUE]
  PROVE  /\ s \in TxRow /\ s.form = r.form /\ s.status = "failed"
         /\ s.debited = r.debited /\ s.refunded = r.refunded
BY DEF TxRow, Status, Final
LEMMA DebitWritten ==
  ASSUME NEW r \in TxRow, NEW s,
         s = [r EXCEPT !.status = "processing", !.asked = TRUE, !.debited = TRUE]
  PROVE  /\ s \in TxRow /\ s.form = r.form /\ s.status = "processing"
         /\ s.debited /\ s.refunded = r.refunded
BY DEF TxRow, Status, Final
LEMMA CompletionWritten ==
  ASSUME NEW r \in TxRow, NEW s,
         s = [r EXCEPT !.status = "completed", !.debited = TRUE]
  PROVE  /\ s \in TxRow /\ s.form = r.form /\ s.status = "completed"
         /\ s.debited /\ s.refunded = r.refunded
BY DEF TxRow, Status, Final

-----------------------------------------------------------------------------
(* A step of one request                                                   *)

\* The rows and the payouts have their types.
LEMMA RowTypes ==
  ASSUME IInv PROVE tx \in [TxIds -> TxRow] /\ payout \in [TxIds -> PayoutState]
BY DEF IInv, Structure

\* A step that leaves locals r to p, and moves rows and payouts forward.
LEMMA StepOf ==
  ASSUME IInv, NEW p \in Requests, NEW r,
         req' = [req EXCEPT ![p] = r],
         r = Locals(r.pc, r.t, r.row, r.x, r.y, r.plan, r.told),
         r.pc # "idle" => r.t \in TxIds /\ Known(r, tx'[r.t], payout'[r.t]),
         tx' \in [TxIds -> TxRow], payout' \in [TxIds -> PayoutState],
         \A t \in TxIds : Sound(tx'[t], payout'[t]),
         \A t \in TxIds : tx[t].status # "none" => Later(tx[t], tx'[t]),
         \A t \in TxIds : Further(payout[t], payout'[t]),
         \A t \in TxIds \cap credited' : t \in credited \/ Done(tx'[t])
  PROVE  IInv'
<1>1. req'[p] = r /\ \A q \in Requests \ {p} : req'[q] = req[q]
  BY DEF IInv, Structure
<1> DEFINE Shape(l) == Locals(l.pc, l.t, l.row, l.x, l.y, l.plan, l.told)
<1>2. req = [q \in Requests |-> Shape(req[q])] /\ r = Shape(r)
  BY DEF IInv, Structure
<1> HIDE DEF Shape
<1>3. req' = [q \in Requests |-> Shape(req'[q])]
  <2>1. \A q \in Requests : req[q] = Shape(req[q])
    BY <1>2
  <2>2. \A q \in Requests : req'[q] = Shape(req'[q])
    BY <1>1, <1>2, <2>1
  <2>3. req' = [q \in Requests |-> req'[q]]
    BY <1>2
  <2> QED BY <2>2, <2>3
<1>4. Structure'
  BY <1>3 DEF Structure, Shape
<1>5. \A t \in TxIds \cap credited' : Done(tx'[t])
  <2> SUFFICES ASSUME NEW t \in TxIds \cap credited', t \in credited
               PROVE  Done(tx'[t])
    OBVIOUS
  <2>1. Done(tx[t]) /\ tx[t].status # "none"
    BY DEF IInv, Done
  <2> QED BY <2>1 DEF Later
<1>6. \A q \in Requests \ {p} : Tells(req[q])'
  <2> SUFFICES ASSUME NEW q \in Requests \ {p}, req[q].pc # "idle"
               PROVE  /\ req[q].t \in TxIds
                      /\ Known(req[q], tx'[req[q].t], payout'[req[q].t])
    BY <1>1 DEF Tells
  <2>1. /\ req[q].t \in TxIds
        /\ Known(req[q], tx[req[q].t], payout[req[q].t])
    BY DEF IInv, Tells
  <2>2. tx[req[q].t].status # "none"
    BY <2>1 DEF Known
  <2> QED BY <2>1, <2>2, KnownLasts
<1>7. Tells(req[p])'
  BY <1>1 DEF Tells
<1>8. \A q \in Requests : Tells(req[q])'
  BY <1>6, <1>7
<1> QED BY <1>4, <1>5, <1>8 DEF IInv

\* A step that writes no row, settles no payout and credits nobody.
LEMMA LocalStep ==
  ASSUME IInv, NEW p \in Requests, NEW r, UNCHANGED <<tx, payout, credited>>,
         req' = [req EXCEPT ![p] = r],
         r = Locals(r.pc, r.t, r.row, r.x, r.y, r.plan, r.told),
         r.pc # "idle" => r.t \in TxIds /\ Known(r, tx[r.t], payout[r.t])
  PROVE  IInv'
<1>1. \A t \in TxIds : tx[t].status # "none" => Later(tx[t], tx'[t])
  BY DEF Later
<1>2. \A t \in TxIds : Further(payout[t], payout'[t])
  BY DEF Further
<1>3. \A t \in TxIds : Sound(tx'[t], payout'[t])
  BY DEF IInv
<1>4. tx' \in [TxIds -> TxRow] /\ payout' \in [TxIds -> PayoutState]
  BY DEF IInv, Structure
<1> QED BY <1>1, <1>2, <1>3, <1>4, StepOf

\* A request that ends, or is cut short.
LEMMA IdleStep ==
  ASSUME IInv, NEW p \in Requests, UNCHANGED <<tx, payout, credited>>, Finish(p)
  PROVE  IInv'
<1>1. req' = [req EXCEPT ![p] = Idle]
  BY DEF Finish
<1>2. /\ Idle = Locals(Idle.pc, Idle.t, Idle.row, Idle.x, Idle.y, Idle.plan, Idle.told)
      /\ Idle.pc = "idle"
  BY DEF Idle, Locals
<1> HIDE DEF Idle
<1> QED BY <1>1, <1>2, LocalStep

\* A request that reads a row and finds what its next step needs.
LEMMA LoadStep ==
  ASSUME IInv, NEW p \in Requests, NEW t \in TxIds, NEW step,
         UNCHANGED <<tx, payout, credited>>, Load(p, t, step),
         tx[t].status # "none",
         \/ step = "check"
         \/ /\ step = "ask" /\ tx[t].asked
            /\ tx[t].form.channel \in Payouts
         \/ /\ step \in {"palmpay", "flutterwave"} /\ payout[t] \in Final
            /\ tx[t].form.channel \in Payouts
  PROVE  IInv'
<1> DEFINE r == Locals(step, t, tx[t], 0, 0, {}, "none")
<1>1. req' = [req EXCEPT ![p] = r]
  BY DEF Load
<1>2. /\ r.pc = step /\ r.t = t /\ r.row = tx[t]
      /\ r = Locals(r.pc, r.t, r.row, r.x, r.y, r.plan, r.told)
  BY DEF Locals
<1>3. tx[t] \in TxRow /\ Sound(tx[t], payout[t])
  BY DEF IInv, Structure
<1> HIDE DEF r
<1>4. Known(r, tx[r.t], payout[r.t])
  BY <1>2, <1>3 DEF Known, UserSteps, PayoutSteps, Moving
<1> QED BY <1>1, <1>2, <1>4, LocalStep

\* A request that goes on to a step that needs no more than it knows.
LEMMA CarryStep ==
  ASSUME IInv, NEW p \in Requests, UNCHANGED <<tx, payout, credited>>,
         NEW step, NEW x, NEW y, NEW plan, NEW told,
         Carry(p, step, x, y, plan, told), req[p].pc # "idle",
         \/ step = "payout" /\ req[p].row.form.channel \in Payouts
         \/ step \in UserSteps \ Moving /\ req[p].row.form.channel \notin Payouts
         \/ step \in Moving /\ req[p].pc \in Moving
         \/ step = "refused" /\ req[p].pc = "payout"
         \/ step = "debit" /\ req[p].pc = "payout" /\ payout[req[p].t] # "none"
         \/ step = "answer" /\ req[p].pc = "ask" /\ told = payout[req[p].t]
  PROVE  IInv'
<1> DEFINE r == Locals(step, req[p].t, req[p].row, x, y, plan, told)
<1>1. req' = [req EXCEPT ![p] = r]
  BY DEF Carry
<1>2. /\ r.pc = step /\ r.t = req[p].t /\ r.row = req[p].row /\ r.told = told
      /\ r = Locals(r.pc, r.t, r.row, r.x, r.y, r.plan, r.told)
  BY DEF Locals
<1>3. req[p].t \in TxIds /\ Known(req[p], tx[req[p].t], payout[req[p].t])
  BY DEF IInv, Tells
<1>4. Moving \subseteq UserSteps
  BY DEF Moving, UserSteps
<1> HIDE DEF r
<1>5. Known(r, tx[r.t], payout[r.t])
  BY <1>2, <1>3, <1>4 DEF Known, UserSteps, PayoutSteps, Moving
<1> QED BY <1>1, <1>2, <1>3, <1>5, LocalStep

\* A request that writes its row and ends, or goes on as `next` tells.
LEMMA WriteStep ==
  ASSUME IInv, NEW p \in Requests, UNCHANGED <<payout, credited>>,
         NEW row \in TxRow, Write(req[p].t, row), req[p].pc # "idle",
         row.form = req[p].row.form, row.status # "none",
         Sound(row, payout[req[p].t]),
         Done(tx[req[p].t]) => Done(row),
         \/ Finish(p)
         \/ /\ Done(row)
            /\ \E step \in Moving : Goto(p, step)
  PROVE  IInv'
<1> DEFINE t == req[p].t
<1>1. t \in TxIds /\ Known(req[p], tx[t], payout[t])
  BY DEF IInv, Tells
<1>2. tx' \in [TxIds -> TxRow] /\ payout' \in [TxIds -> PayoutState]
  BY RowTypes DEF Write
<1>3. tx'[t] = row /\ \A k \in TxIds \ {t} : tx'[k] = tx[k]
  BY <1>1, RowTypes DEF Write
<1>4. \A k \in TxIds : Sound(tx'[k], payout'[k])
  BY <1>3 DEF IInv
<1>5. \A k \in TxIds : tx[k].status # "none" => Later(tx[k], tx'[k])
  BY <1>1, <1>3 DEF Later, Known
<1>6. \A k \in TxIds : Further(payout[k], payout'[k])
  BY DEF Further
<1>7. CASE Finish(p)
  <2>1. req' = [req EXCEPT ![p] = Idle]
    BY <1>7 DEF Finish
  <2>2. /\ Idle = Locals(Idle.pc, Idle.t, Idle.row, Idle.x, Idle.y, Idle.plan, Idle.told)
        /\ Idle.pc = "idle"
    BY DEF Idle, Locals
  <2> HIDE DEF Idle, t
  <2> QED BY <1>2, <1>4, <1>5, <1>6, <2>1, <2>2, StepOf
<1>8. CASE Done(row) /\ \E step \in Moving : Goto(p, step)
  <2>1. PICK step \in Moving : Goto(p, step)
    BY <1>8
  <2> DEFINE r == Locals(step, t, req[p].row, req[p].x, req[p].y, {}, "none")
  <2>2. req' = [req EXCEPT ![p] = r]
    BY <2>1 DEF Goto, Onward, Carry
  <2>3. /\ r.pc = step /\ r.t = t /\ r.row = req[p].row
        /\ r = Locals(r.pc, r.t, r.row, r.x, r.y, r.plan, r.told)
    BY DEF Locals
  <2> HIDE DEF r, t
  <2>4. Known(r, tx'[r.t], payout'[r.t])
    BY <1>1, <1>3, <1>8, <2>3 DEF Known, UserSteps, PayoutSteps, Moving, Done
  <2> QED BY <1>1, <1>2, <1>4, <1>5, <1>6, <2>2, <2>3, <2>4, StepOf
<1> QED BY <1>7, <1>8

-----------------------------------------------------------------------------
(* The steps of a request                                                  *)

LEMMA StartingSteps ==
  ASSUME IInv, NEW p \in Requests,
         \/ StartVerify(p) \/ StartReceipt(p)
         \/ \E t \in TxIds : PalmPayNotice(p, t) \/ FlutterwaveNotice(p, t)
  PROVE  IInv'
<1>1. CASE StartVerify(p)
  <2>1. PICK t \in TxIds : tx[t].status = "pending" /\ Load(p, t, "check")
    BY <1>1 DEF StartVerify
  <2>2. UNCHANGED <<tx, payout, credited>>
    BY <1>1 DEF StartVerify
  <2> QED BY <2>1, <2>2, LoadStep
<1>2. CASE StartReceipt(p)
  <2>1. PICK t \in TxIds : /\ tx[t].status \in {"pending", "processing"}
                           /\ tx[t].form.channel \in Payouts
                           /\ tx[t].asked /\ Load(p, t, "ask")
    BY <1>2 DEF StartReceipt, Payouts
  <2>2. UNCHANGED <<tx, payout, credited>>
    BY <1>2 DEF StartReceipt
  <2> QED BY <2>1, <2>2, LoadStep
<1>3. CASE \E t \in TxIds : PalmPayNotice(p, t) \/ FlutterwaveNotice(p, t)
  <2>1. PICK t \in TxIds : PalmPayNotice(p, t) \/ FlutterwaveNotice(p, t)
    BY <1>3
  <2>2. /\ UNCHANGED <<tx, payout, credited>>
        /\ tx[t].status \in {"pending", "processing"} /\ payout[t] \in Final
        /\ tx[t].form.channel \in Payouts
        /\ Load(p, t, "palmpay") \/ Load(p, t, "flutterwave")
    BY <2>1 DEF PalmPayNotice, FlutterwaveNotice, Payouts
  <2> QED BY <2>2, LoadStep
<1> QED BY <1>1, <1>2, <1>3

LEMMA CheckingSteps ==
  ASSUME IInv, NEW p \in Requests,
         CheckBalance(p) \/ CommitAllocation(p) \/ ReadSource(p)
  PROVE  IInv'
<1> DEFINE row == req[p].row
           va  == row.source
           moves == Plan(available, Family(row.form.from), va, Total(row))
<1>1. CASE CheckBalance(p)
  <2>1. /\ UNCHANGED <<tx, payout, credited>> /\ req[p].pc = "check"
        /\ \/ Finish(p)
           \/ row.form.channel \in Payouts /\ Goto(p, "payout")
           \/ /\ row.form.channel \notin Payouts
              /\ \/ Onward(p, "complete", wallet[Sender(row)], 0)
                 \/ Onward(p, "complete", account[va], available[va])
                 \/ Goto(p, "source")
                 \/ Carry(p, "allocate", 0, 0, moves, "none")
    BY <1>1 DEF CheckBalance, At
  <2> HIDE DEF moves, va
  <2>2. {"complete", "source", "allocate"} \subseteq UserSteps \ Moving
    BY DEF UserSteps, Moving
  <2>3. CASE Finish(p)
    BY <2>1, <2>3, IdleStep
  <2>4. CASE row.form.channel \in Payouts /\ Goto(p, "payout")
    BY <2>1, <2>4, CarryStep DEF Goto, Onward
  <2>5. CASE row.form.channel \notin Payouts /\ Onward(p, "complete", wallet[Sender(row)], 0)
    BY <2>1, <2>2, <2>5, CarryStep DEF Onward
  <2>6. CASE row.form.channel \notin Payouts /\ Onward(p, "complete", account[va], available[va])
    BY <2>1, <2>2, <2>6, CarryStep DEF Onward
  <2>7. CASE row.form.channel \notin Payouts /\ Goto(p, "source")
    BY <2>1, <2>2, <2>7, CarryStep DEF Goto, Onward
  <2>8. CASE row.form.channel \notin Payouts /\ Carry(p, "allocate", 0, 0, moves, "none")
    BY <2>1, <2>2, <2>8, CarryStep
  <2> QED BY <2>1, <2>3, <2>4, <2>5, <2>6, <2>7, <2>8
<1>2. CASE CommitAllocation(p) \/ ReadSource(p)
  <2>1. /\ UNCHANGED <<tx, payout, credited>> /\ req[p].pc \in {"allocate", "source"}
        /\ Goto(p, "source") \/ Onward(p, "complete", account[va], available[va])
    BY <1>2 DEF CommitAllocation, ReadSource, At, ledgers
  <2>2. row.form.channel \notin Payouts
    BY <2>1 DEF IInv, Tells, Known, UserSteps
  <2>3. {"complete", "source"} \subseteq UserSteps \ Moving
    BY DEF UserSteps, Moving
  <2>4. CASE Goto(p, "source")
    BY <2>1, <2>2, <2>3, <2>4, CarryStep DEF Goto, Onward
  <2> HIDE DEF va
  <2>5. CASE Onward(p, "complete", account[va], available[va])
    BY <2>1, <2>2, <2>3, <2>5, CarryStep DEF Onward
  <2> QED BY <2>1, <2>4, <2>5
<1> QED BY <1>1, <1>2

\* What a request that is writing its row knows of it.
LEMMA Writer ==
  ASSUME IInv, NEW p \in Requests, req[p].pc # "idle"
  PROVE  /\ req[p].t \in TxIds /\ req[p].row \in TxRow
         /\ Sound(req[p].row, payout[req[p].t])
         /\ Known(req[p], tx[req[p].t], payout[req[p].t])
         /\ req[p].row.form = tx[req[p].t].form
         /\ payout[req[p].t] \in PayoutState
BY RowTypes DEF IInv, Tells, Known

LEMMA PayoutWrites ==
  ASSUME IInv, NEW p \in Requests, MarkRefused(p) \/ DebitPayout(p)
  PROVE  IInv'
<1> DEFINE row == req[p].row
           t   == req[p].t
<1>1. /\ UNCHANGED <<payout, credited>> /\ Finish(p)
      /\ req[p].pc \in {"refused", "debit"}
  BY DEF MarkRefused, DebitPayout, At, ledgers
<1>2. /\ t \in TxIds /\ row \in TxRow /\ Sound(row, payout[t])
      /\ row.form.channel \in Payouts /\ row.form = tx[t].form
  BY <1>1, Writer DEF Known, PayoutSteps
<1>3. {"failed", "processing"} \subseteq Status
  BY DEF Status, Final
<1>4. ~Done(tx[t])
  BY <1>2 DEF Done
<1>5. CASE MarkRefused(p)
  <2> DEFINE s == [row EXCEPT !.status = "failed", !.asked = TRUE]
  <2>1. Write(t, s)
    BY <1>5 DEF MarkRefused
  <2>2. /\ s \in TxRow /\ s.status = "failed" /\ s.form = row.form
        /\ s.debited = row.debited /\ s.refunded = row.refunded
    BY <1>2, <1>3, FailureWritten, Zenon
  <2> HIDE DEF s
  <2>3. Sound(s, payout[t])
    BY <1>2, <2>2 DEF Sound
  <2> QED BY <1>1, <1>2, <1>4, <2>1, <2>2, <2>3, WriteStep
<1>6. CASE DebitPayout(p)
  <2> DEFINE s == [row EXCEPT !.status = "processing", !.asked = TRUE,
                              !.debited = TRUE]
  <2>1. Write(t, s) /\ payout[t] # "none"
    BY <1>1, <1>6, Writer DEF DebitPayout, At, Known
  <2>2. /\ s \in TxRow /\ s.status = "processing" /\ s.form = row.form
        /\ s.debited /\ s.refunded = row.refunded
    BY <1>2, <1>3, DebitWritten, Zenon
  <2> HIDE DEF s
  <2>3. Sound(s, payout[t])
    BY <1>2, <2>1, <2>2 DEF Sound
  <2> QED BY <1>1, <1>2, <1>4, <2>1, <2>2, <2>3, WriteStep
<1> QED BY <1>5, <1>6

LEMMA UserWrites ==
  ASSUME IInv, NEW p \in Requests,
         \/ MarkCompleted(p) \/ DebitFiat(p) \/ DebitCoin(p) \/ ReadRecipient(p)
  PROVE  IInv'
<1> DEFINE row == req[p].row
           t   == req[p].t
           va  == RecipientVA(row)
<1>1. CASE MarkCompleted(p)
  <2> DEFINE s == [row EXCEPT !.status = "completed", !.debited = TRUE]
  <2>1. /\ UNCHANGED <<payout, credited>> /\ req[p].pc = "complete" /\ Write(t, s)
        /\ Goto(p, "debitCoin") \/ Goto(p, "debitFiat")
    BY <1>1 DEF MarkCompleted, At, ledgers
  <2>2. /\ t \in TxIds /\ row \in TxRow /\ Sound(row, payout[t])
        /\ row.form.channel \notin Payouts /\ "completed" \in Status
    BY <2>1, Writer DEF Known, UserSteps, Status, Final
  <2>3. /\ s \in TxRow /\ s.status = "completed" /\ s.form = row.form
        /\ s.debited /\ s.refunded = row.refunded
    BY <2>2, CompletionWritten, Zenon
  <2> HIDE DEF s
  <2>4. Sound(s, payout[t]) /\ Done(s)
    BY <2>2, <2>3 DEF Sound, Done
  <2>5. \E step \in Moving : Goto(p, step)
    BY <2>1 DEF Moving
  <2> QED BY <2>1, <2>3, <2>4, <2>5, WriteStep
<1>2. CASE DebitFiat(p) \/ DebitCoin(p)
  <2>1. /\ UNCHANGED <<tx, payout, credited>> /\ req[p].pc \in Moving
        /\ Goto(p, "recipient") /\ "recipient" \in Moving /\ req[p].pc # "idle"
    BY <1>2 DEF DebitFiat, DebitCoin, At, Moving
  <2> QED BY <2>1, CarryStep DEF Goto, Onward
<1>3. CASE ReadRecipient(p)
  <2>1. /\ UNCHANGED <<tx, payout, credited>> /\ req[p].pc \in Moving
        /\ req[p].pc # "idle" /\ {"creditFiat", "creditCoin"} \subseteq Moving
        /\ \/ Finish(p)
           \/ Onward(p, "creditFiat", wallet[Receiver(row)], 0)
           \/ Onward(p, "creditCoin", account[va], available[va])
    BY <1>3 DEF ReadRecipient, At, Moving
  <2> HIDE DEF va
  <2>2. CASE Finish(p)
    BY <2>1, <2>2, IdleStep
  <2>3. CASE Onward(p, "creditFiat", wallet[Receiver(row)], 0)
    BY <2>1, <2>3, CarryStep DEF Onward
  <2>4. CASE Onward(p, "creditCoin", account[va], available[va])
    BY <2>1, <2>4, CarryStep DEF Onward
  <2> QED BY <2>1, <2>2, <2>3, <2>4
<1> QED BY <1>1, <1>2, <1>3

\* Only a completed transfer to a user is credited.
LEMMA CreditSteps ==
  ASSUME IInv, NEW p \in Requests, CreditFiat(p) \/ CreditCoin(p)
  PROVE  IInv'
<1> DEFINE t == req[p].t
<1>1. /\ UNCHANGED <<tx, payout>> /\ credited' = credited \cup {t}
      /\ req[p].pc \in Moving /\ req[p].pc # "idle"
      /\ req' = [req EXCEPT ![p] = Idle]
  BY DEF CreditFiat, CreditCoin, At, Moving, Finish
<1>2. Done(tx[t])
  BY <1>1, Writer DEF Known
<1>3. /\ Idle = Locals(Idle.pc, Idle.t, Idle.row, Idle.x, Idle.y, Idle.plan, Idle.told)
      /\ Idle.pc = "idle"
  BY DEF Idle, Locals
<1>4. /\ tx' \in [TxIds -> TxRow] /\ payout' \in [TxIds -> PayoutState]
      /\ \A k \in TxIds : Sound(tx'[k], payout'[k])
  BY <1>1 DEF IInv, Structure
<1>5. \A k \in TxIds : tx[k].status # "none" => Later(tx[k], tx'[k])
  BY <1>1 DEF Later
<1>6. \A k \in TxIds : Further(payout[k], payout'[k])
  BY <1>1 DEF Further
<1>7. \A k \in TxIds \cap credited' : k \in credited \/ Done(tx'[k])
  BY <1>1, <1>2
<1> HIDE DEF Idle, t
<1> QED BY <1>1, <1>3, <1>4, <1>5, <1>6, <1>7, StepOf

LEMMA NoticeWrites ==
  ASSUME IInv, NEW p \in Requests,
         WriteReceipt(p) \/ SettlePalmPay(p) \/ SettleFlutterwave(p)
  PROVE  IInv'
<1> DEFINE row == req[p].row
           t   == req[p].t
<1>1. /\ UNCHANGED <<payout, credited>> /\ Finish(p)
      /\ req[p].pc \in {"answer", "palmpay", "flutterwave"}
  BY DEF WriteReceipt, SettlePalmPay, SettleFlutterwave, At, ledgers
<1>2. /\ t \in TxIds /\ row \in TxRow /\ Sound(row, payout[t])
      /\ row.form = tx[t].form /\ Known(req[p], tx[t], payout[t])
      /\ payout[t] \in PayoutState
  BY <1>1, Writer
<1>3. ~Done(tx[t])
  BY <1>1, <1>2 DEF Done, Known, PayoutSteps
<1>4. Mapped(req[p].told) \in Status /\ payout[t] \in PayoutState
  BY <1>2 DEF Mapped, Status
<1>5. CASE WriteReceipt(p)
  <2> DEFINE s == [row EXCEPT !.status = Mapped(req[p].told)]
  <2>1. Write(t, s) /\ req[p].pc = "answer"
    BY <1>5 DEF WriteReceipt, At
  <2>2. /\ s \in TxRow /\ s.form = row.form /\ s.status = Mapped(req[p].told)
        /\ s.asked = row.asked /\ s.debited = row.debited
        /\ s.refunded = row.refunded
    BY <1>2, <1>4, StatusWritten
  <2>3. row.asked /\ (s.status = "completed" => payout[t] = "completed")
    BY <1>2, <2>1, <2>2 DEF Known, Mapped
  <2>4. s.status \in {"pending"} \cup Final
    BY <2>2 DEF Mapped
  <2> HIDE DEF s
  <2>5. Sound(s, payout[t])
    BY <1>2, <2>2, <2>3, <2>4 DEF Sound, Final
  <2>6. s.status # "none"
    BY <2>4 DEF Final
  <2> QED BY <1>1, <1>3, <2>1, <2>2, <2>5, <2>6, WriteStep
<1>6. CASE SettlePalmPay(p)
  <2> DEFINE s == [row EXCEPT !.status = Mapped(payout[t])]
  <2>1. Write(t, s) /\ payout[t] \in Final
    BY <1>2, <1>6 DEF SettlePalmPay, At, Known
  <2>2. Mapped(payout[t]) = payout[t] /\ payout[t] \in Status
    BY <2>1 DEF Mapped, Status
  <2>3. /\ s \in TxRow /\ s.form = row.form /\ s.status = payout[t]
        /\ s.debited = row.debited /\ s.refunded = row.refunded
    BY <1>2, <2>2, StatusWritten
  <2> HIDE DEF s
  <2>4. Sound(s, payout[t])
    BY <1>2, <2>1, <2>3 DEF Sound, Final
  <2>5. s.status # "none"
    BY <2>1, <2>3 DEF Final
  <2> QED BY <1>1, <1>3, <2>1, <2>3, <2>4, <2>5, WriteStep
<1>7. CASE SettleFlutterwave(p)
  <2> DEFINE b == IF payout[t] # "completed" THEN row.debited ELSE row.refunded
             s == [row EXCEPT !.status = payout[t], !.asked = TRUE, !.refunded = b]
  <2>1. Write(t, s) /\ payout[t] \in Final
    BY <1>2, <1>7 DEF SettleFlutterwave, At, Known
  <2>2. payout[t] \in Status /\ b \in BOOLEAN
    BY <1>2, <2>1 DEF Status, TxRow
  <2> HIDE DEF b
  <2>3. /\ s \in TxRow /\ s.form = row.form /\ s.status = payout[t]
        /\ s.debited = row.debited /\ s.refunded = b
    <3> DEFINE st == payout[t]
    <3>1. row \in TxRow /\ st \in Status /\ b \in BOOLEAN
      BY <1>2, <2>2
    <3>2. s = [row EXCEPT !.status = st, !.asked = TRUE, !.refunded = b]
      OBVIOUS
    <3> HIDE DEF row, t, s, st
    <3>3. /\ s \in TxRow /\ s.form = row.form /\ s.status = st
          /\ s.debited = row.debited /\ s.refunded = b
      BY <3>1, <3>2 DEF TxRow
    <3> QED BY <3>3 DEF st
  <2> HIDE DEF s
  <2>4. Sound(s, payout[t])
    BY <1>2, <2>1, <2>3 DEF Sound, Final, b
  <2>5. s.status # "none"
    BY <2>1, <2>3 DEF Final
  <2> QED BY <1>1, <1>3, <2>1, <2>3, <2>4, <2>5, WriteStep
<1> QED BY <1>5, <1>6, <1>7

-----------------------------------------------------------------------------
(* The provider, and new transfers                                         *)

\* A step of a request that only tells the provider, and may count as lost.
LEMMA AskStep ==
  ASSUME IInv, NEW p \in Requests, AskProvider(p)
  PROVE  IInv'
<1> DEFINE t == req[p].t
           s == IF payout[t] = "none" THEN "accepted" ELSE payout[t]
<1>1. /\ UNCHANGED <<tx, credited>> /\ req[p].pc = "payout"
      /\ \/ UNCHANGED payout /\ Goto(p, "refused")
         \/ /\ payout' = [payout EXCEPT ![t] = s]
            /\ Goto(p, "debit") \/ Goto(p, "refused")
  BY DEF AskProvider, At, ledgers
<1>2. t \in TxIds /\ Known(req[p], tx[t], payout[t]) /\ payout[t] \in PayoutState
  BY <1>1, Writer
<1>3. CASE UNCHANGED payout /\ Goto(p, "refused")
  BY <1>1, <1>3, CarryStep DEF Goto, Onward
<1>4. CASE /\ payout' = [payout EXCEPT ![t] = s]
           /\ Goto(p, "debit") \/ Goto(p, "refused")
  <2>1. PICK step \in {"debit", "refused"} : Goto(p, step)
    BY <1>4
  <2> DEFINE r == Locals(step, t, req[p].row, req[p].x, req[p].y, {}, "none")
  <2>2. req' = [req EXCEPT ![p] = r]
    BY <2>1 DEF Goto, Onward, Carry
  <2>3. /\ r.pc = step /\ r.t = t /\ r.row = req[p].row
        /\ r = Locals(r.pc, r.t, r.row, r.x, r.y, r.plan, r.told)
    BY DEF Locals
  <2>4. payout'[t] = s /\ \A k \in TxIds \ {t} : payout'[k] = payout[k]
    BY <1>2, <1>4, RowTypes
  <2>5. payout' \in [TxIds -> PayoutState]
    BY <1>2, <1>4, RowTypes DEF PayoutState
  <2>6. Further(payout[t], s) /\ s # "none"
    BY <1>2 DEF Further, Final
  <2>7. \A k \in TxIds : Further(payout[k], payout'[k])
    BY <2>4, <2>6 DEF Further
  <2> HIDE DEF r, s
  <2>8. \A k \in TxIds : Sound(tx'[k], payout'[k])
    BY <1>1, <2>7, SoundLasts DEF IInv
  <2>9. \A k \in TxIds : tx[k].status # "none" => Later(tx[k], tx'[k])
    BY <1>1 DEF Later
  <2>10. Known(r, tx'[r.t], payout'[r.t])
    <3>1. Sound(req[p].row, s)
      BY <1>2, <2>6, SoundLasts DEF Known
    <3> QED BY <1>1, <1>2, <2>3, <2>4, <2>6, <3>1
            DEF Known, UserSteps, PayoutSteps, Moving
  <2>11. tx' \in [TxIds -> TxRow]
    BY <1>1 DEF IInv, Structure
  <2> HIDE DEF t
  <2> QED BY <1>1, <1>2, <2>2, <2>3, <2>5, <2>7, <2>8, <2>9, <2>10, <2>11, StepOf
<1> QED BY <1>1, <1>3, <1>4

LEMMA StepPreserves ==
  ASSUME IInv, NEW p \in Requests, Advance(p) \/ RequestLost(p)
  PROVE  IInv'
<1>1. CASE RequestLost(p)
  BY <1>1, IdleStep DEF RequestLost
<1>2. CASE QueryPayout(p)
  <2>1. /\ UNCHANGED <<tx, payout, credited>> /\ req[p].pc = "ask"
        /\ Carry(p, "answer", 0, 0, {}, payout[req[p].t])
    BY <1>2 DEF QueryPayout, At
  <2> QED BY <2>1, CarryStep
<1> QED BY <1>1, <1>2, AskStep, CheckingSteps, PayoutWrites, UserWrites, CreditSteps,
           NoticeWrites DEF Advance

LEMMA EndKeeps ==
  ASSUME IInv, NEW t \in TxIds, PayoutEnds(t)
  PROVE  IInv'
<1>1. PICK u \in Final : payout' = [payout EXCEPT ![t] = u]
  BY DEF PayoutEnds
<1>2. UNCHANGED <<tx, credited, req>> /\ payout[t] = "accepted"
  BY DEF PayoutEnds
<1>3. payout'[t] = u /\ \A k \in TxIds \ {t} : payout'[k] = payout[k]
  BY <1>1 DEF IInv, Structure
<1>4. \A k \in TxIds : Further(payout[k], payout'[k])
  BY <1>2, <1>3 DEF Further, Final
<1>5. Structure'
  BY <1>1, <1>2 DEF IInv, Structure, PayoutState
<1>6. \A k \in TxIds : Sound(tx'[k], payout'[k])
  BY <1>2, <1>4, SoundLasts DEF IInv
<1>7. \A q \in Requests : Tells(req[q])'
  <2> SUFFICES ASSUME NEW q \in Requests, req[q].pc # "idle"
               PROVE  /\ req[q].t \in TxIds
                      /\ Known(req[q], tx'[req[q].t], payout'[req[q].t])
    BY <1>2 DEF Tells
  <2>1. req[q].t \in TxIds /\ Known(req[q], tx[req[q].t], payout[req[q].t])
    BY DEF IInv, Tells
  <2>2. Later(tx[req[q].t], tx'[req[q].t])
    BY <1>2, <2>1 DEF Later, Known
  <2> QED BY <1>4, <2>1, <2>2, KnownLasts
<1> QED BY <1>2, <1>5, <1>6, <1>7 DEF IInv

LEMMA InitiateKeeps ==
  ASSUME IInv, InitiateTransfer
  PROVE  IInv'
<1>1. PICK t \in TxIds, f \in Forms :
        \E va \in IF IsCoin(f) THEN SourceAccounts(f) ELSE {NoVA} :
          /\ \A k \in TxIds : (tx[k].status = "none") <=> (k >= t)
          /\ Write(t, Pending(f, Fee(f), va))
  BY DEF InitiateTransfer
<1>2. PICK va \in IF IsCoin(f) THEN SourceAccounts(f) ELSE {NoVA} :
          /\ \A k \in TxIds : (tx[k].status = "none") <=> (k >= t)
          /\ Write(t, Pending(f, Fee(f), va))
  BY <1>1
<1> DEFINE s == Pending(f, Fee(f), va)
<1>3. UNCHANGED <<payout, credited, req>>
  BY DEF InitiateTransfer
<1>4. tx[t].status = "none"
  BY <1>2, FormAssumption
<1>5. va \in VAs \cup {NoVA}
  BY DEF SourceAccounts, Family, AccountsOf
<1>6. Fee(f) \in Nat
  BY FormAssumption DEF Fee
<1>7. s \in TxRow /\ s.status = "pending" /\ ~s.refunded /\ ~s.debited
  BY <1>5, <1>6 DEF Pending, TxRow, Status
<1>8. Write(t, s)
  BY <1>2
<1> HIDE DEF s
<1>9. tx'[t] = s /\ \A k \in TxIds \ {t} : tx'[k] = tx[k]
  BY <1>8 DEF Write, IInv, Structure
<1>10. Structure'
  BY <1>3, <1>7, <1>8 DEF IInv, Structure, Write
<1>11. \A k \in TxIds : Sound(tx'[k], payout'[k])
  BY <1>3, <1>7, <1>9 DEF IInv, Sound
<1>12. \A k \in TxIds \cap credited' : Done(tx'[k])
  BY <1>3, <1>4, <1>9 DEF IInv, Done
<1>13. \A q \in Requests : Tells(req[q])'
  BY <1>3, <1>4, <1>9 DEF IInv, Tells, Known
<1> QED BY <1>10, <1>11, <1>12, <1>13 DEF IInv

-----------------------------------------------------------------------------
LEMMA InitEstablishes == Init => IInv
<1> SUFFICES ASSUME Init PROVE IInv
  OBVIOUS
<1>1. (CHOOSE f \in Forms : TRUE) \in Forms
  BY FormAssumption
<1>2. /\ BlankRow \in TxRow /\ BlankRow.status = "none" /\ ~BlankRow.refunded
  <2> DEFINE r == Pending(CHOOSE f \in Forms : TRUE, 0, NoVA)
  <2>1. r \in TxRow /\ ~r.refunded
    BY <1>1 DEF Pending, TxRow, Status
  <2> HIDE DEF r
  <2>2. /\ [r EXCEPT !.status = "none"] \in TxRow
        /\ [r EXCEPT !.status = "none"].status = "none"
        /\ ~[r EXCEPT !.status = "none"].refunded
    BY <2>1 DEF TxRow, Status
  <2> QED BY <2>2 DEF BlankRow, r
<1>3. /\ Idle = Locals(Idle.pc, Idle.t, Idle.row, Idle.x, Idle.y, Idle.plan, Idle.told)
      /\ Idle.pc = "idle"
  BY DEF Idle, Locals
<1> HIDE DEF Idle
<1>4. \A p \in Requests : req[p] = Idle
  BY DEF Init
<1>5. Structure
  BY <1>2, <1>3, <1>4 DEF Init, Structure, PayoutState
<1>6. \A t \in TxIds : Sound(tx[t], payout[t])
  BY <1>2 DEF Init, Sound
<1>7. \A p \in Requests : Tells(req[p])
  BY <1>3, <1>4 DEF Tells
<1> QED BY <1>5, <1>6, <1>7 DEF Init, IInv

LEMMA NextPreserves == IInv /\ [Next]_vars => IInv'
<1> SUFFICES ASSUME IInv, [Next]_vars PROVE IInv'
  OBVIOUS
<1>1. CASE InitiateTransfer
  BY <1>1, InitiateKeeps
<1>2. CASE \E p \in Requests : StartVerify(p) \/ StartReceipt(p)
  BY <1>2, StartingSteps
<1>3. CASE \E p \in Requests, t \in TxIds : Notice(p, t)
  BY <1>3, StartingSteps DEF Notice
<1>4. CASE \E p \in Requests : Advance(p) \/ RequestLost(p)
  BY <1>4, StepPreserves
<1>5. CASE \E t \in TxIds : PayoutEnds(t)
  BY <1>5, EndKeeps
<1>6. CASE UNCHANGED vars
  BY <1>6 DEF vars, IInv, Structure, Tells
<1> QED BY <1>1, <1>2, <1>3, <1>4, <1>5, <1>6 DEF Next

\* The inductive invariant holds throughout.
THEOREM TransferInvariance == Spec => []IInv
BY InitEstablishes, NextPreserves, PTL DEF Spec

\* No transfer gets ahead of what the provider, the wallet debit or the credit
\* bear out, for any number of transfers and of requests and webhooks that
\* interleave or are lost in any way.
THEOREM TransferEvidenceHolds == Spec => []Evidence
<1>1. ASSUME IInv PROVE Evidence
  <2> SUFFICES ASSUME NEW t \in TxIds
               PROVE  LET row == tx[t]
                      IN  /\ row.status = "processing" => row.debited /\ payout[t] # "none"
                          /\ row.form.channel \in Payouts /\ row.status = "completed" =>
                               payout[t] = "completed"
                          /\ row.refunded => row.debited /\ payout[t] \in {"failed", "cancelled"}
                          /\ t \in credited => row.status = "completed" /\ row.debited
                          /\ row.status = "pending" /\ ~row.asked => ~row.debited
    BY DEF Evidence
  <2> QED BY <1>1 DEF IInv, Sound, Done
<1> QED BY <1>1, TransferInvariance, PTL
-----------------------------------------------------------------------------
(* Types                                                                   *)

\* Where a coin is sent from is an account.
Sourced(row) == IsCoin(row.form) => row.source \in VAs

\* What allocateUnifiedBalance writes: rows of accounts with numbers.
WrittenRows == SUBSET [va : VAs, available : Int]

\* What a request has read has its type, and a coin it is gathering a source.
Typed(r) ==
  /\ r.pc \in Steps /\ r.t \in TxIds \cup {0} /\ r.row \in TxRow
  /\ r.x \in Int /\ r.y \in Int /\ r.plan \in WrittenRows /\ r.told \in PayoutState
  /\ r.pc # "idle" => Sourced(r.row)
  /\ r.pc \in {"allocate", "source"} => r.row.source \in VAs

\* The tables: balances are numbers, and a coin's row names an account.
Tables ==
  /\ account \in [VAs -> Int] /\ available \in [VAs -> Int]
  /\ wallet \in [Users \X Fiats -> Int]
  /\ credited \subseteq TxIds /\ lost \in 0 .. MaxLost
  /\ \A t \in TxIds : tx[t].status # "none" => Sourced(tx[t])

Types == Tables /\ \A p \in Requests : Typed(req[p])

\* Min finds an account in any non-empty set of them.
LEMMA MinIsMember ==
  ASSUME NEW S \in SUBSET VAs, S # {}
  PROVE  Min(S) \in S
<1>1. S \in SUBSET Nat
  BY AccountAssumption
<1>2. PICK n \in S : \A m \in S : ~(m < n)
  BY <1>1, Least
<1>3. \A m \in S : n =< m
  BY <1>1, <1>2
<1> QED BY <1>2, <1>3 DEF Min

\* The account found for a recipient is an account.
LEMMA RecipientTyped ==
  ASSUME NEW row, RecipientVA(row) # NoVA
  PROVE  RecipientVA(row) \in VAs
<1> DEFINE c == Ledger[row.source]
           exact == {va \in AccountsOf(row.form.to) : Ledger[va] = c}
<1>1. RecipientVA(row) = ExactVA(row.form.to, c)
  BY DEF RecipientVA
<1>2. exact # {} /\ exact \in SUBSET VAs
  BY <1>1 DEF ExactVA, AccountsOf
<1> QED BY <1>1, <1>2, MinIsMember DEF ExactVA

\* The rows of a plan are accounts with numbers, whatever the pool holds.
LEMMA PlanTyped ==
  ASSUME NEW a \in [VAs -> Int], NEW family \in SUBSET VAs, NEW target \in VAs,
         NEW amount \in Int
  PROVE  Plan(a, family, target, amount) \in WrittenRows
<1> DEFINE S == Sources(a, family, target)
           g == [va \in S |-> Moved(a, family, target, amount, va)]
<1>1. S \in SUBSET VAs /\ \A T \in SUBSET VAs : IsFiniteSet(T)
  BY AccountAssumption, FS_Subset DEF Sources
<1>2. ASSUME NEW va \in S PROVE Moved(a, family, target, amount, va) \in Int
  <2> DEFINE richer == {x \in Sources(a, family, target) : Richer(a, x, va)}
             left == amount - a[target] - TotalAvailable(a, richer)
  <2>1. TotalAvailable(a, richer) \in Int
    <3>1. IsFiniteSet(richer) /\ \A x \in richer : a[x] \in Int
      BY <1>1
    <3> HIDE DEF richer
    <3> QED BY <3>1, SumType DEF TotalAvailable
  <2>2. left \in Int /\ a[va] \in Int
    BY <1>1, <2>1
  <2>3. Moved(a, family, target, amount, va) = IF left <= 0 THEN 0 ELSE Min({a[va], left})
    BY DEF Moved
  <2> HIDE DEF left
  <2>4. Min({a[va], left}) \in {a[va], left}
    BY <2>2 DEF Min
  <2> QED BY <2>2, <2>3, <2>4
<1>3. \A va \in S : g[va] \in Int /\ a[va] - g[va] \in Int
  BY <1>1, <1>2
<1>4. SumFunction(g) \in Int
  <2>1. IsFiniteSet(S) /\ DOMAIN g = S
    BY <1>1
  <2> HIDE DEF g, S
  <2> QED BY <1>3, <2>1, SumType DEF SumFunction
<1>5. a[target] + SumFunction(g) \in Int
  BY <1>4
<1>6. Plan(a, family, target, amount)
        \in {{}, {[va |-> s, available |-> a[s] - g[s]] : s \in {x \in S : g[x] > 0}}
                  \cup {[va |-> target, available |-> a[target] + SumFunction(g)]}}
  BY DEF Plan
<1> HIDE DEF g, S
<1> QED BY <1>1, <1>3, <1>5, <1>6 DEF WrittenRows

\* The balances after them are numbers.
LEMMA ApplyTyped ==
  ASSUME NEW a \in [VAs -> Int], NEW plan \in WrittenRows
  PROVE  Apply(plan, a) \in [VAs -> Int]
<1>1. ASSUME NEW va \in VAs, \E w \in plan : w.va = va
      PROVE  (CHOOSE w \in plan : w.va = va).available \in Int
  <2>1. (CHOOSE w \in plan : w.va = va) \in plan
    BY <1>1
  <2> QED BY <2>1 DEF WrittenRows
<1> QED BY <1>1 DEF Apply

\* The parties of a transfer have the wallets it moves money between, and its worth
\* is a number.
LEMMA FormTyped ==
  ASSUME NEW row \in TxRow
  PROVE  /\ row.form.amount \in Int /\ Total(row) \in Int
         /\ row.form.channel \in Payouts => Sender(row) \in Users \X Fiats
         /\ ~IsCoin(row.form) => Sender(row) \in Users \X Fiats
         /\ ~IsCoin(row.form) /\ row.form.channel \notin Payouts =>
              Receiver(row) \in Users \X Fiats
<1>1. row.form \in Forms /\ row.fee \in Nat
  BY DEF TxRow
<1>2. PICK f : f = row.form
  OBVIOUS
<1>3. /\ f.from \in Users /\ f.amount \in Nat
      /\ f.channel \in Payouts => f.currency \in Fiats
      /\ f.channel \notin Payouts => f.to \in Users
  BY <1>1, <1>2, FormAssumption
<1>4. row.form.amount \in Int /\ Total(row) \in Int
  BY <1>1, <1>2, <1>3 DEF Total
<1>5. Sender(row) = <<f.from, f.currency>> /\ Receiver(row) = <<f.to, f.currency>>
  BY <1>2 DEF Sender, Receiver
<1> QED BY <1>2, <1>3, <1>4, <1>5 DEF IsCoin

\* The row of a new transfer, before anything is asked of anybody.
LEMMA IdleTyped == Typed(Idle)
<1>1. BlankRow \in TxRow
  <2> DEFINE r == Pending(CHOOSE f \in Forms : TRUE, 0, NoVA)
  <2>1. r \in TxRow /\ "none" \in Status
    BY FormAssumption DEF Pending, TxRow, Status
  <2> HIDE DEF r
  <2>2. [r EXCEPT !.status = "none"] \in TxRow
    BY <2>1 DEF TxRow
  <2> QED BY <2>2 DEF BlankRow, r
<1>2. /\ Idle.pc = "idle" /\ Idle.t = 0 /\ Idle.row = BlankRow /\ Idle.x = 0
      /\ Idle.y = 0 /\ Idle.plan = {} /\ Idle.told = "none"
  BY DEF Idle, Locals
<1>3. "idle" \in Steps /\ "none" \in PayoutState
  BY DEF Steps, PayoutState
<1> HIDE DEF Idle, BlankRow
<1> QED BY <1>1, <1>2, <1>3 DEF Typed, WrittenRows

\* What the steps write in place of a row: its form and its source stay.
Rewrites(row) ==
  {[row EXCEPT !.status = st] : st \in Status}
    \cup {[row EXCEPT !.status = "failed", !.asked = TRUE],
          [row EXCEPT !.status = "processing", !.asked = TRUE, !.debited = TRUE],
          [row EXCEPT !.status = "completed", !.debited = TRUE]}
    \cup {[row EXCEPT !.status = st, !.asked = TRUE, !.refunded = TRUE] : st \in Status}
    \cup {[row EXCEPT !.status = st, !.asked = TRUE, !.refunded = FALSE] : st \in Status}
LEMMA SourceKept ==
  ASSUME NEW row \in TxRow, NEW s \in Rewrites(row)
  PROVE  s.form = row.form /\ s.source = row.source
<1>1. PICK r : r = row
  OBVIOUS
<1>2. CASE \E st \in Status : s = [r EXCEPT !.status = st]
  BY <1>1, <1>2 DEF TxRow
<1>3. CASE \E st \in Status :
             \/ s = [r EXCEPT !.status = st, !.asked = TRUE, !.refunded = TRUE]
             \/ s = [r EXCEPT !.status = st, !.asked = TRUE, !.refunded = FALSE]
  BY <1>1, <1>3 DEF TxRow
<1>4. CASE \/ s = [r EXCEPT !.status = "failed", !.asked = TRUE]
           \/ s = [r EXCEPT !.status = "processing", !.asked = TRUE, !.debited = TRUE]
           \/ s = [r EXCEPT !.status = "completed", !.debited = TRUE]
  BY <1>1, <1>4 DEF TxRow
<1> QED BY <1>1, <1>2, <1>3, <1>4, Zenon DEF Rewrites

\* What a step of p reads has its type.
LEMMA ReadsTyped ==
  ASSUME IInv, Types, NEW p \in Requests
  PROVE  /\ req[p].row \in TxRow /\ req[p].x \in Int /\ req[p].y \in Int
         /\ req[p].plan \in WrittenRows /\ req[p].t \in TxIds \cup {0}
         /\ account \in [VAs -> Int] /\ available \in [VAs -> Int]
         /\ wallet \in [Users \X Fiats -> Int]
         /\ credited \subseteq TxIds /\ lost \in 0 .. MaxLost
         /\ \A t \in TxIds : tx[t].status # "none" => Sourced(tx[t])
         /\ req[p].pc # "idle" => Sourced(req[p].row) /\ req[p].t \in TxIds
BY DEF Types, Typed, Tables, IInv, Tells

\* A step of p keeps the types if it keeps them in p's locals and in the tables.
LEMMA TypesKept ==
  ASSUME IInv, Types, NEW p \in Requests, NEW r, req' = [req EXCEPT ![p] = r],
         Typed(r), Tables'
  PROVE  Types'
<1>1. \A q \in Requests : req'[q] = IF q = p THEN r ELSE req[q]
  BY DEF IInv, Structure
<1>2. \A q \in Requests : Typed(req'[q])
  BY <1>1 DEF Types
<1>3. \A q \in Requests : Typed(req[q])'
  BY <1>2 DEF Typed
<1> QED BY <1>3 DEF Types

\* A request that ends.
LEMMA EndTyped ==
  ASSUME IInv, Types, NEW p \in Requests, Finish(p), Tables'
  PROVE  Types'
BY IdleTyped, TypesKept DEF Finish

\* A request that goes on with the row it has.
LEMMA OnwardTyped ==
  ASSUME IInv, Types, NEW p \in Requests, NEW step \in Steps, NEW x \in Int, NEW y \in Int,
         NEW plan \in WrittenRows, NEW told \in PayoutState,
         Carry(p, step, x, y, plan, told), req[p].pc # "idle",
         step \in {"allocate", "source"} => req[p].row.source \in VAs,
         Tables'
  PROVE  Types'
<1> DEFINE r == Locals(step, req[p].t, req[p].row, x, y, plan, told)
<1>1. /\ req' = [req EXCEPT ![p] = r] /\ r.pc = step /\ r.t = req[p].t
      /\ r.row = req[p].row /\ r.x = x /\ r.y = y /\ r.plan = plan /\ r.told = told
  BY DEF Carry, Locals
<1> HIDE DEF r
<1>2. Typed(r)
  BY <1>1, ReadsTyped DEF Typed
<1> QED BY <1>1, <1>2, TypesKept

\* The same with no plan, and nothing told.
LEMMA NumbersOnward ==
  ASSUME IInv, Types, NEW p \in Requests, NEW step \in Steps, NEW x \in Int, NEW y \in Int,
         Onward(p, step, x, y), req[p].pc # "idle",
         step \in {"allocate", "source"} => req[p].row.source \in VAs,
         Tables'
  PROVE  Types'
<1>1. {} \in WrittenRows /\ "none" \in PayoutState
  BY DEF WrittenRows, PayoutState
<1> QED BY <1>1, OnwardTyped DEF Onward

\* A row that keeps its form and its source leaves the table of transfers typed.
LEMMA RowTyped ==
  ASSUME IInv, Types, NEW p \in Requests, req[p].pc # "idle", NEW row,
         Write(req[p].t, row), row.form = req[p].row.form, row.source = req[p].row.source,
         account' \in [VAs -> Int], available' \in [VAs -> Int],
         wallet' \in [Users \X Fiats -> Int], UNCHANGED <<credited, lost>>
  PROVE  Tables'
<1>1. tx' = [tx EXCEPT ![req[p].t] = row] /\ tx \in [TxIds -> TxRow]
  BY RowTypes DEF Write
<1>2. \A t \in TxIds : tx'[t] = IF t = req[p].t THEN row ELSE tx[t]
  BY <1>1
<1>3. Sourced(row)
  BY ReadsTyped DEF Sourced
<1>4. \A t \in TxIds : tx'[t].status # "none" => Sourced(tx'[t])
  BY <1>2, <1>3, ReadsTyped
<1>5. \A t \in TxIds : (tx[t].status # "none" => Sourced(tx[t]))'
  BY <1>4 DEF Sourced
<1> QED BY <1>5, ReadsTyped DEF Tables

\* A request that begins reads a row that is there.
LEMMA StartingTyped ==
  ASSUME IInv, Types, NEW p \in Requests, UNCHANGED lost,
         \/ StartVerify(p) \/ StartReceipt(p)
         \/ \E t \in TxIds : PalmPayNotice(p, t) \/ FlutterwaveNotice(p, t)
  PROVE  Types'
<1>1. PICK t \in TxIds, step \in {"check", "ask", "palmpay", "flutterwave"} :
        Load(p, t, step) /\ tx[t].status # "none"
  BY DEF StartVerify, StartReceipt, PalmPayNotice, FlutterwaveNotice
<1>2. UNCHANGED <<tx, credited, ledgers>>
  BY DEF StartVerify, StartReceipt, PalmPayNotice, FlutterwaveNotice
<1> DEFINE r == Locals(step, t, tx[t], 0, 0, {}, "none")
<1>3. /\ req' = [req EXCEPT ![p] = r] /\ r.pc = step /\ r.t = t /\ r.row = tx[t]
      /\ r.x = 0 /\ r.y = 0 /\ r.plan = {} /\ r.told = "none"
  BY <1>1 DEF Load, Locals
<1> HIDE DEF r
<1>4. Typed(r)
  <2>1. step \in Steps /\ {} \in WrittenRows /\ "none" \in PayoutState
    BY DEF Steps, WrittenRows, PayoutState
  <2>2. tx[t] \in TxRow /\ Sourced(tx[t])
    BY <1>1, RowTypes, ReadsTyped
  <2> QED BY <1>3, <2>1, <2>2 DEF Typed
<1>5. Tables'
  BY <1>2 DEF Types, Tables, ledgers, Sourced
<1> QED BY <1>3, <1>4, <1>5, TypesKept

\* The balance is checked, and a stablecoin gathered on the source.
LEMMA CheckingTyped ==
  ASSUME IInv, Types, NEW p \in Requests, UNCHANGED lost,
         CheckBalance(p) \/ CommitAllocation(p) \/ ReadSource(p)
  PROVE  Types'
<1> DEFINE row == req[p].row
           moves == Plan(available, Family(row.form.from), row.source, Total(row))
<1>1. CASE CheckBalance(p)
  <2>1. /\ UNCHANGED <<tx, credited, ledgers>> /\ req[p].pc = "check"
        /\ \/ Finish(p)
           \/ Goto(p, "payout")
           \/ ~IsCoin(row.form) /\ Onward(p, "complete", wallet[Sender(row)], 0)
           \/ /\ IsCoin(row.form)
              /\ \/ Onward(p, "complete", account[row.source], available[row.source])
                 \/ Goto(p, "source")
                 \/ Carry(p, "allocate", 0, 0, moves, "none")
    BY <1>1 DEF CheckBalance, At
  <2>2. Tables'
    BY <2>1 DEF Types, Tables, ledgers, Sourced
  <2>3. {"payout", "complete", "source", "allocate"} \subseteq Steps /\ "none" \in PayoutState
    BY DEF Steps, PayoutState
  <2>4. row \in TxRow /\ (IsCoin(row.form) => row.source \in VAs)
    BY <2>1, ReadsTyped DEF Sourced
  <2>5. CASE Finish(p)
    BY <2>2, <2>5, EndTyped
  <2>6. CASE Goto(p, "payout")
    BY <2>1, <2>2, <2>3, <2>6, ReadsTyped, NumbersOnward DEF Goto
  <2>7. CASE ~IsCoin(row.form) /\ Onward(p, "complete", wallet[Sender(row)], 0)
    <3>1. wallet[Sender(row)] \in Int
      BY <2>4, <2>7, ReadsTyped, FormTyped
    <3> QED BY <2>1, <2>2, <2>3, <2>7, <3>1, NumbersOnward
  <2>8. CASE /\ IsCoin(row.form)
             /\ Onward(p, "complete", account[row.source], available[row.source])
    <3>1. account[row.source] \in Int /\ available[row.source] \in Int
      BY <2>4, <2>8, ReadsTyped
    <3> QED BY <2>1, <2>2, <2>3, <2>8, <3>1, NumbersOnward
  <2>9. CASE IsCoin(row.form) /\ Goto(p, "source")
    BY <2>1, <2>2, <2>3, <2>4, <2>9, ReadsTyped, NumbersOnward DEF Goto
  <2>10. CASE IsCoin(row.form) /\ Carry(p, "allocate", 0, 0, moves, "none")
    <3>1. Family(row.form.from) \in SUBSET VAs
      BY DEF Family, AccountsOf
    <3>2. row.source \in VAs /\ Total(row) \in Int
      BY <2>4, <2>10, FormTyped
    <3>3. moves \in WrittenRows
      <4> HIDE DEF row
      <4> QED BY <3>1, <3>2, ReadsTyped, PlanTyped
    <3> HIDE DEF moves
    <3> QED BY <2>1, <2>2, <2>3, <2>10, <3>2, <3>3, OnwardTyped
  <2> HIDE DEF row, moves
  <2> QED BY <2>1, <2>5, <2>6, <2>7, <2>8, <2>9, <2>10
<1>2. CASE CommitAllocation(p) \/ ReadSource(p)
  <2>1. /\ UNCHANGED <<tx, credited, account, wallet>>
        /\ req[p].pc \in {"allocate", "source"}
    BY <1>2 DEF CommitAllocation, ReadSource, At, ledgers
  <2>2. row.source \in VAs /\ {"complete", "source"} \subseteq Steps
    BY <2>1 DEF Types, Typed, Steps
  <2>3. available' \in [VAs -> Int]
    BY <1>2, ReadsTyped, ApplyTyped DEF CommitAllocation, ReadSource, ledgers
  <2>4. Tables'
    BY <2>1, <2>3 DEF Types, Tables, Sourced
  <2>5. account[row.source] \in Int /\ available[row.source] \in Int
    BY <2>2, ReadsTyped
  <2>6. CASE CommitAllocation(p)
    BY <2>1, <2>2, <2>4, <2>6, ReadsTyped, NumbersOnward DEF CommitAllocation, Goto
  <2>7. CASE ReadSource(p)
    BY <2>1, <2>2, <2>4, <2>5, <2>7, NumbersOnward DEF ReadSource
  <2> QED BY <1>2, <2>6, <2>7
<1> QED BY <1>1, <1>2

\* A payout is asked for, looked up, and written down.
LEMMA PayoutTyped ==
  ASSUME IInv, Types, NEW p \in Requests,
         \/ AskProvider(p)
         \/ /\ UNCHANGED lost
            /\ MarkRefused(p) \/ DebitPayout(p) \/ QueryPayout(p) \/ WriteReceipt(p)
               \/ SettlePalmPay(p) \/ SettleFlutterwave(p)
  PROVE  Types'
<1> DEFINE row == req[p].row
           t == req[p].t
<1>1. {"refused", "debit", "answer"} \subseteq Steps
  BY DEF Steps
<1>2. CASE AskProvider(p)
  <2>1. /\ UNCHANGED <<tx, credited, ledgers>> /\ req[p].pc = "payout"
        /\ Goto(p, "refused") \/ Goto(p, "debit")
    BY <1>2 DEF AskProvider, At
  <2>2. lost' \in 0 .. MaxLost
    BY <1>2, ReadsTyped, FormAssumption DEF AskProvider
  <2>3. Tables'
    BY <2>1, <2>2 DEF Types, Tables, ledgers, Sourced
  <2> QED BY <1>1, <2>1, <2>3, ReadsTyped, NumbersOnward DEF Goto
<1>3. CASE QueryPayout(p) /\ UNCHANGED lost
  <2>1. /\ UNCHANGED <<tx, credited, ledgers>> /\ req[p].pc = "ask"
        /\ Carry(p, "answer", 0, 0, {}, payout[t])
    BY <1>3 DEF QueryPayout, At
  <2>2. Tables'
    BY <1>3, <2>1 DEF Types, Tables, ledgers, Sourced
  <2>3. payout[t] \in PayoutState /\ {} \in WrittenRows
    BY <2>1, Writer DEF WrittenRows
  <2> HIDE DEF t
  <2> QED BY <1>1, <2>1, <2>2, <2>3, OnwardTyped
<1>4. ASSUME NEW s, Write(t, s), s.form = row.form, s.source = row.source, Finish(p),
             req[p].pc # "idle", UNCHANGED <<credited, account, available, lost>>,
             wallet' \in [Users \X Fiats -> Int]
      PROVE  Types'
  <2>1. account' \in [VAs -> Int] /\ available' \in [VAs -> Int]
    BY <1>4, ReadsTyped
  <2>2. Tables'
    BY <1>4, <2>1, RowTyped
  <2> QED BY <1>4, <2>2, EndTyped
<1>5. row \in TxRow /\ Total(row) \in Int
  BY ReadsTyped, FormTyped
<1>6. CASE (MarkRefused(p) \/ WriteReceipt(p) \/ SettlePalmPay(p)) /\ UNCHANGED lost
  <2>1. UNCHANGED <<credited, ledgers>> /\ Finish(p) /\ req[p].pc # "idle"
    BY <1>6 DEF MarkRefused, WriteReceipt, SettlePalmPay, At
  <2>2. PICK s \in Rewrites(row) : Write(t, s)
    <3>1. payout[t] \in PayoutState /\ req[p].told \in PayoutState
      BY <2>1, Writer DEF Types, Typed
    <3>2. Mapped(payout[t]) \in Status /\ Mapped(req[p].told) \in Status
      BY <3>1 DEF Mapped, Status
    <3>3. CASE MarkRefused(p)
      BY <3>3, Zenon DEF MarkRefused, Rewrites
    <3>4. CASE WriteReceipt(p)
      BY <3>2, <3>4, Zenon DEF WriteReceipt, Rewrites
    <3>5. CASE SettlePalmPay(p)
      BY <3>2, <3>5, Zenon DEF SettlePalmPay, Rewrites
    <3> QED BY <1>6, <3>3, <3>4, <3>5
  <2>3. wallet' \in [Users \X Fiats -> Int]
    BY <2>1, ReadsTyped DEF ledgers
  <2> HIDE DEF row, t
  <2> QED BY <1>4, <1>5, <1>6, <2>1, <2>2, <2>3, SourceKept DEF ledgers
<1>7. CASE (DebitPayout(p) \/ SettleFlutterwave(p)) /\ UNCHANGED lost
  <2>1. UNCHANGED <<credited, account, available>> /\ Finish(p) /\ req[p].pc # "idle"
    BY <1>7 DEF DebitPayout, SettleFlutterwave, At
  <2>2. PICK s \in Rewrites(row) : Write(t, s)
    <3>1. CASE DebitPayout(p)
      BY <3>1, Zenon DEF DebitPayout, Rewrites
    <3>2. CASE SettleFlutterwave(p)
      <4> DEFINE b == IF payout[t] # "completed" THEN row.debited ELSE row.refunded
      <4>1. Write(t, [row EXCEPT !.status = payout[t], !.asked = TRUE, !.refunded = b])
        BY <3>2 DEF SettleFlutterwave
      <4>2. payout[t] \in Status /\ b \in BOOLEAN
        <5>1. payout[t] \in Final
          BY <3>2, Writer DEF SettleFlutterwave, At, Known
        <5> QED BY <1>5, <5>1 DEF Status, TxRow
      <4>3. b = TRUE \/ b = FALSE
        BY <4>2
      <4> HIDE DEF b
      <4> QED BY <4>1, <4>2, <4>3, Zenon DEF Rewrites
    <3> QED BY <1>7, <3>1, <3>2
  <2>3. wallet' \in [Users \X Fiats -> Int]
    <3>1. PICK w : w = Sender(row)
      OBVIOUS
    <3>2. \/ wallet' = wallet
          \/ wallet' = [wallet EXCEPT ![w] = @ + Total(row)]
          \/ wallet' = [wallet EXCEPT ![w] = @ - Total(row)]
      <4>1. CASE SettleFlutterwave(p)
        <5> DEFINE back == payout[t] # "completed" /\ row.debited /\ ~row.refunded
        <5>1. wallet' = IF back THEN [wallet EXCEPT ![Sender(row)] = @ + Total(row)]
                        ELSE wallet
          BY <4>1 DEF SettleFlutterwave
        <5> HIDE DEF back
        <5> QED BY <3>1, <5>1, Zenon
      <4>2. CASE DebitPayout(p)
        <5>1. wallet' = [wallet EXCEPT ![Sender(row)] = @ - Total(row)]
          BY <4>2 DEF DebitPayout
        <5> QED BY <3>1, <5>1, Zenon
      <4> QED BY <1>7, <4>1, <4>2
    <3>3. wallet \in [Users \X Fiats -> Int]
      BY ReadsTyped
    <3>4. \A k \in Users \X Fiats :
            wallet[k] + Total(row) \in Int /\ wallet[k] - Total(row) \in Int
      BY <1>5, <3>3
    <3> HIDE DEF row
    <3> QED BY <3>2, <3>3, <3>4
  <2> HIDE DEF row, t
  <2> QED BY <1>4, <1>5, <1>7, <2>1, <2>2, <2>3, SourceKept
<1> QED BY <1>2, <1>3, <1>6, <1>7

\* The money of a transfer to a user.
LEMMA MoneyTyped ==
  ASSUME IInv, Types, NEW p \in Requests, UNCHANGED lost,
         MarkCompleted(p) \/ DebitFiat(p) \/ DebitCoin(p)
  PROVE  Types'
<1> DEFINE row == req[p].row
           t == req[p].t
<1>1. {"debitFiat", "debitCoin", "recipient"} \subseteq Steps
  BY DEF Steps
<1>2. row \in TxRow /\ req[p].x - Total(row) \in Int /\ req[p].y - Total(row) \in Int
  BY ReadsTyped, FormTyped
<1>3. CASE MarkCompleted(p)
  <2>1. /\ UNCHANGED <<credited, ledgers>> /\ req[p].pc # "idle"
        /\ Goto(p, "debitCoin") \/ Goto(p, "debitFiat")
    BY <1>3 DEF MarkCompleted, At
  <2>2. PICK s \in Rewrites(row) : Write(t, s)
    BY <1>3, Zenon DEF MarkCompleted, Rewrites
  <2>3. s.form = row.form /\ s.source = row.source
    BY <1>2, <2>2, SourceKept
  <2>4. Tables'
    BY <2>1, <2>2, <2>3, ReadsTyped, RowTyped DEF ledgers
  <2> QED BY <1>1, <2>1, <2>4, ReadsTyped, NumbersOnward DEF Goto
<1>4. CASE DebitFiat(p) \/ DebitCoin(p)
  <2>1. UNCHANGED <<tx, credited>> /\ req[p].pc # "idle" /\ Goto(p, "recipient")
    BY <1>4 DEF DebitFiat, DebitCoin, At
  <2>2. wallet' \in [Users \X Fiats -> Int]
    BY <1>2, <1>4, ReadsTyped DEF DebitFiat, DebitCoin
  <2>3. account' \in [VAs -> Int] /\ available' \in [VAs -> Int]
    BY <1>2, <1>4, ReadsTyped DEF DebitFiat, DebitCoin
  <2>4. Tables'
    BY <2>1, <2>2, <2>3 DEF Types, Tables, Sourced
  <2> QED BY <1>1, <2>1, <2>4, ReadsTyped, NumbersOnward DEF Goto
<1> QED BY <1>3, <1>4

LEMMA CreditTyped ==
  ASSUME IInv, Types, NEW p \in Requests, UNCHANGED lost,
         ReadRecipient(p) \/ CreditFiat(p) \/ CreditCoin(p)
  PROVE  Types'
<1> DEFINE row == req[p].row
           va == RecipientVA(row)
<1>1. {"creditFiat", "creditCoin"} \subseteq Steps
  BY DEF Steps
<1>2. /\ row \in TxRow /\ req[p].x + row.form.amount \in Int
      /\ req[p].y + row.form.amount \in Int
  BY ReadsTyped, FormTyped
<1>3. CASE ReadRecipient(p)
  <2>1. /\ UNCHANGED <<tx, credited, ledgers>> /\ req[p].pc = "recipient"
        /\ \/ Finish(p)
           \/ ~IsCoin(row.form) /\ Onward(p, "creditFiat", wallet[Receiver(row)], 0)
           \/ va # NoVA /\ Onward(p, "creditCoin", account[va], available[va])
    BY <1>3 DEF ReadRecipient, At
  <2>2. Tables'
    BY <2>1 DEF Types, Tables, ledgers, Sourced
  <2>3. CASE Finish(p)
    BY <2>2, <2>3, EndTyped
  <2>4. CASE ~IsCoin(row.form) /\ Onward(p, "creditFiat", wallet[Receiver(row)], 0)
    <3>1. row.form.channel \notin Payouts
      BY <2>1, Writer DEF Known, UserSteps
    <3>2. wallet[Receiver(row)] \in Int
      BY <1>2, <2>4, <3>1, ReadsTyped, FormTyped
    <3> QED BY <1>1, <2>1, <2>2, <2>4, <3>2, NumbersOnward
  <2>5. CASE va # NoVA /\ Onward(p, "creditCoin", account[va], available[va])
    <3>1. account[va] \in Int /\ available[va] \in Int
      BY <2>5, ReadsTyped, RecipientTyped
    <3> HIDE DEF va
    <3> QED BY <1>1, <2>1, <2>2, <2>5, <3>1, NumbersOnward
  <2> HIDE DEF va, row
  <2> QED BY <2>1, <2>3, <2>4, <2>5
<1>4. CASE CreditFiat(p) \/ CreditCoin(p)
  <2>1. /\ UNCHANGED tx /\ req[p].pc # "idle" /\ Finish(p)
        /\ credited' = credited \cup {req[p].t}
    BY <1>4 DEF CreditFiat, CreditCoin, At
  <2>2. wallet' \in [Users \X Fiats -> Int]
    BY <1>2, <1>4, ReadsTyped DEF CreditFiat, CreditCoin
  <2>3. account' \in [VAs -> Int] /\ available' \in [VAs -> Int]
    BY <1>2, <1>4, ReadsTyped DEF CreditFiat, CreditCoin
  <2>4. credited' \subseteq TxIds
    BY <2>1, ReadsTyped
  <2>5. Tables'
    BY <2>1, <2>2, <2>3, <2>4 DEF Types, Tables, Sourced
  <2> QED BY <2>1, <2>5, EndTyped
<1> QED BY <1>3, <1>4

\* A new transfer of a coin names the account it is sent from.
LEMMA InitiateTyped ==
  ASSUME IInv, Types, InitiateTransfer
  PROVE  Types'
<1>1. PICK t \in TxIds, f \in Forms :
        \E va \in IF IsCoin(f) THEN SourceAccounts(f) ELSE {NoVA} :
          Write(t, Pending(f, Fee(f), va))
  BY DEF InitiateTransfer
<1>2. PICK va \in IF IsCoin(f) THEN SourceAccounts(f) ELSE {NoVA} :
          Write(t, Pending(f, Fee(f), va))
  BY <1>1
<1>3. UNCHANGED <<credited, ledgers, req, lost>>
  BY DEF InitiateTransfer
<1>4. IsCoin(f) => va \in VAs
  BY <1>2 DEF SourceAccounts, Family, AccountsOf
<1> DEFINE s == Pending(f, Fee(f), va)
<1>5. s.form = f /\ s.source = va
  BY DEF Pending
<1> HIDE DEF s
<1>6. Sourced(s)
  BY <1>4, <1>5 DEF Sourced
<1>7. \A k \in TxIds : tx'[k] = IF k = t THEN s ELSE tx[k]
  BY <1>2, RowTypes DEF Write, s
<1>8. \A k \in TxIds : tx'[k].status # "none" => Sourced(tx'[k])
  BY <1>6, <1>7 DEF Types, Tables
<1>9. Tables'
  BY <1>3, <1>8 DEF Types, Tables, ledgers, Sourced
<1> QED BY <1>3, <1>9 DEF Types, Typed

\* Every step keeps the types.
LEMMA TypesNext == IInv /\ Types /\ [Next]_vars => Types'
<1> SUFFICES ASSUME IInv, Types, [Next]_vars PROVE Types'
  OBVIOUS
<1>1. CASE InitiateTransfer
  BY <1>1, InitiateTyped
<1>2. ASSUME NEW p \in Requests,
             \/ UNCHANGED lost /\ (StartVerify(p) \/ StartReceipt(p))
             \/ \E t \in TxIds : Notice(p, t)
      PROVE  Types'
  BY <1>2, StartingTyped DEF Notice
<1>3. ASSUME NEW p \in Requests, Advance(p) PROVE Types'
  BY <1>3, CheckingTyped, PayoutTyped, MoneyTyped, CreditTyped, Zenon DEF Advance
<1>4. ASSUME NEW p \in Requests, RequestLost(p) PROVE Types'
  <2>1. UNCHANGED <<tx, credited, ledgers>> /\ Finish(p) /\ lost' \in 0 .. MaxLost
    BY <1>4, FormAssumption DEF RequestLost, Types, Tables
  <2>2. Tables'
    BY <2>1 DEF Types, Tables, ledgers, Sourced
  <2> QED BY <2>1, <2>2, EndTyped
<1>5. CASE (\E t \in TxIds : PayoutEnds(t)) \/ UNCHANGED vars
  <2>1. UNCHANGED <<tx, credited, ledgers, req, lost>>
    BY <1>5 DEF PayoutEnds, vars, ledgers
  <2> QED BY <2>1 DEF Types, Tables, Typed, ledgers, Sourced
<1> QED BY <1>1, <1>2, <1>3, <1>4, <1>5 DEF Next

\* With the structure they are the type invariant.
LEMMA TypesType == IInv /\ Types => TypeOK
<1> SUFFICES ASSUME IInv, Types PROVE TypeOK
  OBVIOUS
<1> DEFINE Local == [pc : Steps, t : TxIds \cup {0}, row : TxRow, x : Int, y : Int,
                     plan : SUBSET [va : VAs, available : Int],
                     told : {"none", "accepted"} \cup Final]
           Shape(l) == Locals(l.pc, l.t, l.row, l.x, l.y, l.plan, l.told)
<1>1. req = [p \in Requests |-> Shape(req[p])]
  BY DEF IInv, Structure
<1>2. ASSUME NEW p \in Requests PROVE Shape(req[p]) \in Local
  BY DEF Types, Typed, WrittenRows, PayoutState, Locals
<1>3. req \in [Requests -> Local]
  <2> HIDE DEF Shape, Local
  <2> QED BY <1>1, <1>2
<1>4. /\ tx \in [TxIds -> TxRow]
      /\ payout \in [TxIds -> {"none", "accepted"} \cup Final]
  BY RowTypes DEF PayoutState
<1> HIDE DEF Shape
<1> QED BY <1>3, <1>4 DEF TypeOK, Types, Tables

\* At first they have.
LEMMA TypesInit == Init => Types
<1> SUFFICES ASSUME Init PROVE Types
  OBVIOUS
<1>1. \A p \in Requests : Typed(req[p])
  BY IdleTyped DEF Init
<1>2. /\ account \in [VAs -> Int] /\ available \in [VAs -> Int]
      /\ wallet \in [Users \X Fiats -> Int]
      /\ credited \subseteq TxIds /\ lost \in 0 .. MaxLost
  BY FormAssumption DEF Init
<1>3. \A t \in TxIds : tx[t].status = "none"
  <2> DEFINE r == Pending(CHOOSE f \in Forms : TRUE, 0, NoVA)
  <2>1. [r EXCEPT !.status = "none"].status = "none"
    BY DEF Pending
  <2> QED BY <2>1 DEF Init, BlankRow
<1> QED BY <1>1, <1>2, <1>3 DEF Types, Tables

\* Every variable has its type: whatever is gathered, sent and given back, no handler
\* computes anything but a number from the balances it has read, and a coin is never
\* sent from an account that is not there.
THEOREM TransferTypesHold == Spec => []TypeOK
<1> QED BY TypesInit, TypesNext, TypesType, TransferInvariance, PTL DEF Spec

-----------------------------------------------------------------------------
(* Requests served one after the other                                     *)

Others == \A p \in Requests \ {Lead} : req[p] = Idle

\* The request r is at one of these steps of transfer t.
Doing(r, steps, t) == r.pc \in steps /\ r.t = t

\* Where a transfer is sent from: an account of the sender's, of the pool if the coin has
\* one; money has no account.
FromSource(row) ==
  IF IsCoin(row.form)
  THEN row.source \in IF Unified(row.form.currency) THEN Family(row.form.from)
                      ELSE AccountsOf(row.form.from)
  ELSE row.source = NoVA

\* What the row of transfer t says of its payout s, of whether its credit is paid, and of
\* the request r.
RowFits(row, s, paid, r, t) ==
  /\ row.status = "none" => ~row.debited /\ ~row.refunded /\ s = "none" /\ ~paid
  /\ row.status # "none" => FromSource(row)
  /\ row.form.channel = "rhionx_user" =>
       /\ row.status \in {"none", "pending", "completed"} /\ s = "none"
       /\ row.debited <=> row.status = "completed"
       /\ ~row.refunded
       /\ row.status = "completed" /\ (IsCoin(row.form) => RecipientVA(row) # NoVA) =>
            paid \/ Doing(r, Moving, t)
  /\ row.form.channel = "mobile_money" =>
       /\ row.status = "pending" => ~row.debited /\ ~row.refunded
       /\ row.status \in {"failed", "cancelled"} => ~Taken(row)
  /\ s # "none" => row.debited \/ Doing(r, {"debit"}, t)
  /\ Doing(r, Moving, t) => ~paid

SameDeal(row, s) == s.form = row.form /\ s.fee = row.fee /\ s.source = row.source

\* What the request has read is what the row still is, or was when it completed it.
Reads(r, row) ==
  /\ r.pc \in {"check", "allocate", "source", "payout", "refused", "debit", "complete"} =>
       r.row = row /\ row.status = "pending"
  /\ r.pc \in {"ask", "answer", "palmpay"} => r.row = row /\ row.form.channel = "bank_account"
  /\ r.pc = "flutterwave" => /\ r.row = row /\ row.form.channel = "mobile_money"
                             /\ row.status \in {"pending", "processing"}
  /\ r.pc \in Moving => SameDeal(r.row, row)

\* The balances it has read are the balances still, and cover what it will take.
CoinFigures(r, whole, free) ==
  LET n   == Total(r.row)
      va  == r.row.source
      its == RecipientVA(r.row)
      pool == Family(r.row.form.from)
  IN  /\ r.pc \in {"allocate", "source", "debitCoin", "creditCoin"} => IsCoin(r.row.form)
      /\ r.pc = "allocate" =>
           /\ va \in pool /\ free[va] < n /\ n <= SumFunctionOnSet(free, pool)
           /\ r.plan = Plan(free, pool, va, n)
      /\ r.pc = "source" => n <= free[va]
      /\ r.pc \in {"complete", "debitCoin"} /\ IsCoin(r.row.form) =>
           r.x = whole[va] /\ r.y = free[va] /\ n <= r.y
      /\ r.pc = "creditCoin" => its # NoVA /\ r.x = whole[its] /\ r.y = free[its]
FiatFigures(r, cash) ==
  LET n == Total(r.row)
  IN  /\ r.pc \in {"debitFiat", "creditFiat"} => ~IsCoin(r.row.form)
      /\ r.pc \in {"payout", "debit"} => n <= cash[Sender(r.row)]
      /\ r.pc \in {"complete", "debitFiat"} /\ ~IsCoin(r.row.form) =>
           r.x = cash[Sender(r.row)] /\ n <= r.x
      /\ r.pc = "creditFiat" => r.x = cash[Receiver(r.row)]

Serial ==
  /\ Others
  /\ \A t \in TxIds : RowFits(tx[t], payout[t], t \in credited, req[Lead], t)
  /\ req[Lead].pc # "idle" => Reads(req[Lead], tx[req[Lead].t])
  /\ CoinFigures(req[Lead], account, available)
  /\ FiatFigures(req[Lead], wallet)
  /\ NoOverdraft

\* Whether the transfer's money has left its sender by now: a transfer to a user is
\* completed first, and taken then.
Gone(row, r, t) == Taken(row) /\ ~Doing(r, {"debitFiat", "debitCoin"}, t)

\* What transfer t has moved by now of a wallet w, and of a pool of accounts.
MoneyOf(t, w) ==
  (IF t \in credited /\ Receiver(tx[t]) = w THEN tx[t].form.amount ELSE 0)
    - (IF Gone(tx[t], req[Lead], t) /\ Sender(tx[t]) = w THEN Total(tx[t]) ELSE 0)
CoinOf(t, pool) ==
  (IF t \in credited /\ RecipientVA(tx[t]) \in pool THEN tx[t].form.amount ELSE 0)
    - (IF Gone(tx[t], req[Lead], t) /\ tx[t].source \in pool THEN Total(tx[t]) ELSE 0)
Moneys(w) == [t \in TxIds |-> MoneyOf(t, w)]
Coinage(pool) == [t \in TxIds |-> CoinOf(t, pool)]

\* No bank withdrawal has been asked for from wallet w.
NoBank(w) ==
  \A t \in TxIds :
    tx[t].status # "none" /\ Sender(tx[t]) = w => tx[t].form.channel # "bank_account"

Books ==
  /\ \A w \in Users \X Fiats :
       NoBank(w) => wallet[w] = InitWallet[w] + SumFunctionOnSet(Moneys(w), TxIds)
  /\ \A u \in Users : \A pool \in Pools(u) :
       LET then == SumFunctionOnSet(InitAccount, pool)
                     + SumFunctionOnSet(Coinage(pool), TxIds)
       IN  /\ SumFunctionOnSet(account, pool) = then
           /\ SumFunctionOnSet(available, pool) = then

LEMMA LeadIsRequest == Lead \in Requests
BY FormAssumption DEF Lead

\* The locals a step leaves, as an operator on values.
LEMMA LocalsAre ==
  ASSUME NEW step, NEW t, NEW row, NEW x, NEW y, NEW plan, NEW told
  PROVE  LET r == Locals(step, t, row, x, y, plan, told)
         IN  /\ r.pc = step /\ r.t = t /\ r.row = row /\ r.x = x /\ r.y = y
             /\ r.plan = plan /\ r.told = told
BY DEF Locals
LEMMA GoesOn ==
  ASSUME NEW step, NEW x, NEW y, NEW plan, NEW told, Carry(Lead, step, x, y, plan, told)
  PROVE  \E r : /\ req' = [req EXCEPT ![Lead] = r]
                /\ r.pc = step /\ r.t = req[Lead].t /\ r.row = req[Lead].row
                /\ r.x = x /\ r.y = y /\ r.plan = plan /\ r.told = told
<1> DEFINE r == Locals(step, req[Lead].t, req[Lead].row, x, y, plan, told)
<1>1. req' = [req EXCEPT ![Lead] = r]
  BY DEF Carry
<1>2. /\ r.pc = step /\ r.t = req[Lead].t /\ r.row = req[Lead].row
      /\ r.x = x /\ r.y = y /\ r.plan = plan /\ r.told = told
  BY LocalsAre
<1> HIDE DEF r
<1> QED BY <1>1, <1>2
LEMMA ComesToRest ==
  ASSUME Finish(Lead)
  PROVE  \E r : req' = [req EXCEPT ![Lead] = r] /\ r.pc = "idle"
<1>1. req' = [req EXCEPT ![Lead] = Idle]
  BY DEF Finish
<1>2. Idle.pc = "idle"
  BY DEF Idle, Locals
<1> HIDE DEF Idle
<1> QED BY <1>1, <1>2

\* What Serial says of the one transfer that the request has, r being its locals.
Told(r, t, row, s, paid) ==
  /\ RowFits(row, s, paid, r, t)
  /\ r.pc # "idle" => r.t = t /\ Reads(r, row)
Figures(r, whole, free, cash) == CoinFigures(r, whole, free) /\ FiatFigures(r, cash)

\* Of another transfer than the request's, its row says the same whatever the request does.
LEMMA FitsElsewhere ==
  ASSUME NEW row, NEW s, NEW paid, NEW r, NEW q, NEW t, RowFits(row, s, paid, r, t),
         ~Doing(r, Moving \cup {"debit"}, t), ~Doing(q, Moving \cup {"debit"}, t)
  PROVE  RowFits(row, s, paid, q, t)
BY DEF RowFits, Doing

\* A step of the request at transfer t leaves all other transfers alone.
OnlyOf(t) ==
  \A k \in TxIds \ {t} :
    tx'[k] = tx[k] /\ payout'[k] = payout[k] /\ (k \in credited' <=> k \in credited)

\* Serial, of the state that a step of the request leaves.
LEMMA SerialKept ==
  ASSUME IInv, Serial, NEW t \in TxIds, NEW r, req' = [req EXCEPT ![Lead] = r],
         req[Lead].pc = "idle" \/ req[Lead].t = t, OnlyOf(t),
         Told(r, t, tx'[t], payout'[t], t \in credited'),
         Figures(r, account', available', wallet'), NoOverdraft'
  PROVE  Serial' /\ req'[Lead] = r
<1>1. req'[Lead] = r /\ \A p \in Requests \ {Lead} : req'[p] = req[p]
  BY LeadIsRequest DEF IInv, Structure
<1>2. Others'
  BY <1>1 DEF Serial, Others
<1>3. \A k \in TxIds : RowFits(tx'[k], payout'[k], k \in credited', r, k)
  <2> SUFFICES ASSUME NEW k \in TxIds \ {t}
               PROVE  RowFits(tx'[k], payout'[k], k \in credited', r, k)
    BY DEF Told
  <2>1. RowFits(tx[k], payout[k], k \in credited, req[Lead], k)
    BY DEF Serial
  <2>2. /\ ~Doing(req[Lead], Moving \cup {"debit"}, k)
        /\ ~Doing(r, Moving \cup {"debit"}, k)
    BY DEF Told, Doing, Moving
  <2>3. RowFits(tx[k], payout[k], k \in credited, r, k)
    BY <2>1, <2>2, FitsElsewhere
  <2>4. /\ tx'[k] = tx[k] /\ payout'[k] = payout[k]
        /\ (k \in credited') = (k \in credited)
    BY DEF OnlyOf
  <2> QED BY <2>3, <2>4
<1>4. r.pc # "idle" => Reads(r, tx'[r.t])
  BY DEF Told
<1>5. Serial'
  <2>1. \A k \in TxIds : RowFits(tx[k], payout[k], k \in credited, req[Lead], k)'
    BY <1>1, <1>3 DEF RowFits, Doing, FromSource, Taken, RecipientVA
  <2>2. (req[Lead].pc # "idle" => Reads(req[Lead], tx[req[Lead].t]))'
    BY <1>1, <1>4 DEF Reads, SameDeal
  <2>3. CoinFigures(req[Lead], account, available)' /\ FiatFigures(req[Lead], wallet)'
    BY <1>1 DEF Figures, CoinFigures, FiatFigures, Total, IsCoin, RecipientVA, Sender, Receiver
  <2> QED BY <1>2, <2>1, <2>2, <2>3 DEF Serial
<1> QED BY <1>1, <1>5

\* At most steps no balance has been read that the next one depends on.
LEMMA NoFigures ==
  ASSUME NEW r, NEW whole, NEW free, NEW cash,
         r.pc \in {"idle", "check", "refused", "ask", "answer", "palmpay", "flutterwave",
                   "recipient"}
  PROVE  Figures(r, whole, free, cash)
BY DEF Figures, CoinFigures, FiatFigures

\* What Serial says of the request and its transfer.
LEMMA LeadKnows ==
  ASSUME IInv, Serial, req[Lead].pc # "idle"
  PROVE  LET r == req[Lead]
         IN  /\ r.t \in TxIds /\ Known(r, tx[r.t], payout[r.t])
             /\ Told(r, r.t, tx[r.t], payout[r.t], r.t \in credited)
             /\ Figures(r, account, available, wallet)
             /\ r.row \in TxRow /\ tx[r.t] \in TxRow /\ r.row.form = tx[r.t].form
             /\ Sound(tx[r.t], payout[r.t])
             /\ NoOverdraft
BY LeadIsRequest, Writer, RowTypes DEF Serial, Told, Figures, IInv

-----------------------------------------------------------------------------
(* What the request has read stays true                                    *)

\* A step that only reads.
LEMMA ReadKeeps ==
  ASSUME IInv, Serial, NEW t \in TxIds, NEW r, req' = [req EXCEPT ![Lead] = r],
         req[Lead].pc = "idle" \/ req[Lead].t = t,
         UNCHANGED <<tx, credited, ledgers, payout>>,
         \/ ~Doing(req[Lead], Moving \cup {"debit"}, t)
         \/ r.pc \in Moving /\ req[Lead].pc \in Moving,
         r.pc # "debit", r.pc \in Moving => req[Lead].pc \in Moving,
         r.pc # "idle" => r.t = t /\ Reads(r, tx[t]),
         Figures(r, account, available, wallet)
  PROVE  Serial'
<1>1. RowFits(tx[t], payout[t], t \in credited, req[Lead], t)
  BY DEF Serial
<1>2. \/ ~Doing(r, Moving, t) /\ ~Doing(req[Lead], Moving \cup {"debit"}, t)
      \/ r.pc \in Moving /\ req[Lead].pc \in Moving /\ r.t = t /\ req[Lead].t = t
  BY DEF Doing, Moving
<1>3. RowFits(tx[t], payout[t], t \in credited, r, t)
  BY <1>1, <1>2 DEF RowFits, Doing, Moving
<1>4. Told(r, t, tx'[t], payout'[t], t \in credited') /\ OnlyOf(t)
  BY <1>3 DEF Told, OnlyOf, ledgers
<1>5. Figures(r, account', available', wallet') /\ NoOverdraft'
  BY DEF Figures, ledgers, Serial, NoOverdraft
<1> QED BY <1>4, <1>5, SerialKept

\* A request that begins with the row of transfer t.
LEMMA LoadKeeps ==
  ASSUME IInv, Serial, NEW t \in TxIds, NEW step, Load(Lead, t, step), req[Lead].pc = "idle",
         UNCHANGED <<tx, credited, ledgers, payout>>,
         \/ step = "check" /\ tx[t].status = "pending"
         \/ step \in {"ask", "palmpay"} /\ tx[t].form.channel = "bank_account"
         \/ /\ step = "flutterwave" /\ tx[t].form.channel = "mobile_money"
            /\ tx[t].status \in {"pending", "processing"}
  PROVE  Serial'
<1> DEFINE r == Locals(step, t, tx[t], 0, 0, {}, "none")
<1>1. req' = [req EXCEPT ![Lead] = r] /\ r.pc = step /\ r.t = t /\ r.row = tx[t]
  BY LocalsAre DEF Load
<1> HIDE DEF r
<1>2. Reads(r, tx[t])
  BY <1>1 DEF Reads, Moving
<1>3. Figures(r, account, available, wallet)
  BY <1>1, NoFigures
<1>4. /\ ~Doing(req[Lead], Moving \cup {"debit"}, t)
      /\ r.pc # "debit" /\ r.pc \notin Moving
  BY <1>1 DEF Doing, Moving
<1> QED BY <1>1, <1>2, <1>3, <1>4, ReadKeeps

LEMMA StartingSerial ==
  ASSUME IInv, Serial,
         \/ StartVerify(Lead) \/ StartReceipt(Lead)
         \/ \E t \in TxIds : PalmPayNotice(Lead, t) \/ FlutterwaveNotice(Lead, t)
  PROVE  Serial'
<1>1. CASE StartVerify(Lead)
  <2>1. PICK t \in TxIds : tx[t].status = "pending" /\ Load(Lead, t, "check")
    BY <1>1 DEF StartVerify
  <2> QED BY <1>1, <2>1, LoadKeeps DEF StartVerify, At
<1>2. CASE StartReceipt(Lead)
  <2>1. PICK t \in TxIds : tx[t].form.channel = "bank_account" /\ Load(Lead, t, "ask")
    BY <1>2 DEF StartReceipt
  <2> QED BY <1>2, <2>1, LoadKeeps DEF StartReceipt, At
<1>3. ASSUME NEW t \in TxIds, PalmPayNotice(Lead, t) PROVE Serial'
  BY <1>3, LoadKeeps DEF PalmPayNotice, At
<1>4. ASSUME NEW t \in TxIds, FlutterwaveNotice(Lead, t) PROVE Serial'
  BY <1>4, LoadKeeps DEF FlutterwaveNotice, At
<1> QED BY <1>1, <1>2, <1>3, <1>4

\* A request that goes on, or ends, having written nothing.
LEMMA OnwardKeeps ==
  ASSUME IInv, Serial, NEW r, req' = [req EXCEPT ![Lead] = r],
         req[Lead].pc \notin Moving \cup {"idle", "debit"},
         UNCHANGED <<tx, credited, ledgers, payout>>,
         r.pc # "debit", r.pc \notin Moving,
         r.pc # "idle" => /\ r.t = req[Lead].t /\ r.row = req[Lead].row
                          /\ Reads(r, tx[req[Lead].t]),
         Figures(r, account, available, wallet)
  PROVE  Serial'
<1> DEFINE t == req[Lead].t
<1>1. t \in TxIds
  BY LeadKnows DEF Moving
<1>2. ~Doing(req[Lead], Moving \cup {"debit"}, t)
  BY DEF Doing
<1> HIDE DEF t
<1> QED BY <1>1, <1>2, ReadKeeps DEF t

\* What a transfer takes is a number, and the balances are.
LEMMA LeadTyped ==
  ASSUME IInv, Types
  PROVE  LET row == req[Lead].row
         IN  /\ row \in TxRow /\ row.form \in Forms /\ Total(row) \in Nat
             /\ row.form.amount \in Nat
             /\ req[Lead].x \in Int /\ req[Lead].y \in Int
             /\ account \in [VAs -> Int] /\ available \in [VAs -> Int]
             /\ wallet \in [Users \X Fiats -> Int]
<1>1. req[Lead].row \in TxRow
  BY LeadIsRequest, ReadsTyped
<1> DEFINE f == req[Lead].row.form
           fee == req[Lead].row.fee
<1>2. f \in Forms /\ fee \in Nat
  BY <1>1 DEF TxRow
<1>3. f.amount \in Nat
  <2> HIDE DEF f
  <2> QED BY <1>2, FormAssumption
<1>4. Total(req[Lead].row) \in Nat
  BY <1>2, <1>3 DEF Total
<1> QED BY <1>1, <1>2, <1>3, <1>4, LeadIsRequest, ReadsTyped

\* There is nothing to gather just when the account covers the transfer by itself.
LEMMA NothingToMove ==
  ASSUME NEW a, NEW family, NEW target, NEW n
  PROVE  Plan(a, family, target, n) = {} <=> a[target] >= n
BY DEF Plan

\* What may be spent is in the wallet, on the account, or in the pool.
LEMMA SpendableIs ==
  ASSUME NEW f, NEW va
  PROVE  /\ ~IsCoin(f) => Spendable(f, va) = wallet[<<f.from, f.currency>>]
         /\ IsCoin(f) /\ ~Unified(f.currency) => Spendable(f, va) = available[va]
         /\ IsCoin(f) /\ Unified(f.currency) =>
              Spendable(f, va) = SumFunctionOnSet(available, Family(f.from))
BY DEF Spendable, TotalAvailable

\* The check finds what the request will take.
LEMMA CheckSerial ==
  ASSUME IInv, Types, Serial, CheckBalance(Lead)
  PROVE  Serial'
<1> DEFINE q == req[Lead]
           row == q.row
           t == q.t
           f == row.form
           va == row.source
           n == Total(row)
           pool == Family(f.from)
           moves == Plan(available, pool, va, n)
<1>1. /\ q.pc = "check" /\ UNCHANGED <<tx, credited, ledgers, payout>>
      /\ \/ Finish(Lead)
         \/ /\ n <= Spendable(f, va)
            /\ \/ f.channel \in Payouts /\ Goto(Lead, "payout")
               \/ /\ f.channel \notin Payouts /\ ~IsCoin(f)
                  /\ Onward(Lead, "complete", wallet[Sender(row)], 0)
               \/ /\ f.channel \notin Payouts /\ IsCoin(f) /\ ~Unified(f.currency)
                  /\ Onward(Lead, "complete", account[va], available[va])
               \/ /\ f.channel \notin Payouts /\ IsCoin(f) /\ Unified(f.currency)
                  /\ \/ moves = {} /\ Goto(Lead, "source")
                     \/ moves # {} /\ Carry(Lead, "allocate", 0, 0, moves, "none")
  <2>1. n \in Int /\ Spendable(f, va) \in Int
    <3>1. n \in Int
      BY LeadTyped
    <3>2. Spendable(f, va) \in Int
      <4>1. CASE ~IsCoin(f)
        <5>1. wallet[Sender(row)] \in Int
          BY <4>1, LeadTyped, FormTyped
        <5> QED BY <4>1, <5>1, SpendableIs DEF Sender
      <4>2. CASE IsCoin(f) /\ Unified(f.currency)
        <5>1. IsFiniteSet(pool) /\ \A x \in pool : available[x] \in Int
          BY AccountAssumption, FS_Subset, LeadTyped DEF Family, AccountsOf
        <5> HIDE DEF pool
        <5>2. SumFunctionOnSet(available, pool) \in Int
          BY <5>1, SumType
        <5> QED BY <4>2, <5>2, SpendableIs DEF pool
      <4>3. CASE IsCoin(f) /\ ~Unified(f.currency)
        <5>1. q.pc # "idle"
          BY DEF CheckBalance, At
        <5>2. va \in VAs
          BY <4>3, <5>1, LeadIsRequest, ReadsTyped DEF Sourced
        <5>3. available[va] \in Int
          BY <5>2, LeadTyped
        <5> QED BY <4>3, <5>3, SpendableIs
      <4> QED BY <4>1, <4>2, <4>3
    <3> QED BY <3>1, <3>2
  <2>2. n > Spendable(f, va) \/ n <= Spendable(f, va)
    BY <2>1
  <2> QED BY <2>2 DEF CheckBalance, At
<1>2. /\ row = tx[t] /\ row.status = "pending" /\ row \in TxRow /\ FromSource(row)
      /\ t \in TxIds
  BY <1>1, LeadKnows DEF Told, Reads, RowFits
<1>3. ASSUME NEW r, req' = [req EXCEPT ![Lead] = r], r.t = t, r.row = row,
             r.pc \in {"payout", "allocate", "source", "complete"},
             Figures(r, account, available, wallet)
      PROVE  Serial'
  <2>1. Reads(r, tx[t])
    BY <1>2, <1>3 DEF Reads, Moving
  <2>2. /\ q.pc \notin Moving \cup {"idle", "debit"} /\ r.pc \notin Moving
        /\ r.pc # "debit"
    BY <1>1, <1>3 DEF Moving
  <2> HIDE DEF n, f, pool, moves, va
  <2> QED BY <1>1, <1>3, <2>1, <2>2, OnwardKeeps
<1> HIDE DEF n, f, pool, moves, va
<1>4. CASE Finish(Lead)
  <2>1. PICK r : req' = [req EXCEPT ![Lead] = r] /\ r.pc = "idle"
    BY <1>4, ComesToRest
  <2>2. q.pc \notin Moving \cup {"idle", "debit"} /\ "idle" \notin Moving
    BY <1>1 DEF Moving
  <2>3. Figures(r, account, available, wallet)
    BY <2>1, NoFigures
  <2>4. r.pc # "debit" /\ r.pc \notin Moving
    BY <2>1, <2>2
  <2> QED BY <1>1, <2>1, <2>2, <2>3, <2>4, OnwardKeeps
<1>5. CASE n <= Spendable(f, va) /\ f.channel \in Payouts /\ Goto(Lead, "payout")
  <2>1. PICK r : /\ req' = [req EXCEPT ![Lead] = r] /\ r.pc = "payout" /\ r.t = t
                 /\ r.row = row
    BY <1>5, GoesOn DEF Goto, Onward
  <2>2. ~IsCoin(f)
    BY <1>5, LeadTyped, FormAssumption DEF f, IsCoin
  <2>3. n <= wallet[Sender(row)]
    BY <1>5, <2>2, SpendableIs DEF Sender, f
  <2>4. Figures(r, account, available, wallet)
    BY <2>1, <2>3 DEF Figures, CoinFigures, FiatFigures, n
  <2> QED BY <1>3, <2>1, <2>4
<1>6. CASE /\ n <= Spendable(f, va) /\ f.channel \notin Payouts /\ ~IsCoin(f)
           /\ Onward(Lead, "complete", wallet[Sender(row)], 0)
  <2>1. PICK r : /\ req' = [req EXCEPT ![Lead] = r] /\ r.pc = "complete" /\ r.t = t
                 /\ r.row = row /\ r.x = wallet[Sender(row)]
    BY <1>6, GoesOn DEF Onward
  <2>2. n <= wallet[Sender(row)]
    BY <1>6, SpendableIs DEF Sender, f
  <2>3. Figures(r, account, available, wallet)
    BY <1>6, <2>1, <2>2 DEF Figures, CoinFigures, FiatFigures, n, f
  <2> QED BY <1>3, <2>1, <2>3
<1>7. CASE /\ n <= Spendable(f, va) /\ f.channel \notin Payouts /\ IsCoin(f)
           /\ ~Unified(f.currency) /\ Onward(Lead, "complete", account[va], available[va])
  <2>1. PICK r : /\ req' = [req EXCEPT ![Lead] = r] /\ r.pc = "complete" /\ r.t = t
                 /\ r.row = row /\ r.x = account[va] /\ r.y = available[va]
    BY <1>7, GoesOn DEF Onward
  <2>2. n <= available[va]
    BY <1>7, SpendableIs
  <2>3. Figures(r, account, available, wallet)
    BY <1>7, <2>1, <2>2 DEF Figures, CoinFigures, FiatFigures, n, f, va
  <2> QED BY <1>3, <2>1, <2>3
<1>8. CASE /\ n <= Spendable(f, va) /\ f.channel \notin Payouts /\ IsCoin(f)
           /\ Unified(f.currency) /\ moves = {} /\ Goto(Lead, "source")
  <2>1. PICK r : /\ req' = [req EXCEPT ![Lead] = r] /\ r.pc = "source" /\ r.t = t
                 /\ r.row = row
    BY <1>8, GoesOn DEF Goto, Onward
  <2>2. available[va] >= n
    BY <1>8, NothingToMove DEF moves
  <2>3. available[va] \in Int /\ n \in Int
    <3>1. va \in VAs
      BY <1>1, <1>8, LeadIsRequest, ReadsTyped DEF Sourced, va, f
    <3> QED BY <3>1, LeadTyped DEF n
  <2>4. n <= available[va]
    BY <2>2, <2>3
  <2>5. Figures(r, account, available, wallet)
    BY <1>8, <2>1, <2>4 DEF Figures, CoinFigures, FiatFigures, n, f, va
  <2> QED BY <1>3, <2>1, <2>5
<1>9. CASE /\ n <= Spendable(f, va) /\ f.channel \notin Payouts /\ IsCoin(f)
           /\ Unified(f.currency) /\ moves # {}
           /\ Carry(Lead, "allocate", 0, 0, moves, "none")
  <2>1. PICK r : /\ req' = [req EXCEPT ![Lead] = r] /\ r.pc = "allocate" /\ r.t = t
                 /\ r.row = row /\ r.plan = moves
    BY <1>9, GoesOn
  <2>2. ~(available[va] >= n)
    BY <1>9, NothingToMove DEF moves
  <2>3. available[va] \in Int /\ n \in Int
    <3>1. va \in VAs
      BY <1>1, <1>9, LeadIsRequest, ReadsTyped DEF Sourced, va, f
    <3> QED BY <3>1, LeadTyped DEF n
  <2>4. available[va] < n
    BY <2>2, <2>3
  <2>5. va \in pool
    BY <1>2, <1>9 DEF FromSource, va, f, pool
  <2>6. n <= SumFunctionOnSet(available, pool)
    BY <1>9, SpendableIs DEF pool
  <2>7. Figures(r, account, available, wallet)
    BY <1>9, <2>1, <2>4, <2>5, <2>6
       DEF Figures, CoinFigures, FiatFigures, n, f, va, pool, moves
  <2> QED BY <1>3, <2>1, <2>7
<1> QED BY <1>1, <1>4, <1>5, <1>6, <1>7, <1>8, <1>9

\* Gathering a stablecoin on one account moves it within the pool, and covers the transfer.
LEMMA AllocationSerial ==
  ASSUME IInv, Types, Serial, CommitAllocation(Lead)
  PROVE  /\ Serial'
         /\ \E u : /\ SumFunctionOnSet(available', Family(u))
                        = SumFunctionOnSet(available, Family(u))
                   /\ \A va \in VAs \ Family(u) : available'[va] = available[va]
<1> DEFINE q == req[Lead]
           n == Total(q.row)
           va == q.row.source
           pool == Family(q.row.form.from)
           t == q.t
<1>1. /\ q.pc = "allocate" /\ available' = Apply(q.plan, available) /\ Goto(Lead, "source")
      /\ UNCHANGED <<tx, credited, account, wallet, payout>>
  BY DEF CommitAllocation, At
<1>2. /\ va \in pool /\ available[va] < n /\ n <= SumFunctionOnSet(available, pool)
      /\ q.plan = Plan(available, pool, va, n) /\ IsCoin(q.row.form)
  BY <1>1, LeadKnows DEF Figures, CoinFigures
<1>3. n \in Nat /\ available \in [VAs -> Int]
  BY LeadTyped
<1>4. \A x \in VAs : available[x] \in Nat
  BY <1>3 DEF Serial, NoOverdraft
<1>5. pool \in SUBSET VAs /\ IsFiniteSet(pool) /\ pool \in SUBSET Nat
  <2>1. pool \in SUBSET VAs
    BY DEF Family, AccountsOf
  <2> QED BY <2>1, AccountAssumption, FS_Subset
<1>6. PICK r : /\ req' = [req EXCEPT ![Lead] = r] /\ r.pc = "source" /\ r.t = t
               /\ r.row = q.row
  BY <1>1, GoesOn DEF Goto, Onward
<1>7. /\ t \in TxIds /\ RowFits(tx[t], payout[t], t \in credited, q, t) /\ Reads(q, tx[t])
  BY <1>1, LeadKnows DEF Told
<1> HIDE DEF pool, n, va, t
<1>8. Short(pool, available, va, n)
  BY <1>2, <1>3, <1>4, <1>5 DEF Short
<1>9. /\ available'[va] = n
      /\ SumFunctionOnSet(available', pool) = SumFunctionOnSet(available, pool)
      /\ \A x \in pool : available'[x] \in Nat
      /\ \A x \in VAs \ pool : available'[x] = available[x]
  <2>1. pool \subseteq DOMAIN available /\ DOMAIN available = VAs
    BY <1>3, <1>5
  <2>2. available' = Apply(Plan(available, pool, va, n), available)
    BY <1>1, <1>2
  <2> QED BY <1>2, <1>8, <2>1, <2>2, PoolKept
<1>10. NoOverdraft'
  BY <1>1, <1>4, <1>9 DEF Serial, NoOverdraft
<1>11. Figures(r, account', available', wallet')
  <2>1. n <= available'[va]
    BY <1>3, <1>9
  <2> QED BY <1>2, <1>6, <2>1 DEF Figures, CoinFigures, FiatFigures, n, va
<1>12. Told(r, t, tx'[t], payout'[t], t \in credited') /\ OnlyOf(t)
  <2>1. RowFits(tx[t], payout[t], t \in credited, r, t)
    BY <1>1, <1>6, <1>7 DEF RowFits, Doing, Moving
  <2>2. Reads(r, tx[t])
    BY <1>1, <1>6, <1>7 DEF Reads, Moving
  <2> QED BY <1>1, <1>6, <2>1, <2>2 DEF Told, OnlyOf
<1>13. Serial'
  BY <1>6, <1>7, <1>10, <1>11, <1>12, SerialKept DEF t
<1> QED BY <1>9, <1>13 DEF pool

\* The source is read as it then is.
LEMMA SourceSerial ==
  ASSUME IInv, Types, Serial, ReadSource(Lead)
  PROVE  Serial'
<1> DEFINE q == req[Lead]
           va == q.row.source
<1>1. /\ q.pc = "source" /\ UNCHANGED <<tx, credited, ledgers, payout>>
      /\ Onward(Lead, "complete", account[va], available[va])
  BY DEF ReadSource, At
<1>2. /\ Total(q.row) <= available[va] /\ IsCoin(q.row.form) /\ Reads(q, tx[q.t])
  BY <1>1, LeadKnows DEF Figures, CoinFigures, Told
<1>3. PICK r : /\ req' = [req EXCEPT ![Lead] = r] /\ r.pc = "complete" /\ r.t = q.t
               /\ r.row = q.row /\ r.x = account[va] /\ r.y = available[va]
  BY <1>1, GoesOn DEF Onward
<1>4. Figures(r, account, available, wallet)
  BY <1>2, <1>3 DEF Figures, CoinFigures, FiatFigures
<1>5. Reads(r, tx[q.t])
  BY <1>1, <1>2, <1>3 DEF Reads, Moving
<1>6. /\ q.pc \notin Moving \cup {"idle", "debit"} /\ r.pc \notin Moving /\ r.pc # "debit"
  BY <1>1, <1>3 DEF Moving
<1> QED BY <1>1, <1>3, <1>4, <1>5, <1>6, OnwardKeeps

\* The provider's answer is awaited, and what it says written down; an order it has taken
\* is debited next.
LEMMA AskSerial ==
  ASSUME IInv, Types, Serial, AskProvider(Lead), lost' = 0
  PROVE  Serial'
<1> DEFINE q == req[Lead]
           t == q.t
<1>1. /\ q.pc = "payout" /\ UNCHANGED <<tx, credited, ledgers>>
      /\ \/ Goto(Lead, "refused") /\ UNCHANGED payout
         \/ /\ Goto(Lead, "debit")
            /\ payout' = [payout EXCEPT ![t] = IF @ = "none" THEN "accepted" ELSE @]
  <2>1. lost \in 0 .. MaxLost
    BY LeadIsRequest, ReadsTyped
  <2>2. lost' # lost + 1
    BY <2>1, FormAssumption
  <2> QED BY <2>2 DEF AskProvider, At
<1>2. /\ t \in TxIds /\ RowFits(tx[t], payout[t], t \in credited, q, t) /\ Reads(q, tx[t])
      /\ q.row.form.channel \in Payouts /\ q.row.form = tx[t].form
      /\ Total(q.row) <= wallet[Sender(q.row)]
  BY <1>1, LeadKnows DEF Told, Figures, FiatFigures, Known, PayoutSteps
<1>3. PICK r : /\ req' = [req EXCEPT ![Lead] = r] /\ r.t = t /\ r.row = q.row
               /\ \/ r.pc = "refused" /\ UNCHANGED payout
                  \/ r.pc = "debit"
                     /\ payout' = [payout EXCEPT ![t] = IF @ = "none" THEN "accepted" ELSE @]
  <2>1. CASE Goto(Lead, "refused") /\ UNCHANGED payout
    BY <2>1, GoesOn DEF Goto, Onward
  <2>2. CASE /\ Goto(Lead, "debit")
             /\ payout' = [payout EXCEPT ![t] = IF @ = "none" THEN "accepted" ELSE @]
    BY <2>2, GoesOn DEF Goto, Onward
  <2> QED BY <1>1, <2>1, <2>2
<1>4. Figures(r, account', available', wallet') /\ NoOverdraft'
  BY <1>1, <1>2, <1>3 DEF Figures, CoinFigures, FiatFigures, ledgers, Serial, NoOverdraft
<1>5. Reads(r, tx'[t])
  BY <1>1, <1>2, <1>3 DEF Reads, Moving
<1>6. OnlyOf(t)
  BY <1>1, <1>2, <1>3, RowTypes DEF OnlyOf
<1>7. RowFits(tx'[t], payout'[t], t \in credited', r, t)
  <2>1. tx[t].form.channel # "rhionx_user"
    BY <1>2 DEF Payouts
  <2>2. CASE UNCHANGED payout
    BY <1>1, <1>2, <1>3, <2>1, <2>2 DEF RowFits, Doing, Moving
  <2>3. CASE r.pc = "debit"
    <3>1. tx[t].status = "pending"
      BY <1>1, <1>2 DEF Reads
    <3> QED BY <1>1, <1>2, <1>3, <2>1, <2>3, <3>1 DEF RowFits, Doing, Moving
  <2> QED BY <1>3, <2>2, <2>3
<1>8. Told(r, t, tx'[t], payout'[t], t \in credited')
  BY <1>3, <1>5, <1>7 DEF Told
<1> HIDE DEF t
<1> QED BY <1>2, <1>3, <1>4, <1>6, <1>8, SerialKept DEF t

LEMMA QuerySerial ==
  ASSUME IInv, Serial, QueryPayout(Lead)
  PROVE  Serial'
<1>1. /\ req[Lead].pc = "ask" /\ UNCHANGED <<tx, credited, ledgers, payout>>
      /\ Carry(Lead, "answer", 0, 0, {}, payout[req[Lead].t])
  BY DEF QueryPayout, At
<1>2. PICK r : /\ req' = [req EXCEPT ![Lead] = r] /\ r.pc = "answer" /\ r.t = req[Lead].t
               /\ r.row = req[Lead].row
  BY <1>1, GoesOn
<1>3. Reads(req[Lead], tx[req[Lead].t])
  BY <1>1, LeadKnows DEF Told
<1>4. Reads(r, tx[req[Lead].t])
  BY <1>1, <1>2, <1>3 DEF Reads, Moving
<1>5. /\ req[Lead].pc \notin Moving \cup {"idle", "debit"} /\ r.pc \notin Moving
      /\ r.pc # "debit"
  BY <1>1, <1>2 DEF Moving
<1>6. Figures(r, account, available, wallet)
  BY <1>2, NoFigures
<1> QED BY <1>1, <1>2, <1>4, <1>5, <1>6, OnwardKeeps

\* What the steps write in place of a row is of the same deal.
LEMMA DealKept ==
  ASSUME NEW row \in TxRow, NEW s \in Rewrites(row)
  PROVE  SameDeal(row, s)
<1>1. PICK r : r = row
  OBVIOUS
<1>2. CASE \E st \in Status : s = [r EXCEPT !.status = st]
  BY <1>1, <1>2 DEF TxRow, SameDeal
<1>3. CASE \E st \in Status :
             \/ s = [r EXCEPT !.status = st, !.asked = TRUE, !.refunded = TRUE]
             \/ s = [r EXCEPT !.status = st, !.asked = TRUE, !.refunded = FALSE]
  BY <1>1, <1>3 DEF TxRow, SameDeal
<1>4. CASE \/ s = [r EXCEPT !.status = "failed", !.asked = TRUE]
           \/ s = [r EXCEPT !.status = "processing", !.asked = TRUE, !.debited = TRUE]
           \/ s = [r EXCEPT !.status = "completed", !.debited = TRUE]
  BY <1>1, <1>4 DEF TxRow, SameDeal
<1> QED BY <1>1, <1>2, <1>3, <1>4, Zenon DEF Rewrites

\* The row that a request leaves when it ends, the one it read being q's.
Leaves(s) ==
  LET q == req[Lead]
  IN  \/ /\ q.pc = "refused" /\ s.status = "failed"
         /\ s.debited = q.row.debited /\ s.refunded = q.row.refunded
      \/ /\ q.pc = "debit" /\ s.status = "processing"
         /\ s.debited /\ s.refunded = q.row.refunded
      \/ /\ q.pc \in {"answer", "palmpay"} /\ s.status # "none"
         /\ s.debited = q.row.debited /\ s.refunded = q.row.refunded
      \/ /\ q.pc = "flutterwave" /\ s.status = payout[q.t] /\ payout[q.t] \in Final
         /\ s.debited = q.row.debited
         /\ s.refunded = IF payout[q.t] # "completed" THEN q.row.debited ELSE q.row.refunded

LEMMA FinalWrites ==
  ASSUME IInv, Types,
         \/ MarkRefused(Lead) \/ DebitPayout(Lead) \/ WriteReceipt(Lead)
         \/ SettlePalmPay(Lead) \/ SettleFlutterwave(Lead)
  PROVE  /\ req[Lead].pc \in {"refused", "debit", "answer", "palmpay", "flutterwave"}
         /\ Finish(Lead) /\ UNCHANGED <<credited, account, available, payout>>
         /\ \E s : Write(req[Lead].t, s) /\ SameDeal(req[Lead].row, s) /\ Leaves(s)
<1> DEFINE q == req[Lead]
           row == q.row
           t == q.t
<1>1. /\ q.pc \in {"refused", "debit", "answer", "palmpay", "flutterwave"}
      /\ Finish(Lead) /\ UNCHANGED <<credited, account, available, payout>>
  BY DEF MarkRefused, DebitPayout, WriteReceipt, SettlePalmPay, SettleFlutterwave, At, ledgers
<1>2. /\ row \in TxRow /\ payout[t] \in PayoutState /\ Known(q, tx[t], payout[t])
      /\ q.told \in PayoutState
  BY <1>1, LeadIsRequest, Writer DEF Types, Typed
<1>3. /\ {"failed", "processing"} \subseteq Status
      /\ Mapped(q.told) \in Status \ {"none"} /\ Mapped(payout[t]) \in Status \ {"none"}
  BY <1>2 DEF Mapped, Status, Final
<1>4. CASE MarkRefused(Lead)
  <2> DEFINE s == [row EXCEPT !.status = "failed", !.asked = TRUE]
  <2>1. Write(t, s) /\ q.pc = "refused"
    BY <1>4 DEF MarkRefused, At
  <2>2. SameDeal(row, s)
    <3>1. s \in Rewrites(row)
      BY Zenon DEF Rewrites
    <3> HIDE DEF s
    <3> QED BY <1>2, <3>1, DealKept
  <2>3. s.status = "failed" /\ s.debited = row.debited /\ s.refunded = row.refunded
    BY <1>2, FailureWritten, Zenon
  <2> HIDE DEF s
  <2> QED BY <1>1, <2>1, <2>2, <2>3 DEF Leaves
<1>5. CASE DebitPayout(Lead)
  <2> DEFINE s == [row EXCEPT !.status = "processing", !.asked = TRUE, !.debited = TRUE]
  <2>1. Write(t, s) /\ q.pc = "debit"
    BY <1>5 DEF DebitPayout, At
  <2>2. SameDeal(row, s)
    <3>1. s \in Rewrites(row)
      BY Zenon DEF Rewrites
    <3> HIDE DEF s
    <3> QED BY <1>2, <3>1, DealKept
  <2>3. s.status = "processing" /\ s.debited /\ s.refunded = row.refunded
    BY <1>2, DebitWritten, Zenon
  <2> HIDE DEF s
  <2> QED BY <1>1, <2>1, <2>2, <2>3 DEF Leaves
<1>6. ASSUME NEW st \in Status \ {"none"}, Write(t, [row EXCEPT !.status = st]),
             q.pc \in {"answer", "palmpay"}
      PROVE  \E s : Write(t, s) /\ SameDeal(row, s) /\ Leaves(s)
  <2> DEFINE s == [row EXCEPT !.status = st]
  <2>1. SameDeal(row, s)
    <3>1. s \in Rewrites(row)
      BY <1>6, Zenon DEF Rewrites
    <3> HIDE DEF s
    <3> QED BY <1>2, <3>1, DealKept
  <2>2. s.status = st /\ s.debited = row.debited /\ s.refunded = row.refunded
    <3>1. row \in TxRow /\ st \in Status
      BY <1>2, <1>6
    <3> HIDE DEF row
    <3> QED BY <3>1, StatusWritten
  <2> HIDE DEF s
  <2>3. Write(t, s)
    BY <1>6 DEF s
  <2> QED BY <1>6, <2>1, <2>2, <2>3 DEF Leaves
<1>7. CASE WriteReceipt(Lead)
  BY <1>1, <1>3, <1>6, <1>7 DEF WriteReceipt, At
<1>8. CASE SettlePalmPay(Lead)
  BY <1>1, <1>3, <1>6, <1>8 DEF SettlePalmPay, At
<1>9. CASE SettleFlutterwave(Lead)
  <2> DEFINE b == IF payout[t] # "completed" THEN row.debited ELSE row.refunded
             s == [row EXCEPT !.status = payout[t], !.asked = TRUE, !.refunded = b]
  <2>1. Write(t, s) /\ q.pc = "flutterwave"
    BY <1>9 DEF SettleFlutterwave, At
  <2>2. payout[t] \in Final /\ payout[t] \in Status /\ b \in BOOLEAN
    BY <1>2, <2>1 DEF Known, Status, TxRow
  <2>3. SameDeal(row, s)
    <3>1. b = TRUE \/ b = FALSE
      BY <2>2
    <3>2. s \in Rewrites(row)
      <4> HIDE DEF b
      <4> QED BY <2>2, <3>1, Zenon DEF Rewrites
    <3> HIDE DEF s
    <3> QED BY <1>2, <3>2, DealKept
  <2>4. s.status = payout[t] /\ s.debited = row.debited /\ s.refunded = b
    <3> DEFINE st == payout[t]
    <3>1. row \in TxRow /\ st \in Status /\ b \in BOOLEAN
      BY <1>2, <2>2
    <3>2. s = [row EXCEPT !.status = st, !.asked = TRUE, !.refunded = b]
      OBVIOUS
    <3> HIDE DEF b, row, t, s, st
    <3>3. s.status = st /\ s.debited = row.debited /\ s.refunded = b
      BY <3>1, <3>2 DEF TxRow
    <3> QED BY <3>3 DEF st
  <2> HIDE DEF s
  <2> QED BY <1>1, <2>1, <2>2, <2>3, <2>4 DEF Leaves
<1> QED BY <1>1, <1>4, <1>5, <1>7, <1>8, <1>9

\* A payout that is refused, debited, looked up or settled leaves its row fitting.
LEMMA FinalSerial ==
  ASSUME IInv, Types, Serial,
         \/ MarkRefused(Lead) \/ DebitPayout(Lead) \/ WriteReceipt(Lead)
         \/ SettlePalmPay(Lead) \/ SettleFlutterwave(Lead)
  PROVE  Serial'
<1> DEFINE q == req[Lead]
           row == q.row
           t == q.t
<1>1. /\ q.pc \in {"refused", "debit", "answer", "palmpay", "flutterwave"}
      /\ Finish(Lead) /\ UNCHANGED <<credited, account, available, payout>>
  BY FinalWrites
<1>2. PICK s : Write(t, s) /\ SameDeal(row, s) /\ Leaves(s)
  BY FinalWrites
<1>3. /\ t \in TxIds /\ RowFits(tx[t], payout[t], t \in credited, q, t) /\ Reads(q, tx[t])
      /\ row = tx[t] /\ row.form.channel \in Payouts /\ row.status # "none"
  BY <1>1, LeadKnows DEF Told, Reads, Known, PayoutSteps
<1>4. PICK r : req' = [req EXCEPT ![Lead] = r] /\ r.pc = "idle"
  BY <1>1, ComesToRest
<1>5. tx'[t] = s /\ OnlyOf(t)
  BY <1>1, <1>2, <1>3, RowTypes DEF Write, OnlyOf
<1>6. NoOverdraft'
  <2>1. \A va \in VAs : available'[va] >= 0
    BY <1>1 DEF Serial, NoOverdraft
  <2>2. \A w \in Users \X Fiats : wallet'[w] >= 0
    <3>1. \A w \in Users \X Fiats : wallet[w] \in Int /\ wallet[w] >= 0
      BY LeadTyped DEF Serial, NoOverdraft
    <3>2. Total(row) \in Nat
      BY LeadTyped
    <3>3. PICK w : w = Sender(row)
      OBVIOUS
    <3>4. \/ wallet' = wallet
          \/ wallet' = [wallet EXCEPT ![w] = @ + Total(row)]
          \/ wallet' = [wallet EXCEPT ![w] = @ - Total(row)] /\ Total(row) <= wallet[w]
      <4>1. CASE SettleFlutterwave(Lead)
        <5> DEFINE back == payout[t] # "completed" /\ row.debited /\ ~row.refunded
        <5>1. wallet' = IF back THEN [wallet EXCEPT ![Sender(row)] = @ + Total(row)]
                        ELSE wallet
          BY <4>1 DEF SettleFlutterwave
        <5> HIDE DEF back
        <5> QED BY <3>3, <5>1, Zenon
      <4>2. CASE DebitPayout(Lead)
        <5>1. wallet' = [wallet EXCEPT ![Sender(row)] = @ - Total(row)] /\ q.pc = "debit"
          BY <4>2 DEF DebitPayout, At
        <5>2. Total(row) <= wallet[Sender(row)]
          BY <5>1, LeadKnows DEF Figures, FiatFigures
        <5> QED BY <3>3, <5>1, <5>2, Zenon
      <4>3. CASE MarkRefused(Lead) \/ WriteReceipt(Lead) \/ SettlePalmPay(Lead)
        BY <4>3 DEF MarkRefused, WriteReceipt, SettlePalmPay, ledgers
      <4> QED BY <4>1, <4>2, <4>3
    <3>5. wallet \in [Users \X Fiats -> Int]
      BY LeadTyped
    <3> HIDE DEF row
    <3> QED BY <3>1, <3>2, <3>4, <3>5
  <2> QED BY <2>1, <2>2 DEF NoOverdraft
<1>7. RowFits(s, payout[t], t \in credited, r, t)
  <2>1. FromSource(s) /\ s.form.channel # "rhionx_user" /\ s.form = tx[t].form
    <3>1. FromSource(tx[t])
      BY <1>3 DEF RowFits
    <3> QED BY <1>2, <1>3, <3>1 DEF SameDeal, FromSource, Payouts
  <2>3. payout[t] # "none" => s.debited
    BY <1>1, <1>2, <1>3 DEF Leaves, RowFits, Doing
  <2>4. ASSUME s.form.channel = "mobile_money"
        PROVE  /\ s.status = "pending" => ~s.debited /\ ~s.refunded
               /\ s.status \in {"failed", "cancelled"} => ~Taken(s)
    <3>1. q.pc \in {"refused", "debit", "flutterwave"}
      BY <1>1, <1>3, <2>1, <2>4 DEF Reads
    <3>2. CASE q.pc = "flutterwave"
      BY <1>2, <1>3, <3>2 DEF Leaves, Taken, Final
    <3>3. CASE q.pc \in {"refused", "debit"}
      BY <1>2, <1>3, <2>1, <2>4, <3>3 DEF Leaves, Taken, RowFits, Reads
    <3> QED BY <3>1, <3>2, <3>3
  <2>5. s.status # "none"
    BY <1>2 DEF Leaves, Final
  <2> QED BY <1>4, <2>1, <2>3, <2>4, <2>5 DEF RowFits, Doing, Moving
<1>8. Told(r, t, tx'[t], payout'[t], t \in credited')
  BY <1>1, <1>4, <1>5, <1>7 DEF Told
<1>9. Figures(r, account', available', wallet')
  BY <1>4, NoFigures
<1> HIDE DEF t
<1> QED BY <1>3, <1>4, <1>5, <1>6, <1>8, <1>9, SerialKept DEF t

\* A transfer to a user is completed, and what was read to take from it stands.
LEMMA CompletionSerial ==
  ASSUME IInv, Types, Serial, MarkCompleted(Lead)
  PROVE  /\ Serial' /\ req[Lead].pc = "complete" /\ req'[Lead].pc \in {"debitFiat", "debitCoin"}
         /\ req'[Lead].t = req[Lead].t /\ OnlyOf(req[Lead].t)
         /\ SameDeal(tx[req[Lead].t], tx'[req[Lead].t])
         /\ tx'[req[Lead].t].status # "none" /\ ~tx[req[Lead].t].debited
<1> DEFINE q == req[Lead]
           row == q.row
           t == q.t
           s == [row EXCEPT !.status = "completed", !.debited = TRUE]
           step == IF IsCoin(row.form) THEN "debitCoin" ELSE "debitFiat"
<1>1. /\ q.pc = "complete" /\ Write(t, s) /\ Goto(Lead, step)
      /\ UNCHANGED <<credited, ledgers, payout>>
  BY DEF MarkCompleted, At
<1>2. /\ t \in TxIds /\ RowFits(tx[t], payout[t], t \in credited, q, t)
      /\ row = tx[t] /\ row.status = "pending" /\ row \in TxRow
      /\ row.form.channel = "rhionx_user" /\ Figures(q, account, available, wallet)
  <2>1. /\ t \in TxIds /\ RowFits(tx[t], payout[t], t \in credited, q, t)
        /\ row = tx[t] /\ row.status = "pending" /\ row \in TxRow
        /\ row.form.channel \notin Payouts /\ Figures(q, account, available, wallet)
    BY <1>1, LeadKnows DEF Told, Reads, Known, UserSteps
  <2>2. row.form \in Forms
    BY LeadTyped
  <2> DEFINE f == row.form
  <2>3. f \in Forms /\ f.channel \notin Payouts
    BY <2>1, <2>2
  <2> HIDE DEF f
  <2>4. f.channel = "rhionx_user"
    BY <2>3, FormAssumption
  <2> QED BY <2>1, <2>4 DEF f
<1>3. s.status = "completed" /\ s.debited /\ s.refunded = row.refunded /\ SameDeal(row, s)
  <2>1. s \in Rewrites(row)
    <3> HIDE DEF row, step
    <3> QED BY Zenon DEF Rewrites
  <2>2. s.status = "completed" /\ s.debited /\ s.refunded = row.refunded
    BY <1>2, CompletionWritten, Zenon
  <2> HIDE DEF s
  <2> QED BY <1>2, <2>1, <2>2, DealKept
<1> HIDE DEF s
<1>4. PICK r : /\ req' = [req EXCEPT ![Lead] = r] /\ r.pc = step /\ r.t = t
               /\ r.row = row /\ r.x = q.x /\ r.y = q.y
  BY <1>1, GoesOn DEF Goto, Onward
<1>5. tx'[t] = s /\ OnlyOf(t)
  BY <1>1, <1>2, RowTypes DEF Write, OnlyOf
<1>6. t \notin credited
  BY <1>2 DEF IInv, Done
<1>7. RowFits(s, payout[t], t \in credited, r, t)
  <2>1. FromSource(s) /\ s.form = row.form
    BY <1>2, <1>3 DEF RowFits, FromSource, SameDeal
  <2>2. Doing(r, Moving, t)
    BY <1>4 DEF Doing, Moving
  <2> QED BY <1>2, <1>3, <1>6, <2>1, <2>2 DEF RowFits
<1>8. Told(r, t, tx'[t], payout'[t], t \in credited')
  <2>1. Reads(r, s)
    BY <1>3, <1>4 DEF Reads, Moving, SameDeal
  <2> QED BY <1>1, <1>4, <1>5, <1>7, <2>1 DEF Told
<1>9. Figures(r, account', available', wallet')
  BY <1>1, <1>2, <1>4 DEF Figures, CoinFigures, FiatFigures, ledgers
<1>10. NoOverdraft'
  BY <1>1 DEF Serial, NoOverdraft, ledgers
<1>11. Serial' /\ req'[Lead] = r
  <2> HIDE DEF t
  <2> QED BY <1>2, <1>4, <1>5, <1>8, <1>9, <1>10, SerialKept DEF t
<1>12. ~tx[t].debited
  BY <1>2 DEF RowFits
<1> QED BY <1>1, <1>2, <1>3, <1>4, <1>5, <1>11, <1>12

\* A request that is moving the money of a completed transfer, and goes on or ends.
LEMMA MovingOn ==
  ASSUME IInv, Types, Serial, NEW r, req' = [req EXCEPT ![Lead] = r],
         req[Lead].pc \in Moving, UNCHANGED <<tx, payout>>,
         credited' = credited
           \/ (credited' = credited \cup {req[Lead].t} /\ r.pc = "idle"),
         r.pc \in Moving \cup {"idle"},
         r.pc # "idle" => /\ r.t = req[Lead].t /\ r.row = req[Lead].row
                          /\ credited' = credited,
         r.pc = "idle" /\ credited' = credited =>
           IsCoin(tx[req[Lead].t].form) /\ RecipientVA(tx[req[Lead].t]) = NoVA,
         Figures(r, account', available', wallet'), NoOverdraft'
  PROVE  Serial'
<1> DEFINE q == req[Lead]
           t == q.t
<1>1. /\ t \in TxIds /\ RowFits(tx[t], payout[t], t \in credited, q, t)
      /\ Reads(q, tx[t]) /\ Done(tx[t]) /\ "idle" \notin Moving /\ q.pc # "idle"
      /\ "debit" \notin Moving
  BY LeadKnows DEF Told, Known, Moving
<1>2. OnlyOf(t)
  BY DEF OnlyOf
<1>3. RowFits(tx'[t], payout'[t], t \in credited', r, t)
  <2>1. ~Doing(q, {"debit"}, t) /\ Doing(q, Moving, t)
    BY <1>1 DEF Doing
  <2>2. ~Doing(r, {"debit"}, t) /\ (Doing(r, Moving, t) <=> r.pc # "idle")
    BY <1>1 DEF Doing
  <2> HIDE DEF t, q
  <2>3. tx[t].status = "completed"
    BY <1>1 DEF Done
  <2>4. t \in credited' <=> r.pc = "idle" /\ credited' # credited
    BY <1>1, <2>1 DEF RowFits, t, q
  <2> QED BY <1>1, <2>1, <2>2, <2>3, <2>4 DEF RowFits, t, q
<1>4. r.pc # "idle" => Reads(r, tx[t])
  BY <1>1 DEF Reads, Moving
<1>5. Told(r, t, tx'[t], payout'[t], t \in credited')
  BY <1>3, <1>4 DEF Told
<1> HIDE DEF t
<1> QED BY <1>1, <1>2, <1>5, SerialKept DEF t

\* The parts of a transfer to a user that is being moved.
LEMMA MovingTyped ==
  ASSUME IInv, Types, Serial, req[Lead].pc \in Moving
  PROVE  LET r == req[Lead]
         IN  /\ r.row.form.channel \notin Payouts /\ r.t \in TxIds
             /\ SameDeal(r.row, tx[r.t]) /\ Figures(r, account, available, wallet)
             /\ IsCoin(r.row.form) => r.row.source \in VAs
             /\ ~IsCoin(r.row.form) =>
                  Sender(r.row) \in Users \X Fiats /\ Receiver(r.row) \in Users \X Fiats
             /\ tx[r.t].status = "completed" /\ tx[r.t].debited
<1>1. req[Lead].pc # "idle" /\ req[Lead].pc \in UserSteps
  BY DEF Moving, UserSteps
<1>2. LET r == req[Lead]
      IN  /\ r.t \in TxIds /\ Known(r, tx[r.t], payout[r.t]) /\ Reads(r, tx[r.t])
          /\ Figures(r, account, available, wallet)
  BY <1>1, LeadKnows DEF Told
<1>3. LET r == req[Lead]
      IN  /\ r.row.form.channel \notin Payouts /\ SameDeal(r.row, tx[r.t])
          /\ tx[r.t].status = "completed" /\ tx[r.t].debited
  BY <1>1, <1>2 DEF Known, Reads, Done
<1> QED BY <1>1, <1>2, <1>3, LeadIsRequest, ReadsTyped, FormTyped DEF Sourced

\* Of a table of numbers that are not negative, one more of them is not.
LEMMA StaysPaid ==
  ASSUME NEW S, NEW a \in [S -> Int], \A x \in S : a[x] >= 0, NEW k, NEW v,
         v \in Int, v >= 0, NEW b, b = [a EXCEPT ![k] = v]
  PROVE  \A x \in S : b[x] >= 0
OBVIOUS

LEMMA DebitSerial ==
  ASSUME IInv, Types, Serial, DebitFiat(Lead) \/ DebitCoin(Lead)
  PROVE  Serial'
<1> DEFINE q == req[Lead]
           n == Total(q.row)
           va == q.row.source
           w == Sender(q.row)
<1>1. /\ q.pc \in {"debitFiat", "debitCoin"} /\ q.pc \in Moving
      /\ Goto(Lead, "recipient") /\ UNCHANGED <<tx, credited, payout>>
  BY DEF DebitFiat, DebitCoin, At, Moving
<1>2. PICK r : /\ req' = [req EXCEPT ![Lead] = r] /\ r.pc = "recipient" /\ r.t = q.t
               /\ r.row = q.row
  BY <1>1, GoesOn DEF Goto, Onward
<1>3. Figures(q, account, available, wallet)
  BY <1>1, MovingTyped
<1>4. /\ n \in Nat /\ q.x \in Int /\ q.y \in Int
      /\ account \in [VAs -> Int] /\ available \in [VAs -> Int]
      /\ wallet \in [Users \X Fiats -> Int]
  BY LeadTyped
<1>5. /\ \A x \in Users \X Fiats : wallet[x] >= 0
      /\ \A x \in VAs : available[x] >= 0
  BY DEF Serial, NoOverdraft
<1>6. NoOverdraft'
  <2>1. CASE DebitFiat(Lead)
    <3>1. /\ wallet' = [wallet EXCEPT ![w] = q.x - n] /\ UNCHANGED available
          /\ q.pc = "debitFiat"
      BY <2>1 DEF DebitFiat, At
    <3>2. n <= q.x
      BY <1>3, <3>1 DEF Figures, FiatFigures
    <3>3. q.x - n \in Int /\ q.x - n >= 0
      BY <1>4, <3>2
    <3> HIDE DEF n, w
    <3>4. \A x \in Users \X Fiats : wallet'[x] >= 0
      BY <1>4, <1>5, <3>1, <3>3, StaysPaid
    <3> QED BY <1>5, <3>1, <3>4 DEF NoOverdraft
  <2>2. CASE DebitCoin(Lead)
    <3>1. /\ available' = [available EXCEPT ![va] = q.y - n] /\ UNCHANGED wallet
          /\ q.pc = "debitCoin"
      BY <2>2 DEF DebitCoin, At
    <3>2. n <= q.y
      BY <1>3, <3>1 DEF Figures, CoinFigures
    <3>3. q.y - n \in Int /\ q.y - n >= 0
      BY <1>4, <3>2
    <3> HIDE DEF n, va
    <3>4. \A x \in VAs : available'[x] >= 0
      BY <1>4, <1>5, <3>1, <3>3, StaysPaid
    <3> QED BY <1>5, <3>1, <3>4 DEF NoOverdraft
  <2> QED BY <2>1, <2>2
<1>7. Figures(r, account', available', wallet')
  BY <1>2, NoFigures
<1>8. "recipient" \in Moving /\ "recipient" # "idle"
  BY DEF Moving
<1> HIDE DEF n, va, w
<1> QED BY <1>1, <1>2, <1>6, <1>7, <1>8, MovingOn

LEMMA RecipientSerial ==
  ASSUME IInv, Types, Serial, ReadRecipient(Lead)
  PROVE  Serial'
<1> DEFINE q == req[Lead]
           row == q.row
           va == RecipientVA(row)
<1>1. /\ q.pc = "recipient" /\ q.pc \in Moving /\ UNCHANGED <<tx, credited, ledgers, payout>>
      /\ \/ ~IsCoin(row.form) /\ Onward(Lead, "creditFiat", wallet[Receiver(row)], 0)
         \/ IsCoin(row.form) /\ va = NoVA /\ Finish(Lead)
         \/ /\ IsCoin(row.form) /\ va # NoVA
            /\ Onward(Lead, "creditCoin", account[va], available[va])
  BY DEF ReadRecipient, At, Moving
<1>2. NoOverdraft'
  BY <1>1 DEF Serial, NoOverdraft, ledgers
<1>3. SameDeal(row, tx[q.t])
  BY <1>1, MovingTyped
<1>4. RecipientVA(tx[q.t]) = va /\ (IsCoin(tx[q.t].form) <=> IsCoin(row.form))
  BY <1>3 DEF SameDeal, RecipientVA
<1>5. "creditFiat" \in Moving /\ "creditCoin" \in Moving
  BY DEF Moving
<1> HIDE DEF va
<1>6. CASE ~IsCoin(row.form) /\ Onward(Lead, "creditFiat", wallet[Receiver(row)], 0)
  <2>1. PICK r : /\ req' = [req EXCEPT ![Lead] = r] /\ r.pc = "creditFiat" /\ r.t = q.t
                 /\ r.row = row /\ r.x = wallet[Receiver(row)]
    BY <1>6, GoesOn DEF Onward
  <2>2. Figures(r, account', available', wallet')
    BY <1>1, <1>6, <2>1 DEF Figures, CoinFigures, FiatFigures, ledgers
  <2> QED BY <1>1, <1>2, <1>5, <2>1, <2>2, MovingOn
<1>7. CASE IsCoin(row.form) /\ va = NoVA /\ Finish(Lead)
  <2>1. PICK r : req' = [req EXCEPT ![Lead] = r] /\ r.pc = "idle"
    BY <1>7, ComesToRest
  <2>2. Figures(r, account', available', wallet')
    BY <2>1, NoFigures
  <2> QED BY <1>1, <1>2, <1>4, <1>7, <2>1, <2>2, MovingOn
<1>8. CASE /\ IsCoin(row.form) /\ va # NoVA
           /\ Onward(Lead, "creditCoin", account[va], available[va])
  <2>1. PICK r : /\ req' = [req EXCEPT ![Lead] = r] /\ r.pc = "creditCoin" /\ r.t = q.t
                 /\ r.row = row /\ r.x = account[va] /\ r.y = available[va]
    BY <1>8, GoesOn DEF Onward
  <2>2. Figures(r, account', available', wallet')
    BY <1>1, <1>8, <2>1 DEF Figures, CoinFigures, FiatFigures, ledgers, va
  <2> QED BY <1>1, <1>2, <1>5, <2>1, <2>2, MovingOn
<1> QED BY <1>1, <1>6, <1>7, <1>8

LEMMA CreditSerial ==
  ASSUME IInv, Types, Serial, CreditFiat(Lead) \/ CreditCoin(Lead)
  PROVE  Serial'
<1> DEFINE q == req[Lead]
           n == q.row.form.amount
           va == RecipientVA(q.row)
           w == Receiver(q.row)
<1>1. /\ q.pc \in {"creditFiat", "creditCoin"} /\ q.pc \in Moving
      /\ Finish(Lead) /\ UNCHANGED <<tx, payout>> /\ credited' = credited \cup {q.t}
  BY DEF CreditFiat, CreditCoin, At, Moving
<1>2. PICK r : req' = [req EXCEPT ![Lead] = r] /\ r.pc = "idle"
  BY <1>1, ComesToRest
<1>3. /\ Figures(q, account, available, wallet)
      /\ ~IsCoin(q.row.form) => w \in Users \X Fiats
  BY <1>1, MovingTyped
<1>4. /\ n \in Nat /\ q.x \in Int /\ q.y \in Int
      /\ account \in [VAs -> Int] /\ available \in [VAs -> Int]
      /\ wallet \in [Users \X Fiats -> Int]
  BY LeadTyped
<1>5. /\ \A x \in Users \X Fiats : wallet[x] >= 0
      /\ \A x \in VAs : available[x] >= 0
  BY DEF Serial, NoOverdraft
<1>6. NoOverdraft'
  <2>1. CASE CreditFiat(Lead)
    <3>1. /\ wallet' = [wallet EXCEPT ![w] = q.x + n] /\ UNCHANGED available
          /\ q.pc = "creditFiat"
      BY <2>1 DEF CreditFiat, At
    <3>2. q.x = wallet[w] /\ w \in Users \X Fiats
      BY <1>3, <3>1 DEF Figures, FiatFigures
    <3>3. q.x + n \in Int /\ q.x + n >= 0
      <4>1. q.x >= 0
        BY <1>5, <3>2
      <4> QED BY <1>4, <4>1
    <3> HIDE DEF n, w
    <3>4. \A x \in Users \X Fiats : wallet'[x] >= 0
      BY <1>4, <1>5, <3>1, <3>3, StaysPaid
    <3> QED BY <1>5, <3>1, <3>4 DEF NoOverdraft
  <2>2. CASE CreditCoin(Lead)
    <3>1. /\ available' = [available EXCEPT ![va] = q.y + n] /\ UNCHANGED wallet
          /\ q.pc = "creditCoin"
      BY <2>2 DEF CreditCoin, At
    <3>2. q.y = available[va] /\ va \in VAs
      BY <1>3, <3>1, RecipientTyped DEF Figures, CoinFigures
    <3>3. q.y + n \in Int /\ q.y + n >= 0
      <4>1. q.y >= 0
        BY <1>5, <3>2
      <4> QED BY <1>4, <4>1
    <3> HIDE DEF n, va
    <3>4. \A x \in VAs : available'[x] >= 0
      BY <1>4, <1>5, <3>1, <3>3, StaysPaid
    <3> QED BY <1>5, <3>1, <3>4 DEF NoOverdraft
  <2> QED BY <2>1, <2>2
<1>7. Figures(r, account', available', wallet')
  BY <1>2, NoFigures
<1>8. credited' # credited
  <2>1. q.t \notin credited
    <3>1. RowFits(tx[q.t], payout[q.t], q.t \in credited, q, q.t)
      BY <1>1, LeadKnows DEF Told
    <3> QED BY <1>1, <3>1 DEF RowFits, Doing
  <2> QED BY <1>1, <2>1
<1> HIDE DEF n, va, w
<1> QED BY <1>1, <1>2, <1>6, <1>7, <1>8, MovingOn

\* A new transfer reserves nothing, and no request has it yet.
LEMMA InitiateSerial ==
  ASSUME IInv, Types, Serial, InitiateTransfer
  PROVE  /\ Serial'
         /\ \E t \in TxIds :
              /\ tx[t].status = "none" /\ t \notin credited /\ ~tx[t].debited /\ ~tx'[t].debited
              /\ \A k \in TxIds \ {t} : tx'[k] = tx[k]
<1>1. PICK t \in TxIds, f \in Forms :
        \E va \in IF IsCoin(f) THEN SourceAccounts(f) ELSE {NoVA} :
          /\ \A k \in TxIds : (tx[k].status = "none") <=> (k >= t)
          /\ Write(t, Pending(f, Fee(f), va))
  BY DEF InitiateTransfer
<1>2. PICK va \in IF IsCoin(f) THEN SourceAccounts(f) ELSE {NoVA} :
          /\ \A k \in TxIds : (tx[k].status = "none") <=> (k >= t)
          /\ Write(t, Pending(f, Fee(f), va))
  BY <1>1
<1> DEFINE s == Pending(f, Fee(f), va)
<1>3. UNCHANGED <<credited, ledgers, payout, req>>
  BY DEF InitiateTransfer
<1>4. tx[t].status = "none"
  BY <1>2, FormAssumption
<1>5. s.form = f /\ s.source = va /\ s.status = "pending" /\ ~s.debited /\ ~s.refunded
  BY DEF Pending
<1>6. FromSource(s)
  <2>1. CASE ~IsCoin(f)
    BY <1>2, <1>5, <2>1 DEF FromSource
  <2>2. CASE IsCoin(f)
    <3>1. va \in SourceAccounts(f)
      BY <1>2, <2>2
    <3>2. va \in IF Unified(f.currency) THEN Family(f.from) ELSE AccountsOf(f.from)
      BY <3>1 DEF SourceAccounts, Family, AccountsOf, Unified
    <3> HIDE DEF s
    <3> QED BY <1>5, <2>2, <3>2 DEF FromSource
  <2> QED BY <2>1, <2>2
<1>7. Write(t, s)
  BY <1>2
<1> HIDE DEF s
<1>8. tx'[t] = s /\ \A k \in TxIds \ {t} : tx'[k] = tx[k]
  BY <1>7, RowTypes DEF Write
<1>9. /\ ~tx[t].debited /\ payout[t] = "none" /\ t \notin credited
  BY <1>4 DEF Serial, RowFits
<1>10. ASSUME NEW k \in TxIds
       PROVE  RowFits(tx'[k], payout'[k], k \in credited', req'[Lead], k)
  <2>1. CASE k = t
    BY <1>3, <1>5, <1>6, <1>8, <1>9, <2>1 DEF RowFits
  <2>2. CASE k # t
    BY <1>3, <1>8, <2>2 DEF Serial
  <2> QED BY <2>1, <2>2
<1>11. req[Lead].pc # "idle" => req[Lead].t # t /\ req[Lead].t \in TxIds
  BY <1>4, LeadKnows DEF Known
<1>12. Serial'
  <2>1. \A k \in TxIds : RowFits(tx[k], payout[k], k \in credited, req[Lead], k)'
    BY <1>10 DEF RowFits, Doing, FromSource, Taken, RecipientVA
  <2>2. (req[Lead].pc # "idle" => Reads(req[Lead], tx[req[Lead].t]))'
    BY <1>3, <1>8, <1>11 DEF Serial, Reads, SameDeal
  <2>3. CoinFigures(req[Lead], account, available)' /\ FiatFigures(req[Lead], wallet)'
    BY <1>3 DEF Serial, CoinFigures, FiatFigures, ledgers
  <2>4. Others' /\ NoOverdraft'
    BY <1>3 DEF Serial, Others, NoOverdraft, ledgers
  <2> QED BY <2>1, <2>2, <2>3, <2>4 DEF Serial
<1> QED BY <1>4, <1>5, <1>8, <1>9, <1>12

\* The provider ends a payout.
LEMMA EndSerial ==
  ASSUME IInv, Serial, NEW t \in TxIds, PayoutEnds(t)
  PROVE  Serial'
<1>1. PICK u \in Final : payout' = [payout EXCEPT ![t] = u]
  BY DEF PayoutEnds
<1>2. UNCHANGED <<tx, credited, ledgers, req>> /\ payout[t] = "accepted"
  BY DEF PayoutEnds
<1>3. payout'[t] = u /\ \A k \in TxIds \ {t} : payout'[k] = payout[k]
  BY <1>1, RowTypes
<1>4. ASSUME NEW k \in TxIds
      PROVE  RowFits(tx'[k], payout'[k], k \in credited', req'[Lead], k)
  <2>1. RowFits(tx[k], payout[k], k \in credited, req[Lead], k)
    BY DEF Serial
  <2>2. CASE k = t
    BY <1>2, <1>3, <2>1, <2>2 DEF RowFits
  <2>3. CASE k # t
    BY <1>2, <1>3, <2>1, <2>3
  <2> QED BY <2>2, <2>3
<1>5. \A k \in TxIds : RowFits(tx[k], payout[k], k \in credited, req[Lead], k)'
  BY <1>4 DEF RowFits, Doing, FromSource, Taken, RecipientVA
<1>6. /\ (req[Lead].pc # "idle" => Reads(req[Lead], tx[req[Lead].t]))'
      /\ CoinFigures(req[Lead], account, available)' /\ FiatFigures(req[Lead], wallet)'
      /\ Others' /\ NoOverdraft'
  BY <1>2 DEF Serial, Reads, SameDeal, CoinFigures, FiatFigures, ledgers, Others, NoOverdraft
<1> QED BY <1>5, <1>6 DEF Serial

\* In turn, what the request has read stays true at every step.
LEMMA TurnSerial ==
  ASSUME IInv, Types, Serial, Turn
  PROVE  Serial'
<1>1. CASE InitiateTransfer
  BY <1>1, InitiateSerial
<1>2. ASSUME NEW t \in TxIds, PayoutEnds(t) \/ Notice(Lead, t) PROVE Serial'
  BY <1>2, EndSerial, StartingSerial DEF Notice
<1>3. CASE StartVerify(Lead) \/ StartReceipt(Lead)
  BY <1>3, StartingSerial
<1>4. CASE Advance(Lead) /\ lost' = 0
  BY <1>4, AskSerial, CheckSerial, AllocationSerial, SourceSerial, FinalSerial,
     CompletionSerial, DebitSerial, RecipientSerial, CreditSerial, QuerySerial DEF Advance
<1> QED BY <1>1, <1>2, <1>3, <1>4 DEF Turn

-----------------------------------------------------------------------------
(* The books follow                                                        *)

\* The step does nothing for the books of transfer k: what it has moved is the same, and if
\* its row is new there was nothing.
Rests(k) ==
  /\ k \in credited' <=> k \in credited
  /\ Gone(tx[k], req[Lead], k)' <=> Gone(tx[k], req[Lead], k)
  /\ \/ SameDeal(tx[k], tx'[k]) /\ (tx[k].status # "none" => tx'[k].status # "none")
     \/ tx[k].status = "none" /\ k \notin credited /\ ~Gone(tx[k], req[Lead], k)

LEMMA RestIsStill ==
  ASSUME NEW k, Rests(k)
  PROVE  /\ \A w : MoneyOf(k, w)' = MoneyOf(k, w)
         /\ \A pool : CoinOf(k, pool)' = CoinOf(k, pool)
<1>1. CASE SameDeal(tx[k], tx'[k])
  <2>1. /\ Total(tx'[k]) = Total(tx[k]) /\ Sender(tx'[k]) = Sender(tx[k])
        /\ Receiver(tx'[k]) = Receiver(tx[k]) /\ RecipientVA(tx'[k]) = RecipientVA(tx[k])
        /\ tx'[k].form = tx[k].form /\ tx'[k].source = tx[k].source
    BY <1>1 DEF SameDeal, Total, Sender, Receiver, RecipientVA
  <2>2. /\ k \in credited' <=> k \in credited
        /\ Gone(tx'[k], req'[Lead], k) <=> Gone(tx[k], req[Lead], k)
    BY DEF Rests, Gone, Taken, Doing
  <2> QED BY <2>1, <2>2 DEF MoneyOf, CoinOf
<1>2. CASE tx[k].status = "none" /\ k \notin credited /\ ~Gone(tx[k], req[Lead], k)
  <2>1. /\ k \notin credited' /\ ~Gone(tx'[k], req'[Lead], k)
    BY <1>2 DEF Rests, Gone, Taken, Doing
  <2> QED BY <1>2, <2>1 DEF MoneyOf, CoinOf
<1> QED BY <1>1, <1>2 DEF Rests

\* A deal that is there stays the deal it is.
Stays(k) ==
  tx[k].status # "none" => SameDeal(tx[k], tx'[k]) /\ tx'[k].status # "none"

LEMMA NoBankBefore ==
  ASSUME \A k \in TxIds : Stays(k), NEW w, NoBank(w)'
  PROVE  NoBank(w)
<1> SUFFICES ASSUME NEW k \in TxIds, tx[k].status # "none", Sender(tx[k]) = w
             PROVE  tx[k].form.channel # "bank_account"
  BY DEF NoBank
<1>1. tx'[k].status # "none" /\ tx'[k].form = tx[k].form /\ Sender(tx'[k]) = w
  BY DEF Stays, SameDeal, Sender
<1> QED BY <1>1 DEF NoBank

\* The pools of a user are sets of accounts.
LEMMA PoolTyped ==
  ASSUME NEW u, NEW pool \in Pools(u)
  PROVE  pool \in SUBSET VAs /\ IsFiniteSet(pool) /\ NoVA \notin pool
<1>1. pool \in SUBSET VAs
  BY DEF Pools, Family, AccountsOf
<1> QED BY <1>1, AccountAssumption, FS_Subset DEF NoVA

PoolsSame ==
  \A u \in Users : \A pool \in Pools(u) :
    /\ SumFunctionOnSet(account', pool) = SumFunctionOnSet(account, pool)
    /\ SumFunctionOnSet(available', pool) = SumFunctionOnSet(available, pool)

\* A step at which every transfer rests leaves the books as they are.
LEMMA RestBooks ==
  ASSUME Books, \A k \in TxIds : Rests(k), \A k \in TxIds : Stays(k), UNCHANGED wallet,
         PoolsSame
  PROVE  Books'
<1>1. ASSUME NEW w PROVE Moneys(w)' = Moneys(w)
  BY RestIsStill DEF Moneys
<1>2. ASSUME NEW pool PROVE Coinage(pool)' = Coinage(pool)
  BY RestIsStill DEF Coinage
<1>3. ASSUME NEW w \in Users \X Fiats, NoBank(w)'
      PROVE  wallet'[w] = InitWallet[w] + SumFunctionOnSet(Moneys(w)', TxIds)
  <2>1. wallet[w] = InitWallet[w] + SumFunctionOnSet(Moneys(w), TxIds)
    BY <1>3, NoBankBefore DEF Books
  <2> QED BY <1>1, <2>1
<1>4. ASSUME NEW u \in Users, NEW pool \in Pools(u)
      PROVE  LET then == SumFunctionOnSet(InitAccount, pool)
                           + SumFunctionOnSet(Coinage(pool)', TxIds)
             IN  /\ SumFunctionOnSet(account', pool) = then
                 /\ SumFunctionOnSet(available', pool) = then
  <2>1. LET then == SumFunctionOnSet(InitAccount, pool)
                      + SumFunctionOnSet(Coinage(pool), TxIds)
        IN  /\ SumFunctionOnSet(account, pool) = then
            /\ SumFunctionOnSet(available, pool) = then
    BY DEF Books
  <2> QED BY <1>2, <2>1 DEF PoolsSame
<1>5. \A u \in Users : (Pools(u))' = Pools(u)
  BY DEF Pools
<1> QED BY <1>3, <1>4, <1>5 DEF Books

\* What a step has moved for transfer t, in the books and for the transfer alike.
PostsMoney(t) ==
  \A w \in Users \X Fiats :
    NoBank(w)' => \E n \in Int : /\ wallet'[w] = wallet[w] + n
                                 /\ MoneyOf(t, w)' = MoneyOf(t, w) + n
PostsCoin(t) ==
  \A u \in Users : \A pool \in Pools(u) : \E n \in Int :
    /\ SumFunctionOnSet(account', pool) = SumFunctionOnSet(account, pool) + n
    /\ SumFunctionOnSet(available', pool) = SumFunctionOnSet(available, pool) + n
    /\ CoinOf(t, pool)' = CoinOf(t, pool) + n

LEMMA MovesTyped ==
  ASSUME IInv, NEW k \in TxIds
  PROVE  /\ \A w : MoneyOf(k, w) \in Int
         /\ \A pool : CoinOf(k, pool) \in Int
<1>1. tx[k].form.amount \in Int /\ Total(tx[k]) \in Int
  BY RowTypes, FormTyped
<1> QED BY <1>1 DEF MoneyOf, CoinOf

LEMMA PostsKeep ==
  ASSUME IInv, Books, NEW t \in TxIds, PostsMoney(t), PostsCoin(t),
         \A k \in TxIds \ {t} : Rests(k), \A k \in TxIds : Stays(k)
  PROVE  Books'
<1>0. IsFiniteSet(TxIds)
  BY FormAssumption
<1>1. ASSUME NEW w \in Users \X Fiats, NoBank(w)'
      PROVE  wallet'[w] = InitWallet[w] + SumFunctionOnSet(Moneys(w)', TxIds)
  <2>1. PICK n \in Int : wallet'[w] = wallet[w] + n /\ MoneyOf(t, w)' = MoneyOf(t, w) + n
    BY <1>1 DEF PostsMoney
  <2>2. /\ \A k \in TxIds : Moneys(w)[k] = MoneyOf(k, w) /\ Moneys(w)[k] \in Int
        /\ \A k \in TxIds : Moneys(w)'[k] = MoneyOf(k, w)'
    BY MovesTyped DEF Moneys
  <2>3. \A k \in TxIds \ {t} : MoneyOf(k, w)' = MoneyOf(k, w)
    BY RestIsStill
  <2>4. Rises(TxIds, Moneys(w), Moneys(w)', t, n)
    BY <2>1, <2>2, <2>3 DEF Rises
  <2>5. wallet[w] = InitWallet[w] + SumFunctionOnSet(Moneys(w), TxIds)
    BY <1>1, NoBankBefore DEF Books
  <2>6. InitWallet[w] \in Int
    BY FormAssumption
  <2>7. Posted(TxIds, wallet[w], wallet'[w], InitWallet[w], Moneys(w), Moneys(w)', t, n)
    BY <2>1, <2>4, <2>5, <2>6 DEF Posted
  <2> QED BY <1>0, <2>7, BookMoves
<1>2. ASSUME NEW u \in Users, NEW pool \in Pools(u)
      PROVE  LET then == SumFunctionOnSet(InitAccount, pool)
                           + SumFunctionOnSet(Coinage(pool)', TxIds)
             IN  /\ SumFunctionOnSet(account', pool) = then
                 /\ SumFunctionOnSet(available', pool) = then
  <2> DEFINE first == SumFunctionOnSet(InitAccount, pool)
             whole == SumFunctionOnSet(account, pool)
             whole2 == SumFunctionOnSet(account', pool)
             free == SumFunctionOnSet(available, pool)
             free2 == SumFunctionOnSet(available', pool)
  <2>1. PICK n \in Int : /\ whole2 = whole + n /\ free2 = free + n
                         /\ CoinOf(t, pool)' = CoinOf(t, pool) + n
    BY <1>2 DEF PostsCoin
  <2>2. /\ \A k \in TxIds : Coinage(pool)[k] = CoinOf(k, pool) /\ Coinage(pool)[k] \in Int
        /\ \A k \in TxIds : Coinage(pool)'[k] = CoinOf(k, pool)'
    BY MovesTyped DEF Coinage
  <2>3. \A k \in TxIds \ {t} : CoinOf(k, pool)' = CoinOf(k, pool)
    BY RestIsStill
  <2>4. Rises(TxIds, Coinage(pool), Coinage(pool)', t, n)
    BY <2>1, <2>2, <2>3 DEF Rises
  <2>5. /\ whole = first + SumFunctionOnSet(Coinage(pool), TxIds)
        /\ free = first + SumFunctionOnSet(Coinage(pool), TxIds)
    BY <1>2 DEF Books
  <2>6. first \in Int
    <3>1. IsFiniteSet(pool) /\ \A x \in pool : InitAccount[x] \in Int
      BY <1>2, PoolTyped, FormAssumption
    <3> QED BY <3>1, SumType
  <2> HIDE DEF first, whole, whole2, free, free2
  <2>7. /\ Posted(TxIds, whole, whole2, first, Coinage(pool), Coinage(pool)', t, n)
        /\ Posted(TxIds, free, free2, first, Coinage(pool), Coinage(pool)', t, n)
    BY <2>1, <2>4, <2>5, <2>6 DEF Posted
  <2>8. /\ whole2 = first + SumFunctionOnSet(Coinage(pool)', TxIds)
        /\ free2 = first + SumFunctionOnSet(Coinage(pool)', TxIds)
    BY <1>0, <2>7, BookMoves
  <2> QED BY <2>8 DEF first, whole2, free2
<1>3. \A u \in Users : (Pools(u))' = Pools(u)
  BY DEF Pools
<1> QED BY <1>1, <1>2, <1>3 DEF Books

-----------------------------------------------------------------------------
(* The steps that move nothing                                             *)

Debiting(r, t) == Doing(r, {"debitFiat", "debitCoin"}, t)

\* A transfer that the step leaves alone rests.
LEMMA AloneRests ==
  ASSUME NEW k, tx'[k] = tx[k], k \in credited' <=> k \in credited,
         Debiting(req'[Lead], k) <=> Debiting(req[Lead], k)
  PROVE  Rests(k) /\ Stays(k)
BY DEF Rests, Stays, SameDeal, Gone, Debiting, Doing, Taken

\* So do all transfers but the request's.
LEMMA OthersRest ==
  ASSUME NEW t, \A k \in TxIds \ {t} : tx'[k] = tx[k] /\ (k \in credited' <=> k \in credited),
         req[Lead].t = t, req'[Lead].t = t \/ req'[Lead].pc = "idle"
  PROVE  \A k \in TxIds \ {t} : Rests(k) /\ Stays(k)
<1> SUFFICES ASSUME NEW k \in TxIds \ {t} PROVE Rests(k) /\ Stays(k)
  OBVIOUS
<1>1. ~Debiting(req[Lead], k) /\ ~Debiting(req'[Lead], k)
  BY DEF Debiting, Doing
<1> QED BY <1>1, AloneRests

\* Where the request is after its step.
LEMMA LeadAfter ==
  ASSUME IInv
  PROVE  /\ \A t, step : Load(Lead, t, step) => req'[Lead].pc = step
         /\ \A step, x, y, plan, told :
              Carry(Lead, step, x, y, plan, told) =>
                req'[Lead].pc = step /\ req'[Lead].t = req[Lead].t
         /\ Finish(Lead) => req'[Lead].pc = "idle"
<1>1. ASSUME NEW r, req' = [req EXCEPT ![Lead] = r] PROVE req'[Lead] = r
  BY <1>1, LeadIsRequest DEF IInv, Structure
<1>2. ASSUME NEW t, NEW step, Load(Lead, t, step) PROVE req'[Lead].pc = step
  <2> DEFINE r == Locals(step, t, tx[t], 0, 0, {}, "none")
  <2>1. req' = [req EXCEPT ![Lead] = r]
    BY <1>2 DEF Load
  <2>2. r.pc = step
    BY LocalsAre
  <2> HIDE DEF r
  <2> QED BY <1>1, <2>1, <2>2
<1>3. ASSUME NEW step, NEW x, NEW y, NEW plan, NEW told, Carry(Lead, step, x, y, plan, told)
      PROVE  req'[Lead].pc = step /\ req'[Lead].t = req[Lead].t
  BY <1>1, <1>3, GoesOn
<1>4. Finish(Lead) => req'[Lead].pc = "idle"
  BY <1>1, ComesToRest
<1> QED BY <1>2, <1>3, <1>4

\* Nothing moves while the request only reads.
LEMMA StillBooks ==
  ASSUME Books, UNCHANGED <<tx, credited, ledgers>>,
         \A k \in TxIds : Debiting(req'[Lead], k) <=> Debiting(req[Lead], k)
  PROVE  Books'
<1>1. \A k \in TxIds : Rests(k) /\ Stays(k)
  BY AloneRests
<1>2. PoolsSame /\ UNCHANGED wallet
  BY DEF PoolsSame, ledgers
<1> QED BY <1>1, <1>2, RestBooks

LEMMA ReadingBooks ==
  ASSUME IInv, Books,
         \/ StartVerify(Lead) \/ StartReceipt(Lead)
         \/ \E t \in TxIds : PayoutEnds(t) \/ Notice(Lead, t)
         \/ CheckBalance(Lead) \/ ReadSource(Lead) \/ AskProvider(Lead)
         \/ QueryPayout(Lead) \/ ReadRecipient(Lead)
  PROVE  Books'
<1> DEFINE Moves == {"debitFiat", "debitCoin"}
<1>1. UNCHANGED <<tx, credited, ledgers>>
  BY DEF StartVerify, StartReceipt, PayoutEnds, Notice, PalmPayNotice, FlutterwaveNotice,
         CheckBalance, ReadSource, AskProvider, QueryPayout, ReadRecipient
<1>2. ASSUME req[Lead].pc \notin Moves, req'[Lead].pc \notin Moves PROVE Books'
  BY <1>1, <1>2, StillBooks DEF Debiting, Doing
<1>3. ASSUME NEW t \in TxIds, PayoutEnds(t) PROVE Books'
  <2>1. req' = req
    BY <1>3 DEF PayoutEnds
  <2> QED BY <1>1, <2>1, StillBooks
<1>4. CASE \/ StartVerify(Lead) \/ StartReceipt(Lead)
           \/ \E t \in TxIds : Notice(Lead, t)
  BY <1>2, <1>4, LeadAfter
     DEF StartVerify, StartReceipt, Notice, PalmPayNotice, FlutterwaveNotice, At
<1>5. CASE CheckBalance(Lead)
  <2>1. req[Lead].pc = "check"
    BY <1>5 DEF CheckBalance, At
  <2>2. \/ Finish(Lead)
        \/ \E step \in {"payout", "complete", "source", "allocate"} : \E x, y, plan, told :
             Carry(Lead, step, x, y, plan, told)
    BY <1>5 DEF CheckBalance, Goto, Onward
  <2>3. req'[Lead].pc \notin Moves
    BY <2>2, LeadAfter
  <2> QED BY <1>2, <2>1, <2>3
<1>6. CASE ReadSource(Lead) \/ AskProvider(Lead) \/ QueryPayout(Lead) \/ ReadRecipient(Lead)
  <2>1. req[Lead].pc \in {"source", "payout", "ask", "recipient"}
    BY <1>6 DEF ReadSource, AskProvider, QueryPayout, ReadRecipient, At
  <2>2. \/ Finish(Lead)
        \/ \E step \in {"complete", "refused", "debit", "answer", "creditFiat", "creditCoin"} :
             \E x, y, plan, told : Carry(Lead, step, x, y, plan, told)
    BY <1>6 DEF ReadSource, AskProvider, QueryPayout, ReadRecipient, Goto, Onward
  <2>3. req'[Lead].pc \notin Moves
    BY <2>2, LeadAfter
  <2> QED BY <1>2, <2>1, <2>3
<1> QED BY <1>3, <1>4, <1>5, <1>6

\* Gathering a stablecoin leaves each pool what it was.
LEMMA GatheringBooks ==
  ASSUME IInv, Types, Serial, Books, CommitAllocation(Lead)
  PROVE  Books'
<1>1. /\ req[Lead].pc = "allocate" /\ req'[Lead].pc = "source"
      /\ UNCHANGED <<tx, credited, account, wallet>>
  BY LeadAfter DEF CommitAllocation, At, Goto, Onward
<1>2. PICK u :
        /\ SumFunctionOnSet(available', Family(u)) = SumFunctionOnSet(available, Family(u))
        /\ \A va \in VAs \ Family(u) : available'[va] = available[va]
  BY AllocationSerial
<1>3. ASSUME NEW v \in Users, NEW pool \in Pools(v)
      PROVE  SumFunctionOnSet(available', pool) = SumFunctionOnSet(available, pool)
  <2>1. pool = Family(u) \/ \A va \in pool : va \notin Family(u)
    BY <1>3 DEF Pools, Family, AccountsOf
  <2>2. CASE \A va \in pool : va \notin Family(u)
    <3>1. IsFiniteSet(pool) /\ \A va \in pool : available'[va] = available[va]
      BY <1>2, <1>3, <2>2, PoolTyped
    <3> QED BY <3>1, SumSame
  <2> QED BY <1>2, <2>1, <2>2
<1>4. PoolsSame
  BY <1>1, <1>3 DEF PoolsSame
<1>5. \A k \in TxIds : Rests(k) /\ Stays(k)
  BY <1>1, AloneRests DEF Debiting, Doing
<1> QED BY <1>1, <1>4, <1>5, RestBooks

\* A transfer that is new has moved nothing.
LEMMA NewBooks ==
  ASSUME IInv, Types, Serial, Books, InitiateTransfer
  PROVE  Books'
<1>1. PICK t \in TxIds :
        /\ tx[t].status = "none" /\ t \notin credited /\ ~tx[t].debited /\ ~tx'[t].debited
        /\ \A k \in TxIds \ {t} : tx'[k] = tx[k]
  BY InitiateSerial
<1>2. UNCHANGED <<credited, ledgers, req>>
  BY DEF InitiateTransfer
<1>3. Rests(t) /\ Stays(t)
  BY <1>1, <1>2 DEF Rests, Stays, Gone, Taken
<1>4. \A k \in TxIds \ {t} : Rests(k) /\ Stays(k)
  BY <1>1, <1>2, AloneRests
<1>5. PoolsSame /\ UNCHANGED wallet
  BY <1>2 DEF PoolsSame, ledgers
<1>6. \A k \in TxIds : Rests(k) /\ Stays(k)
  BY <1>3, <1>4
<1> QED BY <1>5, <1>6, RestBooks

\* A transfer to a user is completed before it is debited.
LEMMA CompletionBooks ==
  ASSUME IInv, Types, Serial, Books, MarkCompleted(Lead)
  PROVE  Books'
<1> DEFINE t == req[Lead].t
<1>1. /\ req[Lead].pc = "complete" /\ req'[Lead].pc \in {"debitFiat", "debitCoin"}
      /\ req'[Lead].t = t /\ OnlyOf(t) /\ SameDeal(tx[t], tx'[t])
      /\ tx'[t].status # "none" /\ ~tx[t].debited
  BY CompletionSerial
<1>2. UNCHANGED <<credited, ledgers>>
  BY DEF MarkCompleted
<1>3. Rests(t) /\ Stays(t)
  BY <1>1, <1>2 DEF Rests, Stays, Gone, Taken, Doing
<1>4. \A k \in TxIds \ {t} : Rests(k) /\ Stays(k)
  BY <1>1, <1>2, OthersRest DEF OnlyOf
<1>5. PoolsSame /\ UNCHANGED wallet
  BY <1>2 DEF PoolsSame, ledgers
<1>6. \A k \in TxIds : Rests(k) /\ Stays(k)
  BY <1>3, <1>4
<1> QED BY <1>5, <1>6, RestBooks

\* What ends a request for a payout leaves of its row.
LEMMA FinalRow ==
  ASSUME IInv, Types, Serial,
         \/ MarkRefused(Lead) \/ DebitPayout(Lead) \/ WriteReceipt(Lead)
         \/ SettlePalmPay(Lead) \/ SettleFlutterwave(Lead)
  PROVE  LET t == req[Lead].t
         IN  /\ t \in TxIds /\ req[Lead].row = tx[t] /\ SameDeal(tx[t], tx'[t])
             /\ tx'[t].status # "none" /\ tx[t].form.channel \in Payouts
             /\ Leaves(tx'[t]) /\ FromSource(tx[t]) /\ tx[t] \in TxRow
             /\ \A k \in TxIds \ {t} : Rests(k) /\ Stays(k)
             /\ ~Debiting(req[Lead], t) /\ ~Debiting(req'[Lead], t)
             /\ UNCHANGED <<credited, account, available>>
<1> DEFINE q == req[Lead]
           t == q.t
<1>1. /\ q.pc \in {"refused", "debit", "answer", "palmpay", "flutterwave"}
      /\ Finish(Lead) /\ UNCHANGED <<credited, account, available, payout>>
  BY FinalWrites
<1>2. PICK s : Write(t, s) /\ SameDeal(q.row, s) /\ Leaves(s)
  BY FinalWrites
<1>3. /\ t \in TxIds /\ RowFits(tx[t], payout[t], t \in credited, q, t) /\ Reads(q, tx[t])
      /\ q.row = tx[t] /\ q.row.form.channel \in Payouts /\ q.row.status # "none"
      /\ tx[t] \in TxRow
  BY <1>1, LeadKnows DEF Told, Reads, Known, PayoutSteps
<1>4. tx'[t] = s /\ \A k \in TxIds \ {t} : tx'[k] = tx[k]
  BY <1>2, <1>3, RowTypes DEF Write
<1>5. req'[Lead].pc = "idle"
  BY <1>1, LeadAfter
<1>6. \A k \in TxIds \ {t} : Rests(k) /\ Stays(k)
  BY <1>1, <1>4, <1>5, OthersRest
<1>7. FromSource(tx[t]) /\ s.status # "none"
  BY <1>2, <1>3 DEF RowFits, Leaves, Final
<1>8. ~Debiting(q, t) /\ ~Debiting(req'[Lead], t)
  BY <1>1, <1>5 DEF Debiting, Doing
<1> QED BY <1>1, <1>2, <1>3, <1>4, <1>6, <1>7, <1>8

\* A payout that is refused or looked up, and one that PalmPay ends, moves nothing.
LEMMA FinalBooks ==
  ASSUME IInv, Types, Serial, Books,
         MarkRefused(Lead) \/ WriteReceipt(Lead) \/ SettlePalmPay(Lead)
  PROVE  Books'
<1>0. PICK t : t = req[Lead].t
  OBVIOUS
<1>1. /\ req[Lead].row = tx[t] /\ SameDeal(tx[t], tx'[t])
      /\ tx'[t].status # "none" /\ Leaves(tx'[t])
      /\ \A k \in TxIds \ {t} : Rests(k) /\ Stays(k)
      /\ ~Debiting(req[Lead], t) /\ ~Debiting(req'[Lead], t)
      /\ UNCHANGED <<credited, account, available>>
  BY <1>0, FinalRow
<1>2. UNCHANGED wallet /\ req[Lead].pc \in {"refused", "answer", "palmpay"}
  BY DEF MarkRefused, WriteReceipt, SettlePalmPay, ledgers, At
<1>3. tx'[t].debited = tx[t].debited /\ tx'[t].refunded = tx[t].refunded
  BY <1>1, <1>2 DEF Leaves
<1>4. Rests(t) /\ Stays(t)
  BY <1>1, <1>3 DEF Rests, Stays, Gone, Taken, Debiting
<1>5. PoolsSame
  BY <1>1 DEF PoolsSame
<1>6. \A k \in TxIds : Rests(k) /\ Stays(k)
  BY <1>1, <1>4
<1> QED BY <1>2, <1>5, <1>6, RestBooks

-----------------------------------------------------------------------------
(* The steps that move money                                               *)

\* A pool that has the account rises with it.
Raised(a, b, va, n) ==
  a \in [VAs -> Int] /\ va \in VAs /\ n \in Int /\ b = [a EXCEPT ![va] = a[va] + n]
InPool(pool, va, n) == IF va \in pool THEN n ELSE 0

LEMMA PoolRises ==
  ASSUME NEW pool \in SUBSET VAs, NEW a, NEW b, NEW va, NEW n, Raised(a, b, va, n)
  PROVE  SumFunctionOnSet(b, pool) = SumFunctionOnSet(a, pool) + InPool(pool, va, n)
<1>0. a \in [VAs -> Int] /\ va \in VAs /\ n \in Int /\ b = [a EXCEPT ![va] = a[va] + n]
  BY DEF Raised
<1>1. IsFiniteSet(pool)
  BY AccountAssumption, FS_Subset
<1>2. CASE va \in pool
  <2>1. Rises(pool, a, b, va, n)
    BY <1>0, <1>2 DEF Rises
  <2>2. SumFunctionOnSet(b, pool) = SumFunctionOnSet(a, pool) + n
    BY <1>1, <2>1, SumOfRise
  <2> QED BY <1>2, <2>2 DEF InPool
<1>3. CASE va \notin pool
  <2>1. \A x \in pool : b[x] = a[x] /\ a[x] \in Int
    BY <1>0, <1>3
  <2>2. SumFunctionOnSet(b, pool) = SumFunctionOnSet(a, pool)
    BY <1>1, <2>1, SumSame
  <2>3. SumFunctionOnSet(a, pool) \in Int
    BY <1>1, <2>1, SumType
  <2> QED BY <1>3, <2>2, <2>3 DEF InPool
<1> QED BY <1>2, <1>3

\* The pools' sums are numbers.
LEMMA PoolSums ==
  ASSUME Types, NEW u, NEW pool \in Pools(u)
  PROVE  /\ SumFunctionOnSet(account, pool) \in Int
         /\ SumFunctionOnSet(available, pool) \in Int
<1>1. /\ pool \in SUBSET VAs /\ IsFiniteSet(pool)
      /\ account \in [VAs -> Int] /\ available \in [VAs -> Int]
  BY PoolTyped DEF Types, Tables
<1>2. \A x \in pool : account[x] \in Int /\ available[x] \in Int
  BY <1>1
<1> QED BY <1>1, <1>2, SumType

\* A transfer of money has moved no coin, and one of a coin no money.
LEMMA MoneyIsNoCoin ==
  ASSUME IInv, Types, NEW t \in TxIds, ~IsCoin(tx[t].form), FromSource(tx[t]),
         SameDeal(tx[t], tx'[t]), UNCHANGED <<account, available>>
  PROVE  PostsCoin(t)
<1>1. /\ tx[t].source = NoVA /\ tx'[t].source = NoVA
      /\ RecipientVA(tx[t]) = NoVA /\ RecipientVA(tx'[t]) = NoVA
  BY DEF FromSource, SameDeal, RecipientVA
<1>2. ASSUME NEW u \in Users, NEW pool \in Pools(u)
      PROVE  \E n \in Int :
               /\ SumFunctionOnSet(account', pool) = SumFunctionOnSet(account, pool) + n
               /\ SumFunctionOnSet(available', pool) = SumFunctionOnSet(available, pool) + n
               /\ CoinOf(t, pool)' = CoinOf(t, pool) + n
  <2>1. NoVA \notin pool
    BY <1>2, PoolTyped
  <2>2. CoinOf(t, pool) = 0 /\ CoinOf(t, pool)' = 0
    BY <1>1, <2>1 DEF CoinOf
  <2>3. /\ SumFunctionOnSet(account, pool) \in Int
        /\ SumFunctionOnSet(available, pool) \in Int
    BY <1>2, PoolSums
  <2> WITNESS 0 \in Int
  <2> QED BY <2>2, <2>3
<1>3. \A u \in Users : (Pools(u))' = Pools(u)
  BY DEF Pools
<1> QED BY <1>2, <1>3 DEF PostsCoin

LEMMA CoinIsNoMoney ==
  ASSUME IInv, Types, NEW t \in TxIds, IsCoin(tx[t].form), UNCHANGED <<tx, wallet>>
  PROVE  PostsMoney(t)
<1> SUFFICES ASSUME NEW w \in Users \X Fiats
             PROVE  \E n \in Int : /\ wallet'[w] = wallet[w] + n
                                   /\ MoneyOf(t, w)' = MoneyOf(t, w) + n
  BY DEF PostsMoney
<1>1. Sender(tx[t]) # w /\ Receiver(tx[t]) # w
  BY DEF Sender, Receiver, IsCoin
<1>2. MoneyOf(t, w) = 0 /\ MoneyOf(t, w)' = 0
  BY <1>1 DEF MoneyOf
<1>3. wallet[w] \in Int
  BY DEF Types, Tables
<1> WITNESS 0 \in Int
<1> QED BY <1>2, <1>3

\* A payout is debited, or given back.
LEMMA PayoutBooks ==
  ASSUME IInv, Types, Serial, Books, DebitPayout(Lead) \/ SettleFlutterwave(Lead)
  PROVE  Books'
<1>0. PICK t \in TxIds : t = req[Lead].t
  BY FinalRow
<1>1. /\ req[Lead].row = tx[t] /\ SameDeal(tx[t], tx'[t])
      /\ tx'[t].status # "none" /\ Leaves(tx'[t]) /\ FromSource(tx[t])
      /\ \A k \in TxIds \ {t} : Rests(k) /\ Stays(k)
      /\ ~Debiting(req[Lead], t) /\ ~Debiting(req'[Lead], t)
      /\ UNCHANGED <<credited, account, available>>
      /\ tx[t].form.channel \in Payouts /\ tx[t] \in TxRow
  BY <1>0, FinalRow
<1>2. /\ ~IsCoin(tx[t].form) /\ Sender(tx[t]) \in Users \X Fiats /\ Total(tx[t]) \in Int
      /\ tx[t].form.amount \in Int /\ wallet \in [Users \X Fiats -> Int]
  <2>1. tx[t].form \in Forms
    BY <1>1 DEF TxRow
  <2> DEFINE f == tx[t].form
  <2>2. f \in Forms /\ f.channel \in Payouts
    BY <1>1, <2>1
  <2> HIDE DEF f
  <2>3. f.currency \in Fiats
    BY <2>2, FormAssumption
  <2>4. ~IsCoin(tx[t].form)
    BY <2>3 DEF IsCoin, f
  <2> QED BY <1>1, <2>4, FormTyped DEF Types, Tables
<1> DEFINE from == Sender(tx[t])
           n    == Total(tx[t])
           sent == IF t \in credited /\ Receiver(tx[t]) = from THEN tx[t].form.amount ELSE 0
<1>3. /\ Sender(tx'[t]) = Sender(tx[t]) /\ Receiver(tx'[t]) = Receiver(tx[t])
      /\ Total(tx'[t]) = Total(tx[t]) /\ tx'[t].form = tx[t].form
  BY <1>1 DEF SameDeal, Sender, Receiver, Total
<1>4. /\ Gone(tx[t], req[Lead], t) <=> Taken(tx[t])
      /\ Gone(tx'[t], req'[Lead], t) <=> Taken(tx'[t])
  BY <1>1 DEF Gone, Debiting
<1>5. ASSUME NEW m \in Int, wallet' = [wallet EXCEPT ![from] = @ + m],
             (IF Taken(tx'[t]) THEN n ELSE 0) = (IF Taken(tx[t]) THEN n ELSE 0) - m
               \/ tx[t].form.channel = "bank_account"
      PROVE  PostsMoney(t)
  <2> SUFFICES ASSUME NEW w \in Users \X Fiats, NoBank(w)'
               PROVE  \E k \in Int : /\ wallet'[w] = wallet[w] + k
                                     /\ MoneyOf(t, w)' = MoneyOf(t, w) + k
    BY DEF PostsMoney
  <2>1. CASE w = from
    <3>1. tx[t].form.channel # "bank_account"
      BY <1>1, <1>3, <2>1 DEF NoBank
    <3>2. wallet'[w] = wallet[w] + m
      BY <1>2, <1>5, <2>1
    <3>3. MoneyOf(t, w) = sent - (IF Taken(tx[t]) THEN n ELSE 0)
      BY <1>4, <2>1 DEF MoneyOf
    <3>4. MoneyOf(t, w)' = sent - (IF Taken(tx'[t]) THEN n ELSE 0)
      BY <1>1, <1>3, <1>4, <2>1 DEF MoneyOf
    <3>5. sent \in Int /\ n \in Int
      BY <1>2
    <3> HIDE DEF sent, n, from
    <3>6. MoneyOf(t, w)' = MoneyOf(t, w) + m
      BY <1>5, <3>1, <3>3, <3>4, <3>5
    <3> QED BY <1>5, <3>2, <3>6
  <2>2. CASE w # from
    <3>1. wallet'[w] = wallet[w] + 0
      BY <1>2, <1>5, <2>2
    <3>2. MoneyOf(t, w)' = MoneyOf(t, w)
      BY <1>1, <1>3, <2>2 DEF MoneyOf
    <3>3. MoneyOf(t, w) \in Int
      BY MovesTyped
    <3> QED BY <3>1, <3>2, <3>3
  <2> QED BY <2>1, <2>2
<1>6. ASSUME DebitPayout(Lead) PROVE PostsMoney(t)
  <2>1. wallet' = [wallet EXCEPT ![from] = @ - n] /\ req[Lead].pc = "debit"
    BY <1>1, <1>6 DEF DebitPayout, At
  <2>2. /\ tx'[t].debited /\ tx'[t].refunded = tx[t].refunded /\ tx[t].status = "pending"
    BY <1>0, <1>1, <2>1, LeadKnows DEF Leaves, Told, Reads
  <2>3. tx[t].form.channel = "mobile_money" => ~tx[t].debited /\ ~tx[t].refunded
    BY <1>1, <2>2 DEF Serial, RowFits
  <2>4. tx[t].form.channel = "mobile_money" => Taken(tx'[t]) /\ ~Taken(tx[t])
    BY <2>2, <2>3 DEF Taken
  <2>5. tx[t].form.channel \in {"mobile_money", "bank_account"}
    BY <1>1 DEF Payouts
  <2>6. PICK m \in Int : m = -n /\ n \in Int
    BY <1>2
  <2>7. wallet[from] \in Int
    BY <1>2
  <2> HIDE DEF n, from
  <2>8. wallet[from] - n = wallet[from] + m
    BY <2>6, <2>7
  <2>9. wallet' = [wallet EXCEPT ![from] = @ + m]
    BY <2>1, <2>8
  <2>10. \/ (IF Taken(tx'[t]) THEN n ELSE 0) = (IF Taken(tx[t]) THEN n ELSE 0) - m
         \/ tx[t].form.channel = "bank_account"
    BY <2>4, <2>5, <2>6
  <2> QED BY <1>5, <2>6, <2>9, <2>10
<1>7. ASSUME SettleFlutterwave(Lead) PROVE PostsMoney(t)
  <2> DEFINE over == payout[t] # "completed"
             back == over /\ tx[t].debited /\ ~tx[t].refunded
  <2>1. /\ wallet' = IF back THEN [wallet EXCEPT ![from] = @ + n] ELSE wallet
        /\ req[Lead].pc = "flutterwave"
    BY <1>0, <1>1, <1>7 DEF SettleFlutterwave, At
  <2>2. /\ tx'[t].debited = tx[t].debited
        /\ tx'[t].refunded = IF over THEN tx[t].debited ELSE tx[t].refunded
    BY <1>0, <1>1, <2>1 DEF Leaves
  <2>3. ASSUME back PROVE PostsMoney(t)
    <3>1. Taken(tx[t]) /\ ~Taken(tx'[t])
      BY <2>2, <2>3 DEF Taken
    <3>2. wallet' = [wallet EXCEPT ![from] = @ + n] /\ n \in Int
      BY <1>2, <2>1, <2>3
    <3> HIDE DEF n, from
    <3>3. (IF Taken(tx'[t]) THEN n ELSE 0) = (IF Taken(tx[t]) THEN n ELSE 0) - n
      BY <3>1, <3>2
    <3> QED BY <1>5, <3>2, <3>3
  <2>4. ASSUME ~back PROVE PostsMoney(t)
    <3>1. Taken(tx[t]) <=> Taken(tx'[t])
      BY <2>2, <2>4 DEF Taken
    <3>2. wallet' = wallet /\ n \in Int /\ wallet[from] \in Int
      BY <1>2, <2>1, <2>4
    <3> HIDE DEF n, from
    <3>3. PICK m \in Int : m = 0
      OBVIOUS
    <3>4. wallet' = [wallet EXCEPT ![from] = @ + m]
      BY <1>2, <3>2, <3>3
    <3>5. (IF Taken(tx'[t]) THEN n ELSE 0) = (IF Taken(tx[t]) THEN n ELSE 0) - m
      BY <3>1, <3>2, <3>3
    <3> QED BY <1>5, <3>3, <3>4, <3>5
  <2>5. PostsMoney(t)
    BY <2>3, <2>4
  <2> QED BY <2>5
<1>8. PostsCoin(t)
  BY <1>1, <1>2, MoneyIsNoCoin
<1>9. \A k \in TxIds : Stays(k)
  BY <1>1 DEF Stays
<1> HIDE DEF n, from, sent
<1>10. PostsMoney(t)
  BY <1>6, <1>7
<1> QED BY <1>1, <1>8, <1>9, <1>10, PostsKeep

\* A step of the request that moves the money of a completed transfer: the row is what the
\* request has read, and whether it was credited and debited before and after.
LEMMA MovingRow ==
  ASSUME IInv, Types, Serial,
         \/ DebitFiat(Lead) \/ DebitCoin(Lead) \/ CreditFiat(Lead) \/ CreditCoin(Lead)
  PROVE  \E t \in TxIds :
           /\ t = req[Lead].t /\ SameDeal(req[Lead].row, tx[t]) /\ FromSource(tx[t])
           /\ Taken(tx[t]) /\ t \notin credited /\ UNCHANGED tx
           /\ tx[t].form.amount \in Int /\ Total(tx[t]) \in Int
           /\ \A k \in TxIds \ {t} : Rests(k)
           /\ \A k \in TxIds : Stays(k)
           /\ Gone(tx[t], req'[Lead], t)
           /\ Gone(tx[t], req[Lead], t) <=> req[Lead].pc \in {"creditFiat", "creditCoin"}
           /\ t \in credited' <=> req[Lead].pc \in {"creditFiat", "creditCoin"}
           /\ Figures(req[Lead], account, available, wallet)
<1>0. /\ req[Lead].pc \in {"debitFiat", "debitCoin", "creditFiat", "creditCoin"}
      /\ req[Lead].pc \in Moving
      /\ UNCHANGED tx
  BY DEF DebitFiat, DebitCoin, CreditFiat, CreditCoin, At, Moving
<1>1. PICK t \in TxIds : t = req[Lead].t
  BY <1>0, MovingTyped
<1>2. /\ SameDeal(req[Lead].row, tx[t]) /\ Figures(req[Lead], account, available, wallet)
      /\ tx[t].status = "completed" /\ tx[t].debited
      /\ req[Lead].row.form.channel \notin Payouts /\ tx[t] \in TxRow
  BY <1>0, <1>1, MovingTyped, RowTypes
<1>3. tx[t].form.channel = "rhionx_user"
  <2> DEFINE f == tx[t].form
  <2>1. f \in Forms /\ f.channel \notin Payouts
    BY <1>2 DEF TxRow, SameDeal
  <2> HIDE DEF f
  <2>2. f.channel = "rhionx_user"
    BY <2>1, FormAssumption
  <2> QED BY <2>2 DEF f
<1>4. /\ FromSource(tx[t]) /\ Taken(tx[t]) /\ t \notin credited
  <2>1. RowFits(tx[t], payout[t], t \in credited, req[Lead], t)
    BY DEF Serial
  <2> QED BY <1>0, <1>1, <1>2, <1>3, <2>1 DEF RowFits, Taken, Doing
<1>5. /\ \/ req'[Lead].pc = "recipient" /\ req'[Lead].t = t
         \/ req'[Lead].pc = "idle"
      /\ credited' = IF req[Lead].pc \in {"creditFiat", "creditCoin"} THEN credited \cup {t}
                     ELSE credited
  <2>1. CASE DebitFiat(Lead) \/ DebitCoin(Lead)
    <3>1. /\ Goto(Lead, "recipient") /\ UNCHANGED credited
          /\ req[Lead].pc \in {"debitFiat", "debitCoin"}
      BY <2>1 DEF DebitFiat, DebitCoin, At
    <3> QED BY <1>1, <3>1, LeadAfter DEF Goto, Onward
  <2>2. CASE CreditFiat(Lead) \/ CreditCoin(Lead)
    <3>1. /\ Finish(Lead) /\ credited' = credited \cup {t}
          /\ req[Lead].pc \in {"creditFiat", "creditCoin"}
      BY <1>1, <2>2 DEF CreditFiat, CreditCoin, At
    <3> QED BY <3>1, LeadAfter
  <2> QED BY <2>1, <2>2
<1>6. \A k \in TxIds \ {t} : Rests(k) /\ Stays(k)
  BY <1>0, <1>1, <1>5, OthersRest
<1>7. Stays(t)
  BY <1>0 DEF Stays, SameDeal
<1>8. /\ Gone(tx[t], req'[Lead], t)
      /\ Gone(tx[t], req[Lead], t) <=> req[Lead].pc \in {"creditFiat", "creditCoin"}
  BY <1>0, <1>1, <1>4, <1>5 DEF Gone, Doing
<1>9. tx[t].form.amount \in Int /\ Total(tx[t]) \in Int
  BY <1>2, FormTyped
<1> QED BY <1>0, <1>1, <1>2, <1>4, <1>5, <1>6, <1>7, <1>8, <1>9

\* Money goes from the sender's wallet to the recipient's.
LEMMA FiatBooks ==
  ASSUME IInv, Types, Serial, Books, DebitFiat(Lead) \/ CreditFiat(Lead)
  PROVE  Books'
<1> DEFINE q == req[Lead]
<1>1. PICK t \in TxIds :
        /\ t = q.t /\ SameDeal(q.row, tx[t]) /\ FromSource(tx[t]) /\ t \notin credited
        /\ UNCHANGED tx /\ tx[t].form.amount \in Int /\ Total(tx[t]) \in Int
        /\ \A k \in TxIds \ {t} : Rests(k)
        /\ \A k \in TxIds : Stays(k)
        /\ Gone(tx[t], req'[Lead], t)
        /\ Gone(tx[t], q, t) <=> q.pc \in {"creditFiat", "creditCoin"}
        /\ t \in credited' <=> q.pc \in {"creditFiat", "creditCoin"}
        /\ Figures(q, account, available, wallet)
  BY MovingRow
<1>2. /\ q.pc \in {"debitFiat", "creditFiat"} /\ UNCHANGED <<account, available>>
      /\ q.pc \in Moving
  BY DEF DebitFiat, CreditFiat, At, Moving
<1>3. /\ ~IsCoin(tx[t].form) /\ Sender(q.row) = Sender(tx[t])
      /\ Receiver(q.row) = Receiver(tx[t]) /\ Total(q.row) = Total(tx[t])
      /\ q.row.form.amount = tx[t].form.amount
      /\ Sender(tx[t]) \in Users \X Fiats /\ Receiver(tx[t]) \in Users \X Fiats
  <2>1. ~IsCoin(q.row.form)
    BY <1>1, <1>2 DEF Figures, FiatFigures
  <2>2. Sender(q.row) \in Users \X Fiats /\ Receiver(q.row) \in Users \X Fiats
    BY <1>2, <2>1, MovingTyped
  <2> QED BY <1>1, <2>1, <2>2 DEF SameDeal, Sender, Receiver, Total
<1>4. PostsCoin(t)
  <2>1. SameDeal(tx[t], tx'[t])
    BY <1>1 DEF SameDeal
  <2> QED BY <1>1, <1>2, <1>3, <2>1, MoneyIsNoCoin
<1>5. wallet \in [Users \X Fiats -> Int]
  BY DEF Types, Tables
<1>6. ASSUME DebitFiat(Lead) PROVE PostsMoney(t)
  <2> PICK n \in Int : n = Total(tx[t])
    BY <1>1
  <2> PICK from \in Users \X Fiats : from = Sender(tx[t])
    BY <1>3
  <2>1. wallet' = [wallet EXCEPT ![from] = q.x - n] /\ q.pc = "debitFiat"
    BY <1>3, <1>6 DEF DebitFiat, At
  <2>2. q.x = wallet[from]
    BY <1>1, <1>3, <2>1 DEF Figures, FiatFigures
  <2>3. ASSUME NEW w \in Users \X Fiats
        PROVE  \E m \in Int : wallet'[w] = wallet[w] + m /\ MoneyOf(t, w)' = MoneyOf(t, w) + m
    <3>1. /\ MoneyOf(t, w) = 0
          /\ MoneyOf(t, w)' = 0 - (IF from = w THEN n ELSE 0)
      BY <1>1, <2>1 DEF MoneyOf
    <3>2. PICK m \in Int : m = 0 - (IF from = w THEN n ELSE 0)
      OBVIOUS
    <3>3. wallet'[w] = wallet[w] + m
      BY <1>5, <2>1, <2>2, <3>2
    <3> QED BY <3>1, <3>2, <3>3
  <2> QED BY <2>3 DEF PostsMoney
<1>7. ASSUME CreditFiat(Lead) PROVE PostsMoney(t)
  <2> PICK n \in Int : n = tx[t].form.amount
    BY <1>1
  <2> PICK to \in Users \X Fiats : to = Receiver(tx[t])
    BY <1>3
  <2>1. wallet' = [wallet EXCEPT ![to] = q.x + n] /\ q.pc = "creditFiat"
    BY <1>3, <1>7 DEF CreditFiat, At
  <2>2. q.x = wallet[to]
    BY <1>1, <1>3, <2>1 DEF Figures, FiatFigures
  <2>3. ASSUME NEW w \in Users \X Fiats
        PROVE  \E m \in Int : wallet'[w] = wallet[w] + m /\ MoneyOf(t, w)' = MoneyOf(t, w) + m
    <3> PICK gone \in Int : gone = IF Sender(tx[t]) = w THEN Total(tx[t]) ELSE 0
      BY <1>1
    <3>1. /\ MoneyOf(t, w) = 0 - gone
          /\ MoneyOf(t, w)' = (IF to = w THEN n ELSE 0) - gone
      BY <1>1, <2>1 DEF MoneyOf
    <3>2. PICK m \in Int : m = IF to = w THEN n ELSE 0
      OBVIOUS
    <3>3. wallet'[w] = wallet[w] + m
      BY <1>5, <2>1, <2>2, <3>2
    <3> QED BY <3>1, <3>2, <3>3
  <2> QED BY <2>3 DEF PostsMoney
<1>8. PostsMoney(t)
  BY <1>6, <1>7
<1> QED BY <1>1, <1>4, <1>8, PostsKeep

\* A coin goes from the sender's account to the recipient's.
LEMMA CoinBooks ==
  ASSUME IInv, Types, Serial, Books, DebitCoin(Lead) \/ CreditCoin(Lead)
  PROVE  Books'
<1> DEFINE q == req[Lead]
<1>1. PICK t \in TxIds :
        /\ t = q.t /\ SameDeal(q.row, tx[t]) /\ t \notin credited
        /\ UNCHANGED tx /\ tx[t].form.amount \in Int /\ Total(tx[t]) \in Int
        /\ \A k \in TxIds \ {t} : Rests(k)
        /\ \A k \in TxIds : Stays(k)
        /\ Gone(tx[t], req'[Lead], t)
        /\ Gone(tx[t], q, t) <=> q.pc \in {"creditFiat", "creditCoin"}
        /\ t \in credited' <=> q.pc \in {"creditFiat", "creditCoin"}
        /\ Figures(q, account, available, wallet)
  BY MovingRow
<1>2. /\ q.pc \in {"debitCoin", "creditCoin"} /\ UNCHANGED wallet /\ q.pc \in Moving
  BY DEF DebitCoin, CreditCoin, At, Moving
<1>3. /\ IsCoin(tx[t].form) /\ q.row.source = tx[t].source /\ q.row.source \in VAs
      /\ RecipientVA(q.row) = RecipientVA(tx[t]) /\ Total(q.row) = Total(tx[t])
      /\ q.row.form.amount = tx[t].form.amount
  <2>1. IsCoin(q.row.form)
    BY <1>1, <1>2 DEF Figures, CoinFigures
  <2>2. q.row.source \in VAs
    BY <1>2, <2>1, MovingTyped
  <2> QED BY <1>1, <2>1, <2>2 DEF SameDeal, RecipientVA, Total
<1>4. PostsMoney(t)
  BY <1>1, <1>2, <1>3, CoinIsNoMoney
<1>5. account \in [VAs -> Int] /\ available \in [VAs -> Int]
  BY DEF Types, Tables
<1>6. ASSUME NEW va, NEW n,
             Raised(account, account', va, n), Raised(available, available', va, n),
             \A pool : CoinOf(t, pool)' = CoinOf(t, pool) + InPool(pool, va, n)
      PROVE  PostsCoin(t)
  <2>1. ASSUME NEW u \in Users, NEW pool \in Pools(u)
        PROVE  \E m \in Int :
                 /\ SumFunctionOnSet(account', pool) = SumFunctionOnSet(account, pool) + m
                 /\ SumFunctionOnSet(available', pool) = SumFunctionOnSet(available, pool) + m
                 /\ CoinOf(t, pool)' = CoinOf(t, pool) + m
    <3>1. InPool(pool, va, n) \in Int
      BY <1>6 DEF Raised, InPool
    <3>2. pool \in SUBSET VAs
      BY <2>1, PoolTyped
    <3>3. /\ SumFunctionOnSet(account', pool)
               = SumFunctionOnSet(account, pool) + InPool(pool, va, n)
          /\ SumFunctionOnSet(available', pool)
               = SumFunctionOnSet(available, pool) + InPool(pool, va, n)
      BY <1>6, <3>2, PoolRises
    <3> QED BY <1>6, <3>1, <3>3
  <2>2. \A u \in Users : (Pools(u))' = Pools(u)
    BY DEF Pools
  <2> QED BY <2>1, <2>2 DEF PostsCoin
<1>7. ASSUME DebitCoin(Lead) PROVE PostsCoin(t)
  <2> PICK n \in Int : n = Total(tx[t])
    BY <1>1
  <2> PICK va \in VAs : va = tx[t].source
    BY <1>3
  <2>1. /\ account' = [account EXCEPT ![va] = q.x - n]
        /\ available' = [available EXCEPT ![va] = q.y - n] /\ q.pc = "debitCoin"
    BY <1>3, <1>7 DEF DebitCoin, At
  <2>2. q.x = account[va] /\ q.y = available[va]
    BY <1>1, <1>3, <2>1 DEF Figures, CoinFigures
  <2>3. PICK m \in Int : m = 0 - n
    OBVIOUS
  <2>4. account[va] - n = account[va] + m /\ available[va] - n = available[va] + m
    BY <1>5, <2>3
  <2>5. Raised(account, account', va, m) /\ Raised(available, available', va, m)
    BY <1>5, <2>1, <2>2, <2>4 DEF Raised
  <2>6. ASSUME NEW pool
        PROVE  CoinOf(t, pool)' = CoinOf(t, pool) + InPool(pool, va, m)
    <3>1. CoinOf(t, pool) = 0 /\ CoinOf(t, pool)' = 0 - (IF va \in pool THEN n ELSE 0)
      BY <1>1, <2>1 DEF CoinOf
    <3> QED BY <2>3, <3>1 DEF InPool
  <2> QED BY <1>6, <2>5, <2>6
<1>8. ASSUME CreditCoin(Lead) PROVE PostsCoin(t)
  <2> PICK n \in Int : n = tx[t].form.amount
    BY <1>1
  <2>0. RecipientVA(tx[t]) \in VAs
    <3>1. RecipientVA(q.row) # NoVA
      BY <1>1, <1>8 DEF CreditCoin, At, Figures, CoinFigures
    <3> QED BY <1>3, <3>1, RecipientTyped
  <2> PICK va \in VAs : va = RecipientVA(tx[t])
    BY <2>0
  <2>1. /\ account' = [account EXCEPT ![va] = q.x + n]
        /\ available' = [available EXCEPT ![va] = q.y + n] /\ q.pc = "creditCoin"
    BY <1>3, <1>8 DEF CreditCoin, At
  <2>2. q.x = account[va] /\ q.y = available[va]
    BY <1>1, <1>3, <2>1 DEF Figures, CoinFigures
  <2>3. Raised(account, account', va, n) /\ Raised(available, available', va, n)
    BY <1>5, <2>1, <2>2 DEF Raised
  <2>4. ASSUME NEW pool
        PROVE  CoinOf(t, pool)' = CoinOf(t, pool) + InPool(pool, va, n)
    <3> PICK gone \in Int : gone = IF tx[t].source \in pool THEN Total(tx[t]) ELSE 0
      BY <1>1
    <3>1. /\ CoinOf(t, pool) = 0 - gone
          /\ CoinOf(t, pool)' = (IF va \in pool THEN n ELSE 0) - gone
      BY <1>1, <2>1 DEF CoinOf, RecipientVA
    <3> QED BY <3>1 DEF InPool
  <2> QED BY <1>6, <2>3, <2>4
<1>9. PostsCoin(t)
  BY <1>7, <1>8
<1> QED BY <1>1, <1>4, <1>9, PostsKeep

\* In turn, the books follow at every step.
LEMMA TurnBooks ==
  ASSUME IInv, Types, Serial, Books, Turn
  PROVE  Books'
<1>1. CASE InitiateTransfer
  BY <1>1, NewBooks
<1>2. CASE \/ \E t \in TxIds : PayoutEnds(t) \/ Notice(Lead, t)
           \/ StartVerify(Lead) \/ StartReceipt(Lead)
  BY <1>2, ReadingBooks
<1>3. CASE Advance(Lead)
  BY <1>3, ReadingBooks, GatheringBooks, CompletionBooks, FinalBooks, PayoutBooks, FiatBooks,
     CoinBooks DEF Advance
<1> QED BY <1>1, <1>2, <1>3 DEF Turn

-----------------------------------------------------------------------------
(* The theorem                                                             *)

\* At first nothing is asked for, and no balance is below zero.
LEMMA SerialInit ==
  ASSUME Init
  PROVE  Serial /\ Books
<1>1. ASSUME NEW t \in TxIds PROVE tx[t] = BlankRow
  BY DEF Init
<1>2. BlankRow.status = "none" /\ ~BlankRow.debited /\ ~BlankRow.refunded
  <2> DEFINE r == Pending(CHOOSE f \in Forms : TRUE, 0, NoVA)
  <2>1. BlankRow = [r EXCEPT !.status = "none"]
    BY DEF BlankRow
  <2>2. /\ [r EXCEPT !.status = "none"].status = "none"
        /\ ~[r EXCEPT !.status = "none"].debited /\ ~[r EXCEPT !.status = "none"].refunded
    BY DEF Pending
  <2> HIDE DEF r
  <2> QED BY <2>1, <2>2
<1>3. /\ \A p \in Requests : req[p] = Idle
      /\ req[Lead].pc = "idle" /\ credited = {} /\ \A t \in TxIds : payout[t] = "none"
      /\ account = InitAccount /\ available = InitAccount /\ wallet = InitWallet
  BY LeadIsRequest DEF Init, Idle, Locals
<1>4. Serial
  <2>1. \A t \in TxIds : RowFits(tx[t], payout[t], t \in credited, req[Lead], t)
    BY <1>1, <1>2, <1>3 DEF RowFits, Doing, Taken
  <2>2. CoinFigures(req[Lead], account, available) /\ FiatFigures(req[Lead], wallet)
    BY <1>3 DEF CoinFigures, FiatFigures
  <2>3. NoOverdraft
    BY <1>3, FormAssumption DEF NoOverdraft
  <2> QED BY <1>3, <2>1, <2>2, <2>3 DEF Serial, Others
<1>5. ASSUME NEW t \in TxIds
      PROVE  (\A w : MoneyOf(t, w) = 0) /\ (\A pool : CoinOf(t, pool) = 0)
  BY <1>1, <1>2, <1>3 DEF MoneyOf, CoinOf, Gone, Taken
<1>6. IsFiniteSet(TxIds)
  BY FormAssumption
<1>7. ASSUME NEW w \in Users \X Fiats
      PROVE  wallet[w] = InitWallet[w] + SumFunctionOnSet(Moneys(w), TxIds)
  <2>1. \A t \in TxIds : Moneys(w)[t] = 0
    BY <1>5 DEF Moneys
  <2>2. SumFunctionOnSet(Moneys(w), TxIds) = 0
    BY <1>6, <2>1, SumOfZeros
  <2>3. InitWallet[w] \in Int
    BY FormAssumption
  <2> QED BY <1>3, <2>2, <2>3
<1>8. ASSUME NEW u \in Users, NEW pool \in Pools(u)
      PROVE  SumFunctionOnSet(InitAccount, pool)
               = SumFunctionOnSet(InitAccount, pool) + SumFunctionOnSet(Coinage(pool), TxIds)
  <2>1. \A t \in TxIds : Coinage(pool)[t] = 0
    BY <1>5 DEF Coinage
  <2>2. SumFunctionOnSet(Coinage(pool), TxIds) = 0
    BY <1>6, <2>1, SumOfZeros
  <2>3. SumFunctionOnSet(InitAccount, pool) \in Int
    <3>1. IsFiniteSet(pool) /\ \A va \in pool : InitAccount[va] \in Int
      BY <1>8, PoolTyped, FormAssumption
    <3> QED BY <3>1, SumType
  <2> QED BY <2>2, <2>3
<1> QED BY <1>3, <1>4, <1>7, <1>8 DEF Books

\* When all is quiet, what has been moved is what the rows say.
LEMMA QuietBooks ==
  ASSUME IInv, Types, Books
  PROVE  BooksBalance
<1> SUFFICES ASSUME Quiet PROVE BooksBalance
  BY DEF BooksBalance
<1> DEFINE worth == [t \in TxIds |-> tx[t].form.amount]
           price == [t \in TxIds |-> Total(tx[t])]
<1>1. \A t \in TxIds : Gone(tx[t], req[Lead], t) <=> Taken(tx[t])
  BY LeadIsRequest DEF Quiet, At, Gone, Doing
<1>2. \A t \in TxIds : worth[t] \in Int /\ price[t] \in Int
  BY RowTypes, FormTyped
<1>3. IsFiniteSet(TxIds) /\ credited \subseteq TxIds
  BY FormAssumption DEF Types, Tables
<1>4. ASSUME NEW w \in Users \X Fiats, NoBank(w)
      PROVE  wallet[w] = InitWallet[w]
               + Brought({t \in credited : Receiver(tx[t]) = w})
               - Cost({t \in TxIds : Taken(tx[t]) /\ Sender(tx[t]) = w})
  <2> DEFINE A == {t \in credited : Receiver(tx[t]) = w}
             B == {t \in TxIds : Taken(tx[t]) /\ Sender(tx[t]) = w}
  <2>1. A \in SUBSET TxIds /\ B \in SUBSET TxIds
    BY <1>3
  <2>2. Splits(TxIds, Moneys(w), worth, price, A, B)
    BY <1>1, <1>2 DEF Splits, Moneys, MoneyOf
  <2>3. wallet[w] = InitWallet[w] + SumFunctionOnSet(Moneys(w), TxIds)
    BY <1>4 DEF Books
  <2>4. InitWallet[w] \in Int
    BY FormAssumption
  <2>5. Brought(A) = SumFunctionOnSet(worth, A) /\ Cost(B) = SumFunctionOnSet(price, B)
    BY DEF Brought, Cost
  <2> HIDE DEF worth, price, A, B
  <2>6. /\ SumFunctionOnSet(worth, A) \in Int /\ SumFunctionOnSet(price, B) \in Int
        /\ SumFunctionOnSet(Moneys(w), TxIds)
             = SumFunctionOnSet(worth, A) - SumFunctionOnSet(price, B)
    BY <1>3, <2>1, <2>2, SumOfTwo
  <2>7. wallet[w] = InitWallet[w] + Brought(A) - Cost(B)
    BY <2>3, <2>4, <2>5, <2>6
  <2> QED BY <2>7 DEF A, B
<1>5. ASSUME NEW u \in Users, NEW pool \in Pools(u)
      PROVE  LET gained == Brought({t \in credited : RecipientVA(tx[t]) \in pool})
                 gone   == Cost({t \in TxIds : Taken(tx[t]) /\ tx[t].source \in pool})
                 then   == SumFunctionOnSet(InitAccount, pool) + gained - gone
             IN  /\ SumFunctionOnSet(account, pool) = then
                 /\ SumFunctionOnSet(available, pool) = then
  <2> DEFINE A == {t \in credited : RecipientVA(tx[t]) \in pool}
             B == {t \in TxIds : Taken(tx[t]) /\ tx[t].source \in pool}
             first == SumFunctionOnSet(InitAccount, pool)
  <2>1. A \in SUBSET TxIds /\ B \in SUBSET TxIds
    BY <1>3
  <2>2. Splits(TxIds, Coinage(pool), worth, price, A, B)
    BY <1>1, <1>2 DEF Splits, Coinage, CoinOf
  <2>3. /\ SumFunctionOnSet(account, pool) = first + SumFunctionOnSet(Coinage(pool), TxIds)
        /\ SumFunctionOnSet(available, pool) = first + SumFunctionOnSet(Coinage(pool), TxIds)
    BY <1>5 DEF Books
  <2>4. first \in Int
    <3>1. IsFiniteSet(pool) /\ \A va \in pool : InitAccount[va] \in Int
      BY <1>5, PoolTyped, FormAssumption
    <3> QED BY <3>1, SumType
  <2>5. Brought(A) = SumFunctionOnSet(worth, A) /\ Cost(B) = SumFunctionOnSet(price, B)
    BY DEF Brought, Cost
  <2> HIDE DEF worth, price, A, B, first
  <2>6. /\ SumFunctionOnSet(worth, A) \in Int /\ SumFunctionOnSet(price, B) \in Int
        /\ SumFunctionOnSet(Coinage(pool), TxIds)
             = SumFunctionOnSet(worth, A) - SumFunctionOnSet(price, B)
    BY <1>3, <2>1, <2>2, SumOfTwo
  <2>7. /\ SumFunctionOnSet(account, pool) = first + Brought(A) - Cost(B)
        /\ SumFunctionOnSet(available, pool) = first + Brought(A) - Cost(B)
    BY <2>3, <2>4, <2>5, <2>6
  <2> QED BY <2>7 DEF A, B, first
<1> HIDE DEF worth, price
<1> QED BY <1>4, <1>5 DEF BooksBalance, NoBank

\* When all is quiet, every transfer that has ended is settled.
LEMMA QuietSettled ==
  ASSUME IInv, Serial
  PROVE  Settled
<1> SUFFICES ASSUME Quiet, NEW t \in TxIds
             PROVE  LET row == tx[t]
                    IN  /\ row.form.channel = "mobile_money"
                             /\ row.status \in {"failed", "cancelled"} => ~Taken(row)
                        /\ payout[t] # "none" => row.debited
                        /\ /\ row.form.channel = "rhionx_user" /\ row.status = "completed"
                           /\ IsCoin(row.form) => RecipientVA(row) # NoVA
                           => t \in credited
  BY DEF Settled
<1>1. ~Doing(req[Lead], Moving, t) /\ ~Doing(req[Lead], {"debit"}, t)
  BY LeadIsRequest DEF Quiet, At, Doing, Moving
<1>2. RowFits(tx[t], payout[t], t \in credited, req[Lead], t)
  BY DEF Serial
<1> QED BY <1>1, <1>2 DEF RowFits

\* What one request at a time keeps, whatever the forms and the balances are.
InTurn == IInv /\ Types /\ (serial => Serial /\ Books)

LEMMA InTurnStays == InTurn /\ [ModeNext]_<<vars, serial>> => InTurn'
<1> SUFFICES ASSUME InTurn, [ModeNext]_<<vars, serial>> PROVE InTurn'
  OBVIOUS
<1>1. CASE ModeNext
  <2>1. [Next]_vars
    <3>1. Turn => Next
      BY LeadIsRequest DEF Turn, Next
    <3> QED BY <1>1, <3>1 DEF ModeNext
  <2>2. IInv' /\ Types'
    BY <2>1, NextPreserves, TypesNext DEF InTurn
  <2>3. serial' = serial /\ (serial => Turn)
    BY <1>1 DEF ModeNext
  <2>4. serial => Serial' /\ Books'
    BY <2>3, TurnSerial, TurnBooks DEF InTurn
  <2> QED BY <2>2, <2>3, <2>4 DEF InTurn
<1>2. CASE UNCHANGED <<vars, serial>>
  <2>1. IInv' /\ Types'
    BY <1>2, NextPreserves, TypesNext DEF InTurn
  <2>2. UNCHANGED <<tx, credited, account, available, wallet, payout, req, lost>>
    BY <1>2 DEF vars
  <2>3. Serial => Serial'
    BY <2>2 DEF Serial, Others, RowFits, Reads, CoinFigures, FiatFigures, NoOverdraft
  <2>4. Books => Books'
    BY <2>2 DEF Books, NoBank, Moneys, MoneyOf, Coinage, CoinOf, Gone
  <2> QED BY <1>2, <2>1, <2>3, <2>4 DEF InTurn
<1> QED BY <1>1, <1>2

\* Transfers whose requests are served one after the other and lose nothing overdraw no
\* wallet and no coin; when all is quiet the ledgers are what the rows say, and every
\* transfer that has ended is settled.
THEOREM TransferBooksInTurn == ModeSpec => []SerialBooks
<1>1. ModeInit => InTurn
  BY InitEstablishes, TypesInit, SerialInit DEF ModeInit, InTurn
<1>2. InTurn => SerialBooks
  BY QuietBooks, QuietSettled DEF InTurn, SerialBooks, Serial
<1> QED BY <1>1, <1>2, InTurnStays, PTL DEF ModeSpec
=============================================================================
