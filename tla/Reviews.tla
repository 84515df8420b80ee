------------------------------ MODULE Reviews -------------------------------
(***************************************************************************)
(* The review of one completed order (modules/p2p-review).  Its author may *)
(* change or delete it for a day.  Each handler reads the row, decides,    *)
(* and writes it in a second query; only one row of an order can exist.    *)
(***************************************************************************)
EXTENDS Integers, TLC

CONSTANTS
  VendorId, UserId,
  Forms,       \* bound: what a review is made and changed with, the fields given
  Requests,    \* the handlers in progress at the same time
  MaxReviews   \* bound: the reviews ever made of the order

NoComment == "null"
NoReview == [id |-> 0]
Parties == {VendorId, UserId}

VARIABLES
  kind,       \* p2p_orders.type: whether the ad was one to buy or to sell
  status,     \* p2p_orders.status, as far as a review asks
  review,     \* the row of p2p_reviews
  made,       \* the last id given
  aged,       \* the review is more than 24 hours old
  req,        \* the locals of each handler in progress
  said,       \* history: the review as its author was answered that it is
  crossed,    \* history: two handlers were in progress at the same time
  kept        \* history: the review when its day ended, and as handlers that had
              \* started by then wrote it

vars == <<kind, status, review, made, aged, req, said, crossed, kept>>
Idle == [pc |-> "idle", row |-> NoReview, form |-> NoReview, inTime |-> FALSE]

Init ==
  /\ kind \in {"buy", "sell"} /\ status = "awaiting_coin_release"
  /\ review = NoReview /\ made = 0 /\ aged = FALSE
  /\ req = [p \in Requests |-> Idle]
  /\ said = NoReview /\ crossed = FALSE /\ kept = NoReview

At(p, step) == req[p].pc = step
Buyer == IF kind = "buy" THEN VendorId ELSE UserId
Start(p, step, form) ==
  /\ At(p, "idle")
  /\ req' = [req EXCEPT ![p] = [pc |-> step, row |-> review, form |-> form,
                                inTime |-> ~aged]]
  /\ UNCHANGED <<kind, status, review, made, aged, said, crossed, kept>>
\* The second query of a handler, which leaves the row, or fails where it is gone.
End(p, row, answer) ==
  /\ req' = [req EXCEPT ![p] = Idle]
  /\ crossed' = (crossed \/ \E q \in Requests \ {p} : ~At(q, "idle"))
  /\ IF review.id = req[p].row.id
     THEN /\ review' = row /\ said' = answer
          /\ kept' = IF req[p].inTime THEN row ELSE kept
     ELSE UNCHANGED <<review, said, kept>>
  /\ UNCHANGED <<kind, status>>

-----------------------------------------------------------------------------
Complete ==
  /\ status # "completed" /\ status' = "completed"
  /\ UNCHANGED <<kind, review, made, aged, req, said, crossed, kept>>
DayEnds ==
  /\ review # NoReview /\ ~aged /\ aged' = TRUE /\ kept' = review
  /\ UNCHANGED <<kind, status, review, made, req, said, crossed>>

\* Only the buyer leaves a review, and the vendor is the one reviewed: by himself, where
\* the ad was one to buy.  P2P_COMPLETE_IMPLEMENTATION_GUIDE.md says as much (943, 972)
\* and also that both parties can leave one (1034, 1132), which this refuses the seller.
CreateReview(p, user, form) ==
  /\ status = "completed" /\ user = Buyer /\ review = NoReview
  /\ "type" \in DOMAIN form /\ made < MaxReviews
  /\ Start(p, "insert", form @@ [by |-> user, of |-> VendorId, comment |-> NoComment])
Insert(p) ==
  LET row == [id |-> made + 1] @@ req[p].form
  IN  /\ At(p, "insert") /\ End(p, row, row)
      /\ IF review = NoReview THEN made' = made + 1 /\ aged' = FALSE
         ELSE UNCHANGED <<made, aged>>

Changeable(user) == review # NoReview /\ review.by = user /\ ~aged
UpdateReview(p, user, form) == Changeable(user) /\ Start(p, "update", form)
DeleteReview(p, user) == Changeable(user) /\ Start(p, "delete", NoReview)

\* What is not given is written back as it was read.
Update(p) ==
  /\ At(p, "update") /\ End(p, req[p].form @@ req[p].row, req[p].form @@ said)
  /\ UNCHANGED <<made, aged>>
Delete(p) ==
  /\ At(p, "delete") /\ End(p, NoReview, NoReview)
  /\ aged' = (aged /\ review' # NoReview) /\ UNCHANGED made

Next ==
  \/ Complete \/ DayEnds
  \/ \E p \in Requests, user \in Parties :
       \/ DeleteReview(p, user)
       \/ \E form \in Forms : CreateReview(p, user, form) \/ UpdateReview(p, user, form)
  \/ \E p \in Requests : Insert(p) \/ Update(p) \/ Delete(p)

Spec == Init /\ [][Next]_vars

-----------------------------------------------------------------------------
\* The review says what its author was last answered that it says, in every field,
\* unless two handlers were in progress at the same time.
ReviewAsSaid == ~crossed => review = said
\* Once its day has ended, a review is what it was then, or what a handler that had
\* started by then made of it.
ReviewIsKept == aged => review = kept
=============================================================================
