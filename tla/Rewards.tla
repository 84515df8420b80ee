------------------------------ MODULE Rewards ------------------------------
(***************************************************************************)
(* A user's rewards (modules/rewards): the tier that transactions and      *)
(* balance come to, the rules an administrator writes, the rows of         *)
(* user_rewards that a look at the dashboard adds for the rules the user   *)
(* meets, and the claims, which are completed at once or by a bill payment *)
(* (BillPayment has that payment).                                         *)
(*                                                                         *)
(* A handler is a process and its queries are steps; the queries of the    *)
(* dashboard that only read are one step.                                  *)
(***************************************************************************)
EXTENDS Integers, FiniteSets, Sequences

CONSTANTS
  Catalogue,   \* the rewards of REWARD_CATALOG
  Rules,       \* ids of rules
  Gift,        \* the tier and the kind of each reward of the catalogue
  Stats,       \* bound: what the user's transactions and balance (in cents) may be
  Requests,    \* the handlers in progress at the same time
  MaxChanges   \* bound: the rare events, which are handlers cut short, edits of a
               \* rule, and changes of what the user has done

Codes == Catalogue \cup Rules
Kinds == {"instant", "bill", "cashback"}
Tiers == <<"bronze", "silver", "gold">>
Needs == [done |-> <<0, 10, 50>>, cents |-> <<0, 100000, 500000>>]
NoCode == "no code"

VARIABLES
  stats,      \* completed transactions and the naira balance in cents of a dollar
  met,        \* the rules that the user's transactions reach
  rule,       \* reward_rules
  rows,       \* user_rewards: of each rule, the status of its rows, oldest first
  claim,      \* reward_claims, unique by user and code
  req,        \* the locals of each handler in progress
  given,      \* history: how many times each reward was given, counted to two
  crossed,    \* history: the codes that two handlers were working on, or one was
              \* lost with
  changes     \* how many rare events there were

vars == <<stats, met, rule, rows, claim, req, given, crossed, changes>>

Idle == [pc |-> "idle", goal |-> "look", code |-> NoCode, todo |-> {}, missing |-> NoCode]

Init ==
  /\ stats \in Stats /\ met \in SUBSET Rules
  /\ rule = [r \in Rules |-> [state |-> "none", kind |-> "instant"]]
  /\ rows = [r \in Rules |-> <<>>]
  /\ claim = [c \in Codes |-> "none"]
  /\ req = [p \in Requests |-> Idle]
  /\ given = [c \in Codes |-> 0]
  /\ crossed = {} /\ changes = 0

At(p, step) == req[p].pc = step
Goto(p, step) == req' = [req EXCEPT ![p].pc = step]
Finish(p) == req' = [req EXCEPT ![p] = Idle]
Code(p) == req[p].code
Kind(c) == IF c \in Rules THEN rule[c].kind ELSE Gift[c].kind
\* Enough transactions of the rule's service in its period.
EvaluateRule(r) == r \in met
Active == {r \in Rules : rule[r].state = "active"}

-----------------------------------------------------------------------------
(* The tier                                                                *)

Reaches(s, t) == s.done >= Needs.done[t] /\ s.cents >= Needs.cents[t]
ResolveCurrentTier(s) == IF Reaches(s, 3) THEN 3 ELSE IF Reaches(s, 2) THEN 2 ELSE 1
GetNextTier(t) == IF t = Len(Tiers) THEN {} ELSE {t + 1}
\* The criteria on the way to a tier: what the user has, and what it takes.
BuildCriteria(s, t) ==
  {[has |-> s.done, takes |-> Needs.done[t]], [has |-> s.cents, takes |-> Needs.cents[t]]}
\* The mean of the two shares, each at most 1, rounded to hundredths.
Share(has, takes) == IF has >= takes THEN 10000 ELSE (10000 * has) \div takes
ProgressTo(s, t) ==
  (Share(s.done, Needs.done[t]) + Share(s.cents, Needs.cents[t]) + 100) \div 200

-----------------------------------------------------------------------------
(* The dashboard                                                           *)

\* A reward as it is listed, by its claim and by a row of user_rewards, or "no row".
ListItem(c, row) ==
  LET status == CASE row = "claimed" -> "completed"
                  [] claim[c] = "none" /\ row = "pending" -> "pending"
                  [] OTHER -> claim[c]
  IN [code |-> c, status |-> status, canClaim |-> status # "completed" \/ row = "eligible"]
CatalogueItems ==
  {ListItem(c, "no row") : c \in {x \in Catalogue : Gift[x].tier <= ResolveCurrentTier(stats)}}
RuleItems == {ListItem(r, rows[r][i]) : <<r, i>> \in
                {<<x, j>> \in Active \X (1 .. Cardinality(Requests)) : j <= Len(rows[x])}}
Dashboard == CatalogueItems \cup RuleItems
\* The item a claim is judged by: a rule's latest row.
Available(c) ==
  IF c \in Rules
  THEN {ListItem(c, rows[c][Len(rows[c])]) : x \in {y \in {c} \cap Active : rows[y] # <<>>}}
  ELSE {i \in CatalogueItems : i.code = c}

GetRewardsDashboard(p) ==
  /\ At(p, "idle")
  /\ req' = [req EXCEPT ![p] = [Idle EXCEPT !.pc = "sync", !.todo = Active]]
  /\ UNCHANGED <<rows, claim, given>>

\* One rule at a time: a rule the user meets, with no row, is given one.
SyncUserRewards(p) ==
  /\ At(p, "sync")
  /\ IF req[p].todo = {}
     THEN (IF req[p].goal = "look" THEN Finish(p) ELSE Goto(p, "available"))
     ELSE \E r \in req[p].todo :
            req' = [req EXCEPT
              ![p].todo = @ \ {r},
              ![p].pc = IF EvaluateRule(r) /\ rows[r] = <<>> THEN "create" ELSE @,
              ![p].missing = IF EvaluateRule(r) /\ rows[r] = <<>> THEN r ELSE @]
  /\ UNCHANGED <<rows, claim, given>>
\* The row of a rule that was deleted meanwhile is refused, and the handler fails.
CreateUserReward(p) ==
  /\ At(p, "create")
  /\ LET r == req[p].missing
     IN IF rule[r].state = "deleted" THEN Finish(p) /\ UNCHANGED rows
        ELSE /\ rows' = [rows EXCEPT ![r] = Append(@, "eligible")]
             /\ req' = [req EXCEPT ![p].pc = "sync", ![p].missing = NoCode]
  /\ UNCHANGED <<claim, given>>

-----------------------------------------------------------------------------
(* Claims                                                                  *)

\* A rule's reward needs a row, the oldest, that is eligible or pending.
ClaimReward(p, c) ==
  /\ At(p, "idle")
  /\ c \in Rules => /\ rule[c].state \in {"active", "inactive"}
                    /\ rows[c] # <<>> /\ rows[c][1] \in {"eligible", "pending"}
  /\ req' = [req EXCEPT ![p] = [Idle EXCEPT !.pc = "sync", !.goal = "claim",
                                            !.code = c, !.todo = Active]]
  /\ UNCHANGED <<rows, claim, given>>
LookAvailable(p) ==
  /\ At(p, "available")
  /\ IF \E i \in Available(Code(p)) : i.canClaim THEN Goto(p, "find") ELSE Finish(p)
  /\ UNCHANGED <<rows, claim, given>>
FindClaim(p) ==
  /\ At(p, "find")
  /\ IF claim[Code(p)] \in {"completed", "pending"} THEN Finish(p)
     ELSE Goto(p, IF claim[Code(p)] = "none" THEN "insert" ELSE "update")
  /\ UNCHANGED <<rows, claim, given>>
AfterClaim(p) ==
  CASE Kind(Code(p)) = "instant" -> Goto(p, "complete")
    [] Kind(Code(p)) # "instant" /\ Code(p) \in Rules -> Goto(p, "markPending")
    [] OTHER -> Finish(p)
\* A second row for one code is refused; a failed one is made pending whatever it is now.
WriteClaim(p) ==
  /\ req[p].pc \in {"insert", "update"}
  /\ IF At(p, "insert") /\ claim[Code(p)] # "none" THEN Finish(p) /\ UNCHANGED claim
     ELSE claim' = [claim EXCEPT ![Code(p)] = "pending"] /\ AfterClaim(p)
  /\ UNCHANGED <<rows, given>>

Complete(p) ==
  /\ claim' = [claim EXCEPT ![Code(p)] = "completed"]
  /\ given' = [given EXCEPT ![Code(p)] = IF @ < 2 THEN @ + 1 ELSE @]
  /\ IF Code(p) \in Rules THEN Goto(p, "markClaimed") ELSE Finish(p)
\* An instant reward needs nothing more.
CompleteInstant(p) == At(p, "complete") /\ Complete(p) /\ UNCHANGED rows

\* Mutant: a claim that is not pending any more is redeemed.
ValidateClaim(p, c) ==
  /\ At(p, "idle")
  /\ claim[c] # "none" /\ Kind(c) = "bill"
  /\ c \in Rules => rule[c].state # "deleted"
  /\ req' = [req EXCEPT ![p] = [Idle EXCEPT !.pc = "payment", !.goal = "bill", !.code = c]]
  /\ UNCHANGED <<rows, claim, given>>
\* A bill payment is initiated with a pending claim, and ends some time later.
ValidatePendingClaim(p, c) ==
  /\ At(p, "idle")
  /\ claim[c] = "pending" /\ Kind(c) = "bill"
  /\ c \in Rules => rule[c].state # "deleted"
  /\ req' = [req EXCEPT ![p] = [Idle EXCEPT !.pc = "payment", !.goal = "bill", !.code = c]]
  /\ UNCHANGED <<rows, claim, given>>
PaymentEnds(p) ==
  /\ At(p, "payment")
  /\ \/ Complete(p)
     \/ /\ claim' = [claim EXCEPT ![Code(p)] = "failed"]
        /\ IF Code(p) \in Rules THEN Goto(p, "markEligible") ELSE Finish(p)
        /\ UNCHANGED given
  /\ UNCHANGED rows

Marks == [markPending |-> "pending", markClaimed |-> "claimed", markEligible |-> "eligible"]
\* Mutant: the rows are marked only when a bill payment ends.
MarkAfterBill(p) ==
  /\ req[p].pc \in DOMAIN Marks /\ Finish(p)
  /\ rows' = [rows EXCEPT ![Code(p)] =
                [i \in DOMAIN @ |-> IF req[p].goal = "bill" THEN Marks[req[p].pc] ELSE @[i]]]
  /\ UNCHANGED <<claim, given>>
\* Every row of the rule.
MarkUserReward(p) ==
  /\ req[p].pc \in DOMAIN Marks /\ Finish(p)
  /\ rows' = [rows EXCEPT ![Code(p)] = [i \in DOMAIN @ |-> Marks[req[p].pc]]]
  /\ UNCHANGED <<claim, given>>

-----------------------------------------------------------------------------
(* The administrator and the user's other business                         *)

Rare == changes < MaxChanges /\ changes' = changes + 1
CreateRule(r, kind) ==
  /\ rule[r].state = "none" /\ UNCHANGED <<rows, changes>>
  /\ rule' = [rule EXCEPT ![r] = [state |-> "active", kind |-> kind]]
UpdateRule(r, state) ==
  /\ rule[r].state \in {"active", "inactive"} /\ Rare /\ UNCHANGED rows
  /\ rule' = [rule EXCEPT ![r].state = state]
\* The rows go with the rule; the claim stays.
DeleteRule(r) ==
  /\ rule[r].state \in {"active", "inactive"} /\ Rare
  /\ rule' = [rule EXCEPT ![r].state = "deleted"]
  /\ rows' = [rows EXCEPT ![r] = <<>>]
Administration ==
  /\ \E r \in Rules : \/ \E kind \in Kinds : CreateRule(r, kind)
                      \/ \E state \in {"active", "inactive"} : UpdateRule(r, state)
                      \/ DeleteRule(r)
  /\ UNCHANGED <<stats, met, claim, req, given, crossed>>
\* The user's transactions, wallets and the date change.
UserActs ==
  /\ Rare /\ stats' \in Stats /\ met' \in SUBSET Rules
  /\ UNCHANGED <<rule, rows, claim, req, given, crossed>>

-----------------------------------------------------------------------------
Working(p, c) == req[p].code = c \/ req[p].missing = c
Crossed == {c \in Codes : \E p, q \in Requests : p # q /\ Working(p, c) /\ Working(q, c)}

Step(p) ==
  \/ GetRewardsDashboard(p) \/ SyncUserRewards(p) \/ CreateUserReward(p)
  \/ \E c \in Codes : ClaimReward(p, c) \/ ValidatePendingClaim(p, c)
  \/ LookAvailable(p) \/ FindClaim(p) \/ WriteClaim(p) \/ CompleteInstant(p)
  \/ PaymentEnds(p) \/ MarkUserReward(p)

\* A query fails or the server restarts, and the handler ends where it is.
RequestLost(p) ==
  /\ ~At(p, "idle") /\ Rare /\ Finish(p)
  /\ crossed' = crossed \cup ({Code(p)} \cap Codes)
  /\ UNCHANGED <<stats, met, rule, rows, claim, given>>

Next ==
  \/ \E p \in Requests : /\ Step(p) /\ crossed' = crossed \cup Crossed'
                         /\ UNCHANGED <<stats, met, rule, changes>>
  \/ \E p \in Requests : RequestLost(p)
  \/ Administration \/ UserActs

Spec == Init /\ [][Next]_vars

-----------------------------------------------------------------------------
(* Properties                                                              *)

\* Every variable has its type, and a rule has at most a row a handler.
TypeOK ==
  /\ stats \in Stats /\ met \subseteq Rules
  /\ \A r \in Rules : /\ rule[r].state \in {"none", "active", "inactive", "deleted"}
                      /\ rule[r].kind \in Kinds
                      /\ Len(rows[r]) <= Cardinality(Requests)
                      /\ \A i \in DOMAIN rows[r] :
                           rows[r][i] \in {"eligible", "pending", "claimed"}
  /\ claim \in [Codes -> {"none", "pending", "completed", "failed"}]
  /\ crossed \subseteq Codes

\* A reward is given once, and its claim stays completed, unless two handlers worked on
\* it at the same time or one was cut short: a handler that found the claim failed
\* makes it pending again, whatever it has become.
RewardGivenOnce ==
  \A c \in Codes \ crossed : /\ given[c] <= 1
                             /\ given[c] = 1 => claim[c] = "completed"

\* What the dashboard offers can be claimed, under the same proviso; and it never shows
\* all the criteria of the next tier as met, or no progress where one is.
DashboardTells ==
  /\ \A i \in Dashboard :
       i.code \notin crossed /\ (\A p \in Requests : ~Working(p, i.code)) =>
         (i.canClaim <=> claim[i.code] # "completed")
  /\ \A t \in GetNextTier(ResolveCurrentTier(stats)) :
       /\ \E c \in BuildCriteria(stats, t) : c.has < c.takes
       /\ (\E c \in BuildCriteria(stats, t) : c.has >= c.takes) => ProgressTo(stats, t) >= 50
=============================================================================
