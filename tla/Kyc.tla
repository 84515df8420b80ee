-------------------------------- MODULE Kyc --------------------------------
(***************************************************************************)
(* A user's identity (modules/kyc) and the account at Busha it opens       *)
(* (services/busha/busha.app.service.ts): applications made by the user    *)
(* and retried by the poller, the customer row that lets the user trade,   *)
(* and the news of Busha's decision, by notice, by the user's looks and by *)
(* the poller.                                                             *)
(*                                                                         *)
(* The user's handler and the poller are processes; each of their queries  *)
(* and calls to Busha is a step.                                           *)
(***************************************************************************)
EXTENDS Integers, FiniteSets

CONSTANTS
  MaxApps,    \* bound: applications of the user
  MaxLost     \* bound: calls refused, notices lost, handlers cut short, and edits of
              \* the user's identity once an application was made

Apps == 1 .. MaxApps
NoApp == 0
Processes == {"user", "poller"}
Open == {"pending", "processing", "submitted", "in_review"}
NoCustomer == "none"

VARIABLES
  kyc,        \* the row of kyc_verifications: its status, and what the user gave
  app,        \* busha_kyc_applications: status, and whether bound to the customer
  customer,   \* the status in the row of busha_customers, "none" if there is no row
  remote,     \* the customer's status at Busha
  notices,    \* the notices on their way
  req,        \* the locals of the user's handler and of the poller
  turn,       \* what the poller looks at next: applications or the customer
  lost,       \* how many rare events there were
  cut,        \* history: a handler was cut short
  crossed     \* history: an application was processed while another was open, or while
              \* news of the customer came

vars == <<kyc, app, customer, remote, notices, req, turn, lost, cut, crossed>>

Idle == [pc |-> "idle", app |-> NoApp, seen |-> NoCustomer, ready |-> FALSE]

Init ==
  /\ kyc = [status |-> "none", complete |-> FALSE, selfie |-> FALSE]
  /\ app = [a \in Apps |-> [status |-> "none", bound |-> FALSE]]
  /\ customer = NoCustomer /\ remote = NoCustomer /\ notices = {}
  /\ req = [p \in Processes |-> Idle]
  /\ turn = "apps" /\ lost = 0 /\ cut = FALSE /\ crossed = FALSE

At(p, step) == req[p].pc = step
Goto(p, step) == req' = [req EXCEPT ![p].pc = step]
Finish(p) == req' = [req EXCEPT ![p] = Idle]
Begin(p, step, a) ==
  At(p, "idle") /\ req' = [req EXCEPT ![p] = [Idle EXCEPT !.pc = step, !.app = a]]
Made == {a \in Apps : app[a].status # "none"}
Rare == lost < MaxLost /\ lost' = lost + 1
SetApp(a, status) == app' = [app EXCEPT ![a].status = status]

Applying(p) == req[p].pc \in {"find", "mark", "profile", "create", "update", "verify",
                              "get", "write", "done", "fail"}
OtherApplies(p) == \E q \in Processes \ {p} : Applying(q)

-----------------------------------------------------------------------------
(* The user's identity                                                     *)

Identity(changed) ==
  /\ kyc' = changed
  /\ IF Made = {} THEN UNCHANGED lost ELSE Rare
  /\ UNCHANGED <<app, customer, remote, notices, req, turn, cut, crossed>>
\* Anything submitted sends the row back to be reviewed.
SubmitKYC(all) ==
  Identity([kyc EXCEPT !.status = "pending", !.complete = @ \/ all])
UploadIDDocument == kyc.status # "none" /\ Identity([kyc EXCEPT !.status = "pending"])
\* A face that matches is verification enough.
SubmitFace(ok) ==
  /\ kyc.status # "none"
  /\ Identity([kyc EXCEPT !.selfie = TRUE, !.status = IF ok THEN "verified" ELSE @])
ApproveKYC ==
  kyc.status \notin {"none", "verified"} /\ Identity([kyc EXCEPT !.status = "verified"])
RejectKYC ==
  kyc.status \notin {"none", "rejected"} /\ Identity([kyc EXCEPT !.status = "rejected"])

-----------------------------------------------------------------------------
(* An application                                                          *)

StartKyc ==
  /\ customer # "active" /\ \A a \in Apps : app[a].status \notin Open
  /\ kyc.status = "verified" /\ kyc.complete
  /\ \E a \in Apps : /\ app[a].status = "none" /\ \A b \in 1 .. (a - 1) : b \in Made
                     /\ SetApp(a, "pending") /\ Begin("user", "find", a)
  /\ UNCHANGED <<customer, remote, turn, crossed>>

Find(p) ==
  /\ At(p, "find")
  /\ IF app[req[p].app].status \in {"submitted", "in_review", "active"} THEN Finish(p)
     ELSE req' = [req EXCEPT ![p].pc = "mark", ![p].ready = kyc.complete /\ kyc.selfie]
  /\ UNCHANGED <<app, customer, remote, turn, crossed>>
MarkProcessing(p) ==
  /\ At(p, "mark") /\ SetApp(req[p].app, "processing")
  /\ Goto(p, IF req[p].ready THEN "profile" ELSE "fail")
  /\ crossed' = (crossed \/ OtherApplies(p)
                 \/ \E a \in Apps \ {req[p].app} : app[a].status \in Open)
  /\ UNCHANGED <<customer, remote, turn>>
\* The customer is made at Busha, or brought up to date.
PostProfile(p) ==
  /\ At(p, "profile") /\ UNCHANGED <<app, customer, turn, crossed>>
  /\ IF customer = NoCustomer
     THEN /\ remote' = IF remote = NoCustomer THEN "inactive" ELSE remote
          /\ req' = [req EXCEPT ![p].pc = "create", ![p].seen = remote']
     ELSE req' = [req EXCEPT ![p].pc = "update", ![p].seen = remote] /\ UNCHANGED remote
\* One row a user.
CreateCustomer(p) ==
  /\ At(p, "create") /\ UNCHANGED <<app, remote, turn, crossed>>
  /\ IF customer = NoCustomer THEN customer' = req[p].seen /\ Goto(p, "verify")
     ELSE UNCHANGED customer /\ Goto(p, "fail")
UpdateCustomer(p) ==
  /\ At(p, "update") /\ customer' = req[p].seen /\ Goto(p, "verify")
  /\ UNCHANGED <<app, remote, turn, crossed>>
PostVerify(p) ==
  /\ At(p, "verify") /\ Goto(p, "get")
  /\ remote' = IF remote = "active" THEN remote ELSE "in_review"
  /\ UNCHANGED <<app, customer, turn, crossed>>
GetProfile(p) ==
  /\ At(p, "get") /\ req' = [req EXCEPT ![p].pc = "write", ![p].seen = remote]
  /\ UNCHANGED <<app, customer, remote, turn, crossed>>
WriteCustomer(p) ==
  /\ At(p, "write") /\ customer' = req[p].seen /\ Goto(p, "done")
  /\ UNCHANGED <<app, remote, turn, crossed>>
\* Mutant: the application is submitted, whatever Busha answered.
WriteSubmitted(p) ==
  /\ At(p, "done") /\ Finish(p)
  /\ app' = [app EXCEPT ![req[p].app] = [status |-> "submitted", bound |-> TRUE]]
  /\ UNCHANGED <<customer, remote, turn, crossed>>
WriteApplication(p) ==
  /\ At(p, "done") /\ Finish(p)
  /\ app' = [app EXCEPT ![req[p].app] =
               [status |-> IF req[p].seen = "active" THEN "active" ELSE "submitted",
                bound |-> TRUE]]
  /\ UNCHANGED <<customer, remote, turn, crossed>>
MarkFailed(p) ==
  /\ At(p, "fail") /\ SetApp(req[p].app, "failed") /\ Finish(p)
  /\ UNCHANGED <<customer, remote, turn, crossed>>

-----------------------------------------------------------------------------
(* Busha's decision, and how it is learnt                                  *)

Decide ==
  /\ remote = "in_review"
  /\ \E status \in {"active", "rejected"} :
       remote' = status /\ notices' = notices \cup {status}
  /\ UNCHANGED <<kyc, app, customer, req, turn, lost, cut, crossed>>

\* A customer not known yet is ignored; applications bound to it follow.
HandleCustomerWebhook(status) ==
  /\ status \in notices /\ notices' = notices \ {status}
  /\ IF customer = NoCustomer THEN UNCHANGED <<app, customer, crossed>>
     ELSE /\ customer' = status
          /\ app' = [a \in Apps |-> IF app[a].bound THEN [app[a] EXCEPT !.status = status]
                                    ELSE app[a]]
          /\ crossed' = (crossed \/ \E p \in Processes : ~At(p, "idle"))
  /\ UNCHANGED <<kyc, remote, req, turn, lost, cut>>

\* The user looks at the status of the account.
GetStatus ==
  /\ customer \notin {NoCustomer, "active"} /\ Begin("user", "syncGet", NoApp)
  /\ UNCHANGED <<app, customer, remote, turn, crossed>>
SyncGet(p) ==
  /\ At(p, "syncGet") /\ req' = [req EXCEPT ![p].pc = "syncCustomer", ![p].seen = remote]
  /\ UNCHANGED <<app, customer, remote, turn, crossed>>
SyncCustomer(p) ==
  /\ At(p, "syncCustomer") /\ Goto(p, "syncApps")
  /\ customer' = req[p].seen
  /\ crossed' = (crossed \/ OtherApplies(p))
  /\ UNCHANGED <<app, remote, turn>>
\* Every application of the user is bound; a decision closes those it can.
Follows(status) == {a \in Made : status = "active" \/ app[a].status \in Open}
SyncApplications(p) ==
  /\ At(p, "syncApps") /\ Finish(p)
  /\ app' = [a \in Apps |->
               IF a \in Follows(req[p].seen)
               THEN [status |-> IF req[p].seen = "inactive" THEN "submitted" ELSE req[p].seen,
                     bound |-> TRUE]
               ELSE app[a]]
  /\ crossed' = (crossed \/ OtherApplies(p))
  /\ UNCHANGED <<customer, remote, turn>>

\* Mutant: the poller retries applications only.
PollApplicationsOnly ==
  /\ At("poller", "idle") /\ turn' = "customer"
  /\ \E a \in Apps : app[a].status \in {"pending", "failed"} /\ Begin("poller", "find", a)
  /\ UNCHANGED <<app, customer, remote, crossed>>
\* Applications that are pending or failed are tried again, then a customer that is not
\* active is asked about.
RetryPendingKyc ==
  /\ At("poller", "idle")
  /\ \/ /\ turn = "apps" /\ turn' = "customer"
        /\ LET retried == {a \in Apps : app[a].status \in {"pending", "failed"}}
           IN \/ retried = {} /\ UNCHANGED req
              \/ \E a \in retried : Begin("poller", "find", a)
     \/ /\ turn = "customer" /\ turn' = "apps"
        /\ IF customer \in {NoCustomer, "active"} THEN UNCHANGED req
           ELSE Begin("poller", "syncGet", NoApp)
  /\ UNCHANGED <<app, customer, remote, crossed>>

-----------------------------------------------------------------------------
\* A call to Busha fails: the application fails, or the sync is given up.
CallFails(p) ==
  /\ req[p].pc \in {"profile", "verify", "get", "syncGet"} /\ Rare
  /\ IF At(p, "syncGet") THEN Finish(p) ELSE Goto(p, "fail")
  /\ UNCHANGED <<kyc, app, customer, remote, notices, turn, cut, crossed>>
RequestLost(p) ==
  /\ ~At(p, "idle") /\ Rare /\ Finish(p) /\ cut' = TRUE
  /\ UNCHANGED <<kyc, app, customer, remote, notices, turn, crossed>>
NoticeLost ==
  /\ Rare /\ \E n \in notices : notices' = notices \ {n}
  /\ UNCHANGED <<kyc, app, customer, remote, req, turn, cut, crossed>>

Advance(p) ==
  \/ Find(p) \/ MarkProcessing(p) \/ PostProfile(p) \/ CreateCustomer(p)
  \/ UpdateCustomer(p) \/ PostVerify(p) \/ GetProfile(p) \/ WriteCustomer(p)
  \/ WriteApplication(p) \/ MarkFailed(p)
  \/ SyncGet(p) \/ SyncCustomer(p) \/ SyncApplications(p)
Kept == UNCHANGED <<kyc, notices, lost, cut>>
\* Node runs handlers on, the poller ticks for ever, and Busha decides: these are fair.
Runs(p) == Advance(p) /\ Kept
Polls == RetryPendingKyc /\ Kept

Next ==
  \/ \E all \in BOOLEAN : SubmitKYC(all) \/ SubmitFace(all)
  \/ UploadIDDocument \/ ApproveKYC \/ RejectKYC
  \/ (StartKyc \/ GetStatus) /\ Kept
  \/ (\E p \in Processes : Runs(p)) \/ Polls
  \/ Decide \/ \E n \in notices : HandleCustomerWebhook(n)
  \/ \E p \in Processes : CallFails(p) \/ RequestLost(p)
  \/ NoticeLost

Spec == Init /\ [][Next]_vars

-----------------------------------------------------------------------------
(* Properties                                                              *)

Statuses == {"none", "inactive", "in_review", "active", "rejected"}

\* Every variable has its type.
TypeOK ==
  /\ kyc \in [status : {"none", "pending", "verified", "rejected"},
              complete : BOOLEAN, selfie : BOOLEAN]
  /\ \A a \in Apps : app[a].status \in Statuses \cup Open \cup {"failed"}
  /\ customer \in Statuses /\ remote \in Statuses
  /\ notices \subseteq {"active", "rejected"}
  /\ \A p \in Processes : req[p].app \in Apps \cup {NoApp} /\ req[p].seen \in Statuses

\* The user may trade only once Busha has approved, and then no application is left
\* open, unless a handler was cut short, or an application was processed while another
\* was open or while news of the customer came.
TradesApproved ==
  customer = "active" =>
    /\ remote = "active"
    /\ ~cut /\ ~crossed /\ (\A p \in Processes : At(p, "idle")) =>
         \A a \in Apps : app[a].status \notin {"processing", "submitted", "in_review"}

\* Busha's approval is seen, whatever notice was lost; and, unless a handler was cut
\* short, a user who gave all that is asked is told of a decision.
Told == customer = remote /\ remote \in {"active", "rejected"}
KycEnds ==
  (remote = "active" \/ (Made # {} /\ kyc.complete /\ kyc.selfie)) ~>
    Told \/ (cut /\ remote # "active")
=============================================================================
