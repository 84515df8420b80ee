--------------------------- MODULE SavedAccounts ---------------------------
(***************************************************************************)
(* What a user saves to be paid at and to pay: bank accounts, mobile money *)
(* and the Rhinox Pay ID (modules/payment-settings), with one default of   *)
(* each kind, and the beneficiaries of bills (modules/bill-payment); with  *)
(* ensureRhinoxPayId, which makes the user's Rhinox Pay ID when it is      *)
(* first asked for.                                                        *)
(*                                                                         *)
(* A handler is a process and its queries are steps: what it looked up may *)
(* have changed when it writes, and no key of the tables keeps two rows    *)
(* apart.                                                                  *)
(***************************************************************************)
EXTENDS Integers, Sequences, FiniteSets

CONSTANTS
  Accounts,    \* what a row points to: an account number, a phone, a currency
  PayIds,      \* the ids that may be generated for the user
  Mixes,       \* bound: the sets of kinds that a user may be saving
  Requests,    \* the handlers in progress at the same time
  MaxRows,     \* bound: the rows ever made
  MaxLost      \* bound: the handlers cut short

Kinds == {"bank_account", "mobile_money", "rhinoxpay_id", "beneficiary"}
WithDefault == Kinds \ {"beneficiary"}
Unrepeated == Kinds \ {"bank_account"}
\* An update may change where these point to; a bank account has to be added again.
Editable == {"mobile_money", "beneficiary"}
NoPayId == "no id"
Same == "same"

VARIABLES
  mix,        \* the kinds this user saves
  rows,       \* user_payment_methods and beneficiaries, in the order they were made
  payId,      \* the user's rhinoxPayId
  told,       \* the ids that were handed out to the user
  req,        \* the locals of each handler in progress
  crossed,    \* history: the kinds, and "payId", that two handlers were working on
  edited,     \* history: the kinds of which a row was pointed elsewhere
  lost        \* how many handlers were cut short

vars == <<mix, rows, payId, told, req, crossed, edited, lost>>

Rows == 1 .. MaxRows
Idle == [pc |-> "idle", row |-> 0, kind |-> "none", account |-> Same, default |-> Same]

Init ==
  /\ mix \in Mixes /\ rows = <<>> /\ told = {}
  /\ payId \in {NoPayId, CHOOSE id \in PayIds : TRUE}   \* an old user may have none
  /\ req = [p \in Requests |-> Idle]
  /\ crossed = {} /\ edited = {} /\ lost = 0

At(p, step) == req[p].pc = step
Goto(p, step) == req' = [req EXCEPT ![p].pc = step]
Finish(p) == req' = [req EXCEPT ![p] = Idle]
\* A handler starts once its first look refuses nothing.
Start(p, step, r, kind, account, default) ==
  /\ At(p, "idle") /\ kind \in mix \cup {"none"}
  /\ req' = [req EXCEPT ![p] = [pc |-> step, row |-> r, kind |-> kind,
                                account |-> account, default |-> default]]
  /\ UNCHANGED <<rows, payId, told, edited>>
Active == {r \in DOMAIN rows : rows[r].active}
Saved(kind, account) == \E r \in Active : rows[r].kind = kind /\ rows[r].account = account

-----------------------------------------------------------------------------
(* Adding                                                                  *)

\* PalmPay knows the bank and the account: nothing asks whether it is saved already.
AddBankAccount(p, a, default) ==
  Start(p, IF default = "yes" THEN "clear" ELSE "insert", 0, "bank_account", a, default)
AddMobileMoney(p, a, default) ==
  /\ ~Saved("mobile_money", a)
  /\ Start(p, IF default = "yes" THEN "clear" ELSE "insert", 0, "mobile_money", a, default)
AddRhinoxPayID(p, a, default) ==
  /\ ~Saved("rhinoxpay_id", a)
  /\ Start(p, IF default = "yes" THEN "clear" ELSE "readId", 0, "rhinoxpay_id", a, default)
CreateBeneficiary(p, a) ==
  ~Saved("beneficiary", a) /\ Start(p, "insert", 0, "beneficiary", a, "no")

\* Mutant: the default stays where it was.
ClearNone(p) ==
  /\ At(p, "clear")
  /\ Goto(p, IF req[p].row # 0 THEN "write"
             ELSE IF req[p].kind = "rhinoxpay_id" THEN "readId" ELSE "insert")
  /\ UNCHANGED <<rows, payId, told, edited>>
\* The others of the kind, those deleted among them, are not the default any more.
ClearOthers(p) ==
  /\ At(p, "clear")
  /\ rows' = [r \in DOMAIN rows |->
                IF rows[r].kind = req[p].kind /\ r # req[p].row
                THEN [rows[r] EXCEPT !.default = FALSE] ELSE rows[r]]
  /\ Goto(p, IF req[p].row # 0 THEN "write"
             ELSE IF req[p].kind = "rhinoxpay_id" THEN "readId" ELSE "insert")
  /\ UNCHANGED <<payId, told, edited>>

\* ensureRhinoxPayId: the id is read, and if there is none, made and written over
\* whatever is there by now.
ReadPayId(p) ==
  /\ At(p, "readId")
  /\ IF payId = NoPayId THEN Goto(p, "writeId") /\ UNCHANGED told
     ELSE /\ told' = told \cup {payId}
          /\ IF req[p].kind = "none" THEN Finish(p) ELSE Goto(p, "insert")
  /\ UNCHANGED <<rows, payId, edited>>
WritePayId(p) ==
  /\ At(p, "writeId")
  /\ \E id \in PayIds \ {payId} : payId' = id /\ told' = told \cup {id}
  /\ IF req[p].kind = "none" THEN Finish(p) ELSE Goto(p, "insert")
  /\ UNCHANGED <<rows, edited>>

Insert(p) ==
  /\ At(p, "insert") /\ Len(rows) < MaxRows
  /\ rows' = Append(rows, [kind |-> req[p].kind, account |-> req[p].account,
                           default |-> req[p].default = "yes", active |-> TRUE])
  /\ Finish(p)
  /\ UNCHANGED <<payId, told, edited>>

-----------------------------------------------------------------------------
(* Changing what is saved                                                  *)

UpdatePaymentMethod(p, r, a, default) ==
  /\ r \in Active /\ rows[r].kind \in WithDefault
  /\ a # Same => rows[r].kind \in Editable
  /\ Start(p, IF default = "yes" THEN "clear" ELSE "write", r, rows[r].kind, a, default)
SetDefaultPaymentMethod(p, r) == UpdatePaymentMethod(p, r, Same, "yes")
UpdateBeneficiary(p, r, a) ==
  /\ r \in Active /\ rows[r].kind = "beneficiary"
  /\ Start(p, "write", r, "beneficiary", a, Same)
Delete(p, r) == r \in Active /\ Start(p, "delete", r, rows[r].kind, Same, Same)

\* The row is written by its id, deleted or not.
WriteRow(p) ==
  /\ At(p, "write") /\ Finish(p)
  /\ rows' = [rows EXCEPT ![req[p].row] =
    [@ EXCEPT !.account = IF req[p].account = Same THEN @ ELSE req[p].account,
              !.default = IF req[p].default = Same THEN @ ELSE req[p].default = "yes"]]
  /\ edited' = edited \cup (IF req[p].account = Same THEN {} ELSE {req[p].kind})
  /\ UNCHANGED <<payId, told>>
\* A deleted row stays the default it was.
SoftDelete(p) ==
  /\ At(p, "delete") /\ Finish(p)
  /\ rows' = [rows EXCEPT ![req[p].row].active = FALSE]
  /\ UNCHANGED <<payId, told, edited>>

\* The list shows the user's id.
GetUserPaymentMethods(p) == Start(p, "readId", 0, "none", Same, Same)

-----------------------------------------------------------------------------
Asked(p) ==
  \/ \E a \in Accounts : \/ \E default \in {"yes", "no"} : \/ AddBankAccount(p, a, default)
                                                           \/ AddMobileMoney(p, a, default)
                                                           \/ AddRhinoxPayID(p, a, default)
                         \/ CreateBeneficiary(p, a)
  \/ \E r \in DOMAIN rows :
       \/ \E a \in Accounts \cup {Same}, default \in {"yes", "no", Same} :
            UpdatePaymentMethod(p, r, a, default)
       \/ SetDefaultPaymentMethod(p, r) \/ Delete(p, r)
       \/ \E a \in Accounts \cup {Same} : UpdateBeneficiary(p, r, a)
  \/ GetUserPaymentMethods(p)
Advance(p) ==
  \/ ClearOthers(p) \/ ReadPayId(p) \/ WritePayId(p)
  \/ Insert(p) \/ WriteRow(p) \/ SoftDelete(p)

Crossed ==
  {k \in Kinds : \E p, q \in Requests : p # q /\ req[p].kind = k /\ req[q].kind = k}
    \cup {k \in {"payId"} : \E p, q \in Requests :
            p # q /\ At(p, "writeId") /\ At(q, "writeId")}

Next ==
  \/ \E p \in Requests : /\ Asked(p) \/ Advance(p)
                         /\ crossed' = crossed \cup Crossed' /\ UNCHANGED <<mix, lost>>
  \/ \E p \in Requests : /\ ~At(p, "idle") /\ lost < MaxLost /\ lost' = lost + 1
                         /\ Finish(p) /\ UNCHANGED <<mix, rows, payId, told, crossed, edited>>

Spec == Init /\ [][Next]_vars

-----------------------------------------------------------------------------
(* Properties                                                              *)

\* Every variable has its type.
TypeOK ==
  /\ mix \in Mixes /\ Len(rows) <= MaxRows
  /\ \A r \in DOMAIN rows : rows[r] \in [kind : Kinds, account : Accounts,
                                         default : BOOLEAN, active : BOOLEAN]
  /\ payId \in PayIds \cup {NoPayId} /\ told \subseteq PayIds
  /\ \A p \in Requests : /\ req[p].row \in {0} \cup DOMAIN rows
                         /\ req[p].kind \in Kinds \cup {"none"}
  /\ crossed \subseteq Kinds \cup {"payId"} /\ edited \subseteq Editable

Defaults(k) == {r \in Active : rows[r].kind = k /\ rows[r].default}

\* Of a kind that two handlers did not work on at the same time, one row at most is the
\* default, wherever handlers were cut short, and, if no row was pointed elsewhere, no
\* account is saved twice but a bank account; and the id that a user was told stays the
\* user's, unless two handlers had made one.
SavedOnce ==
  /\ \A k \in WithDefault \ crossed : Cardinality(Defaults(k)) <= 1
  /\ \A k \in Unrepeated \ (crossed \cup edited) : \A r, s \in Active :
       rows[r].kind = k /\ rows[s].kind = k /\ rows[r].account = rows[s].account => r = s
  /\ "payId" \notin crossed => told \subseteq {payId}
=============================================================================
