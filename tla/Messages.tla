------------------------------ MODULE Messages ------------------------------
(***************************************************************************)
(* What the users write to each other and are told, in one of three        *)
(* places: the chat of an order (modules/p2p-chat), the user's chat with   *)
(* the support (modules/support-chat and the administrators' side of it),  *)
(* and the notifications (modules/notification and the administrators'     *)
(* broadcasts).                                                            *)
(*                                                                         *)
(* A client lists what there is and then has it marked read: what arrives  *)
(* in between is marked with the rest.  A user's message to the support is *)
(* written after the chat was seen open, and the chat moved up after that. *)
(***************************************************************************)
EXTENDS Integers, Sequences, FiniteSets

CONSTANTS
  Owner,        \* the one whose chat with the support it is, and a party of the order
  Other,        \* the other party, who may join later
  Requests,     \* the handlers in progress at the same time
  MaxMessages,  \* bound: the messages and notifications ever written
  MaxLost       \* bound: the handlers cut short

Peers == {Owner, Other}
Support == "support"
ChatStatus == {"active", "resolved", "appealed"}

VARIABLES
  place,      \* "order", "support" or "bell": where this is
  rows,       \* the messages or the notifications, in the order they were written
  status,     \* support_chats.status
  updatedAt,  \* support_chats.updatedAt: how many rows there were when it was last set
  members,    \* the users there are by now
  sentCount,  \* admin_notifications.sentCount, of all broadcasts together
  req,        \* the locals of each handler in progress
  looking,    \* history: who has listed and had nothing marked since
  lost        \* how many handlers were cut short

vars == <<place, rows, status, updatedAt, members, sentCount, req, looking, lost>>
Idle == [pc |-> "idle", row |-> 0, users |-> {}, overtaken |-> FALSE]

Init ==
  /\ place \in {"order", "support", "bell"}
  /\ rows = <<>> /\ status = "active" /\ updatedAt = 0
  /\ members = {Owner} /\ sentCount = 0
  /\ req = [p \in Requests |-> Idle] /\ looking = {} /\ lost = 0

At(p, step) == req[p].pc = step
Goto(p, step) == req' = [req EXCEPT ![p].pc = step]
Finish(p) == req' = [req EXCEPT ![p] = Idle]
PeerOf(user) == CHOOSE peer \in Peers : peer # user

\* from is senderId; to is who it is meant for.  listed, slipped and stray are history:
\* its reader listed it; it arrived while he was looking; it was written in a closed
\* chat by a handler that no change of status had overtaken.
Row(from, to, kind) ==
  [from |-> from, to |-> to, kind |-> kind, read |-> FALSE, gone |-> FALSE,
   listed |-> FALSE, slipped |-> to \in looking, stray |-> FALSE]
Write(row) == Len(rows) < MaxMessages /\ rows' = Append(rows, row)
Mark(which, row(_)) ==
  rows' = [i \in DOMAIN rows |-> IF i \in which THEN row(rows[i]) ELSE rows[i]]
AsRead(row) == [row EXCEPT !.read = TRUE]
AsListed(row) == [row EXCEPT !.listed = TRUE]
AsGone(row) == [row EXCEPT !.gone = TRUE]

-----------------------------------------------------------------------------
(* Reading                                                                 *)

\* Mutant: his own count too.
UnreadOfAll(user) == {i \in DOMAIN rows : ~rows[i].read /\ ~rows[i].gone}
\* What is unread and not the user's own.
Unread(user) ==
  {i \in DOMAIN rows :
     /\ ~rows[i].read /\ ~rows[i].gone
     /\ IF place = "support" THEN rows[i].from # user ELSE rows[i].to = user}
UnreadCount(user) == Cardinality(Unread(user))

\* A chat with the support is its owner's only.
List(user) ==
  /\ place = "support" => user = Owner
  /\ Mark({i \in DOMAIN rows : rows[i].to = user /\ ~rows[i].gone}, AsListed)
  /\ looking' = looking \cup {user}
  /\ UNCHANGED <<place, status, updatedAt, members, sentCount, req, lost>>
\* The client marks what it has listed.
MarkAsRead(user) ==
  /\ user \in looking /\ looking' = looking \ {user}
  /\ Mark(Unread(user), AsRead)
  /\ UNCHANGED <<place, status, updatedAt, members, sentCount, req, lost>>

-----------------------------------------------------------------------------
(* The chat of an order                                                    *)

SendToPeer(user) ==
  /\ place = "order" /\ Write(Row(user, PeerOf(user), "peer"))
  /\ UNCHANGED <<place, status, updatedAt, members, sentCount, req, looking, lost>>

-----------------------------------------------------------------------------
(* The chat with the support                                               *)

SendToSupport(p) ==
  /\ place = "support" /\ At(p, "idle") /\ status = "active" /\ Goto(p, "create")
  /\ UNCHANGED <<place, rows, status, updatedAt, members, sentCount, looking, lost>>
CreateMessage(p) ==
  /\ At(p, "create")
  /\ Write([Row(Owner, Support, "own")
              EXCEPT !.stray = status # "active" /\ ~req[p].overtaken])
  /\ Goto(p, "touch")
  /\ UNCHANGED <<place, status, updatedAt, members, sentCount, looking, lost>>
Touch(p) ==
  /\ At(p, "touch") /\ updatedAt' = Len(rows) /\ Finish(p)
  /\ UNCHANGED <<place, rows, status, members, sentCount, looking, lost>>

\* The support's answer is stored as sent by the chat's own user, and moves nothing up.
AnswerUser ==
  /\ place = "support" /\ Write(Row(Owner, Owner, "answer"))
  /\ UNCHANGED <<place, status, updatedAt, members, sentCount, req, looking, lost>>
\* Any status may follow any other; the chat is assigned in the same way.
UpdateStatus(new) ==
  /\ place = "support" /\ status' = new /\ updatedAt' = Len(rows)
  /\ req' = [p \in Requests |->
               [req[p] EXCEPT !.overtaken = @ \/ (At(p, "create") /\ new # "active")]]
  /\ UNCHANGED <<place, rows, members, sentCount, looking, lost>>

-----------------------------------------------------------------------------
(* The notifications                                                       *)

Register ==
  /\ members' = Peers /\ members # Peers /\ place = "bell"
  /\ UNCHANGED <<place, rows, status, updatedAt, sentCount, req, looking, lost>>
CreateNotification(user) ==
  /\ place = "bell" /\ user \in members /\ Write(Row(user, user, "event"))
  /\ UNCHANGED <<place, status, updatedAt, members, sentCount, req, looking, lost>>

\* One notification, of those listed: found, and then marked or deleted by its id.
FindOne(p, i, step) ==
  /\ place = "bell" /\ At(p, "idle") /\ rows[i].listed /\ ~rows[i].gone
  /\ req' = [req EXCEPT ![p].pc = step, ![p].row = i]
  /\ UNCHANGED <<place, rows, status, updatedAt, members, sentCount, looking, lost>>
MarkOne(p) ==
  /\ At(p, "markOne") /\ Finish(p)
  /\ Mark({req[p].row} \ {i \in DOMAIN rows : rows[i].gone}, AsRead)
  /\ UNCHANGED <<place, status, updatedAt, members, sentCount, looking, lost>>
DeleteNotification(p) ==
  /\ At(p, "deleteOne") /\ Finish(p)
  /\ Mark({req[p].row}, AsGone)
  /\ UNCHANGED <<place, status, updatedAt, members, sentCount, looking, lost>>

\* A broadcast reads who there is, notifies them, and is recorded.
Broadcast(p) ==
  /\ place = "bell" /\ At(p, "idle")
  /\ req' = [req EXCEPT ![p].pc = "notify", ![p].users = members]
  /\ UNCHANGED <<place, rows, status, updatedAt, members, sentCount, looking, lost>>
NotifyAll(p) ==
  LET promo == [user \in Peers |-> Row(user, user, "promotional")]
  IN  /\ At(p, "notify") /\ Goto(p, "record")
      /\ Len(rows) + Cardinality(req[p].users) <= MaxMessages
      /\ rows' = rows \o <<promo[Owner]>>
                      \o (IF req[p].users = Peers THEN <<promo[Other]>> ELSE <<>>)
      /\ UNCHANGED <<place, status, updatedAt, members, sentCount, looking, lost>>
Record(p) ==
  /\ At(p, "record") /\ Finish(p)
  /\ sentCount' = sentCount + Cardinality(req[p].users)
  /\ UNCHANGED <<place, rows, status, updatedAt, members, looking, lost>>

RequestLost(p) ==
  /\ ~At(p, "idle") /\ lost < MaxLost /\ lost' = lost + 1 /\ Finish(p)
  /\ UNCHANGED <<place, rows, status, updatedAt, members, sentCount, looking>>

-----------------------------------------------------------------------------
Next ==
  \/ \E user \in Peers :
       \/ List(user) \/ MarkAsRead(user) \/ SendToPeer(user) \/ CreateNotification(user)
  \/ AnswerUser \/ Register
  \/ \E new \in ChatStatus : UpdateStatus(new)
  \/ \E p \in Requests :
       \/ SendToSupport(p) \/ CreateMessage(p) \/ Touch(p)
       \/ MarkOne(p) \/ DeleteNotification(p)
       \/ Broadcast(p) \/ NotifyAll(p) \/ Record(p) \/ RequestLost(p)
       \/ \E i \in DOMAIN rows, step \in {"markOne", "deleteOne"} : FindOne(p, i, step)

Spec == Init /\ [][Next]_vars

-----------------------------------------------------------------------------
\* Nothing is marked read that its reader had not listed, but what arrived after he had
\* listed and before the client had it marked: not his own messages for the other party,
\* nor another user's.
ReadWasShown ==
  \A i \in DOMAIN rows : rows[i].read => rows[i].listed \/ rows[i].slipped
\* No message of the user's enters a resolved or appealed chat, unless the chat was closed
\* after the handler had seen it open.
ClosedChatIsQuiet == \A i \in DOMAIN rows : ~rows[i].stray
\* The user's messages have moved the chat up once all is quiet, unless a handler was cut
\* short between the two writes.
ChatMovesUp ==
  lost = 0 /\ (\A p \in Requests : At(p, "idle")) =>
    \A i \in DOMAIN rows : rows[i].kind = "own" => i <= updatedAt
\* The records of the broadcasts count the notifications that went out, but for those a
\* broadcast in progress, or one cut short, has not recorded.
BroadcastsAreCounted ==
  lost = 0 /\ (\A p \in Requests : ~At(p, "record")) =>
    sentCount = Cardinality({i \in DOMAIN rows : rows[i].kind = "promotional"})
=============================================================================
