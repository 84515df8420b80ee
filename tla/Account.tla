------------------------------ MODULE Account ------------------------------
(***************************************************************************)
(* A user's account (modules/auth/auth.service.ts): registration, login,   *)
(* trusted devices, the codes sent by e-mail, the password, the PIN and    *)
(* the sessions; with assertTransactionSecurity, which spends a code to    *)
(* confirm a transaction, and the wallets made when the e-mail is verified.*)
(*                                                                         *)
(* A handler is a process and each of its queries a step.  What a code     *)
(* opens is done some steps after the code was found unused.               *)
(***************************************************************************)
EXTENDS Integers

CONSTANTS
  Codes,       \* bound: the rows of otps are 1 .. n
  Devices,     \* devices that send an id when they log in
  Requests,    \* the handlers in progress at the same time
  MaxEvents    \* bound: the rare events, which are handlers cut short, wallets that
               \* could not be made, blocks, and time passing

NoDevice == "no device"
NoCode == 0
Kinds == {"email", "device_login", "password_reset", "transaction"}
\* Sending one of these makes the earlier ones useless.
Renewed == {"email", "device_login"}

VARIABLES
  user,       \* the row of users; password is how many times it was reset
  code,       \* the rows of otps: kind, and whether unused, used or expired
  pending,    \* the valid pendingLoginTokens: the device, and the password checked at
              \* the login
  trusted,    \* trusted_devices
  session,    \* sessions: the token, which is the second it was made in, whether it was
              \* made for a pendingLoginToken, the password its maker had shown, and the
              \* one there was by then
  wallets,    \* the user's fiat and coin wallets all exist
  clock,      \* the current second
  req,        \* the locals of each handler in progress
  opened,     \* history: what each code has opened, counted
  shared,     \* history: the codes that two handlers held, or one was lost with
  crossed,    \* history: the kinds of code that two handlers were sending, and
              \* "password" if a reset met a login or was lost
  mishaps,    \* handlers cut short and wallets not made
  events      \* how many rare events there were

vars == <<user, code, pending, trusted, session, wallets, clock, req, opened,
          shared, crossed, mishaps, events>>

Steps == {"idle", "user", "void", "send", "mark", "verify", "wallets", "trust",
          "session", "password", "markReset", "evict", "pin"}
Goals == {"none", "register", "resend", "login", "device", "verify", "forgot", "reset",
          "confirm", "pin"}
\* What sessions are made for.
Entries == {"register", "login", "device", "verify"}

\* The locals of a handler: what it is for, the kind of code it sends or spends, the
\* code, the device and the password it goes by.
Locals(step, goal, kind, c, d, under) ==
  [pc |-> step, goal |-> goal, kind |-> kind, code |-> c, device |-> d, under |-> under]
Idle == Locals("idle", "none", "email", NoCode, NoDevice, 0)

\* Nobody has registered yet; or a user has, was verified and has logged out.
Init ==
  /\ \E known \in BOOLEAN :
       /\ user = [exists |-> known, active |-> TRUE, verified |-> known, pin |-> FALSE,
                  password |-> 0, byPin |-> FALSE, byEmail |-> FALSE]
       /\ wallets = known
  /\ code = [c \in Codes |-> [kind |-> "email", state |-> "none"]]
  /\ pending = {} /\ trusted = {} /\ session = {}
  /\ clock = 0
  /\ req = [p \in Requests |-> Idle]
  /\ opened = [c \in Codes |-> 0]
  /\ shared = {} /\ crossed = {} /\ mishaps = 0 /\ events = 0

At(p, step) == req[p].pc = step
StartUnder(p, step, goal, kind, c, d, under) ==
  /\ At(p, "idle")
  /\ req' = [req EXCEPT ![p] = Locals(step, goal, kind, c, d, under)]
Start(p, step, goal, kind, c, d) ==
  StartUnder(p, step, goal, kind, c, d, user.password)
Goto(p, step) == req' = [req EXCEPT ![p].pc = step]
Finish(p) == req' = [req EXCEPT ![p] = Idle]
Unused(c, kind) == code[c] = [kind |-> kind, state |-> "unused"]
\* Requests with a token are let in by authenticateUser, whatever the sessions say.
LetIn == user.exists /\ user.active /\ user.verified

-----------------------------------------------------------------------------
(* Handlers that send a code                                               *)

Register(p) == ~user.exists /\ Start(p, "user", "register", "email", NoCode, NoDevice)
\* The e-mail address and the phone number are unique.
CreateUser(p) ==
  /\ At(p, "user")
  /\ IF user.exists THEN Finish(p) /\ UNCHANGED user
     ELSE user' = [user EXCEPT !.exists = TRUE] /\ Goto(p, "send")
  /\ UNCHANGED <<code, pending, trusted, session, wallets, opened>>

ResendEmailOTP(p) ==
  /\ user.exists /\ ~user.verified
  /\ Start(p, "void", "resend", "email", NoCode, NoDevice)

\* Login with the right password: an unverified user is sent a new code, a device not
\* trusted yet has to give one, any other is logged in.
Login(p, d) ==
  /\ user.exists /\ user.active
  /\ \/ ~user.verified /\ Start(p, "void", "resend", "email", NoCode, NoDevice)
     \/ /\ user.verified /\ d \in Devices \ trusted
        /\ Start(p, "void", "login", "device_login", NoCode, d)
     \/ /\ user.verified /\ d \notin Devices \ trusted
        /\ Start(p, "session", "login", "device_login", NoCode, d)
\* The token stands for the password checked then, whatever it is now.
ResendDeviceLoginOTP(p, t) ==
  StartUnder(p, "void", "login", "device_login", NoCode, t.device, t.under)

RequestPasswordReset(p) ==
  /\ user.exists /\ user.active
  /\ Start(p, "send", "forgot", "password_reset", NoCode, NoDevice)
SendTransactionOTP(p) ==
  /\ LetIn /\ user.byEmail
  /\ Start(p, "send", "confirm", "transaction", NoCode, NoDevice)

\* Mutant: the codes sent before stay good.
VoidNone(p) ==
  /\ At(p, "void") /\ Goto(p, "send")
  /\ UNCHANGED <<user, code, pending, trusted, session, wallets, opened>>
\* The codes of this kind that were sent before are marked used.
VoidEarlier(p) ==
  /\ At(p, "void")
  /\ code' = [c \in Codes |-> IF Unused(c, req[p].kind) THEN [code[c] EXCEPT !.state = "used"]
                              ELSE code[c]]
  /\ Goto(p, "send")
  /\ UNCHANGED <<user, pending, trusted, session, wallets, opened>>

\* The row is inserted and the code sent; a new user gets a session, and a new device
\* the token to come back with.
InsertCode(p) ==
  /\ At(p, "send")
  /\ \E c \in Codes :
       /\ code[c].state = "none" /\ \A x \in Codes : x < c => code[x].state # "none"
       /\ code' = [code EXCEPT ![c] = [kind |-> req[p].kind, state |-> "unused"]]
  /\ pending' = pending \cup {[device |-> d, under |-> req[p].under] :
                               d \in {req[p].device} \cap Devices}
  /\ IF req[p].goal = "register" THEN Goto(p, "session") ELSE Finish(p)
  /\ UNCHANGED <<user, trusted, session, wallets, opened>>

-----------------------------------------------------------------------------
(* Handlers that spend one                                                 *)

Verify(p, c) == /\ user.exists /\ Unused(c, "email")
                /\ Start(p, "mark", "verify", "email", c, NoDevice)
VerifyDeviceLogin(p, c, t) ==
  /\ Unused(c, "device_login")
  /\ StartUnder(p, "mark", "device", "device_login", c, t.device, t.under)
ResetPassword(p, c) ==
  Unused(c, "password_reset") /\ Start(p, "password", "reset", "password_reset", c, NoDevice)
\* assertTransactionSecurity, for a user who confirms by e-mail.
AssertSecurity(p, c) ==
  /\ LetIn /\ user.byEmail /\ (user.byPin => user.pin)
  /\ Unused(c, "transaction")
  /\ Start(p, "mark", "confirm", "transaction", c, NoDevice)

Opens(p) == opened' = [opened EXCEPT ![req[p].code] = @ + 1]
Spend(p) == code' = [code EXCEPT ![req[p].code].state = "used"]

\* The code is marked used, whatever it is by now.
MarkUsed(p) ==
  /\ At(p, "mark") /\ Spend(p)
  /\ CASE req[p].goal = "verify"  -> Goto(p, "verify") /\ UNCHANGED opened
       [] req[p].goal = "device"  -> Goto(p, "trust") /\ UNCHANGED opened
       [] req[p].goal = "confirm" -> Finish(p) /\ Opens(p)
  /\ UNCHANGED <<user, pending, trusted, session, wallets>>
SetVerified(p) ==
  /\ At(p, "verify") /\ Goto(p, "wallets")
  /\ user' = [user EXCEPT !.verified = TRUE]
  /\ Opens(p)
  /\ UNCHANGED <<code, pending, trusted, session, wallets>>
\* Wallets that cannot be made are logged, and the request goes on.
InitializeWallets(p) ==
  /\ At(p, "wallets") /\ Goto(p, "session")
  /\ wallets' = TRUE
  /\ UNCHANGED <<user, code, pending, trusted, session, opened>>
TrustDevice(p) ==
  /\ At(p, "trust") /\ Goto(p, "session")
  /\ trusted' = trusted \cup {req[p].device}
  /\ Opens(p)
  /\ UNCHANGED <<user, code, pending, session, wallets>>
\* Two tokens made in one second are equal, and a token is unique: the second of the
\* two handlers fails.
CreateSession(p) ==
  /\ At(p, "session") /\ Finish(p)
  /\ session' = IF \E s \in session : s.token = clock THEN session
                ELSE session \cup {[token |-> clock, device |-> req[p].goal = "device",
                                    under |-> req[p].under, since |-> user.password]}
  /\ UNCHANGED <<user, code, pending, trusted, wallets, opened>>

\* The new password is written, then the code marked, then the sessions removed.
WritePassword(p) ==
  /\ At(p, "password") /\ Goto(p, "markReset")
  /\ user' = [user EXCEPT !.password = @ + 1]
  /\ Opens(p)
  /\ UNCHANGED <<code, pending, trusted, session, wallets>>
MarkReset(p) ==
  /\ At(p, "markReset") /\ Goto(p, "evict") /\ Spend(p)
  /\ UNCHANGED <<user, pending, trusted, session, wallets, opened>>
\* Mutant: the sessions stay.
EvictNone(p) ==
  /\ At(p, "evict") /\ Finish(p)
  /\ UNCHANGED <<user, code, pending, trusted, session, wallets, opened>>
EvictSessions(p) ==
  /\ At(p, "evict") /\ Finish(p)
  /\ session' = {}
  /\ UNCHANGED <<user, code, pending, trusted, wallets, opened>>

-----------------------------------------------------------------------------
(* The PIN, the settings and the sessions                                  *)

SetupPIN(p) == LetIn /\ ~user.pin /\ Start(p, "pin", "pin", "email", NoCode, NoDevice)
ChangePIN(p) == LetIn /\ user.pin /\ Start(p, "pin", "pin", "email", NoCode, NoDevice)
SetPINAfterVerification(p) == LetIn /\ Start(p, "pin", "pin", "email", NoCode, NoDevice)
WritePIN(p) ==
  /\ At(p, "pin") /\ Finish(p)
  /\ user' = [user EXCEPT !.pin = TRUE]
  /\ UNCHANGED <<code, pending, trusted, session, wallets, opened>>

UpdateSecuritySettings(pin, email) ==
  /\ LetIn /\ user' = [user EXCEPT !.byPin = pin, !.byEmail = email]
  /\ UNCHANGED session
RevokeSession(s) == LetIn /\ session' = session \ {s} /\ UNCHANGED user
RevokeOtherSessions(s) == LetIn /\ session' = session \cap {s} /\ UNCHANGED user
Logout(s) == LetIn /\ session' = session \ {s} /\ UNCHANGED user
\* An administrator (un)blocks the user.
SetActive == user.exists /\ user' = [user EXCEPT !.active = ~@] /\ UNCHANGED session
Rare == events < MaxEvents /\ events' = events + 1
Settings ==
  /\ \/ Rare /\ SetActive
     \/ /\ UNCHANGED events
        /\ \E pin, email \in BOOLEAN : UpdateSecuritySettings(pin, email)
     \/ /\ UNCHANGED events
        /\ \E s \in session : RevokeSession(s) \/ RevokeOtherSessions(s) \/ Logout(s)
  /\ UNCHANGED <<code, pending, trusted, wallets, clock, req, opened, shared, crossed,
                 mishaps>>

\* Ten minutes pass for a code or a pending login, or the clock moves on.
TimePasses ==
  /\ Rare
  /\ \/ \E c \in Codes : /\ code[c].state = "unused"
                         /\ code' = [code EXCEPT ![c].state = "expired"]
                         /\ UNCHANGED <<pending, clock>>
     \/ \E t \in pending : pending' = pending \ {t} /\ UNCHANGED <<code, clock>>
     \/ clock' = clock + 1 /\ UNCHANGED <<code, pending>>
  /\ UNCHANGED <<user, trusted, session, wallets, req, opened, shared, crossed, mishaps>>

-----------------------------------------------------------------------------
Resetting(p) == req[p].pc \in {"password", "markReset", "evict"}
Sending(p) == req[p].pc \in {"void", "send"}
Shared ==
  {c \in Codes : \E p, q \in Requests : p # q /\ req[p].code = c /\ req[q].code = c}
Crossed ==
  {k \in Kinds : \E p, q \in Requests :
     p # q /\ Sending(p) /\ Sending(q) /\ req[p].kind = k /\ req[q].kind = k}
    \cup {k \in {"password"} : \E p, q \in Requests :
            p # q /\ Resetting(p) /\ req[q].goal \in Entries}

Begin(p) ==
  /\ \/ Register(p) \/ ResendEmailOTP(p) \/ RequestPasswordReset(p) \/ SendTransactionOTP(p)
     \/ \E t \in pending : ResendDeviceLoginOTP(p, t)
     \/ \E d \in Devices \cup {NoDevice} : Login(p, d)
     \/ \E c \in Codes : \/ Verify(p, c) \/ ResetPassword(p, c) \/ AssertSecurity(p, c)
                         \/ \E t \in pending : VerifyDeviceLogin(p, c, t)
     \/ SetupPIN(p) \/ ChangePIN(p) \/ SetPINAfterVerification(p)
  /\ UNCHANGED <<user, code, pending, trusted, session, wallets, opened>>

Advance(p) ==
  \/ CreateUser(p) \/ VoidEarlier(p) \/ InsertCode(p) \/ MarkUsed(p) \/ SetVerified(p)
  \/ InitializeWallets(p) \/ TrustDevice(p) \/ CreateSession(p)
  \/ WritePassword(p) \/ MarkReset(p) \/ EvictSessions(p) \/ WritePIN(p)

\* A query fails or the server restarts, and the handler ends where it is; or only the
\* wallets fail, which is caught.
RequestLost(p) ==
  /\ Rare /\ mishaps' = mishaps + 1
  /\ \/ ~At(p, "idle") /\ Finish(p)
     \/ At(p, "wallets") /\ Goto(p, "session")
  /\ shared' = shared \cup ({req[p].code} \cap Codes)
  /\ crossed' = crossed \cup (IF Resetting(p) THEN {"password"} ELSE {})
  /\ UNCHANGED <<user, code, pending, trusted, session, wallets, clock, opened>>

Next ==
  \/ \E p \in Requests :
       /\ Begin(p) \/ Advance(p)
       /\ shared' = shared \cup Shared' /\ crossed' = crossed \cup Crossed'
       /\ UNCHANGED <<clock, mishaps, events>>
  \/ \E p \in Requests : RequestLost(p)
  \/ Settings \/ TimePasses

Spec == Init /\ [][Next]_vars

-----------------------------------------------------------------------------
(* Properties                                                              *)

\* Every variable has its type.
TypeOK ==
  /\ user \in [exists : BOOLEAN, active : BOOLEAN, verified : BOOLEAN, pin : BOOLEAN,
               password : Nat, byPin : BOOLEAN, byEmail : BOOLEAN]
  /\ code \in [Codes -> [kind : Kinds, state : {"none", "unused", "used", "expired"}]]
  /\ pending \subseteq [device : Devices, under : 0 .. user.password]
  /\ trusted \subseteq Devices
  /\ session \subseteq [token : 0 .. clock, device : BOOLEAN, under : 0 .. user.password,
                        since : 0 .. user.password]
  /\ req \in [Requests -> [pc : Steps, goal : Goals, kind : Kinds,
                           code : Codes \cup {NoCode}, device : Devices \cup {NoDevice},
                           under : 0 .. user.password]]
  /\ shared \subseteq Codes /\ crossed \subseteq Kinds \cup {"password"}

Held(c) == \E p \in Requests : req[p].code = c

\* A code opens what it was sent for once, and is used afterwards, unless two handlers
\* had found it unused or one was lost with it; and of the codes that replace one
\* another one at most is good, unless two were being sent at the same time.
CodesOpenOnce ==
  /\ \A c \in Codes \ shared : /\ opened[c] <= 1
                               /\ opened[c] = 1 /\ ~Held(c) => code[c].state = "used"
  /\ \A k \in Renewed \ crossed : \A c, d \in Codes : Unused(c, k) /\ Unused(d, k) => c = d

\* Once a reset is done, the sessions that are left were made since, with the new
\* password or, for a device whose login had begun before the reset, with the token
\* of that login; unless a login was under way meanwhile or the reset was cut short.
\* And, as long as nothing failed, a user who was verified has wallets when the
\* handlers are done.
SessionsFollowPassword ==
  /\ "password" \notin crossed /\ (\A p \in Requests : ~Resetting(p)) =>
       \A s \in session : /\ s.since = user.password
                          /\ s.under = user.password \/ s.device
  /\ mishaps = 0 /\ user.verified /\ (\A p \in Requests : At(p, "idle")) => wallets
=============================================================================
