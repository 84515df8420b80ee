----------------------------- MODULE TraderProofs -----------------------------
(***************************************************************************)
(* What a trader has beside the trades, for any number of codes, devices   *)
(* and handlers, however handlers interleave and whichever are lost.  Of   *)
(* the account, CodesOpenOnce and SessionsFollowPassword: its invariant    *)
(* says what a handler knows of the code it holds, which handlers may send *)
(* or replace a code, and who makes or ends sessions.  Of the quotes,      *)
(* QuotesHold: its invariant says what account a sale at each step is      *)
(* aimed at, and for what amount; that what PalmPay opened for one sale is *)
(* nobody else's; and how many accounts each sale may yet have opened.     *)
(***************************************************************************)
EXTENDS MCTrader, Sequences, Sums, FiniteSetTheorems, TLAPS

-----------------------------------------------------------------------------
(* The account: types                                                      *)

Rows == [kind : Auth!Kinds, state : {"none", "unused", "used", "expired"}]
Local ==
  [pc : Auth!Steps, goal : Auth!Goals, kind : Auth!Kinds, code : Codes \cup {Auth!NoCode},
   device : Devices \cup {Auth!NoDevice}, under : Nat]

\* The steps before a code is there and those with one.
Codeless == {"idle", "user", "void", "send", "pin"}
WithCode == {"mark", "verify", "wallets", "trust", "password", "markReset", "evict"}

\* Locals of their type: what a handler at some step is for, and whether it has a code.
LocalOK(r) ==
  /\ r \in Local
  /\ r.pc = "idle" => r = Auth!Idle
  /\ r.pc \in Codeless => r.code = Auth!NoCode
  /\ r.pc \in WithCode => r.code \in Codes
  /\ r.pc = "user" => r.goal = "register" /\ r.kind = "email"
  /\ r.pc = "void" => r.goal \in {"resend", "login"}
  /\ r.pc = "mark" => r.goal \in {"verify", "device", "confirm"}
  /\ r.pc \in {"verify", "wallets"} => r.goal = "verify"
  /\ r.pc = "trust" => r.goal = "device"
  /\ r.pc = "session" => r.goal \in Auth!Entries
  /\ r.pc \in {"password", "markReset", "evict"} => r.goal = "reset"
  /\ r.goal = "register" => r.kind = "email"

Typed ==
  /\ user \in [exists : BOOLEAN, active : BOOLEAN, verified : BOOLEAN, pin : BOOLEAN,
               password : Nat, byPin : BOOLEAN, byEmail : BOOLEAN]
  /\ code \in [Codes -> Rows]
  /\ pending \subseteq [device : Devices, under : Nat]
  /\ authReq \in [Requests -> Local] /\ \A p \in Requests : LocalOK(authReq[p])
  /\ opened \in [Codes -> Nat]
  /\ mishaps \in Nat /\ wallets \in BOOLEAN

\* A handler alone writes its locals.
Wrote(p, r) == authReq'[p] = r /\ \A q \in Requests \ {p} : authReq'[q] = authReq[q]

LEMMA IdleOK == LocalOK(Auth!Idle)
BY DEF LocalOK, Local, Auth!Idle, Auth!Locals, Auth!Steps, Auth!Goals, Auth!Kinds,
       Auth!Entries, Codeless, WithCode

LEMMA TypedInit == Auth!Init => Typed
<1> SUFFICES ASSUME Auth!Init PROVE Typed
  OBVIOUS
<1>1. code \in [Codes -> Rows]
  BY DEF Auth!Init, Rows, Auth!Kinds
<1>2. authReq \in [Requests -> Local] /\ \A p \in Requests : LocalOK(authReq[p])
  BY IdleOK DEF Auth!Init, LocalOK
<1>3. opened \in [Codes -> Nat] /\ mishaps \in Nat
  BY DEF Auth!Init
<1> QED BY <1>1, <1>2, <1>3 DEF Auth!Init, Typed

LEMMA Written ==
  ASSUME Typed, NEW p \in Requests, NEW r, LocalOK(r), authReq' = [authReq EXCEPT ![p] = r]
  PROVE  /\ authReq' \in [Requests -> Local] /\ \A q \in Requests : LocalOK(authReq'[q])
         /\ Wrote(p, r)
BY DEF Typed, LocalOK, Wrote

LEMMA Moves ==
  ASSUME Typed, NEW p \in Requests
  PROVE  /\ Auth!Finish(p) => Wrote(p, Auth!Idle)
         /\ \A step : Auth!Goto(p, step) =>
              /\ authReq' = [authReq EXCEPT ![p] = [authReq[p] EXCEPT !.pc = step]]
              /\ Wrote(p, [authReq[p] EXCEPT !.pc = step])
BY DEF Auth!Finish, Auth!Goto, Wrote, Typed

\* A handler that moves on to a step at which what it is for, and its code, are right.
LEMMA MovesOn ==
  ASSUME Typed, NEW p \in Requests, NEW step \in Auth!Steps \ {"idle"}, Auth!Goto(p, step),
         step \in Codeless => authReq[p].code = Auth!NoCode,
         step \in WithCode => authReq[p].code \in Codes,
         step = "user" => authReq[p].goal = "register" /\ authReq[p].kind = "email",
         step = "void" => authReq[p].goal \in {"resend", "login"},
         step = "mark" => authReq[p].goal \in {"verify", "device", "confirm"},
         step \in {"verify", "wallets"} => authReq[p].goal = "verify",
         step = "trust" => authReq[p].goal = "device",
         step = "session" => authReq[p].goal \in Auth!Entries,
         step \in {"password", "markReset", "evict"} => authReq[p].goal = "reset"
  PROVE  authReq' \in [Requests -> Local] /\ \A q \in Requests : LocalOK(authReq'[q])
<1> DEFINE r == [authReq[p] EXCEPT !.pc = step]
<1>1. LocalOK(r)
  BY DEF LocalOK, Local, Typed
<1>2. authReq' = [authReq EXCEPT ![p] = r]
  BY Moves
<1> HIDE DEF r
<1> QED BY <1>1, <1>2, Written

LEMMA TypedAdvance ==
  ASSUME Typed, NEW p \in Requests, Auth!Advance(p), UNCHANGED mishaps
  PROVE  Typed'
<1> USE DEF Auth!At
<1>0. LocalOK(authReq[p]) /\ authReq[p] \in Local
  BY DEF Typed
<1> DEFINE LocalsOK ==
      authReq' \in [Requests -> Local] /\ \A q \in Requests : LocalOK(authReq'[q])
<1>1. Auth!Finish(p) => LocalsOK
  <2>1. ASSUME Auth!Finish(p)
        PROVE  authReq' = [authReq EXCEPT ![p] = Auth!Idle]
    BY <2>1 DEF Auth!Finish
  <2> QED BY <2>1, IdleOK, Written
<1>2. Auth!Opens(p) /\ authReq[p].code \in Codes => opened' \in [Codes -> Nat]
  <2>1. opened \in [Codes -> Nat]
    BY DEF Typed
  <2> QED BY <2>1 DEF Auth!Opens
<1>3. Auth!Spend(p) /\ authReq[p].code \in Codes => code' \in [Codes -> Rows]
  BY DEF Auth!Spend, Typed, Rows
<1>4. UNCHANGED opened => opened' \in [Codes -> Nat]
  BY DEF Typed
<1> HIDE DEF LocalsOK
<1>a. CASE Auth!CreateUser(p)
  <2>1. LocalsOK
    BY <1>0, <1>1, <1>a, MovesOn DEF Auth!CreateUser, LocalsOK, LocalOK, Auth!Steps,
                                     Codeless, WithCode, Auth!Entries
  <2> QED BY <1>a, <2>1 DEF Auth!CreateUser, Typed, LocalsOK
<1>b. CASE Auth!VoidEarlier(p)
  <2>1. LocalsOK
    BY <1>0, <1>b, MovesOn DEF Auth!VoidEarlier, LocalsOK, LocalOK, Auth!Steps, Codeless,
                               WithCode
  <2>2. code' \in [Codes -> Rows]
    BY <1>b DEF Auth!VoidEarlier, Typed, Rows
  <2> QED BY <1>b, <2>1, <2>2 DEF Auth!VoidEarlier, Typed, LocalsOK
<1>c. CASE Auth!InsertCode(p)
  <2>1. LocalsOK
    BY <1>0, <1>1, <1>c, MovesOn DEF Auth!InsertCode, LocalsOK, LocalOK, Auth!Steps,
                                     Codeless, WithCode, Auth!Entries
  <2>2. code' \in [Codes -> Rows]
    BY <1>0, <1>c DEF Auth!InsertCode, Typed, Rows, Local
  <2>3. pending' \subseteq [device : Devices, under : Nat]
    BY <1>0, <1>c DEF Auth!InsertCode, Typed, Local
  <2> QED BY <1>c, <2>1, <2>2, <2>3 DEF Auth!InsertCode, Typed, LocalsOK
<1>d. CASE Auth!MarkUsed(p)
  <2>1. LocalsOK
    BY <1>0, <1>1, <1>d, MovesOn DEF Auth!MarkUsed, LocalsOK, LocalOK, Auth!Steps, Codeless,
                                     WithCode, Auth!Entries
  <2>2. opened' \in [Codes -> Nat]
    BY <1>0, <1>2, <1>4, <1>d DEF Auth!MarkUsed, LocalOK, WithCode
  <2> QED BY <1>0, <1>3, <1>d, <2>1, <2>2 DEF Auth!MarkUsed, Typed, LocalsOK, LocalOK,
                                              WithCode
<1>e. CASE Auth!SetVerified(p)
  <2>1. LocalsOK
    BY <1>0, <1>e, MovesOn DEF Auth!SetVerified, LocalsOK, LocalOK, Auth!Steps, Codeless,
                               WithCode
  <2>2. opened' \in [Codes -> Nat]
    BY <1>0, <1>2, <1>e DEF Auth!SetVerified, LocalOK, WithCode
  <2> QED BY <1>e, <2>1, <2>2 DEF Auth!SetVerified, Typed, LocalsOK
<1>f. CASE Auth!InitializeWallets(p)
  <2>1. LocalsOK
    BY <1>0, <1>f, MovesOn DEF Auth!InitializeWallets, LocalsOK, LocalOK, Auth!Steps,
                               Codeless, WithCode, Auth!Entries
  <2> QED BY <1>f, <2>1 DEF Auth!InitializeWallets, Typed, LocalsOK
<1>g. CASE Auth!TrustDevice(p)
  <2>1. LocalsOK
    BY <1>0, <1>g, MovesOn DEF Auth!TrustDevice, LocalsOK, LocalOK, Auth!Steps, Codeless,
                               WithCode, Auth!Entries
  <2>2. opened' \in [Codes -> Nat]
    BY <1>0, <1>2, <1>g DEF Auth!TrustDevice, LocalOK, WithCode
  <2> QED BY <1>g, <2>1, <2>2 DEF Auth!TrustDevice, Typed, LocalsOK
<1>h. CASE Auth!CreateSession(p) \/ Auth!EvictSessions(p)
  BY <1>1, <1>h DEF Auth!CreateSession, Auth!EvictSessions, Typed, LocalsOK
<1>i. CASE Auth!WritePassword(p)
  <2>1. LocalsOK
    BY <1>0, <1>i, MovesOn DEF Auth!WritePassword, LocalsOK, LocalOK, Auth!Steps, Codeless,
                               WithCode
  <2>2. opened' \in [Codes -> Nat]
    BY <1>0, <1>2, <1>i DEF Auth!WritePassword, LocalOK, WithCode
  <2> QED BY <1>i, <2>1, <2>2 DEF Auth!WritePassword, Typed, LocalsOK
<1>j. CASE Auth!MarkReset(p)
  <2>1. LocalsOK
    BY <1>0, <1>j, MovesOn DEF Auth!MarkReset, LocalsOK, LocalOK, Auth!Steps, Codeless,
                               WithCode
  <2> QED BY <1>0, <1>3, <1>j, <2>1 DEF Auth!MarkReset, Typed, LocalsOK, LocalOK, WithCode
<1>k. CASE Auth!WritePIN(p)
  BY <1>1, <1>k DEF Auth!WritePIN, Typed, LocalsOK
<1> QED BY <1>a, <1>b, <1>c, <1>d, <1>e, <1>f, <1>g, <1>h, <1>i, <1>j, <1>k DEF Auth!Advance

\* A handler that makes, or may come to make, a session for the password itself.
Presents(r) == r.goal \in {"register", "verify"} \/ (r.goal = "login" /\ r.pc = "session")

\* What Begin writes: a handler that was idle starts, with a code that is unused or with
\* none, and has read the password or the token of a login.
Fresh(r) ==
  /\ LocalOK(r)
  /\ r.under = user.password \/ (~Presents(r) /\ \E t \in pending : r.under = t.under)
  /\ r.pc \in {"user", "void", "send", "mark", "password", "pin", "session"}
  /\ r.pc \in {"mark", "password"} => code[r.code].state = "unused"
  /\ r.pc = "session" => r.code = Auth!NoCode
  /\ r.pc \in {"user", "mark", "password"} \/ user.exists \/ pending # {}
  /\ r.pc = "send" => r.kind \notin Auth!Renewed

LEMMA Begins ==
  ASSUME Typed, NEW p \in Requests, Auth!Begin(p)
  PROVE  Auth!At(p, "idle") /\ \E r : Fresh(r) /\ authReq' = [authReq EXCEPT ![p] = r]
<1> DEFINE Begun ==
      Auth!At(p, "idle") /\ \E r : Fresh(r) /\ authReq' = [authReq EXCEPT ![p] = r]
<1>1. ASSUME NEW step, NEW goal, NEW kind, NEW c, NEW d, NEW under,
             Auth!StartUnder(p, step, goal, kind, c, d, under),
             Fresh(Auth!Locals(step, goal, kind, c, d, under))
      PROVE  Begun
  BY <1>1 DEF Auth!StartUnder
<1>2. user.password \in Nat /\ \A t \in pending : t.device \in Devices /\ t.under \in Nat
  BY DEF Typed
<1>3. ASSUME NEW step \in {"user", "void", "send", "pin", "session"}, NEW goal \in Auth!Goals,
             NEW kind \in Auth!Kinds, NEW d \in Devices \cup {Auth!NoDevice},
             Auth!Start(p, step, goal, kind, Auth!NoCode, d),
             step = "user" => goal = "register", goal = "register" => kind = "email",
             step = "void" => goal \in {"resend", "login"},
             step = "session" => goal \in Auth!Entries,
             step = "user" \/ user.exists,
             step = "send" => kind \notin Auth!Renewed
      PROVE  Begun
  <2> DEFINE r == Auth!Locals(step, goal, kind, Auth!NoCode, d, user.password)
  <2>1. LocalOK(r)
    BY <1>2, <1>3 DEF LocalOK, Local, Auth!Locals, Auth!Steps, Codeless, WithCode
  <2>2. Fresh(r)
    BY <1>3, <2>1 DEF Fresh, Auth!Locals
  <2> QED BY <1>1, <1>3, <2>2 DEF Auth!Start
<1>s. ASSUME NEW c \in Codes, NEW step \in {"mark", "password"}, NEW goal \in Auth!Goals,
             NEW kind \in Auth!Kinds, Auth!Start(p, step, goal, kind, c, Auth!NoDevice),
             code[c].state = "unused", goal # "register",
             step = "mark" => goal \in {"verify", "device", "confirm"},
             step = "password" => goal = "reset"
      PROVE  Begun
  <2> DEFINE r == Auth!Locals(step, goal, kind, c, Auth!NoDevice, user.password)
  <2>1. LocalOK(r)
    BY <1>2, <1>s DEF LocalOK, Local, Auth!Locals, Auth!Steps, Codeless, WithCode
  <2>2. Fresh(r)
    BY <1>s, <2>1 DEF Fresh, Auth!Locals
  <2> QED BY <1>1, <1>s, <2>2 DEF Auth!Start
<1> SUFFICES Begun
  OBVIOUS
<1> HIDE DEF Begun
<1>4. CASE Auth!Register(p)
  BY <1>3, <1>4 DEF Auth!Register, Auth!Goals, Auth!Kinds
<1>5. CASE Auth!ResendEmailOTP(p) \/ Auth!RequestPasswordReset(p)
  BY <1>3, <1>5 DEF Auth!ResendEmailOTP, Auth!RequestPasswordReset, Auth!Goals, Auth!Kinds,
                    Auth!Renewed
<1>6. CASE \/ Auth!SendTransactionOTP(p) \/ Auth!SetupPIN(p) \/ Auth!ChangePIN(p)
           \/ Auth!SetPINAfterVerification(p)
  BY <1>3, <1>6 DEF Auth!SendTransactionOTP, Auth!SetupPIN, Auth!ChangePIN,
                    Auth!SetPINAfterVerification, Auth!LetIn, Auth!Goals, Auth!Kinds,
                    Auth!Renewed
<1> USE DEF Fresh, LocalOK, Local, Auth!Locals, Auth!Steps, Auth!Goals, Auth!Kinds,
            Codeless, WithCode, Auth!Entries, Auth!Renewed
<1>7. ASSUME NEW d \in Devices \cup {Auth!NoDevice}, Auth!Login(p, d)
      PROVE  Begun
  BY <1>3, <1>7 DEF Auth!Login
<1>8. ASSUME NEW t \in pending, Auth!ResendDeviceLoginOTP(p, t)
      PROVE  Begun
  BY <1>1, <1>2, <1>8 DEF Auth!ResendDeviceLoginOTP, Presents
<1>9. ASSUME NEW c \in Codes, Auth!Verify(p, c)
      PROVE  Begun
  BY <1>s, <1>9 DEF Auth!Verify, Auth!Unused
<1>10. ASSUME NEW c \in Codes, Auth!ResetPassword(p, c)
       PROVE  Begun
  BY <1>s, <1>10 DEF Auth!ResetPassword, Auth!Unused
<1>11. ASSUME NEW c \in Codes, Auth!AssertSecurity(p, c)
       PROVE  Begun
  BY <1>s, <1>11 DEF Auth!AssertSecurity, Auth!Unused
<1>12. ASSUME NEW c \in Codes, NEW t \in pending, Auth!VerifyDeviceLogin(p, c, t)
       PROVE  Begun
  BY <1>1, <1>2, <1>12 DEF Auth!VerifyDeviceLogin, Auth!Unused, Presents
<1> QED BY <1>4, <1>5, <1>6, <1>7, <1>8, <1>9, <1>10, <1>11, <1>12 DEF Auth!Begin

LEMMA TypedNext == Typed /\ [Auth!Next]_Auth!vars => Typed'
<1> SUFFICES ASSUME Typed, [Auth!Next]_Auth!vars PROVE Typed'
  OBVIOUS
<1>1. ASSUME NEW p \in Requests, Auth!Begin(p), UNCHANGED mishaps
      PROVE  Typed'
  <2>1. authReq' \in [Requests -> Local] /\ \A q \in Requests : LocalOK(authReq'[q])
    BY <1>1, Begins, Written DEF Fresh
  <2> QED BY <1>1, <2>1 DEF Auth!Begin, Typed
<1>2. ASSUME NEW p \in Requests, Auth!RequestLost(p)
      PROVE  Typed'
  <2>1. authReq' \in [Requests -> Local] /\ \A q \in Requests : LocalOK(authReq'[q])
    <3>1. CASE Auth!Finish(p)
      <4>1. authReq' = [authReq EXCEPT ![p] = Auth!Idle]
        BY <3>1 DEF Auth!Finish
      <4> QED BY <4>1, IdleOK, Written
    <3>2. CASE Auth!At(p, "wallets") /\ Auth!Goto(p, "session")
      BY <3>2, MovesOn DEF Auth!At, Typed, LocalOK, Auth!Steps, Codeless, WithCode,
                           Auth!Entries
    <3> QED BY <1>2, <3>1, <3>2 DEF Auth!RequestLost
  <2> QED BY <1>2, <2>1 DEF Auth!RequestLost, Typed
<1>3. CASE Auth!Settings
  <2>1. user' \in [exists : BOOLEAN, active : BOOLEAN, verified : BOOLEAN, pin : BOOLEAN,
                   password : Nat, byPin : BOOLEAN, byEmail : BOOLEAN]
    BY <1>3 DEF Auth!Settings, Auth!SetActive, Auth!UpdateSecuritySettings,
                Auth!RevokeSession, Auth!RevokeOtherSessions, Auth!Logout, Typed
  <2> QED BY <1>3, <2>1 DEF Auth!Settings, Typed
<1>4. CASE Auth!TimePasses
  <2>1. code' \in [Codes -> Rows]
    BY <1>4 DEF Auth!TimePasses, Typed, Rows
  <2>2. pending' \subseteq [device : Devices, under : Nat]
    BY <1>4 DEF Auth!TimePasses, Typed
  <2> QED BY <1>4, <2>1, <2>2 DEF Auth!TimePasses, Typed
<1>5. CASE UNCHANGED Auth!vars
  BY <1>5 DEF Auth!vars, Typed
<1> QED BY <1>1, <1>2, <1>3, <1>4, <1>5, TypedAdvance DEF Auth!Next

(* The account: what a code opens                                          *)

\* Where a handler that alone holds a code stands with it: at step, the code in state s
\* has opened n times.
Good(step, s, n) ==
  /\ step \in WithCode \cup {"session"} /\ s # "none"
  /\ step \in {"mark", "verify", "trust", "password"} => n = 0
  /\ step \in {"markReset", "wallets", "session", "evict"} => n = 1
  /\ step \in {"verify", "trust", "wallets", "session", "evict"} => s = "used"

\* Where one stands that nobody holds.
Settled(s, n) == n = 0 \/ (n = 1 /\ s = "used")

CodeOK(c) ==
  /\ \A p \in Requests : authReq[p].code = c => Good(authReq[p].pc, code[c].state, opened[c])
  /\ \A p, q \in Requests : authReq[p].code = c /\ authReq[q].code = c => p = q
  /\ ~Auth!Held(c) => Settled(code[c].state, opened[c])

Real == Codes \ {Auth!NoCode}
CodesInv == \A c \in Real \ shared : CodeOK(c)

\* A code that was sent stays sent, and one that was used stays used.
Ages(c) ==
  /\ code[c].state # "none" => code'[c].state # "none"
  /\ code[c].state = "used" => code'[c].state = "used"

LEMMA CodesAge == ASSUME Typed, [Auth!Next]_Auth!vars, NEW c \in Codes PROVE Ages(c)
<1>1. UNCHANGED code => Ages(c)
  BY DEF Ages
<1>2. ASSUME NEW p \in Requests, Auth!Spend(p)
      PROVE  Ages(c)
  BY <1>2 DEF Auth!Spend, Ages, Typed, Rows
<1>3. ASSUME NEW p \in Requests, Auth!VoidEarlier(p)
      PROVE  Ages(c)
  BY <1>3 DEF Auth!VoidEarlier, Auth!Unused, Ages, Typed, Rows
<1>4. ASSUME NEW p \in Requests, Auth!InsertCode(p)
      PROVE  Ages(c)
  BY <1>4 DEF Auth!InsertCode, Ages, Typed, Rows
<1>5. CASE Auth!TimePasses
  BY <1>5 DEF Auth!TimePasses, Ages, Typed, Rows
<1>6. ASSUME NEW p \in Requests, Auth!Advance(p)
      PROVE  Ages(c)
  BY <1>1, <1>2, <1>3, <1>4, <1>6 DEF Auth!Advance, Auth!CreateUser, Auth!MarkUsed,
                                      Auth!SetVerified, Auth!InitializeWallets,
                                      Auth!TrustDevice, Auth!CreateSession,
                                      Auth!WritePassword, Auth!MarkReset,
                                      Auth!EvictSessions, Auth!WritePIN
<1> QED BY <1>1, <1>5, <1>6 DEF Auth!Next, Auth!Begin, Auth!RequestLost, Auth!Settings,
                                Auth!vars

\* The steps of handlers that do not hold the code, or that leave its holder alone.
LEMMA CodeElsewhere ==
  ASSUME NEW c \in Real, CodeOK(c), Ages(c), opened'[c] = opened[c],
         \A q \in Requests : (authReq[q].code = c \/ authReq'[q].code = c) =>
             authReq'[q] = authReq[q]
  PROVE  CodeOK(c)'
BY DEF CodeOK, Auth!Held, Good, Settled, Ages

\* The holder goes on.
LEMMA CodeOnward ==
  ASSUME NEW c \in Real, NEW p \in Requests, NEW r, Wrote(p, r), r.code = c,
         \A q \in Requests \ {p} : authReq[q].code # c,
         Good(r.pc, code'[c].state, opened'[c])
  PROVE  CodeOK(c)'
BY DEF CodeOK, Auth!Held, Wrote

\* The holder ends.
LEMMA CodeEnds ==
  ASSUME NEW c \in Real, CodeOK(c), NEW p \in Requests, Wrote(p, Auth!Idle),
         authReq[p].code = c,
         Settled(code'[c].state, opened'[c])
  PROVE  CodeOK(c)'
<1>1. \A q \in Requests : authReq'[q].code # c
  BY DEF CodeOK, Wrote, Auth!Idle, Auth!Locals, Real
<1> QED BY <1>1 DEF CodeOK, Auth!Held

\* A handler keeps its code until it ends, and opens nothing but with that code.
LEMMA KeepsCode ==
  ASSUME Typed, NEW p \in Requests, Auth!Advance(p)
  PROVE  /\ \/ Auth!Finish(p)
            \/ \E step : Auth!Goto(p, step)
         /\ UNCHANGED opened \/ Auth!Opens(p)
<1>1. CASE Auth!CreateUser(p) \/ Auth!VoidEarlier(p) \/ Auth!InsertCode(p)
  BY <1>1, Zenon DEF Auth!CreateUser, Auth!VoidEarlier, Auth!InsertCode
<1>2. CASE Auth!MarkUsed(p)
  BY <1>2 DEF Auth!MarkUsed, Auth!At, Typed, LocalOK
<1>3. CASE \/ Auth!SetVerified(p) \/ Auth!InitializeWallets(p) \/ Auth!TrustDevice(p)
           \/ Auth!CreateSession(p)
  BY <1>3, Zenon DEF Auth!SetVerified, Auth!InitializeWallets, Auth!TrustDevice,
                     Auth!CreateSession
<1>4. CASE \/ Auth!WritePassword(p) \/ Auth!MarkReset(p) \/ Auth!EvictSessions(p)
           \/ Auth!WritePIN(p)
  BY <1>4, Zenon DEF Auth!WritePassword, Auth!MarkReset, Auth!EvictSessions, Auth!WritePIN
<1> QED BY <1>1, <1>2, <1>3, <1>4 DEF Auth!Advance

LEMMA KeepsOrDrops ==
  ASSUME Typed, NEW p \in Requests, Auth!Finish(p) \/ \E step : Auth!Goto(p, step)
  PROVE  \E r : Wrote(p, r) /\ r.code \in {authReq[p].code, Auth!NoCode}
<1>1. CASE Auth!Finish(p)
  <2>1. Wrote(p, Auth!Idle)
    BY <1>1, Moves
  <2>2. Auth!Idle.code = Auth!NoCode
    BY DEF Auth!Idle, Auth!Locals
  <2> QED BY <2>1, <2>2
<1>2. ASSUME NEW step, Auth!Goto(p, step)
      PROVE  \E r : Wrote(p, r) /\ r.code \in {authReq[p].code, Auth!NoCode}
  <2>1. Wrote(p, [authReq[p] EXCEPT !.pc = step])
    BY <1>2, Moves
  <2>2. [authReq[p] EXCEPT !.pc = step].code = authReq[p].code
    BY DEF Typed, Local
  <2> QED BY <2>1, <2>2
<1> QED BY <1>1, <1>2

LEMMA CodeAdvance ==
  ASSUME Typed, NEW p \in Requests, Auth!Advance(p), NEW c \in Real, CodeOK(c), Ages(c)
  PROVE  CodeOK(c)'
<1>0. /\ LocalOK(authReq[p]) /\ authReq[p] \in Local
      /\ c \in Codes /\ c # Auth!NoCode /\ opened[c] \in Nat
  BY DEF Typed, Real
<1>1. PICK r : Wrote(p, r) /\ r.code \in {authReq[p].code, Auth!NoCode}
  BY KeepsCode, KeepsOrDrops
<1>2. CASE authReq[p].code # c
  <2>1. opened'[c] = opened[c]
    BY <1>0, <1>2, KeepsCode DEF Auth!Opens, Typed
  <2>2. \A q \in Requests : (authReq[q].code = c \/ authReq'[q].code = c) =>
            authReq'[q] = authReq[q]
    BY <1>0, <1>1, <1>2 DEF Wrote
  <2> QED BY <2>1, <2>2, CodeElsewhere
<1>3. CASE authReq[p].code = c
  <2>0. /\ Good(authReq[p].pc, code[c].state, opened[c])
        /\ \A q \in Requests \ {p} : authReq[q].code # c
    BY <1>3 DEF CodeOK
  <2>1. ASSUME NEW step, Auth!Goto(p, step), Good(step, code'[c].state, opened'[c])
        PROVE  CodeOK(c)'
    <3> DEFINE n == [authReq[p] EXCEPT !.pc = step]
    <3>1. Wrote(p, n) /\ n.pc = step /\ n.code = c
      BY <1>0, <1>3, <2>1, Moves DEF Local
    <3> HIDE DEF n
    <3> QED BY <2>0, <2>1, <3>1, CodeOnward
  <2>2. ASSUME Auth!Finish(p), Settled(code'[c].state, opened'[c])
        PROVE  CodeOK(c)'
    BY <1>3, <2>2, Moves, CodeEnds
  <2>3. Auth!Spend(p) => code'[c].state = "used"
    BY <1>0, <1>3 DEF Auth!Spend, Typed, Rows
  <2>4. Auth!Opens(p) => opened'[c] = opened[c] + 1
    BY <1>0, <1>3 DEF Auth!Opens, Typed
  <2> USE DEF Good, Settled, Auth!At, WithCode
  <2>a. CASE Auth!CreateUser(p) \/ Auth!VoidEarlier(p) \/ Auth!InsertCode(p) \/ Auth!WritePIN(p)
    BY <2>0, <2>a DEF Auth!CreateUser, Auth!VoidEarlier, Auth!InsertCode, Auth!WritePIN
  <2>b. CASE Auth!MarkUsed(p)
    <3>1. Auth!Spend(p) /\ opened[c] = 0
      BY <2>0, <2>b DEF Auth!MarkUsed
    <3>2. CASE authReq[p].goal = "verify"
      BY <2>1, <2>3, <2>b, <3>1, <3>2 DEF Auth!MarkUsed
    <3>3. CASE authReq[p].goal = "device"
      BY <2>1, <2>3, <2>b, <3>1, <3>3 DEF Auth!MarkUsed
    <3>4. CASE authReq[p].goal = "confirm"
      BY <2>2, <2>3, <2>4, <2>b, <3>1, <3>4 DEF Auth!MarkUsed
    <3> QED BY <1>0, <2>b, <3>2, <3>3, <3>4 DEF Auth!MarkUsed, LocalOK
  <2>c. CASE Auth!SetVerified(p)
    BY <1>0, <2>0, <2>1, <2>4, <2>c DEF Auth!SetVerified, Ages
  <2>d. CASE Auth!InitializeWallets(p)
    BY <1>0, <2>0, <2>1, <2>d DEF Auth!InitializeWallets
  <2>e. CASE Auth!TrustDevice(p)
    BY <1>0, <2>0, <2>1, <2>4, <2>e DEF Auth!TrustDevice
  <2>f. CASE Auth!CreateSession(p) \/ Auth!EvictSessions(p)
    BY <1>0, <2>0, <2>2, <2>f DEF Auth!CreateSession, Auth!EvictSessions
  <2>g. CASE Auth!WritePassword(p)
    BY <1>0, <2>0, <2>1, <2>4, <2>g DEF Auth!WritePassword
  <2>h. CASE Auth!MarkReset(p)
    BY <1>0, <2>0, <2>1, <2>3, <2>h DEF Auth!MarkReset
  <2> QED BY <2>a, <2>b, <2>c, <2>d, <2>e, <2>f, <2>g, <2>h DEF Auth!Advance
<1> QED BY <1>2, <1>3

LEMMA CodesNext ==
  ASSUME Typed, CodesInv, [Auth!Next]_Auth!vars
  PROVE  CodesInv'
<1> SUFFICES ASSUME NEW c \in Real, c \notin shared'
             PROVE  CodeOK(c)'
  BY DEF CodesInv, Real
<1>0. Ages(c) /\ c \in Codes /\ c # Auth!NoCode
  BY CodesAge DEF Real
<1>1. c \notin shared
  BY DEF Auth!Next, Auth!Settings, Auth!TimePasses, Auth!RequestLost, Auth!vars
<1>2. CodeOK(c)
  BY <1>1 DEF CodesInv
<1>3. ASSUME UNCHANGED <<authReq, opened>>
      PROVE  CodeOK(c)'
  BY <1>0, <1>2, <1>3, CodeElsewhere
<1>4. ASSUME NEW p \in Requests, Auth!Begin(p), shared' = shared \cup Auth!Shared'
      PROVE  CodeOK(c)'
  <2>1. PICK r : Fresh(r) /\ Wrote(p, r) /\ Auth!At(p, "idle")
    BY <1>4, Begins, Written DEF Fresh
  <2>2. authReq[p].code = Auth!NoCode
    BY <2>1 DEF Typed, LocalOK, Auth!At, Codeless
  <2>3. UNCHANGED <<code, opened>>
    BY <1>4 DEF Auth!Begin
  <2>4. CASE r.code # c
    <3>1. \A q \in Requests : (authReq[q].code = c \/ authReq'[q].code = c) =>
              authReq'[q] = authReq[q]
      BY <1>0, <2>1, <2>2, <2>4 DEF Wrote
    <3> QED BY <1>0, <1>2, <2>3, <3>1, CodeElsewhere
  <2>5. CASE r.code = c
    <3>1. \A q \in Requests \ {p} : authReq[q].code # c
      BY <1>0, <1>4, <2>1, <2>5 DEF Auth!Shared, Wrote
    <3>2. ~Auth!Held(c)
      BY <1>0, <2>2, <3>1 DEF Auth!Held
    <3>3. r.pc \in {"mark", "password"}
      BY <1>0, <2>1, <2>5 DEF Fresh, LocalOK, Codeless
    <3>4. Good(r.pc, code'[c].state, opened'[c])
      BY <1>2, <2>1, <2>3, <2>5, <3>2, <3>3 DEF CodeOK, Settled, Fresh, Good, WithCode
    <3> QED BY <2>1, <2>5, <3>1, <3>4, CodeOnward
  <2> QED BY <2>4, <2>5
<1>5. ASSUME NEW p \in Requests, Auth!RequestLost(p)
      PROVE  CodeOK(c)'
  <2>1. authReq[p].code # c /\ UNCHANGED opened
    BY <1>0, <1>5 DEF Auth!RequestLost
  <2>2. PICK r : Wrote(p, r) /\ r.code \in {authReq[p].code, Auth!NoCode}
    BY <1>5, KeepsOrDrops DEF Auth!RequestLost
  <2>3. \A q \in Requests : (authReq[q].code = c \/ authReq'[q].code = c) =>
            authReq'[q] = authReq[q]
    BY <1>0, <2>1, <2>2 DEF Wrote
  <2> QED BY <1>0, <1>2, <2>1, <2>3, CodeElsewhere
<1>6. CASE Auth!Settings \/ Auth!TimePasses \/ UNCHANGED Auth!vars
  BY <1>3, <1>6 DEF Auth!Settings, Auth!TimePasses, Auth!vars
<1> QED BY <1>0, <1>2, <1>4, <1>5, <1>6, CodeAdvance DEF Auth!Next

(* The account: the codes that replace one another                         *)

\* Until there is a user nothing was sent, and handlers at most register.
NewUser ==
  ~user.exists => /\ pending = {} /\ \A c \in Codes : code[c].state = "none"
                  /\ \A p \in Requests : authReq[p].pc \in {"idle", "user"}

LEMMA NewUserNext == Typed /\ NewUser /\ [Auth!Next]_Auth!vars => NewUser'
<1> SUFFICES ASSUME Typed, NewUser, [Auth!Next]_Auth!vars, ~user'.exists PROVE NewUser'
  BY DEF NewUser
<1> USE DEF NewUser
<1>1. ASSUME NEW p \in Requests, Auth!Begin(p)
      PROVE  NewUser'
  <2>0. UNCHANGED <<user, code, pending>>
    BY <1>1 DEF Auth!Begin
  <2>1. PICK r : Fresh(r) /\ Wrote(p, r)
    BY <1>1, Begins, Written DEF Fresh
  <2>2. r.pc = "user"
    BY <2>0, <2>1 DEF Fresh, LocalOK, WithCode
  <2> QED BY <2>0, <2>1, <2>2 DEF Wrote
<1>2. ASSUME NEW p \in Requests, Auth!Advance(p)
      PROVE  NewUser'
  <2>1. ~user.exists
    BY <1>2 DEF Auth!Advance, Auth!CreateUser, Auth!VoidEarlier, Auth!InsertCode,
                Auth!MarkUsed, Auth!SetVerified, Auth!InitializeWallets, Auth!TrustDevice,
                Auth!CreateSession, Auth!WritePassword, Auth!MarkReset, Auth!EvictSessions,
                Auth!WritePIN, Typed
  <2>2. Auth!CreateUser(p)
    BY <1>2, <2>1 DEF Auth!Advance, Auth!VoidEarlier, Auth!InsertCode, Auth!MarkUsed,
                      Auth!SetVerified, Auth!InitializeWallets, Auth!TrustDevice,
                      Auth!CreateSession, Auth!WritePassword, Auth!MarkReset,
                      Auth!EvictSessions, Auth!WritePIN, Auth!At
  <2> QED BY <2>1, <2>2 DEF Auth!CreateUser, Typed
<1>3. ASSUME NEW p \in Requests, Auth!RequestLost(p)
      PROVE  NewUser'
  <2>1. UNCHANGED <<user, code, pending>>
    BY <1>3 DEF Auth!RequestLost
  <2>2. Auth!Finish(p)
    BY <1>3, <2>1 DEF Auth!RequestLost, Auth!At
  <2>3. Wrote(p, Auth!Idle)
    BY <2>2, Moves
  <2> QED BY <2>1, <2>3 DEF Wrote, Auth!Idle, Auth!Locals
<1>4. CASE Auth!Settings
  BY <1>4 DEF Auth!Settings, Auth!SetActive, Auth!UpdateSecuritySettings,
              Auth!RevokeSession, Auth!RevokeOtherSessions, Auth!Logout, Auth!LetIn, Typed
<1>5. CASE Auth!TimePasses
  BY <1>5 DEF Auth!TimePasses
<1>6. CASE UNCHANGED Auth!vars
  BY <1>6 DEF Auth!vars
<1> QED BY <1>1, <1>2, <1>3, <1>4, <1>5, <1>6 DEF Auth!Next

\* At most one handler sends codes of kind k, when it inserts the row none is good, and
\* at most one ever is.
SenderOK(k) ==
  /\ \A p, q \in Requests :
       Auth!Sending(p) /\ Auth!Sending(q) /\ authReq[p].kind = k /\ authReq[q].kind = k => p = q
  /\ \A p \in Requests : Auth!At(p, "send") /\ authReq[p].kind = k =>
         \A c \in Codes : ~Auth!Unused(c, k)
  /\ \A c, d \in Codes : Auth!Unused(c, k) /\ Auth!Unused(d, k) => c = d

SendersInv == \A k \in Auth!Renewed \ authMet : SenderOK(k)

\* The steps that insert no code of this kind, and let no handler come to insert one
\* unless none is good.
LEMMA SendersStay ==
  ASSUME NEW k, SenderOK(k),
         \A c \in Codes : Auth!Unused(c, k)' => Auth!Unused(c, k),
         \A p \in Requests : Auth!At(p, "send")' /\ authReq'[p].kind = k =>
           \/ Auth!At(p, "send") /\ authReq[p].kind = k
           \/ \A c \in Codes : ~Auth!Unused(c, k)',
         \A p, q \in Requests :
           Auth!Sending(p)' /\ Auth!Sending(q)' /\ authReq'[p].kind = k /\ authReq'[q].kind = k =>
             p = q
  PROVE  SenderOK(k)'
BY DEF SenderOK

LEMMA SendersAdvance ==
  ASSUME Typed, NewUser, NEW p \in Requests, Auth!Advance(p),
         NEW k \in Auth!Renewed, SenderOK(k),
         \A q, o \in Requests :
           Auth!Sending(q)' /\ Auth!Sending(o)' /\ authReq'[q].kind = k /\ authReq'[o].kind = k =>
             q = o
  PROVE  SenderOK(k)'
<1>0. LocalOK(authReq[p]) /\ authReq[p] \in Local
  BY DEF Typed
<1>1. ASSUME \A c \in Codes : Auth!Unused(c, k)' => Auth!Unused(c, k), ~Auth!At(p, "send")',
             \A q \in Requests \ {p} : authReq'[q] = authReq[q]
      PROVE  SenderOK(k)'
  BY <1>1, SendersStay DEF Auth!At
<1>2. \A q \in Requests \ {p} : authReq'[q] = authReq[q]
  <2>1. PICK r : Wrote(p, r)
    BY KeepsCode, KeepsOrDrops
  <2> QED BY <2>1 DEF Wrote
<1>3. UNCHANGED code => \A c \in Codes : Auth!Unused(c, k)' => Auth!Unused(c, k)
  BY DEF Auth!Unused
<1>4. Auth!Spend(p) => \A c \in Codes : Auth!Unused(c, k)' => Auth!Unused(c, k)
  BY DEF Auth!Spend, Auth!Unused, Typed, Rows
<1>5. Auth!Finish(p) => ~Auth!At(p, "send")'
  BY Moves DEF Wrote, Auth!At, Auth!Idle, Auth!Locals
<1>6. ASSUME NEW step, Auth!Goto(p, step)
      PROVE  authReq'[p].pc = step /\ authReq'[p].kind = authReq[p].kind
  <2>1. Wrote(p, [authReq[p] EXCEPT !.pc = step])
    BY <1>6, Moves
  <2> QED BY <1>0, <2>1 DEF Wrote, Local
<1>a. CASE Auth!CreateUser(p)
  <2>1. CASE user.exists
    BY <1>1, <1>2, <1>3, <1>5, <1>a, <2>1 DEF Auth!CreateUser
  <2>2. CASE ~user.exists
    <3>1. \A c \in Codes : ~Auth!Unused(c, k) /\ ~Auth!Unused(c, k)'
      BY <1>a, <2>2 DEF Auth!CreateUser, NewUser, Auth!Unused
    <3> QED BY <1>2, <3>1, SendersStay DEF Auth!At
  <2> QED BY <2>1, <2>2
<1>b. CASE Auth!VoidEarlier(p)
  <2>1. \A c \in Codes : /\ Auth!Unused(c, k)' => Auth!Unused(c, k)
                         /\ k = authReq[p].kind => ~Auth!Unused(c, k)'
    BY <1>b DEF Auth!VoidEarlier, Auth!Unused, Typed, Rows
  <2>2. authReq'[p].pc = "send" /\ authReq'[p].kind = authReq[p].kind
    BY <1>6, <1>b DEF Auth!VoidEarlier
  <2>3. \A q \in Requests : Auth!At(q, "send")' /\ authReq'[q].kind = k =>
           (Auth!At(q, "send") /\ authReq[q].kind = k) \/ (\A c \in Codes : ~Auth!Unused(c, k)')
    BY <1>2, <2>1, <2>2 DEF Auth!At
  <2> QED BY <2>1, <2>3, SendersStay
<1>c. CASE Auth!InsertCode(p)
  <2>1. ~Auth!At(p, "send")'
    BY <1>5, <1>6, <1>c DEF Auth!InsertCode, Auth!At
  <2>2. PICK x \in Codes :
          code' = [code EXCEPT ![x] = [kind |-> authReq[p].kind, state |-> "unused"]]
    BY <1>c DEF Auth!InsertCode
  <2>3. CASE authReq[p].kind # k
    BY <1>1, <1>2, <2>1, <2>2, <2>3 DEF Auth!Unused, Typed
  <2>4. CASE authReq[p].kind = k
    <3>1. \A c \in Codes : ~Auth!Unused(c, k)
      BY <1>c, <2>4 DEF Auth!InsertCode, SenderOK
    <3>2. \A c \in Codes \ {x} : ~Auth!Unused(c, k)'
      BY <2>2, <3>1 DEF Auth!Unused, Typed
    <3>3. \A q \in Requests \ {p} : Auth!At(q, "send") => authReq[q].kind # k
      BY <1>c, <2>4 DEF Auth!InsertCode, SenderOK, Auth!Sending, Auth!At
    <3>4. \A q \in Requests : ~(Auth!At(q, "send")' /\ authReq'[q].kind = k)
      BY <1>2, <2>1, <3>3 DEF Auth!At
    <3> QED BY <3>2, <3>4 DEF SenderOK
  <2> QED BY <2>3, <2>4
<1>d. CASE Auth!MarkUsed(p)
  <2>1. ~Auth!At(p, "send")'
    <3>1. \/ Auth!Goto(p, "verify") \/ Auth!Goto(p, "trust") \/ Auth!Finish(p)
      BY <1>0, <1>d DEF Auth!MarkUsed, LocalOK, Auth!At
    <3> QED BY <1>5, <1>6, <3>1 DEF Auth!At
  <2> QED BY <1>1, <1>2, <1>4, <1>d, <2>1 DEF Auth!MarkUsed
<1>e. CASE Auth!MarkReset(p)
  BY <1>1, <1>2, <1>4, <1>6, <1>e DEF Auth!MarkReset, Auth!At
<1>f. CASE \/ Auth!SetVerified(p) \/ Auth!InitializeWallets(p) \/ Auth!TrustDevice(p)
           \/ Auth!WritePassword(p)
  <2>1. ~Auth!At(p, "send")' /\ UNCHANGED code
    BY <1>6, <1>f DEF Auth!SetVerified, Auth!InitializeWallets, Auth!TrustDevice,
                      Auth!WritePassword, Auth!At
  <2> QED BY <1>1, <1>2, <1>3, <2>1
<1>g. CASE Auth!CreateSession(p) \/ Auth!EvictSessions(p) \/ Auth!WritePIN(p)
  BY <1>1, <1>2, <1>3, <1>5, <1>g DEF Auth!CreateSession, Auth!EvictSessions, Auth!WritePIN
<1> QED BY <1>a, <1>b, <1>c, <1>d, <1>e, <1>f, <1>g DEF Auth!Advance

LEMMA SendersNext ==
  ASSUME Typed, NewUser, SendersInv, [Auth!Next]_Auth!vars
  PROVE  SendersInv'
<1> SUFFICES ASSUME NEW k \in Auth!Renewed, k \notin authMet'
             PROVE  SenderOK(k)'
  BY DEF SendersInv
<1>1. SenderOK(k)
  <2>1. k \notin authMet
    BY DEF Auth!Next, Auth!Settings, Auth!TimePasses, Auth!RequestLost, Auth!vars
  <2> QED BY <2>1 DEF SendersInv
<1>2. ASSUME authMet' = authMet \cup Auth!Crossed'
      PROVE  \A q, o \in Requests :
               Auth!Sending(q)' /\ Auth!Sending(o)' /\ authReq'[q].kind = k /\ authReq'[o].kind = k =>
                 q = o
  BY <1>2 DEF Auth!Crossed, Auth!Renewed, Auth!Kinds
<1>3. ASSUME NEW p \in Requests, Auth!Begin(p), authMet' = authMet \cup Auth!Crossed'
      PROVE  SenderOK(k)'
  <2>1. PICK r : Fresh(r) /\ Wrote(p, r)
    BY <1>3, Begins, Written DEF Fresh
  <2>2. \A c \in Codes : Auth!Unused(c, k)' => Auth!Unused(c, k)
    BY <1>3 DEF Auth!Begin, Auth!Unused
  <2>3. \A q \in Requests : Auth!At(q, "send")' /\ authReq'[q].kind = k =>
          Auth!At(q, "send") /\ authReq[q].kind = k
    BY <2>1 DEF Fresh, Wrote, Auth!At
  <2> QED BY <1>1, <1>2, <1>3, <2>2, <2>3, SendersStay
<1>4. ASSUME NEW p \in Requests, Auth!RequestLost(p)
      PROVE  SenderOK(k)'
  <2>1. PICK r : Wrote(p, r) /\ r.pc \in {"idle", "session"}
    <3>1. CASE Auth!Finish(p)
      BY <3>1, Moves DEF Auth!Idle, Auth!Locals
    <3>2. CASE Auth!Goto(p, "session")
      <4>1. [authReq[p] EXCEPT !.pc = "session"].pc = "session"
        BY DEF Typed, Local
      <4> QED BY <3>2, <4>1, Moves
    <3> QED BY <1>4, <3>1, <3>2 DEF Auth!RequestLost
  <2>2. \A q \in Requests : Auth!Sending(q)' => Auth!Sending(q) /\ authReq'[q] = authReq[q]
    BY <2>1 DEF Auth!Sending, Wrote
  <2> QED BY <1>1, <1>4, <2>2 DEF Auth!RequestLost, SenderOK, Auth!Sending, Auth!At,
                                  Auth!Unused
<1>5. CASE Auth!Settings \/ Auth!TimePasses \/ UNCHANGED Auth!vars
  <2>1. UNCHANGED authReq
    BY <1>5 DEF Auth!Settings, Auth!TimePasses, Auth!vars
  <2>2. \A c \in Codes : Auth!Unused(c, k)' => Auth!Unused(c, k)
    BY <1>5 DEF Auth!Settings, Auth!TimePasses, Auth!vars, Auth!Unused, Typed, Rows
  <2> QED BY <1>1, <2>1, <2>2 DEF SenderOK, Auth!Sending, Auth!At
<1> QED BY <1>1, <1>2, <1>3, <1>4, <1>5, SendersAdvance DEF Auth!Next

(* The account: sessions and wallets                                       *)

\* A session of the password the user has, or of the token of a login.
Current(s, password) == s.since = password /\ (s.under = password \/ s.device)

\* Unless a reset met a login: but for the end of a reset, the sessions are of the
\* password the user has, and so are those that will be made, but for the devices whose
\* login had begun.
SessionsInv ==
  "password" \notin authMet =>
    /\ (\A p \in Requests : authReq[p].pc \notin {"markReset", "evict"}) =>
         \A s \in session : Current(s, user.password)
    /\ \A p \in Requests : Presents(authReq[p]) => authReq[p].under = user.password

\* A user who was verified has wallets, or they are being made.
WalletsInv ==
  mishaps = 0 /\ user.verified => wallets \/ \E p \in Requests : Auth!At(p, "wallets")

LEMMA WalletsNext == Typed /\ WalletsInv /\ [Auth!Next]_Auth!vars => WalletsInv'
<1> SUFFICES ASSUME Typed, WalletsInv, [Auth!Next]_Auth!vars, mishaps' = 0, user'.verified
             PROVE  wallets' \/ \E p \in Requests : Auth!At(p, "wallets")'
  BY DEF WalletsInv
<1>1. ASSUME NEW p \in Requests, Auth!Begin(p), UNCHANGED mishaps
      PROVE  wallets' \/ \E q \in Requests : Auth!At(q, "wallets")'
  <2>1. Auth!At(p, "idle") /\ \A q \in Requests \ {p} : authReq'[q] = authReq[q]
    BY <1>1, Begins, Written DEF Fresh, Wrote
  <2> QED BY <1>1, <2>1 DEF Auth!Begin, WalletsInv, Auth!At
<1>2. ASSUME NEW p \in Requests, Auth!Advance(p), UNCHANGED mishaps
      PROVE  wallets' \/ \E q \in Requests : Auth!At(q, "wallets")'
  <2>1. \A q \in Requests \ {p} : authReq'[q] = authReq[q]
    <3>1. PICK r : Wrote(p, r)
      BY <1>2, KeepsCode, KeepsOrDrops
    <3> QED BY <3>1 DEF Wrote
  <2>2. CASE Auth!InitializeWallets(p)
    BY <2>2 DEF Auth!InitializeWallets
  <2>3. CASE Auth!SetVerified(p)
    <3>1. Wrote(p, [authReq[p] EXCEPT !.pc = "wallets"])
      BY <2>3, Moves DEF Auth!SetVerified
    <3> QED BY <3>1 DEF Wrote, Auth!At, Typed, Local
  <2>4. CASE ~Auth!InitializeWallets(p) /\ ~Auth!SetVerified(p)
    <3>1. ~Auth!At(p, "wallets") /\ user.verified /\ UNCHANGED wallets
      BY <1>2, <2>4 DEF Auth!Advance, Auth!CreateUser, Auth!VoidEarlier, Auth!InsertCode,
                        Auth!MarkUsed, Auth!TrustDevice, Auth!CreateSession,
                        Auth!WritePassword, Auth!MarkReset, Auth!EvictSessions,
                        Auth!WritePIN, Auth!At, Typed
    <3> QED BY <1>2, <2>1, <3>1 DEF WalletsInv, Auth!At
  <2> QED BY <2>2, <2>3, <2>4
<1>3. ASSUME NEW p \in Requests, Auth!RequestLost(p)
      PROVE  FALSE
  BY <1>3 DEF Auth!RequestLost, Typed
<1>4. CASE Auth!Settings
  BY <1>4 DEF Auth!Settings, Auth!SetActive, Auth!UpdateSecuritySettings,
              Auth!RevokeSession, Auth!RevokeOtherSessions, Auth!Logout, Typed, WalletsInv,
              Auth!At
<1>5. CASE Auth!TimePasses \/ UNCHANGED Auth!vars
  BY <1>5 DEF Auth!TimePasses, Auth!vars, WalletsInv, Auth!At
<1> QED BY <1>1, <1>2, <1>3, <1>4, <1>5 DEF Auth!Next

\* A login that asks for a code makes no session itself.
LEMMA OnlyLoginsPresent ==
  ASSUME Typed, NEW p \in Requests, Auth!Advance(p), authReq[p].goal = "login"
  PROVE  authReq'[p].pc # "session"
<1>0. LocalOK(authReq[p]) /\ authReq[p] \in Local
  BY DEF Typed
<1>1. Auth!Finish(p) => authReq'[p].pc # "session"
  BY Moves DEF Wrote, Auth!Idle, Auth!Locals
<1>2. ASSUME NEW step, Auth!Goto(p, step), step # "session"
      PROVE  authReq'[p].pc # "session"
  <2>1. Wrote(p, [authReq[p] EXCEPT !.pc = step])
    BY <1>2, Moves
  <2> QED BY <1>0, <1>2, <2>1 DEF Wrote, Local
<1> USE DEF Auth!At, LocalOK
<1>3. CASE Auth!VoidEarlier(p) \/ Auth!InsertCode(p)
  BY <1>1, <1>2, <1>3 DEF Auth!VoidEarlier, Auth!InsertCode
<1>4. CASE \/ Auth!CreateSession(p) \/ Auth!EvictSessions(p) \/ Auth!WritePIN(p)
           \/ Auth!CreateUser(p)
  BY <1>1, <1>2, <1>4 DEF Auth!CreateSession, Auth!EvictSessions, Auth!WritePIN, Auth!CreateUser
<1>5. CASE \/ Auth!MarkUsed(p) \/ Auth!SetVerified(p) \/ Auth!InitializeWallets(p)
           \/ Auth!TrustDevice(p) \/ Auth!WritePassword(p) \/ Auth!MarkReset(p)
  BY <1>0, <1>5 DEF Auth!MarkUsed, Auth!SetVerified, Auth!InitializeWallets,
                    Auth!TrustDevice, Auth!WritePassword, Auth!MarkReset
<1> QED BY <1>3, <1>4, <1>5 DEF Auth!Advance

\* A handler goes on, and no reset meets a login.
LEMMA SessionsAdvance ==
  ASSUME Typed, NEW p \in Requests, Auth!Advance(p), "password" \notin authMet, SessionsInv,
         "password" \notin Auth!Crossed'
  PROVE  /\ (\A q \in Requests : authReq'[q].pc \notin {"markReset", "evict"}) =>
              \A s \in session' : Current(s, user'.password)
         /\ \A q \in Requests : Presents(authReq'[q]) =>
                authReq'[q].under = user'.password
<1> DEFINE Kept ==
      /\ (\A q \in Requests : authReq'[q].pc \notin {"markReset", "evict"}) =>
           \A s \in session' : Current(s, user'.password)
      /\ \A q \in Requests : Presents(authReq'[q]) =>
             authReq'[q].under = user'.password
<1>0. LocalOK(authReq[p]) /\ authReq[p] \in Local
  BY DEF Typed
<1>1. /\ \A q \in Requests \ {p} : authReq'[q] = authReq[q]
      /\ authReq'[p].goal \in {authReq[p].goal, "none"}
      /\ Presents(authReq'[p]) => /\ Presents(authReq[p])
                                  /\ authReq'[p].under = authReq[p].under
  <2>1. ASSUME Auth!Finish(p)
        PROVE  /\ \A q \in Requests \ {p} : authReq'[q] = authReq[q]
               /\ authReq'[p].goal = "none" /\ ~Presents(authReq'[p])
    <3>1. Wrote(p, Auth!Idle)
      BY <2>1, Moves
    <3> QED BY <3>1 DEF Wrote, Auth!Idle, Auth!Locals, Presents
  <2>2. ASSUME NEW step, Auth!Goto(p, step)
        PROVE  /\ \A q \in Requests \ {p} : authReq'[q] = authReq[q]
               /\ authReq'[p].goal = authReq[p].goal /\ authReq'[p].under = authReq[p].under
    <3>1. Wrote(p, [authReq[p] EXCEPT !.pc = step])
      BY <2>2, Moves
    <3> QED BY <1>0, <3>1 DEF Wrote, Local
  <2>3. ASSUME NEW step, Auth!Goto(p, step), Presents(authReq'[p])
        PROVE  Presents(authReq[p])
    BY <2>2, <2>3, OnlyLoginsPresent DEF Presents
  <2>4. CASE Auth!Finish(p)
    BY <2>1, <2>4
  <2>5. ASSUME NEW step, Auth!Goto(p, step)
        PROVE  /\ \A q \in Requests \ {p} : authReq'[q] = authReq[q]
               /\ authReq'[p].goal \in {authReq[p].goal, "none"}
               /\ Presents(authReq'[p]) => /\ Presents(authReq[p])
                                           /\ authReq'[p].under = authReq[p].under
    BY <2>2, <2>3, <2>5
  <2> QED BY <2>4, <2>5, KeepsCode
<1>2. ASSUME NEW step, Auth!Goto(p, step)
      PROVE  authReq'[p].pc = step
  <2>1. Wrote(p, [authReq[p] EXCEPT !.pc = step])
    BY <1>2, Moves
  <2> QED BY <1>0, <2>1 DEF Wrote, Local
<1>3. CASE Auth!WritePassword(p)
  <2>1. authReq'[p].pc = "markReset" /\ authReq'[p].goal = "reset"
    <3>1. Wrote(p, [authReq[p] EXCEPT !.pc = "markReset"]) /\ authReq[p].goal = "reset"
      BY <1>0, <1>3, Moves DEF Auth!WritePassword, LocalOK, Auth!At
    <3> QED BY <1>0, <3>1 DEF Wrote, Local
  <2>2. \A q \in Requests : ~Presents(authReq'[q])
    <3>1. ASSUME NEW q \in Requests \ {p}
          PROVE  authReq'[q].goal \notin Auth!Entries
      BY <2>1 DEF Auth!Crossed, Auth!Resetting
    <3> QED BY <2>1, <3>1 DEF Auth!Entries, Presents
  <2> QED BY <2>1, <2>2
<1>4. CASE Auth!EvictSessions(p)
  BY <1>1, <1>4 DEF Auth!EvictSessions, SessionsInv
<1>5. CASE Auth!MarkReset(p)
  <2>1. authReq'[p].pc = "evict"
    BY <1>2, <1>5 DEF Auth!MarkReset
  <2> QED BY <1>1, <1>5, <2>1 DEF Auth!MarkReset, SessionsInv
<1>6. CASE Auth!CreateSession(p)
  <2>0. UNCHANGED user /\ authReq[p].pc = "session" /\ authReq[p].goal \in Auth!Entries
    BY <1>0, <1>6 DEF Auth!CreateSession, LocalOK, Auth!At
  <2>1. authReq[p].goal = "device" \/ authReq[p].under = user.password
    BY <2>0 DEF SessionsInv, Auth!Entries, Presents
  <2>2. \A s \in session' : s \in session \/ Current(s, user.password)
    <3> DEFINE new == [token |-> clock, device |-> authReq[p].goal = "device",
                       under |-> authReq[p].under, since |-> user.password]
    <3>1. Current(new, user.password)
      <4>1. CASE authReq[p].goal = "device"
        <5>1. new.device /\ new.since = user.password
          BY <4>1
        <5> QED BY <5>1 DEF Current
      <4>2. CASE authReq[p].under = user.password
        <5>1. new.under = user.password /\ new.since = user.password
          BY <4>2
        <5> QED BY <5>1 DEF Current
      <4> QED BY <2>1, <4>1, <4>2
    <3>2. session' \subseteq session \cup {new}
      BY <1>6 DEF Auth!CreateSession
    <3> HIDE DEF new
    <3> QED BY <3>1, <3>2
  <2>3. (\A q \in Requests : authReq'[q].pc \notin {"markReset", "evict"}) =>
          \A q \in Requests : authReq[q].pc \notin {"markReset", "evict"}
    BY <1>1, <1>6 DEF Auth!CreateSession, Auth!At
  <2> QED BY <1>1, <2>0, <2>2, <2>3 DEF SessionsInv
<1>7. CASE /\ ~Auth!WritePassword(p) /\ ~Auth!EvictSessions(p)
           /\ ~Auth!MarkReset(p) /\ ~Auth!CreateSession(p)
  <2>1. /\ authReq[p].pc \notin {"markReset", "evict"} /\ UNCHANGED session
        /\ user'.password = user.password
    <3> USE DEF Auth!At
    <3>1. CASE Auth!CreateUser(p) \/ Auth!SetVerified(p) \/ Auth!WritePIN(p)
      BY <3>1 DEF Auth!CreateUser, Auth!SetVerified, Auth!WritePIN, Typed
    <3>2. CASE Auth!VoidEarlier(p) \/ Auth!InsertCode(p) \/ Auth!MarkUsed(p)
      BY <3>2 DEF Auth!VoidEarlier, Auth!InsertCode, Auth!MarkUsed
    <3>3. CASE Auth!InitializeWallets(p) \/ Auth!TrustDevice(p)
      BY <3>3 DEF Auth!InitializeWallets, Auth!TrustDevice
    <3> QED BY <1>7, <3>1, <3>2, <3>3 DEF Auth!Advance
  <2> QED BY <1>1, <2>1 DEF SessionsInv
<1> QED BY <1>3, <1>4, <1>5, <1>6, <1>7

LEMMA SessionsNext ==
  ASSUME Typed, SessionsInv, [Auth!Next]_Auth!vars
  PROVE  SessionsInv'
<1> DEFINE Kept ==
      /\ (\A q \in Requests : authReq'[q].pc \notin {"markReset", "evict"}) =>
           \A s \in session' : Current(s, user'.password)
      /\ \A q \in Requests : Presents(authReq'[q]) =>
             authReq'[q].under = user'.password
<1> SUFFICES ASSUME "password" \notin authMet' PROVE Kept
  BY DEF SessionsInv
<1>0. "password" \notin authMet
  BY DEF Auth!Next, Auth!Settings, Auth!TimePasses, Auth!RequestLost, Auth!vars
<1>1. ASSUME NEW p \in Requests, Auth!Begin(p)
      PROVE  Kept
  <2>1. PICK r : Fresh(r) /\ Wrote(p, r) /\ Auth!At(p, "idle")
    BY <1>1, Begins, Written DEF Fresh
  <2> QED BY <1>0, <1>1, <2>1 DEF Auth!Begin, Fresh, Wrote, Auth!At, SessionsInv
<1>2. ASSUME NEW p \in Requests, Auth!Advance(p), authMet' = authMet \cup Auth!Crossed'
      PROVE  Kept
  BY <1>0, <1>2, SessionsAdvance
<1>3. ASSUME NEW p \in Requests, Auth!RequestLost(p)
      PROVE  Kept
  <2>0. UNCHANGED <<user, session>> /\ ~Auth!Resetting(p)
    BY <1>3 DEF Auth!RequestLost
  <2>1. PICK r : /\ Wrote(p, r)
                 /\ Presents(r) => Presents(authReq[p]) /\ r.under = authReq[p].under
    <3>1. CASE Auth!Finish(p)
      <4>1. Wrote(p, Auth!Idle) /\ ~Presents(Auth!Idle)
        BY <3>1, Moves DEF Auth!Idle, Auth!Locals, Presents
      <4> QED BY <4>1
    <3>2. CASE Auth!At(p, "wallets") /\ Auth!Goto(p, "session")
      <4> DEFINE r == [authReq[p] EXCEPT !.pc = "session"]
      <4>1. Wrote(p, r) /\ r.goal = authReq[p].goal /\ r.under = authReq[p].under
        BY <3>2, Moves DEF Typed, Local
      <4>2. authReq[p].goal = "verify"
        BY <3>2 DEF Auth!At, Typed, LocalOK
      <4> HIDE DEF r
      <4> QED BY <4>1, <4>2 DEF Presents
    <3> QED BY <1>3, <3>1, <3>2 DEF Auth!RequestLost
  <2> QED BY <1>0, <2>0, <2>1 DEF Wrote, Auth!Resetting, SessionsInv
<1>4. CASE Auth!Settings
  <2>1. session' \subseteq session /\ user'.password = user.password /\ UNCHANGED authReq
    BY <1>4 DEF Auth!Settings, Auth!SetActive, Auth!UpdateSecuritySettings,
                Auth!RevokeSession, Auth!RevokeOtherSessions, Auth!Logout, Typed
  <2> QED BY <1>0, <2>1 DEF SessionsInv
<1>5. CASE Auth!TimePasses \/ UNCHANGED Auth!vars
  BY <1>0, <1>5 DEF Auth!TimePasses, Auth!vars, SessionsInv
<1> HIDE DEF Kept
<1> QED BY <1>1, <1>2, <1>3, <1>4, <1>5 DEF Auth!Next

(* The account: ranges                                                     *)

\* Tokens are of the past, passwords shown were current at some time, a device waits for
\* trust only after it came with the token it was given, and the histories are of codes
\* and kinds there are.
Sessions(now, password) ==
  [token : 0 .. now, device : BOOLEAN, under : 0 .. password, since : 0 .. password]
Ranges ==
  /\ clock \in Nat /\ trusted \subseteq Devices
  /\ shared \subseteq Codes /\ authMet \subseteq Auth!Kinds \cup {"password"}
  /\ session \subseteq Sessions(clock, user.password)
  /\ \A t \in pending : t.under \in 0 .. user.password
  /\ \A p \in Requests :
       /\ authReq[p].under \in 0 .. user.password
       /\ authReq[p].goal = "device" => authReq[p].device \in Devices

LEMMA RangesInit == Auth!Init => Ranges
BY DEF Auth!Init, Auth!Idle, Auth!Locals, Ranges

LEMMA LoginHasDevice ==
  ASSUME Typed, NEW p \in Requests, Auth!Begin(p)
  PROVE  authReq'[p].goal = "device" => authReq'[p].device \in Devices
<1> USE DEF Typed, Auth!Start, Auth!StartUnder, Auth!Locals
<1>1. CASE Auth!Register(p) \/ Auth!ResendEmailOTP(p) \/ Auth!RequestPasswordReset(p)
  BY <1>1 DEF Auth!Register, Auth!ResendEmailOTP, Auth!RequestPasswordReset
<1>2. CASE Auth!SendTransactionOTP(p) \/ Auth!SetupPIN(p) \/ Auth!ChangePIN(p)
  BY <1>2 DEF Auth!SendTransactionOTP, Auth!SetupPIN, Auth!ChangePIN
<1>3. CASE Auth!SetPINAfterVerification(p)
  BY <1>3 DEF Auth!SetPINAfterVerification
<1>4. ASSUME NEW d \in Devices \cup {Auth!NoDevice}, Auth!Login(p, d)
      PROVE  authReq'[p].goal # "device"
  BY <1>4 DEF Auth!Login
<1>5. ASSUME NEW c \in Codes,
             Auth!Verify(p, c) \/ Auth!ResetPassword(p, c) \/ Auth!AssertSecurity(p, c)
      PROVE  authReq'[p].goal # "device"
  BY <1>5 DEF Auth!Verify, Auth!ResetPassword, Auth!AssertSecurity
<1>6. ASSUME NEW t \in pending, Auth!ResendDeviceLoginOTP(p, t)
      PROVE  authReq'[p].goal # "device"
  BY <1>6 DEF Auth!ResendDeviceLoginOTP
<1>7. ASSUME NEW c \in Codes, NEW t \in pending, Auth!VerifyDeviceLogin(p, c, t)
      PROVE  authReq'[p].device \in Devices
  BY <1>7 DEF Auth!VerifyDeviceLogin
<1> QED BY <1>1, <1>2, <1>3, <1>4, <1>5, <1>6, <1>7 DEF Auth!Begin

LEMMA RangesNext == Typed /\ Ranges /\ [Auth!Next]_Auth!vars => Ranges'
<1> SUFFICES ASSUME Typed, Ranges, [Auth!Next]_Auth!vars PROVE Ranges'
  OBVIOUS
<1>0. /\ user.password \in Nat /\ pending \subseteq [device : Devices, under : Nat]
      /\ authReq \in [Requests -> Local] /\ \A p \in Requests : LocalOK(authReq[p])
      /\ 0 \in 0 .. user.password
  BY DEF Typed
<1> DEFINE LocalsIn == \A p \in Requests :
             /\ authReq'[p].under \in 0 .. user'.password
             /\ authReq'[p].goal = "device" => authReq'[p].device \in Devices
           PendingIn == \A t \in pending' : t.under \in 0 .. user'.password
           SessionsIn == session' \subseteq Sessions(clock', user'.password)
           Grows == user'.password \in Nat /\ user.password <= user'.password
<1>1. ASSUME NEW p \in Requests, NEW r, Wrote(p, r), Grows, r.under \in 0 .. user'.password,
             r.goal = "device" => r.device \in Devices
      PROVE  LocalsIn
  BY <1>0, <1>1 DEF Wrote, Ranges
<1>2. ASSUME Grows, UNCHANGED clock, NEW s \in session
      PROVE  s \in Sessions(clock', user'.password)
  <2>1. s \in Sessions(clock, user.password) /\ UNCHANGED clock
    BY <1>2 DEF Ranges
  <2>2. 0 .. user.password \subseteq 0 .. user'.password
    BY <1>0, <1>2
  <2> QED BY <2>1, <2>2 DEF Sessions
<1>p. ASSUME Grows, pending' \subseteq pending
      PROVE  PendingIn
  BY <1>0, <1>p DEF Ranges
<1>3. UNCHANGED user => Grows
  BY <1>0
<1>4. \A p \in Requests : Wrote(p, Auth!Idle) /\ Grows => LocalsIn
  <2>1. Auth!Idle.under = 0 /\ Auth!Idle.goal = "none"
    BY DEF Auth!Idle, Auth!Locals
  <2> QED BY <1>0, <1>1, <2>1
<1>5. ASSUME NEW p \in Requests, NEW step, Wrote(p, [authReq[p] EXCEPT !.pc = step]), Grows
      PROVE  LocalsIn
  <2> DEFINE r == [authReq[p] EXCEPT !.pc = step]
  <2>1. authReq[p] \in Local
    BY <1>0
  <2>2. r.goal = authReq[p].goal /\ r.under = authReq[p].under
        /\ r.device = authReq[p].device
    BY <2>1 DEF Local
  <2>3. r.under \in 0 .. user'.password
    BY <1>0, <1>5, <2>2 DEF Ranges
  <2>4. r.goal = "device" => r.device \in Devices
    BY <1>5, <2>2 DEF Ranges
  <2> HIDE DEF r, Grows, LocalsIn
  <2>5. Wrote(p, r)
    BY <1>5 DEF r
  <2> QED BY <1>1, <1>5, <2>3, <2>4, <2>5
<1>6. ASSUME LocalsIn, PendingIn, SessionsIn, clock' \in Nat, trusted' \subseteq Devices,
             shared' \subseteq Codes, authMet' \subseteq Auth!Kinds \cup {"password"}
      PROVE  Ranges'
  BY <1>6 DEF Ranges
<1> HIDE DEF LocalsIn, PendingIn, Grows
<1>7. ASSUME NEW p \in Requests, Auth!Begin(p), UNCHANGED clock
      PROVE  LocalsIn /\ PendingIn /\ SessionsIn /\ trusted' \subseteq Devices
  <2>1. UNCHANGED <<user, pending, session, trusted>>
    BY <1>7 DEF Auth!Begin
  <2>2. PICK r : Fresh(r) /\ authReq' = [authReq EXCEPT ![p] = r]
    BY <1>7, Begins
  <2>3. Wrote(p, r)
    BY <2>2, Written DEF Fresh
  <2>4. authReq'[p] = r
    BY <2>3 DEF Wrote
  <2>5. r.under \in 0 .. user'.password
    BY <1>0, <2>1, <2>2 DEF Fresh, Ranges
  <2>6. r.goal = "device" => r.device \in Devices
    BY <1>7, <2>4, LoginHasDevice
  <2>7. LocalsIn /\ PendingIn
    BY <1>1, <1>3, <1>p, <2>1, <2>3, <2>5, <2>6
  <2> QED BY <1>2, <1>3, <1>7, <2>1, <2>7 DEF Ranges
<1>8. ASSUME NEW p \in Requests, Auth!Advance(p), UNCHANGED clock
      PROVE  LocalsIn /\ PendingIn /\ SessionsIn /\ trusted' \subseteq Devices
  <2> USE DEF Auth!At
  <2>0. authReq[p] \in Local /\ LocalOK(authReq[p])
    BY <1>0
  <2>1. Grows
    <3>1. CASE Auth!CreateUser(p)
      BY <1>0, <3>1 DEF Auth!CreateUser, Grows, Typed
    <3>2. CASE Auth!SetVerified(p) \/ Auth!WritePassword(p) \/ Auth!WritePIN(p)
      BY <1>0, <3>2 DEF Auth!SetVerified, Auth!WritePassword, Auth!WritePIN, Grows, Typed
    <3>3. CASE UNCHANGED user
      BY <1>3, <3>3
    <3> QED BY <1>8, <3>1, <3>2, <3>3 DEF Auth!Advance, Auth!VoidEarlier, Auth!InsertCode,
              Auth!MarkUsed, Auth!InitializeWallets, Auth!TrustDevice, Auth!CreateSession,
              Auth!MarkReset, Auth!EvictSessions
  <2>2. LocalsIn
    <3>1. CASE Auth!Finish(p)
      BY <1>4, <2>1, <3>1, Moves
    <3>2. ASSUME NEW step, Auth!Goto(p, step)
          PROVE  LocalsIn
      BY <1>5, <2>1, <3>2, Moves
    <3> QED BY <1>8, <3>1, <3>2, KeepsCode
  <2>p. PendingIn
    <3>1. CASE Auth!InsertCode(p)
      <4>1. authReq[p].under \in 0 .. user'.password /\ UNCHANGED user
        BY <3>1 DEF Auth!InsertCode, Ranges
      <4>2. \A t \in pending' : t \in pending \/ t.under = authReq[p].under
        BY <3>1 DEF Auth!InsertCode
      <4> QED BY <4>1, <4>2 DEF PendingIn, Ranges
    <3>2. CASE UNCHANGED pending
      BY <1>p, <2>1, <3>2
    <3> QED BY <1>8, <3>1, <3>2 DEF Auth!Advance, Auth!CreateUser, Auth!VoidEarlier,
              Auth!MarkUsed, Auth!SetVerified, Auth!InitializeWallets, Auth!TrustDevice,
              Auth!CreateSession, Auth!WritePassword, Auth!MarkReset, Auth!EvictSessions,
              Auth!WritePIN
  <2>3. SessionsIn
    <3>1. CASE Auth!CreateSession(p)
      <4> DEFINE new == [token |-> clock, device |-> authReq[p].goal = "device",
                         under |-> authReq[p].under, since |-> user.password]
      <4>1. new \in Sessions(clock', user'.password)
        <5>1. UNCHANGED user
          BY <3>1 DEF Auth!CreateSession
        <5>2. /\ clock \in 0 .. clock' /\ authReq[p].under \in 0 .. user'.password
              /\ user.password \in 0 .. user'.password
          BY <1>0, <1>8, <5>1 DEF Ranges
        <5> QED BY <5>2 DEF Sessions
      <4>2. session' \subseteq session \cup {new}
        BY <3>1 DEF Auth!CreateSession
      <4> HIDE DEF new
      <4> QED BY <1>2, <1>8, <2>1, <4>1, <4>2
    <3>2. CASE Auth!EvictSessions(p)
      BY <3>2 DEF Auth!EvictSessions
    <3>3. CASE UNCHANGED session
      BY <1>2, <1>8, <2>1, <3>3
    <3> QED BY <1>8, <3>1, <3>2, <3>3 DEF Auth!Advance, Auth!CreateUser, Auth!VoidEarlier,
              Auth!InsertCode, Auth!MarkUsed, Auth!SetVerified, Auth!InitializeWallets,
              Auth!TrustDevice, Auth!WritePassword, Auth!MarkReset, Auth!WritePIN
  <2>4. trusted' \subseteq Devices
    <3>1. CASE Auth!TrustDevice(p)
      <4>1. authReq[p].goal = "device"
        BY <2>0, <3>1 DEF Auth!TrustDevice, LocalOK
      <4> QED BY <3>1, <4>1 DEF Auth!TrustDevice, Ranges
    <3>2. CASE UNCHANGED trusted
      BY <3>2 DEF Ranges
    <3> QED BY <1>8, <3>1, <3>2 DEF Auth!Advance, Auth!CreateUser, Auth!VoidEarlier,
              Auth!InsertCode, Auth!MarkUsed, Auth!SetVerified, Auth!InitializeWallets,
              Auth!CreateSession, Auth!WritePassword, Auth!MarkReset, Auth!EvictSessions,
              Auth!WritePIN
  <2> QED BY <2>2, <2>p, <2>3, <2>4
<1>9. ASSUME NEW p \in Requests, Auth!Begin(p) \/ Auth!Advance(p), UNCHANGED clock,
             shared' = shared \cup Auth!Shared', authMet' = authMet \cup Auth!Crossed'
      PROVE  Ranges'
  <2>1. Auth!Shared' \subseteq Codes /\ Auth!Crossed' \subseteq Auth!Kinds \cup {"password"}
    BY DEF Auth!Shared, Auth!Crossed
  <2>2. clock' \in Nat /\ shared' \subseteq Codes /\ authMet' \subseteq Auth!Kinds \cup {"password"}
    BY <1>9, <2>1 DEF Ranges
  <2> QED BY <1>6, <1>7, <1>8, <1>9, <2>2
<1>10. ASSUME NEW p \in Requests, Auth!RequestLost(p)
       PROVE  Ranges'
  <2>1. UNCHANGED <<user, pending, session, trusted, clock>> /\ Grows
    BY <1>3, <1>10 DEF Auth!RequestLost
  <2>2. LocalsIn
    <3>1. CASE Auth!Finish(p)
      BY <1>4, <2>1, <3>1, Moves
    <3>2. CASE Auth!Goto(p, "session")
      BY <1>5, <2>1, <3>2, Moves
    <3> QED BY <1>10, <3>1, <3>2 DEF Auth!RequestLost
  <2>3. shared' \subseteq Codes /\ authMet' \subseteq Auth!Kinds \cup {"password"}
    BY <1>10 DEF Auth!RequestLost, Ranges
  <2>4. PendingIn /\ SessionsIn
    BY <1>2, <1>p, <2>1
  <2> QED BY <1>6, <2>1, <2>2, <2>3, <2>4 DEF Ranges
<1>11. CASE Auth!Settings
  <2>1. /\ UNCHANGED <<clock, trusted, pending, authReq, shared, authMet>>
        /\ user'.password = user.password /\ session' \subseteq session
    BY <1>11 DEF Auth!Settings, Auth!SetActive, Auth!UpdateSecuritySettings, Auth!RevokeSession,
                 Auth!RevokeOtherSessions, Auth!Logout, Typed
  <2> QED BY <2>1 DEF Ranges
<1>12. CASE Auth!TimePasses
  <2>1. /\ UNCHANGED <<user, trusted, session, authReq, shared, authMet>>
        /\ pending' \subseteq pending
        /\ clock' = clock \/ clock' = clock + 1
    BY <1>12 DEF Auth!TimePasses
  <2>2. clock' \in Nat /\ 0 .. clock \subseteq 0 .. clock'
    BY <2>1 DEF Ranges
  <2>3. session' \subseteq Sessions(clock', user'.password)
    BY <2>1, <2>2 DEF Ranges, Sessions
  <2> QED BY <2>1, <2>2, <2>3 DEF Ranges
<1>13. CASE UNCHANGED Auth!vars
  BY <1>13 DEF Auth!vars, Ranges
<1> QED BY <1>9, <1>10, <1>11, <1>12, <1>13 DEF Auth!Next

(* The account: the invariant                                              *)

AccountIInv ==
  Typed /\ CodesInv /\ NewUser /\ SendersInv /\ SessionsInv /\ WalletsInv /\ Ranges

LEMMA AccountInit == Auth!Init => AccountIInv
<1> SUFFICES ASSUME Auth!Init PROVE AccountIInv
  OBVIOUS
<1>1. \A p \in Requests :
        authReq[p].pc = "idle" /\ authReq[p].code = Auth!NoCode /\ authReq[p].goal = "none"
  BY DEF Auth!Init, Auth!Idle, Auth!Locals
<1>2. \A c \in Codes : code[c].state = "none" /\ opened[c] = 0
  BY DEF Auth!Init
<1>3. CodesInv
  <2> SUFFICES ASSUME NEW c \in Real PROVE CodeOK(c)
    BY DEF CodesInv
  <2>1. \A p \in Requests : authReq[p].code # c
    BY <1>1 DEF Real
  <2> QED BY <1>2, <2>1 DEF CodeOK, Real, Settled
<1>4. NewUser
  BY <1>1, <1>2 DEF NewUser, Auth!Init
<1>5. SendersInv
  BY <1>1, <1>2 DEF SendersInv, SenderOK, Auth!Sending, Auth!At, Auth!Unused
<1>6. SessionsInv /\ WalletsInv
  BY <1>1 DEF SessionsInv, WalletsInv, Auth!Init, Presents
<1> QED BY <1>3, <1>4, <1>5, <1>6, TypedInit, RangesInit DEF AccountIInv

LEMMA AccountStep == AccountIInv /\ [Auth!Next]_Auth!vars => AccountIInv'
BY TypedNext, CodesNext, NewUserNext, SendersNext, SessionsNext, WalletsNext, RangesNext
   DEF AccountIInv

\* What an account's handlers know of their codes, of each other and of the password
\* stays so, whatever the other handlers, the user and the clock do.
THEOREM AccountInvariance == Auth!Spec => []AccountIInv
BY AccountInit, AccountStep, PTL DEF Auth!Spec

LEMMA AccountTypes == AccountIInv => Auth!TypeOK
<1> SUFFICES ASSUME AccountIInv PROVE Auth!TypeOK
  OBVIOUS
<1>1. authReq \in [Requests -> [pc : Auth!Steps, goal : Auth!Goals, kind : Auth!Kinds,
                                code : Codes \cup {Auth!NoCode},
                                device : Devices \cup {Auth!NoDevice},
                                under : 0 .. user.password]]
  BY DEF AccountIInv, Typed, Ranges, Local
<1>2. pending \subseteq [device : Devices, under : 0 .. user.password]
  BY DEF AccountIInv, Typed, Ranges
<1>3. session \subseteq [token : 0 .. clock, device : BOOLEAN, under : 0 .. user.password,
                        since : 0 .. user.password]
  BY DEF AccountIInv, Ranges, Sessions
<1> QED BY <1>1, <1>2, <1>3 DEF AccountIInv, Typed, Ranges, Rows, Auth!TypeOK

LEMMA AccountCodes == AccountIInv => Auth!CodesOpenOnce
<1> SUFFICES ASSUME AccountIInv PROVE Auth!CodesOpenOnce
  OBVIOUS
<1>1. ASSUME NEW c \in Codes \ shared
      PROVE  opened[c] <= 1 /\ (opened[c] = 1 /\ ~Auth!Held(c) => code[c].state = "used")
  <2>1. CodeOK(c)
    BY CodesAssumption DEF AccountIInv, CodesInv, Real, Auth!NoCode
  <2>2. CASE Auth!Held(c)
    <3>1. PICK p \in Requests : authReq[p].code = c
      BY <2>2 DEF Auth!Held
    <3>2. Good(authReq[p].pc, code[c].state, opened[c])
      BY <2>1, <3>1 DEF CodeOK
    <3> QED BY <2>2, <3>2 DEF Good, WithCode
  <2>3. CASE ~Auth!Held(c)
    BY <2>1, <2>3 DEF CodeOK, Settled
  <2> QED BY <2>2, <2>3
<1>2. ASSUME NEW k \in Auth!Renewed \ authMet, NEW c \in Codes, NEW d \in Codes,
             Auth!Unused(c, k), Auth!Unused(d, k)
      PROVE  c = d
  BY <1>2 DEF AccountIInv, SendersInv, SenderOK
<1> QED BY <1>1, <1>2 DEF Auth!CodesOpenOnce

LEMMA AccountSessions == AccountIInv => Auth!SessionsFollowPassword
<1> SUFFICES ASSUME AccountIInv PROVE Auth!SessionsFollowPassword
  OBVIOUS
<1>1. ASSUME "password" \notin authMet, \A p \in Requests : ~Auth!Resetting(p), NEW s \in session
      PROVE  s.since = user.password /\ (s.under = user.password \/ s.device)
  <2>1. Current(s, user.password)
    BY <1>1 DEF AccountIInv, SessionsInv, Auth!Resetting
  <2> QED BY <2>1 DEF Current
<1>2. mishaps = 0 /\ user.verified /\ (\A p \in Requests : Auth!At(p, "idle")) => wallets
  BY DEF AccountIInv, WalletsInv, Auth!At
<1> QED BY <1>1, <1>2 DEF Auth!SessionsFollowPassword

-----------------------------------------------------------------------------
(* The quotes: types                                                       *)

\* The steps of a sale, from its estimate to its rows, and those of coin.
Estimating == {"read", "ensure", "persist", "clear", "quote", "payout"}
Paying == {"requote", "transfer", "write"}
CoinSteps == {"send", "receive"}
SaleModes == {"palmpay_temp", "dashboard_bank"}

Networks == {"TRX", "ETH", "BSC", "SOL"}
Limit == [on : BOOLEAN, min : Int, max : Int, minDeposit : Int]
Taken ==
  {[TRX |-> Takes(TRUE, 2, 2, 2), BSC |-> Takes(TRUE, 1, 0, 0)],
   [TRX |-> Takes(TRUE, 0, 1, 0), BSC |-> Takes(FALSE, 0, 0, 3)]}
Told == {Quoted!Unavailable} \cup [Networks -> Limit]
\* The kinds of sale, and the names of networks: Rhinox's, a client's and Busha's.
Words == {"none", "preview", "sell", "TRX", "ETH", "BSC", "SOL", "BNB", "MATIC",
          "bep20", "bnb", "polygon"}
QuoteLocal ==
  [pc : Estimating \cup Paying \cup CoinSteps \cup {"idle", "config"}, kind : Words,
   again : BOOLEAN, tries : 0..2, seen : [data : Nat, cached : Nat], pays : Nat, conf : Nat,
   to : Nat, quote : Int, net : Words, told : Told]

Opens ==
  /\ recipients \in Seq([order : Nat, live : BOOLEAN])
  /\ orders \in Seq(Int)
  /\ transfers \in Seq([to : Nat, amount : Int])
Trade == [to : Nat, credit : Int, order : Nat]
CoinRow == [side : {"send", "receive"}, net : Words, amount : Int, told : Told]
QuoteTyped ==
  /\ Opens
  /\ platform \in [mode : SaleModes, bank : BOOLEAN, recipient : Nat]
  /\ profile \in [data : Nat, cached : Nat] /\ synced \in Nat
  /\ trades \in Seq(Trade) /\ coins \in Seq(CoinRow)
  /\ price \in {90, 100, 110}
  /\ limits \in Taken
  /\ quoteReq \in [Requests -> QuoteLocal]
  /\ sales \in Nat

\* Accounts, orders and transfers are only ever added, and an account stays that of the
\* order it was made for.
Grown(r1, r2, o1, o2, t1, t2) ==
  /\ Len(r1) <= Len(r2) /\ \A i \in 1..Len(r1) : r2[i].order = r1[i].order
  /\ Len(o1) <= Len(o2) /\ \A i \in 1..Len(o1) : o2[i] = o1[i]
  /\ Len(t1) <= Len(t2) /\ \A i \in 1..Len(t1) : t2[i] = t1[i]

\* A handler's accounts are there.
There(r, rec) ==
  /\ r.to <= Len(rec) /\ r.pays <= Len(rec) /\ r.conf <= Len(rec)
  /\ r.seen.cached <= Len(rec)
  /\ r.pc \in {"persist", "quote", "clear", "config"} \cup Paying => r.to # 0

\* A sale to the platform's bank is paid to a bank, and a sale that PalmPay takes in to
\* one of PalmPay's orders, which waits for what was quoted from then on.
Aimed(r, rec, ord, mode) ==
  /\ r.pays # 0 => rec[r.pays].order = 0
  /\ r.pc = "config" => mode = "dashboard_bank" /\ rec[r.to].order = 0
  /\ r.pc = "requote" /\ mode = "dashboard_bank" => rec[r.to].order = 0
  /\ r.pc \in Paying /\ mode = "palmpay_temp" => rec[r.to].order # 0
  /\ r.pc \in {"transfer", "write"} /\ mode = "palmpay_temp" =>
       ord[rec[r.to].order] = r.quote

\* Before its rows are written its transfer is open.
Opened(r, tr) ==
  r.pc = "write" => \E i \in 1..Len(tr) : tr[i] = [to |-> r.to, amount |-> r.quote]

\* What a handler that moves coin was told, and of which network.
CoinAsked(r) ==
  /\ r.pc \in CoinSteps => r.net = Quoted!MatchCurrencyNetwork(r.kind)
  /\ r.pc = "receive" => r.quote >= 1

Fits(r) ==
  /\ There(r, recipients) /\ Aimed(r, recipients, orders, platform.mode)
  /\ Opened(r, transfers) /\ CoinAsked(r)

\* What was opened for PalmPay is for one transfer alone.
Awaiting(r) == r.pc \in {"requote", "transfer"}
Alone ==
  platform.mode = "palmpay_temp" =>
    /\ \A p \in Requests : Awaiting(quoteReq[p]) =>
         /\ \A i \in 1..Len(transfers) : transfers[i].to # quoteReq[p].to
         /\ \A q \in Requests \ {p} : Awaiting(quoteReq[q]) => quoteReq[q].to # quoteReq[p].to
    /\ \A i, j \in 1..Len(transfers) : i # j => transfers[i].to # transfers[j].to

\* The rows of sales are those of transfers, and PalmPay's order is told.
TradesTold ==
  \A i \in 1..Len(trades) :
    /\ \E j \in 1..Len(transfers) :
         transfers[j] = [to |-> trades[i].to, amount |-> trades[i].credit]
    /\ platform.mode = "palmpay_temp" => trades[i].order = recipients[trades[i].to].order
RowsTold ==
  /\ \A i \in 1..Len(recipients) : recipients[i].order <= Len(orders)
  /\ \A i \in 1..Len(transfers) :
       /\ transfers[i].to \in 1..Len(recipients)
       /\ platform.mode = "palmpay_temp" =>
            /\ recipients[transfers[i].to].order # 0
            /\ orders[recipients[transfers[i].to].order] = transfers[i].amount
  /\ TradesTold
  /\ profile.cached <= Len(recipients) /\ platform.recipient <= Len(recipients)
  /\ platform.recipient # 0 => recipients[platform.recipient].order = 0

\* How many accounts a handler may yet have opened.
YetToOpen(r) ==
  IF r.pc \in Estimating THEN 3 ELSE IF r.pc \in {"config", "requote"} THEN 2 - r.tries ELSE 0
YetByAll == [p \in Requests |-> YetToOpen(quoteReq[p])]
FewOpened ==
  /\ Len(orders) + SumFunctionOnSet(YetByAll, Requests) <= 1 + 3 * sales
  /\ platform.mode = "dashboard_bank" => Len(orders) <= 1

\* What an estimate has read of the customer is still so, unless a sync came meanwhile.
Informing ==
  ~quoteMet =>
    /\ profile.data = synced
    /\ \A p \in Requests : quoteReq[p].pc \in {"ensure", "persist", "clear", "quote"} =>
                             quoteReq[p].seen.data = synced

QuoteIInv ==
  /\ QuoteTyped /\ \A p \in Requests : Fits(quoteReq[p])
  /\ Alone /\ RowsTold /\ FewOpened /\ Informing /\ Quoted!WithinLimits

-----------------------------------------------------------------------------
(* The quotes: what a step may do to the rest                              *)

OpensKept == <<synced, recipients, orders, transfers, price, limits, quoteMet>>
Kept == <<OpensKept, trades, coins>>
Rested == <<Kept, platform, profile>>

\* Handler p goes on with the locals r.
Goes(p, r) == r \in QuoteLocal /\ quoteReq' = [quoteReq EXCEPT ![p] = r]

LEMMA SeqOf ==
  ASSUME NEW S, NEW s \in Seq(S)
  PROVE  Len(s) \in Nat /\ \A i \in 1..Len(s) : s[i] \in S
OBVIOUS
LEMMA OpensAre ==
  ASSUME Opens
  PROVE  /\ Len(recipients) \in Nat /\ Len(orders) \in Nat /\ Len(transfers) \in Nat
         /\ \A i \in 1..Len(recipients) : recipients[i] \in [order : Nat, live : BOOLEAN]
         /\ \A i \in 1..Len(orders) : orders[i] \in Int
         /\ \A i \in 1..Len(transfers) : transfers[i] \in [to : Nat, amount : Int]
<1>1. /\ recipients \in Seq([order : Nat, live : BOOLEAN]) /\ orders \in Seq(Int)
      /\ transfers \in Seq([to : Nat, amount : Int])
  BY DEF Opens
<1> QED BY <1>1, SeqOf, Zenon

LEMMA GoesOn ==
  ASSUME QuoteTyped, NEW p \in Requests, NEW r, Goes(p, r)
  PROVE  /\ quoteReq' \in [Requests -> QuoteLocal] /\ quoteReq'[p] = r
         /\ \A q \in Requests \ {p} : quoteReq'[q] = quoteReq[q]
BY DEF Goes, QuoteTyped

\* What the locals of the others say lasts while accounts, orders and transfers are added.
LEMMA FitsLast ==
  ASSUME QuoteTyped, QuoteTyped', RowsTold, platform'.mode = platform.mode,
         Grown(recipients, recipients', orders, orders', transfers, transfers'),
         NEW r \in QuoteLocal, Fits(r)
  PROVE  Fits(r)'
<1> DEFINE rec == recipients
           ord == orders
           tr  == transfers
<1>1. /\ Len(rec) \in Nat /\ Len(rec') \in Nat /\ Len(rec) <= Len(rec')
      /\ Len(ord) \in Nat /\ Len(ord') \in Nat /\ Len(ord) <= Len(ord')
      /\ Len(tr) \in Nat /\ Len(tr') \in Nat /\ Len(tr) <= Len(tr')
  <2>1. Opens /\ Opens'
    BY DEF QuoteTyped
  <2>2. Len(rec') \in Nat /\ Len(ord') \in Nat /\ Len(tr') \in Nat
    BY <2>1, OpensAre
  <2> QED BY <2>1, <2>2, OpensAre DEF Grown
<1>2. /\ \A i \in 1..Len(rec) : rec'[i].order = rec[i].order /\ rec[i].order \in 0..Len(ord)
      /\ \A i \in 1..Len(ord) : ord'[i] = ord[i]
      /\ \A i \in 1..Len(tr) : tr'[i] = tr[i]
  <2>1. \A i \in 1..Len(rec) : rec[i].order \in Nat
    BY OpensAre DEF QuoteTyped
  <2> QED BY <2>1, <1>1 DEF Grown, RowsTold
<1>3. r.to \in Nat /\ r.pays \in Nat /\ r.conf \in Nat /\ r.seen.cached \in Nat
  BY DEF QuoteLocal
<1> HIDE DEF rec, ord, tr
<1>4. There(r, rec) /\ Aimed(r, rec, ord, platform.mode) /\ Opened(r, tr) /\ CoinAsked(r)
  BY DEF Fits, rec, ord, tr
<1>5. There(r, rec')
  <2>1. PICK m \in Nat, n \in Nat : m = Len(rec) /\ n = Len(rec') /\ m <= n
    BY <1>1
  <2>2. r.to <= m /\ r.pays <= m /\ r.conf <= m /\ r.seen.cached <= m
    BY <1>4, <2>1 DEF There
  <2>3. r.to <= n /\ r.pays <= n /\ r.conf <= n /\ r.seen.cached <= n
    BY <1>3, <2>1, <2>2
  <2>4. r.pc \in {"persist", "quote", "clear", "config"} \cup Paying => r.to # 0
    BY <1>4, Zenon DEF There
  <2> QED BY <2>1, <2>3, <2>4, Zenon DEF There
<1>6. Aimed(r, rec', ord', platform.mode)
  <2>0. /\ r.pc \in Paying \cup {"config"} => r.to \in 1..Len(rec)
        /\ r.pays # 0 => r.pays \in 1..Len(rec)
    <3>1. r.to <= Len(rec) /\ r.pays <= Len(rec)
      BY <1>4 DEF There
    <3>2. r.pc \in Paying \cup {"config"} => r.to # 0
      BY <1>4, Zenon DEF There
    <3>3. Len(rec) \in Nat
      BY <1>1
    <3> QED BY <1>3, <3>1, <3>2, <3>3
  <2>1. r.pc \in Paying \cup {"config"} => rec'[r.to].order = rec[r.to].order
    BY <1>2, <2>0
  <2>2. r.pays # 0 => rec'[r.pays].order = rec[r.pays].order
    BY <1>2, <2>0
  <2>3. r.pc \in {"transfer", "write"} /\ platform.mode = "palmpay_temp" =>
          ord'[rec[r.to].order] = ord[rec[r.to].order]
    <3>1. r.pc \in {"transfer", "write"} /\ platform.mode = "palmpay_temp" =>
            r.to \in 1..Len(rec) /\ rec[r.to].order # 0
      BY <1>4, <2>0 DEF Aimed, Paying
    <3> QED BY <3>1, <1>1, <1>2
  <2> QED BY <2>1, <2>2, <2>3, <1>4 DEF Aimed, Paying
<1>7. Opened(r, tr')
  <2> SUFFICES ASSUME r.pc = "write"
               PROVE  \E i \in 1..Len(tr') : tr'[i] = [to |-> r.to, amount |-> r.quote]
    BY DEF Opened
  <2>1. PICK i \in 1..Len(tr) : tr[i] = [to |-> r.to, amount |-> r.quote]
    BY <1>4 DEF Opened
  <2>2. i \in 1..Len(tr') /\ tr'[i] = tr[i]
    BY <1>1, <1>2
  <2> QED BY <2>1, <2>2
<1> QED BY <1>4, <1>5, <1>6, <1>7 DEF Fits, rec, ord, tr, CoinAsked

LEMMA OthersFit ==
  ASSUME QuoteIInv, QuoteTyped', platform'.mode = platform.mode,
         Grown(recipients, recipients', orders, orders', transfers, transfers'),
         NEW p \in Requests, NEW r, Goes(p, r), Fits(r)'
  PROVE  \A q \in Requests : Fits(quoteReq[q])'
<1> SUFFICES ASSUME NEW q \in Requests PROVE Fits(quoteReq[q])'
  OBVIOUS
<1>1. CASE q = p
  <2>1. PICK s : s = quoteReq'[p]
    OBVIOUS
  <2>2. s = r
    BY <2>1, GoesOn DEF QuoteIInv
  <2> QED BY <1>1, <2>1, <2>2 DEF Fits, There, Aimed, Opened, CoinAsked
<1>2. CASE q # p
  <2>1. quoteReq'[q] = quoteReq[q]
    BY <1>2, GoesOn DEF QuoteIInv
  <2>2. PICK s : s = quoteReq[q]
    OBVIOUS
  <2>3. Fits(s) /\ s \in QuoteLocal
    BY <2>2 DEF QuoteIInv, QuoteTyped
  <2>4. Fits(s)'
    BY <2>3, FitsLast DEF QuoteIInv
  <2> QED BY <2>1, <2>2, <2>4 DEF Fits, There, Aimed, Opened, CoinAsked
<1> QED BY <1>1, <1>2

\* The accounts that may yet be opened.
LEMMA YetMoves ==
  ASSUME QuoteIInv, IsFiniteSet(Requests), QuoteTyped', NEW p \in Requests, NEW r, Goes(p, r),
         Len(orders') + YetToOpen(r) + 3 * sales
           <= Len(orders) + YetToOpen(quoteReq[p]) + 3 * sales',
         platform'.mode = platform.mode,
         platform.mode = "dashboard_bank" => Len(orders') = Len(orders)
  PROVE  FewOpened'
<1>1. \A s \in QuoteLocal : YetToOpen(s) \in Nat
  BY DEF YetToOpen, QuoteLocal
<1>2. /\ quoteReq'[p] = r /\ quoteReq[p] \in QuoteLocal /\ r \in QuoteLocal
      /\ \A q \in Requests \ {p} : quoteReq'[q] = quoteReq[q]
      /\ \A q \in Requests : quoteReq[q] \in QuoteLocal
  BY GoesOn DEF QuoteIInv, QuoteTyped, Goes
<1> DEFINE n == YetToOpen(r) - YetToOpen(quoteReq[p])
<1>3. /\ n \in Int /\ Len(orders) \in Nat /\ Len(orders') \in Nat
      /\ sales \in Nat /\ sales' \in Nat
  <2>1. QuoteTyped /\ Opens /\ Opens'
    BY DEF QuoteIInv, QuoteTyped
  <2>2. Len(orders) \in Nat /\ Len(orders') \in Nat
    BY <2>1, OpensAre
  <2>3. sales \in Nat /\ sales' \in Nat
    BY DEF QuoteIInv, QuoteTyped
  <2>4. YetToOpen(r) \in Nat /\ YetToOpen(quoteReq[p]) \in Nat
    BY <1>1, <1>2
  <2> QED BY <2>1, <2>2, <2>3, <2>4, OpensAre
<1>4. Rises(Requests, YetByAll, YetByAll', p, n)
  <2>1. YetByAll[p] = YetToOpen(quoteReq[p]) /\ YetByAll'[p] = YetToOpen(r)
    BY <1>2 DEF YetByAll, YetToOpen
  <2>2. \A q \in Requests : YetByAll[q] \in Int
    BY <1>1, <1>2 DEF YetByAll
  <2>3. \A q \in Requests \ {p} : YetByAll'[q] = YetByAll[q]
    BY <1>2 DEF YetByAll, YetToOpen
  <2>4. YetByAll'[p] = YetByAll[p] + n
    BY <2>1, <1>1, <1>2
  <2> QED BY <2>2, <2>3, <2>4, <1>3 DEF Rises
<1>5. SumFunctionOnSet(YetByAll', Requests) = SumFunctionOnSet(YetByAll, Requests) + n
      /\ SumFunctionOnSet(YetByAll, Requests) \in Int
  <2> HIDE DEF n
  <2> QED BY <1>4, SumOfRise
<1>6. YetToOpen(r) \in Nat /\ YetToOpen(quoteReq[p]) \in Nat
  BY <1>1, <1>2
<1>7. Len(orders') + SumFunctionOnSet(YetByAll', Requests) <= 1 + 3 * sales'
  <2>1. Len(orders) + SumFunctionOnSet(YetByAll, Requests) <= 1 + 3 * sales
    BY DEF QuoteIInv, FewOpened
  <2> DEFINE a == Len(orders)
             b == Len(orders')
             l == YetToOpen(quoteReq[p])
             m == YetToOpen(r)
             i == 3 * sales
             j == 3 * sales'
             sum == SumFunctionOnSet(YetByAll, Requests)
  <2>2. /\ a \in Int /\ b \in Int /\ l \in Int /\ m \in Int /\ sum \in Int
        /\ i \in Int /\ j \in Int
    BY <1>3, <1>5, <1>6
  <2>3. b + m + i <= a + l + j
    OBVIOUS
  <2>4. a + sum <= 1 + i /\ SumFunctionOnSet(YetByAll', Requests) = sum + (m - l)
    BY <2>1, <1>5
  <2> HIDE DEF a, b, l, m, i, j, sum
  <2>5. b + SumFunctionOnSet(YetByAll', Requests) <= 1 + j
    BY <2>2, <2>3, <2>4
  <2> QED BY <2>5 DEF b, j
<1> QED BY <1>7, <1>3 DEF QuoteIInv, FewOpened

\* Nobody else's account is taken by a handler that awaits none.
SameAim(r, q) ==
  Awaiting(r) => \/ platform.mode # "palmpay_temp"
                 \/ Awaiting(q) /\ r.to = q.to
LEMMA AloneStays ==
  ASSUME QuoteIInv, transfers' = transfers, platform'.mode = platform.mode,
         NEW p \in Requests, NEW r, Goes(p, r), SameAim(r, quoteReq[p])
  PROVE  Alone'
<1>1. /\ quoteReq'[p] = r
      /\ \A q \in Requests \ {p} : quoteReq'[q] = quoteReq[q]
  BY GoesOn DEF QuoteIInv
<1>2. platform.mode = "palmpay_temp" =>
        \A q \in Requests : Awaiting(quoteReq'[q]) =>
          Awaiting(quoteReq[q]) /\ quoteReq'[q].to = quoteReq[q].to
  BY <1>1 DEF SameAim
<1>3. Alone
  BY DEF QuoteIInv
<1> QED BY <1>2, <1>3 DEF Alone, Awaiting

LEMMA NothingGrown ==
  ASSUME Opens, UNCHANGED <<recipients, orders, transfers>>
  PROVE  Grown(recipients, recipients', orders, orders', transfers, transfers')
BY OpensAre DEF Grown

\* The locals that a step leaves a handler with are told the truth of the customer.
TrueOf(r, known) ==
  ~quoteMet /\ r.pc \in {"ensure", "persist", "clear", "quote"} => r.seen.data = known

LEMMA YetIs ==
  ASSUME NEW r \in QuoteLocal
  PROVE  /\ YetToOpen(r) \in Nat
         /\ r.pc \in Estimating => YetToOpen(r) = 3
         /\ r.pc \in {"config", "requote"} => YetToOpen(r) = 2 - r.tries
         /\ r.pc \notin Estimating \cup {"config", "requote"} => YetToOpen(r) = 0
BY DEF QuoteLocal, YetToOpen, Estimating

\* What there is, with its types.
LEMMA Parts ==
  ASSUME QuoteIInv
  PROVE  /\ QuoteTyped /\ Opens /\ RowsTold /\ Alone /\ FewOpened /\ Informing
         /\ Len(recipients) \in Nat /\ Len(orders) \in Nat /\ Len(transfers) \in Nat
         /\ sales \in Nat
         /\ \A p \in Requests : /\ quoteReq[p] \in QuoteLocal /\ YetToOpen(quoteReq[p]) \in Nat
                               /\ Fits(quoteReq[p])
<1>1. QuoteTyped /\ Opens
  BY DEF QuoteIInv, QuoteTyped
<1>2. sales \in Nat /\ \A p \in Requests : quoteReq[p] \in QuoteLocal
  BY <1>1 DEF QuoteTyped
<1> QED BY <1>1, <1>2, OpensAre, YetIs DEF QuoteIInv

\* A customer's row, and a configuration, that may be written.
ProfileFits(f) ==
  /\ f \in [data : Nat, cached : Nat] /\ f.cached <= Len(recipients)
  /\ ~quoteMet => f.data = synced
PlatformFits(f) ==
  /\ f \in [mode : SaleModes, bank : BOOLEAN, recipient : Nat] /\ f.mode = platform.mode
  /\ f.recipient <= Len(recipients)
  /\ f.recipient # 0 => recipients[f.recipient].order = 0

LEMMA WrittenFits ==
  ASSUME QuoteIInv
  PROVE  ProfileFits(profile) /\ PlatformFits(platform)
BY Parts DEF QuoteTyped, RowsTold, Informing, ProfileFits, PlatformFits

LEMMA WriteKeeps ==
  ASSUME QuoteIInv, IsFiniteSet(Requests), NEW p \in Requests, NEW r, Goes(p, r),
         UNCHANGED OpensKept,
         trades' \in Seq(Trade), coins' \in Seq(CoinRow), TradesTold', Quoted!WithinLimits',
         ProfileFits(profile'), PlatformFits(platform'),
         sales' \in Nat, Fits(r), TrueOf(r, synced),
         YetToOpen(r) + 3 * sales <= YetToOpen(quoteReq[p]) + 3 * sales',
         SameAim(r, quoteReq[p])
  PROVE  QuoteIInv'
<1>1. /\ UNCHANGED <<recipients, orders, transfers>> /\ platform'.mode = platform.mode
      /\ UNCHANGED <<synced, price, limits, quoteMet>>
  BY DEF OpensKept, PlatformFits
<1>2. QuoteTyped /\ Opens /\ RowsTold /\ Informing
  BY Parts
<1>3. QuoteTyped'
  <2>1. quoteReq' \in [Requests -> QuoteLocal]
    BY <1>2, GoesOn
  <2>2. Opens'
    BY <1>1, <1>2 DEF Opens
  <2>3. /\ platform' \in [mode : SaleModes, bank : BOOLEAN, recipient : Nat]
        /\ profile' \in [data : Nat, cached : Nat]
    BY DEF ProfileFits, PlatformFits
  <2> QED BY <1>1, <1>2, <2>1, <2>2, <2>3 DEF QuoteTyped
<1>4. Grown(recipients, recipients', orders, orders', transfers, transfers')
  BY <1>1, <1>2, NothingGrown
<1>5. Fits(r)'
  BY <1>1 DEF Fits, There, Aimed, Opened, CoinAsked
<1>6. \A q \in Requests : Fits(quoteReq[q])'
  BY <1>1, <1>3, <1>4, <1>5, OthersFit
<1>7. Alone'
  <2>1. transfers' = transfers /\ platform'.mode = platform.mode
    BY <1>1
  <2> QED BY <2>1, AloneStays, Zenon
<1>8. RowsTold'
  BY <1>1, <1>2 DEF RowsTold, ProfileFits, PlatformFits
<1>9. FewOpened'
  <2>1. Len(orders') = Len(orders) /\ Len(orders) \in Nat
    BY <1>1, <1>2, OpensAre
  <2>2. YetToOpen(r) \in Nat /\ YetToOpen(quoteReq[p]) \in Nat /\ sales \in Nat
    BY Parts, YetIs DEF Goes
  <2>3. Len(orders') + YetToOpen(r) + 3 * sales
          <= Len(orders) + YetToOpen(quoteReq[p]) + 3 * sales'
    BY <2>1, <2>2
  <2>4. platform'.mode = platform.mode /\ Len(orders') = Len(orders)
    BY <1>1, <2>1
  <2> QED BY <1>3, <2>3, <2>4, YetMoves
<1>10. Informing'
  <2>1. /\ quoteReq'[p] = r
        /\ \A q \in Requests \ {p} : quoteReq'[q] = quoteReq[q]
    BY <1>2, GoesOn
  <2> QED BY <2>1, <1>1, <1>2 DEF Informing, TrueOf, ProfileFits
<1> QED BY <1>3, <1>6, <1>7, <1>8, <1>9, <1>10 DEF QuoteIInv

LEMMA LocalKeeps ==
  ASSUME QuoteIInv, IsFiniteSet(Requests), NEW p \in Requests, NEW r, Goes(p, r),
         UNCHANGED Kept,
         ProfileFits(profile'), PlatformFits(platform'),
         sales' \in Nat, Fits(r), TrueOf(r, synced),
         YetToOpen(r) + 3 * sales <= YetToOpen(quoteReq[p]) + 3 * sales',
         SameAim(r, quoteReq[p])
  PROVE  QuoteIInv'
<1>1. /\ UNCHANGED <<OpensKept, trades, coins>> /\ platform'.mode = platform.mode
      /\ UNCHANGED <<recipients, transfers>>
  BY DEF Kept, OpensKept, PlatformFits
<1>2. trades' \in Seq(Trade) /\ coins' \in Seq(CoinRow)
  BY <1>1 DEF QuoteIInv, QuoteTyped
<1>3. TradesTold'
  BY <1>1 DEF QuoteIInv, RowsTold, TradesTold
<1>4. Quoted!WithinLimits'
  BY <1>1 DEF QuoteIInv, Quoted!WithinLimits
<1> QED BY <1>1, <1>2, <1>3, <1>4, WriteKeeps

LEMMA RestKeeps ==
  ASSUME QuoteIInv, UNCHANGED Rested
  PROVE  UNCHANGED Kept /\ ProfileFits(profile') /\ PlatformFits(platform')
<1>1. profile' = profile /\ platform' = platform /\ UNCHANGED Kept
  BY DEF Rested
<1> QED BY <1>1, WrittenFits

\* What a handler must know before it has an account, or when it only asks for a quote.
LEMMA EarlyFits ==
  ASSUME NEW r \in QuoteLocal, Len(recipients) \in Nat,
         r.pc \in {"idle"} \cup Estimating,
         r.to <= Len(recipients), r.pays <= Len(recipients), r.conf <= Len(recipients),
         r.seen.cached <= Len(recipients), r.pays # 0 => recipients[r.pays].order = 0,
         r.pc \in {"persist", "quote", "clear"} => r.to # 0
  PROVE  Fits(r)
<1> DEFINE rec == recipients
<1>1. r.pc \notin Paying \cup CoinSteps \cup {"config"}
  BY DEF Estimating, Paying, CoinSteps
<1>2. r.pc \notin {"requote", "transfer", "write", "receive"}
  BY <1>1 DEF Paying, CoinSteps
<1>3. There(r, recipients)
  BY <1>1, <1>2 DEF There
<1>4. Aimed(r, recipients, orders, platform.mode)
  BY <1>1, <1>2, Zenon DEF Aimed
<1>5. Opened(r, transfers) /\ CoinAsked(r)
  BY <1>1, <1>2, Zenon DEF Opened, CoinAsked
<1> QED BY <1>3, <1>4, <1>5 DEF Fits

LEMMA LocalOf ==
  ASSUME QuoteTyped, NEW p \in Requests
  PROVE  quoteReq[p] \in QuoteLocal
BY DEF QuoteTyped

LEMMA IdleIs ==
  /\ Quoted!Idle =
       [pc |-> "idle", kind |-> "none", again |-> FALSE, tries |-> 0,
        seen |-> [data |-> 0, cached |-> 0], pays |-> 0, conf |-> 0, to |-> 0, quote |-> 0,
        net |-> "none", told |-> Quoted!Unavailable]
  /\ Quoted!Idle \in QuoteLocal
<1>1. Quoted!Unavailable \in Told
  BY DEF Told
<1>2. Quoted!Idle =
       [pc |-> "idle", kind |-> "none", again |-> FALSE, tries |-> 0,
        seen |-> [data |-> 0, cached |-> 0], pays |-> 0, conf |-> 0, to |-> 0, quote |-> 0,
        net |-> "none", told |-> Quoted!Unavailable]
  BY DEF Quoted!Idle, Quoted!NoRow, Quoted!None
<1> QED BY <1>1, <1>2 DEF QuoteLocal, Words

\* A handler may end anywhere.
LEMMA IdleKeeps ==
  ASSUME QuoteIInv, IsFiniteSet(Requests), NEW p \in Requests,
         quoteReq' = [quoteReq EXCEPT ![p] = Quoted!Idle], sales' = sales, UNCHANGED Rested
  PROVE  QuoteIInv'
<1> DEFINE r == Quoted!Idle
<1>1. QuoteTyped /\ quoteReq[p] \in QuoteLocal /\ sales \in Nat /\ Len(recipients) \in Nat
  BY LocalOf, OpensAre DEF QuoteIInv, QuoteTyped
<1>2. /\ r \in QuoteLocal /\ r.pc = "idle" /\ r.pays = 0 /\ r.to = 0 /\ r.conf = 0
      /\ r.seen.cached = 0
  BY IdleIs
<1> HIDE DEF r
<1>3. Fits(r)
  BY <1>1, <1>2, EarlyFits
<1>4. YetToOpen(r) + 3 * sales <= YetToOpen(quoteReq[p]) + 3 * sales'
  <2>1. YetToOpen(r) = 0 /\ YetToOpen(quoteReq[p]) \in Nat /\ sales \in Nat
    BY <1>2, Parts, YetIs DEF Estimating
  <2> QED BY <2>1
<1>5. Goes(p, r)
  BY <1>2 DEF Goes, r
<1>6. SameAim(r, quoteReq[p]) /\ TrueOf(r, synced)
  BY <1>2 DEF Awaiting, TrueOf, SameAim
<1> QED BY <1>1, <1>3, <1>4, <1>5, <1>6, LocalKeeps, RestKeeps

LEMMA BeginsOrEnds ==
  ASSUME QuoteIInv, IsFiniteSet(Requests), NEW p \in Requests,
         \/ \E kind \in {"preview", "sell"} : Quoted!Start(p, kind)
         \/ Quoted!PreviewSend(p) \/ Quoted!Refused(p)
  PROVE  QuoteIInv'
<1>1. QuoteTyped /\ quoteReq[p] \in QuoteLocal /\ sales \in Nat
  BY LocalOf DEF QuoteIInv, QuoteTyped
<1>2. CASE \E kind \in {"preview", "sell"} : Quoted!Start(p, kind)
  <2> PICK kind \in {"preview", "sell"} : Quoted!Start(p, kind)
    BY <1>2
  <2> DEFINE r == [Quoted!Idle EXCEPT !.pc = "read", !.kind = kind, !.pays = platform.recipient]
  <2>1. /\ quoteReq' = [quoteReq EXCEPT ![p] = r] /\ sales' = sales + 1
        /\ quoteReq[p].pc = "idle" /\ UNCHANGED Rested
    BY DEF Quoted!Start, Quoted!Begin, Quoted!Set, Quoted!At, Rested, Kept, OpensKept
  <2>2. /\ r \in QuoteLocal /\ r.pc = "read" /\ r.pays = platform.recipient
        /\ r.to = 0 /\ r.conf = 0 /\ r.seen.cached = 0
    <3>1. platform.recipient \in Nat
      BY <1>1 DEF QuoteTyped
    <3>2. PICK i \in QuoteLocal : i = Quoted!Idle
      BY IdleIs
    <3>3. i.to = 0 /\ i.conf = 0 /\ i.seen.cached = 0
      BY <3>2, IdleIs
    <3>4. r = [i EXCEPT !.pc = "read", !.kind = kind, !.pays = platform.recipient]
      BY <3>2
    <3> HIDE DEF r
    <3> QED BY <3>1, <3>3, <3>4 DEF QuoteLocal, Estimating, Words
  <2> HIDE DEF r
  <2>3. Fits(r)
    <3>1. /\ Len(recipients) \in Nat /\ platform.recipient <= Len(recipients)
          /\ platform.recipient # 0 => recipients[platform.recipient].order = 0
      BY Parts, Zenon DEF RowsTold
    <3>2. r.pc \in Estimating /\ r.pc \notin {"persist", "quote", "clear"}
      BY <2>2 DEF Estimating
    <3>3. /\ r.to <= Len(recipients) /\ r.pays <= Len(recipients)
          /\ r.conf <= Len(recipients) /\ r.seen.cached <= Len(recipients)
      BY <2>2, <3>1
    <3>4. r.pays # 0 => recipients[r.pays].order = 0
      BY <2>2, <3>1, Zenon
    <3> QED BY <2>2, <3>1, <3>2, <3>3, <3>4, EarlyFits, Zenon
  <2>4. YetToOpen(r) + 3 * sales <= YetToOpen(quoteReq[p]) + 3 * sales'
    <3>1. YetToOpen(r) = 3 /\ YetToOpen(quoteReq[p]) = 0
      BY <1>1, <2>1, <2>2, YetIs DEF Estimating
    <3>2. sales' = sales + 1 /\ sales \in Nat
      BY <1>1, <2>1
    <3> QED BY <3>1, <3>2
  <2>5. /\ Goes(p, r) /\ SameAim(r, quoteReq[p]) /\ TrueOf(r, synced)
        /\ sales' \in Nat
    BY <1>1, <2>1, <2>2 DEF Goes, Awaiting, TrueOf, SameAim
  <2> QED BY <2>1, <2>3, <2>4, <2>5, LocalKeeps, RestKeeps
<1>3. CASE Quoted!PreviewSend(p) \/ Quoted!Refused(p)
  <2> DEFINE r == Quoted!Idle
  <2>1. /\ quoteReq' = [quoteReq EXCEPT ![p] = r] /\ sales' = sales /\ UNCHANGED Rested
    BY <1>3 DEF Quoted!PreviewSend, Quoted!Refused, Quoted!Finish, Quoted!Set, Rested, Kept,
                OpensKept, Quoted!Unmoved
  <2> QED BY <2>1, IdleKeeps
<1> QED BY <1>2, <1>3

\* A step of an estimate, which may write the customer's row.
LEMMA EarlyKeeps ==
  ASSUME QuoteIInv, IsFiniteSet(Requests), NEW p \in Requests, NEW r \in QuoteLocal,
         quoteReq' = [quoteReq EXCEPT ![p] = r], UNCHANGED Kept, platform' = platform,
         sales' = sales, quoteReq[p].pc \in Estimating, r.pc \in Estimating,
         ProfileFits(profile'), r.pays = quoteReq[p].pays,
         r.to <= Len(recipients), r.conf <= Len(recipients), r.seen.cached <= Len(recipients),
         r.pc \in {"persist", "quote", "clear"} => r.to # 0, TrueOf(r, synced)
  PROVE  QuoteIInv'
<1>1. /\ Len(recipients) \in Nat /\ sales \in Nat /\ sales' \in Nat
      /\ quoteReq[p] \in QuoteLocal /\ Fits(quoteReq[p])
  BY Parts
<1>2. /\ r.pays <= Len(recipients)
      /\ r.pays # 0 => recipients[r.pays].order = 0
  BY <1>1 DEF Fits, There, Aimed
<1>3. Fits(r)
  BY <1>1, <1>2, EarlyFits, Zenon
<1>4. SameAim(r, quoteReq[p])
  BY DEF Awaiting, Estimating, SameAim
<1>5. YetToOpen(r) + 3 * sales <= YetToOpen(quoteReq[p]) + 3 * sales'
  <2>1. YetToOpen(r) = 3 /\ YetToOpen(quoteReq[p]) = 3
    BY <1>1, YetIs
  <2> QED BY <1>1, <2>1
<1>6. PlatformFits(platform') /\ Goes(p, r)
  BY WrittenFits DEF Goes
<1> QED BY <1>1, <1>3, <1>4, <1>5, <1>6, LocalKeeps

LEMMA ReadKeeps ==
  ASSUME QuoteIInv, IsFiniteSet(Requests), NEW p \in Requests, Quoted!Read(p)
  PROVE  QuoteIInv'
<1> DEFINE q == quoteReq[p]
           r == [q EXCEPT !.pc = "ensure", !.seen = profile,
                          !.conf = IF q.again THEN @ ELSE platform.recipient]
<1>1. /\ q \in QuoteLocal /\ There(q, recipients) /\ Len(recipients) \in Nat
      /\ ProfileFits(profile) /\ PlatformFits(platform)
  BY Parts, WrittenFits DEF Fits
<1>2. q.pc = "read" /\ quoteReq' = [quoteReq EXCEPT ![p] = r] /\ UNCHANGED <<Rested, sales>>
  BY DEF Quoted!Read, Quoted!At, Quoted!Set, Rested, Kept, OpensKept
<1>3. r \in QuoteLocal /\ r.pc = "ensure" /\ r.seen = profile /\ r.to = q.to
      /\ r.pays = q.pays /\ r.conf \in {q.conf, platform.recipient}
  BY <1>1 DEF QuoteLocal, ProfileFits, PlatformFits, Estimating
<1> HIDE DEF r
<1>4. /\ r.to <= Len(recipients) /\ r.conf <= Len(recipients)
      /\ r.seen.cached <= Len(recipients) /\ TrueOf(r, synced)
  BY <1>1, <1>3 DEF There, ProfileFits, PlatformFits, TrueOf
<1>5. /\ q.pc \in Estimating /\ r.pc \in Estimating
      /\ r.pc \notin {"persist", "quote", "clear"}
  BY <1>2, <1>3 DEF Estimating
<1>6. UNCHANGED Kept /\ platform' = platform /\ sales' = sales /\ ProfileFits(profile')
  BY <1>1, <1>2 DEF Rested
<1> QED BY <1>2, <1>3, <1>4, <1>5, <1>6, EarlyKeeps

LEMMA PersistKeeps ==
  ASSUME QuoteIInv, IsFiniteSet(Requests), NEW p \in Requests, Quoted!PersistRecipient(p)
  PROVE  QuoteIInv'
<1> DEFINE q == quoteReq[p]
<1>1. /\ q \in QuoteLocal /\ There(q, recipients) /\ Len(recipients) \in Nat
      /\ Informing
  BY Parts DEF Fits
<1>2. q.pc \in {"persist", "clear"} /\ UNCHANGED <<Kept, platform, sales>>
  BY DEF Quoted!PersistRecipient, Quoted!At, Kept, OpensKept
<1>3. TrueOf(q, synced) /\ q.pc \in Estimating /\ q.to # 0
  BY <1>1, <1>2 DEF Informing, TrueOf, There, Estimating
<1>4. \E r \in QuoteLocal :
        /\ quoteReq' = [quoteReq EXCEPT ![p] = r] /\ r.pc \in {"quote", "read"}
        /\ r.pays = q.pays /\ r.to = q.to /\ r.conf = q.conf /\ r.seen = q.seen
  <2>1. CASE q.pc = "persist"
    <3> DEFINE r == [q EXCEPT !.pc = "quote"]
    <3>1. quoteReq' = [quoteReq EXCEPT ![p] = r]
      BY <2>1 DEF Quoted!PersistRecipient, Quoted!At, Quoted!Goto, Quoted!Set
    <3>2. /\ r \in QuoteLocal /\ r.pc = "quote"
          /\ r.pays = q.pays /\ r.to = q.to /\ r.conf = q.conf /\ r.seen = q.seen
      BY <1>1 DEF QuoteLocal, Estimating
    <3> QED BY <3>1, <3>2
  <2>2. CASE q.pc = "clear"
    <3> DEFINE r == [q EXCEPT !.pc = "read", !.again = TRUE]
    <3>1. quoteReq' = [quoteReq EXCEPT ![p] = r]
      BY <2>2 DEF Quoted!PersistRecipient, Quoted!At, Quoted!Goto, Quoted!Set
    <3>2. /\ r \in QuoteLocal /\ r.pc = "read"
          /\ r.pays = q.pays /\ r.to = q.to /\ r.conf = q.conf /\ r.seen = q.seen
      BY <1>1 DEF QuoteLocal, Estimating
    <3> QED BY <3>1, <3>2
  <2> QED BY <1>2, <2>1, <2>2
<1>5. PICK r \in QuoteLocal :
        /\ quoteReq' = [quoteReq EXCEPT ![p] = r] /\ r.pc \in {"quote", "read"}
        /\ r.pays = q.pays /\ r.to = q.to /\ r.conf = q.conf /\ r.seen = q.seen
  BY <1>4
<1>6. ProfileFits(profile')
  <2>1. profile' \in {[data |-> q.seen.data, cached |-> q.to],
                      [data |-> q.seen.data, cached |-> 0]}
    BY <1>2 DEF Quoted!PersistRecipient, Quoted!At, Quoted!None
  <2>2. q.seen.data \in Nat /\ q.to \in Nat /\ q.to <= Len(recipients)
    BY <1>1 DEF QuoteLocal, There
  <2>3. ~quoteMet => q.seen.data = synced
    BY <1>2, <1>3 DEF TrueOf
  <2> QED BY <1>1, <2>1, <2>2, <2>3 DEF ProfileFits
<1>7. /\ r.to <= Len(recipients) /\ r.conf <= Len(recipients)
      /\ r.seen.cached <= Len(recipients) /\ r.to # 0 /\ TrueOf(r, synced)
  BY <1>1, <1>2, <1>3, <1>5 DEF There, TrueOf
<1>8. r.pc \in Estimating
  BY <1>5 DEF Estimating
<1>9. UNCHANGED Kept /\ platform' = platform /\ sales' = sales
  BY <1>2
<1> QED BY <1>3, <1>5, <1>6, <1>7, <1>8, <1>9, EarlyKeeps

LEMMA QuoteKeeps ==
  ASSUME QuoteIInv, IsFiniteSet(Requests), NEW p \in Requests, Quoted!Quote(p)
  PROVE  QuoteIInv'
<1> DEFINE q == quoteReq[p]
<1>1. /\ q \in QuoteLocal /\ There(q, recipients) /\ Len(recipients) \in Nat
      /\ Informing /\ ProfileFits(profile) /\ price \in Int
  BY Parts, WrittenFits DEF Fits, QuoteTyped
<1>2. q.pc = "quote" /\ UNCHANGED <<Rested, sales>>
  BY DEF Quoted!Quote, Quoted!At, Rested, Kept, OpensKept
<1>3. TrueOf(q, synced) /\ q.pc \in Estimating /\ q.to # 0
  BY <1>1, <1>2 DEF Informing, TrueOf, There, Estimating
<1>4. \/ quoteReq' = [quoteReq EXCEPT ![p] = Quoted!Idle]
      \/ quoteReq' = [quoteReq EXCEPT ![p] = [q EXCEPT !.pc = "clear"]]
      \/ quoteReq' = [quoteReq EXCEPT ![p] = [q EXCEPT !.pc = "payout", !.quote = price]]
  BY Zenon DEF Quoted!Quote, Quoted!Finish, Quoted!Goto, Quoted!Set
<1>5. CASE quoteReq' = [quoteReq EXCEPT ![p] = Quoted!Idle]
  BY <1>2, <1>5, IdleKeeps
<1>6. ASSUME NEW r, quoteReq' = [quoteReq EXCEPT ![p] = r],
             \/ r = [q EXCEPT !.pc = "clear"]
             \/ r = [q EXCEPT !.pc = "payout", !.quote = price]
      PROVE  QuoteIInv'
  <2>1. /\ r \in QuoteLocal /\ r.pc \in {"clear", "payout"}
        /\ r.pays = q.pays /\ r.to = q.to /\ r.conf = q.conf /\ r.seen = q.seen
    <3>1. CASE r = [q EXCEPT !.pc = "clear"]
      BY <1>1, <3>1 DEF QuoteLocal, Estimating
    <3>2. CASE r = [q EXCEPT !.pc = "payout", !.quote = price]
      BY <1>1, <3>2 DEF QuoteLocal, Estimating
    <3> QED BY <1>6, <3>1, <3>2
  <2>2. /\ r.to <= Len(recipients) /\ r.conf <= Len(recipients)
        /\ r.seen.cached <= Len(recipients) /\ r.to # 0 /\ TrueOf(r, synced)
    BY <1>1, <1>2, <1>3, <2>1 DEF There, TrueOf
  <2>3. r.pc \in Estimating
    BY <2>1 DEF Estimating
  <2>4. UNCHANGED Kept /\ platform' = platform /\ sales' = sales /\ ProfileFits(profile')
    BY <1>1, <1>2 DEF Rested
  <2> QED BY <1>3, <1>6, <2>1, <2>2, <2>3, <2>4, EarlyKeeps
<1> QED BY <1>4, <1>5, <1>6

-----------------------------------------------------------------------------
(* The quotes: accounts that are opened                                    *)

LEMMA Appended ==
  ASSUME NEW S, NEW s \in Seq(S), NEW x \in S
  PROVE  /\ Append(s, x) \in Seq(S) /\ Len(s) \in Nat /\ Len(Append(s, x)) = Len(s) + 1
         /\ Append(s, x)[Len(s) + 1] = x
         /\ \A i \in 1..Len(s) : Append(s, x)[i] = s[i]
OBVIOUS

\* An account that is told to Busha is nobody's but the handler's that made it.
LEMMA AccountMade ==
  ASSUME QuoteIInv, IsFiniteSet(Requests), NEW p \in Requests, NEW r \in QuoteLocal,
         quoteReq' = [quoteReq EXCEPT ![p] = r],
         NEW o \in Nat, recipients' = Append(recipients, [order |-> o, live |-> TRUE]),
         orders' \in Seq(Int), Len(orders) <= Len(orders'), o <= Len(orders'),
         \A i \in 1..Len(orders) : orders'[i] = orders[i],
         platform.mode = "dashboard_bank" => Len(orders') = Len(orders),
         UNCHANGED <<platform, profile, synced, transfers, trades, coins, price, limits,
                     quoteMet, sales>>,
         r.to = Len(recipients) + 1, r.pays = quoteReq[p].pays, r.conf = quoteReq[p].conf,
         r.seen = quoteReq[p].seen, r.pc \in {"persist", "config", "requote"},
         r.pc = "config" => platform.mode = "dashboard_bank" /\ o = 0,
         r.pc = "requote" => platform.mode = "palmpay_temp" /\ o # 0,
         TrueOf(r, synced), Len(orders') + YetToOpen(r) <= Len(orders) + YetToOpen(quoteReq[p])
  PROVE  QuoteIInv'
<1>1. /\ QuoteTyped /\ Opens /\ RowsTold /\ Informing /\ Alone
      /\ Len(recipients) \in Nat /\ Len(orders) \in Nat /\ Len(transfers) \in Nat
      /\ sales \in Nat /\ quoteReq[p] \in QuoteLocal /\ Fits(quoteReq[p])
  BY Parts
<1>2. /\ recipients' \in Seq([order : Nat, live : BOOLEAN])
      /\ Len(recipients') = Len(recipients) + 1
      /\ recipients'[Len(recipients) + 1].order = o
      /\ \A i \in 1..Len(recipients) : recipients'[i] = recipients[i]
  <2>1. /\ recipients \in Seq([order : Nat, live : BOOLEAN])
        /\ [order |-> o, live |-> TRUE] \in [order : Nat, live : BOOLEAN]
    BY <1>1 DEF Opens
  <2> QED BY <2>1, Appended
<1>3. QuoteTyped'
  <2>1. quoteReq' \in [Requests -> QuoteLocal]
    BY <1>1, GoesOn DEF Goes
  <2>2. Opens'
    BY <1>1, <1>2 DEF Opens
  <2> QED BY <1>1, <2>1, <2>2 DEF QuoteTyped
<1>4. Grown(recipients, recipients', orders, orders', transfers, transfers')
  BY <1>1, <1>2 DEF Grown
<1>5. Fits(r)'
  <2>1. There(r, recipients')
    <3>1. There(quoteReq[p], recipients)
      BY <1>1 DEF Fits
    <3>2. r.pays \in Nat /\ r.conf \in Nat /\ r.seen.cached \in Nat
      BY DEF QuoteLocal
    <3>3. /\ r.pays <= Len(recipients) /\ r.conf <= Len(recipients)
          /\ r.seen.cached <= Len(recipients)
      BY <3>1 DEF There
    <3>4. /\ r.pays <= Len(recipients') /\ r.conf <= Len(recipients')
          /\ r.seen.cached <= Len(recipients') /\ r.to <= Len(recipients') /\ r.to # 0
      <4>1. PICK m \in Nat : m = Len(recipients)
        BY <1>1
      <4>2. PICK n \in Nat : n = Len(recipients') /\ n = m + 1
        BY <1>2, <4>1
      <4>3. r.pays <= m /\ r.conf <= m /\ r.seen.cached <= m /\ r.to = m + 1
        BY <3>3, <4>1
      <4>4. r.pays <= n /\ r.conf <= n /\ r.seen.cached <= n /\ r.to <= n /\ r.to # 0
        BY <3>2, <4>2, <4>3
      <4> QED BY <4>2, <4>4
    <3> QED BY <3>4 DEF There
  <2>2. Aimed(r, recipients', orders', platform.mode)
    <3>1. r.pays # 0 => recipients'[r.pays].order = 0
      <4>1. r.pays \in Nat /\ r.pays <= Len(recipients)
            /\ (r.pays # 0 => recipients[r.pays].order = 0)
        BY <1>1 DEF QuoteLocal, Fits, There, Aimed
      <4> QED BY <4>1, <1>1, <1>2
    <3>2. recipients'[r.to].order = o
      BY <1>2
    <3> QED BY <3>1, <3>2 DEF Aimed, Paying
  <2>3. Opened(r, transfers) /\ CoinAsked(r)
    BY DEF Opened, CoinAsked, CoinSteps
  <2> QED BY <2>1, <2>2, <2>3 DEF Fits, CoinAsked
<1>6. \A q \in Requests : Fits(quoteReq[q])'
  BY <1>3, <1>4, <1>5, OthersFit DEF Goes
<1>7. Alone'
  <2>1. /\ quoteReq'[p] = r
        /\ \A q \in Requests \ {p} : quoteReq'[q] = quoteReq[q]
    BY <1>1, GoesOn DEF Goes
  <2>2. \A q \in Requests : Awaiting(quoteReq[q]) => quoteReq[q].to # r.to
    <3> SUFFICES ASSUME NEW q \in Requests, Awaiting(quoteReq[q])
                 PROVE  quoteReq[q].to # r.to
      OBVIOUS
    <3>1. quoteReq[q].to \in Nat /\ quoteReq[q].to <= Len(recipients)
      BY Parts DEF Fits, There, QuoteLocal
    <3> QED BY <3>1, <1>1
  <2>3. \A i \in 1..Len(transfers) : transfers[i].to # r.to
    <3> SUFFICES ASSUME NEW i \in 1..Len(transfers)
                 PROVE  transfers[i].to # r.to
      OBVIOUS
    <3>1. transfers[i].to \in 1..Len(recipients)
      BY <1>1 DEF RowsTold
    <3> QED BY <3>1, <1>1
  <2> SUFFICES ASSUME platform.mode = "palmpay_temp"
               PROVE  /\ \A q \in Requests : Awaiting(quoteReq'[q]) =>
                           /\ \A i \in 1..Len(transfers) : transfers[i].to # quoteReq'[q].to
                           /\ \A k \in Requests \ {q} :
                                Awaiting(quoteReq'[k]) => quoteReq'[k].to # quoteReq'[q].to
                      /\ \A i, j \in 1..Len(transfers) :
                           i # j => transfers[i].to # transfers[j].to
    BY DEF Alone, Awaiting
  <2>4. /\ \A q \in Requests : Awaiting(quoteReq[q]) =>
             /\ \A i \in 1..Len(transfers) : transfers[i].to # quoteReq[q].to
             /\ \A k \in Requests \ {q} :
                  Awaiting(quoteReq[k]) => quoteReq[k].to # quoteReq[q].to
        /\ \A i, j \in 1..Len(transfers) : i # j => transfers[i].to # transfers[j].to
    BY <1>1 DEF Alone
  <2>5. ASSUME NEW q \in Requests, Awaiting(quoteReq'[q])
        PROVE  /\ \A i \in 1..Len(transfers) : transfers[i].to # quoteReq'[q].to
               /\ \A k \in Requests \ {q} :
                    Awaiting(quoteReq'[k]) => quoteReq'[k].to # quoteReq'[q].to
    <3>1. CASE q = p
      BY <2>1, <2>2, <2>3, <3>1
    <3>2. CASE q # p
      BY <2>1, <2>2, <2>4, <2>5, <3>2
    <3> QED BY <3>1, <3>2
  <2> QED BY <2>4, <2>5
<1>8. RowsTold'
  <2>1. \A i \in 1..Len(recipients') : recipients'[i].order <= Len(orders')
    <3> SUFFICES ASSUME NEW i \in 1..Len(recipients')
                 PROVE  recipients'[i].order <= Len(orders')
      OBVIOUS
    <3>1. CASE i \in 1..Len(recipients)
      <4>1. recipients[i].order \in Nat /\ recipients[i].order <= Len(orders)
        BY <1>1, <3>1, OpensAre DEF RowsTold
      <4>2. Len(orders') \in Nat
        OBVIOUS
      <4> QED BY <1>1, <1>2, <3>1, <4>1, <4>2
    <3>2. CASE i = Len(recipients) + 1
      BY <1>2, <3>2
    <3> QED BY <1>1, <1>2, <3>1, <3>2
  <2>2. \A i \in 1..Len(transfers) :
          /\ transfers[i].to \in 1..Len(recipients')
          /\ recipients'[transfers[i].to].order = recipients[transfers[i].to].order
          /\ platform.mode = "palmpay_temp" =>
               /\ recipients[transfers[i].to].order # 0
               /\ orders'[recipients[transfers[i].to].order] = transfers[i].amount
    <3> SUFFICES ASSUME NEW i \in 1..Len(transfers)
                 PROVE  /\ transfers[i].to \in 1..Len(recipients')
                        /\ recipients'[transfers[i].to].order
                              = recipients[transfers[i].to].order
                        /\ platform.mode = "palmpay_temp" =>
                             /\ recipients[transfers[i].to].order # 0
                             /\ orders'[recipients[transfers[i].to].order]
                                   = transfers[i].amount
      OBVIOUS
    <3> DEFINE to == transfers[i].to
               mine == recipients[to].order
    <3>1. /\ to \in 1..Len(recipients)
          /\ platform.mode = "palmpay_temp" => mine # 0 /\ orders[mine] = transfers[i].amount
      BY <1>1 DEF RowsTold
    <3>2. mine \in Nat /\ mine <= Len(orders)
      BY <1>1, <3>1, OpensAre DEF RowsTold
    <3> HIDE DEF to, mine
    <3>3. to \in 1..Len(recipients') /\ recipients'[to] = recipients[to]
      <4>1. PICK m \in Nat : m = Len(recipients)
        BY <1>1
      <4>2. Len(recipients') = m + 1 /\ recipients'[to] = recipients[to] /\ to \in 1..m
        BY <1>2, <3>1, <4>1
      <4> QED BY <4>2
    <3>4. platform.mode = "palmpay_temp" => mine # 0 /\ orders'[mine] = transfers[i].amount
      <4>1. mine # 0 => mine \in 1..Len(orders)
        <5>1. Len(orders) \in Nat
          BY <1>1
        <5> QED BY <3>2, <5>1
      <4> QED BY <3>1, <4>1
    <3> QED BY <3>3, <3>4 DEF to, mine
  <2>3. \A i \in 1..Len(trades) :
          /\ \E j \in 1..Len(transfers) :
               transfers[j] = [to |-> trades[i].to, amount |-> trades[i].credit]
          /\ platform.mode = "palmpay_temp" =>
               trades[i].order = recipients'[trades[i].to].order
    <3> SUFFICES ASSUME NEW i \in 1..Len(trades)
                 PROVE  /\ \E j \in 1..Len(transfers) :
                             transfers[j] = [to |-> trades[i].to, amount |-> trades[i].credit]
                        /\ platform.mode = "palmpay_temp" =>
                             trades[i].order = recipients'[trades[i].to].order
      OBVIOUS
    <3>1. PICK j \in 1..Len(transfers) :
            transfers[j] = [to |-> trades[i].to, amount |-> trades[i].credit]
      BY <1>1 DEF RowsTold, TradesTold
    <3>2. trades[i].to = transfers[j].to
      BY <3>1
    <3>3. platform.mode = "palmpay_temp" => trades[i].order = recipients[trades[i].to].order
      BY <1>1 DEF RowsTold, TradesTold
    <3> QED BY <3>1, <3>2, <3>3, <2>2
  <2>4. /\ profile.cached <= Len(recipients') /\ platform.recipient <= Len(recipients')
        /\ platform.recipient # 0 => recipients'[platform.recipient].order = 0
    <3>1. /\ profile.cached \in Nat /\ platform.recipient \in Nat
      BY <1>1 DEF QuoteTyped
    <3>2. /\ profile.cached <= Len(recipients) /\ platform.recipient <= Len(recipients)
          /\ platform.recipient # 0 => recipients[platform.recipient].order = 0
      BY <1>1 DEF RowsTold
    <3>3. PICK m \in Nat : m = Len(recipients) /\ Len(recipients') = m + 1
      BY <1>1, <1>2
    <3>4. PICK c \in Nat, k \in Nat : c = profile.cached /\ k = platform.recipient
      BY <3>1
    <3>5. c <= Len(recipients') /\ k <= Len(recipients')
      <4>1. c <= m /\ k <= m
        BY <3>2, <3>3, <3>4
      <4> QED BY <3>3, <4>1
    <3>6. k # 0 => recipients'[k].order = 0
      <4>1. k # 0 => k \in 1..Len(recipients)
        BY <3>2, <3>3, <3>4
      <4>2. k # 0 => recipients'[k] = recipients[k]
        BY <1>2, <4>1, Zenon
      <4> QED BY <3>2, <3>4, <4>2, Zenon
    <3> QED BY <3>4, <3>5, <3>6
  <2> QED BY <2>1, <2>2, <2>3, <2>4 DEF RowsTold, TradesTold
<1>9. FewOpened'
  <2>1. YetToOpen(r) \in Nat /\ YetToOpen(quoteReq[p]) \in Nat /\ Len(orders') \in Nat
    BY <1>1, YetIs
  <2>2. Len(orders') + YetToOpen(r) + 3 * sales
          <= Len(orders) + YetToOpen(quoteReq[p]) + 3 * sales'
    BY <1>1, <2>1
  <2>3. platform'.mode = platform.mode /\ Goes(p, r)
    BY DEF Goes
  <2> QED BY <1>3, <2>2, <2>3, YetMoves
<1>10. Informing'
  <2>1. /\ quoteReq'[p] = r
        /\ \A q \in Requests \ {p} : quoteReq'[q] = quoteReq[q]
    BY <1>1, GoesOn DEF Goes
  <2> QED BY <2>1, <1>1 DEF Informing, TrueOf
<1>11. Quoted!WithinLimits'
  BY DEF QuoteIInv, Quoted!WithinLimits
<1> QED BY <1>3, <1>6, <1>7, <1>8, <1>9, <1>10, <1>11 DEF QuoteIInv

LEMMA NonEmpty ==
  ASSUME NEW S, NEW s \in Seq(S), s # <<>>
  PROVE  Len(s) \in Nat \ {0}
OBVIOUS

LEMMA KnownIs ==
  ASSUME QuoteIInv, Quoted!Known # 0
  PROVE  Quoted!Known \in 1..Len(recipients)
<1>1. /\ DOMAIN recipients = 1..Len(recipients) /\ Len(recipients) \in Nat
      /\ trades \in Seq(Trade)
      /\ RowsTold
  <2>1. recipients \in Seq([order : Nat, live : BOOLEAN])
    BY Parts DEF Opens
  <2> QED BY <2>1, Parts DEF QuoteTyped
<1>2. ASSUME NEW S \in SUBSET (1..Len(recipients)), S # {}
      PROVE  Quoted!First(S) \in S
  <2>1. S \in SUBSET Nat
    BY <1>1
  <2>2. PICK n \in S : \A m \in S : ~(m < n)
    BY <1>2, <2>1, Least
  <2>3. \A m \in S : n <= m
    BY <2>1, <2>2
  <2>4. \E k \in S : \A x \in S : k <= x
    BY <2>3
  <2> QED BY <2>4 DEF Quoted!First
<1>3. /\ Quoted!Listed \in SUBSET (1..Len(recipients))
      /\ Quoted!Banks \in SUBSET (1..Len(recipients))
  BY <1>1 DEF Quoted!Listed, Quoted!Banks
<1>4. CASE Quoted!Banks # {}
  BY <1>2, <1>3, <1>4 DEF Quoted!Known
<1>5. CASE Quoted!Banks = {} /\ Quoted!Listed # {}
  BY <1>2, <1>3, <1>5 DEF Quoted!Known
<1>6. CASE Quoted!Banks = {} /\ Quoted!Listed = {} /\ trades # <<>>
  <2>1. Len(trades) \in Nat \ {0}
    BY <1>1, <1>6, NonEmpty
  <2>2. PICK j \in 1..Len(transfers) :
          transfers[j] = [to |-> trades[Len(trades)].to, amount |-> trades[Len(trades)].credit]
    <3>1. \A i \in 1..Len(trades) :
            \E j \in 1..Len(transfers) :
              transfers[j] = [to |-> trades[i].to, amount |-> trades[i].credit]
      BY <1>1, Zenon DEF RowsTold, TradesTold
    <3>2. Len(trades) \in 1..Len(trades)
      BY <2>1
    <3> QED BY <3>1, <3>2, Zenon
  <2>3. transfers[j].to \in 1..Len(recipients)
    BY <1>1 DEF RowsTold
  <2>4. Quoted!Known = trades[Len(trades)].to
    BY <1>6 DEF Quoted!Known, Quoted!Last
  <2> QED BY <2>2, <2>3, <2>4
<1>7. CASE Quoted!Banks = {} /\ Quoted!Listed = {} /\ trades = <<>>
  BY <1>7 DEF Quoted!Known, Quoted!None
<1> QED BY <1>4, <1>5, <1>6, <1>7

LEMMA EnsureKeeps ==
  ASSUME QuoteIInv, IsFiniteSet(Requests), NEW p \in Requests, Quoted!EnsureRecipient(p)
  PROVE  QuoteIInv'
<1> DEFINE q == quoteReq[p]
           aim(k, step) == [q EXCEPT !.pc = step, !.to = k]
<1>1. /\ q \in QuoteLocal /\ There(q, recipients) /\ Len(recipients) \in Nat
      /\ Informing /\ ProfileFits(profile)
      /\ q.seen.cached \in Nat /\ q.conf \in Nat
  <2>1. q \in QuoteLocal /\ Fits(q)
    BY Parts
  <2> QED BY <2>1, Parts, WrittenFits DEF Fits, QuoteLocal
<1>2. /\ q.pc = "ensure"
      /\ UNCHANGED <<platform, profile, synced, orders, transfers, trades, coins, price, limits,
                     quoteMet, sales>>
  BY DEF Quoted!EnsureRecipient, Quoted!At
<1>3. TrueOf(q, synced) /\ q.pc \in Estimating
  BY <1>1, <1>2 DEF Informing, TrueOf, Estimating
<1>4. \/ /\ recipients' = recipients
         /\ \/ quoteReq' = [quoteReq EXCEPT ![p] = Quoted!Idle]
            \/ \E k \in 1..Len(recipients), step \in {"quote", "persist"} :
                 quoteReq' = [quoteReq EXCEPT ![p] = aim(k, step)]
      \/ /\ recipients' = Append(recipients, [order |-> 0, live |-> TRUE])
         /\ quoteReq' = [quoteReq EXCEPT ![p] = aim(Len(recipients) + 1, "persist")]
  <2>1. CASE q.seen.cached # 0 /\ recipients' = recipients
             /\ quoteReq' = [quoteReq EXCEPT ![p] = aim(q.seen.cached, "quote")]
    <3>1. q.seen.cached \in 1..Len(recipients)
      BY <1>1, <2>1 DEF There
    <3> HIDE DEF q
    <3> QED BY <2>1, <3>1
  <2>2. CASE q.conf # 0 /\ recipients' = recipients
             /\ quoteReq' = [quoteReq EXCEPT ![p] = aim(q.conf, "persist")]
    <3>1. q.conf \in 1..Len(recipients)
      BY <1>1, <2>2 DEF There
    <3> HIDE DEF q
    <3> QED BY <2>2, <3>1, Zenon
  <2>3. CASE Quoted!Known # 0 /\ recipients' = recipients
             /\ quoteReq' = [quoteReq EXCEPT ![p] = aim(Quoted!Known, "persist")]
    <3>1. Quoted!Known \in 1..Len(recipients)
      BY <2>3, KnownIs
    <3> HIDE DEF q
    <3> QED BY <2>3, <3>1, Zenon
  <2>4. CASE \/ /\ recipients' = recipients
                /\ quoteReq' = [quoteReq EXCEPT ![p] = Quoted!Idle]
             \/ /\ recipients' = Append(recipients, [order |-> 0, live |-> TRUE])
                /\ quoteReq' = [quoteReq EXCEPT ![p] = aim(Len(recipients) + 1, "persist")]
    BY <2>4
  <2> HIDE DEF aim
  <2> QED BY <2>1, <2>2, <2>3, <2>4, Zenon
      DEF Quoted!EnsureRecipient, Quoted!Set, Quoted!Finish, Quoted!None, Quoted!Account,
          Quoted!BANK, aim
<1>5. ASSUME NEW k \in Nat, NEW step \in {"quote", "persist"}, NEW r, r = aim(k, step), k # 0
      PROVE  /\ r \in QuoteLocal /\ r.pc = step /\ r.to = k /\ r.pc \in Estimating
             /\ r.pays = q.pays /\ r.conf = q.conf /\ r.seen = q.seen
             /\ TrueOf(r, synced)
  <2>1. /\ r \in QuoteLocal /\ r.pc = step /\ r.to = k
        /\ r.pays = q.pays /\ r.conf = q.conf /\ r.seen = q.seen
    BY <1>1, <1>5 DEF QuoteLocal, Estimating
  <2>2. r.pc \in Estimating
    BY <2>1 DEF Estimating
  <2> QED BY <1>2, <1>3, <2>1, <2>2 DEF TrueOf
<1>6. CASE recipients' = recipients
  <2>1. UNCHANGED <<Rested, sales>>
    BY <1>2, <1>6 DEF Rested, Kept, OpensKept
  <2>2. CASE quoteReq' = [quoteReq EXCEPT ![p] = Quoted!Idle]
    BY <2>1, <2>2, IdleKeeps
  <2>3. ASSUME NEW k \in 1..Len(recipients), NEW step \in {"quote", "persist"},
               quoteReq' = [quoteReq EXCEPT ![p] = aim(k, step)]
        PROVE  QuoteIInv'
    <3>1. PICK r : r = aim(k, step)
      OBVIOUS
    <3>2. /\ r \in QuoteLocal /\ r.to = k /\ r.pc \in Estimating
          /\ r.pays = q.pays /\ r.conf = q.conf /\ r.seen = q.seen
          /\ TrueOf(r, synced)
      <4>1. k \in Nat /\ k # 0
        BY <1>1, <2>3
      <4> HIDE DEF aim, q
      <4> QED BY <1>5, <3>1, <4>1
    <3>3. quoteReq' = [quoteReq EXCEPT ![p] = r]
      BY <2>3, <3>1
    <3>4. /\ r.to <= Len(recipients) /\ r.conf <= Len(recipients)
          /\ r.seen.cached <= Len(recipients) /\ r.to # 0
      BY <1>1, <2>3, <3>2 DEF There
    <3>5. UNCHANGED Kept /\ platform' = platform /\ sales' = sales /\ ProfileFits(profile')
      BY <1>1, <2>1 DEF Rested
    <3> HIDE DEF aim
    <3> QED BY <1>3, <3>2, <3>3, <3>4, <3>5, EarlyKeeps
  <2>4. recipients' # Append(recipients, [order |-> 0, live |-> TRUE])
    <3>1. /\ recipients \in Seq([order : Nat, live : BOOLEAN])
          /\ [order |-> 0, live |-> TRUE] \in [order : Nat, live : BOOLEAN]
      BY Parts DEF Opens
    <3>2. Len(Append(recipients, [order |-> 0, live |-> TRUE])) = Len(recipients) + 1
      BY <3>1, Appended
    <3> QED BY <1>1, <1>6, <3>2
  <2> HIDE DEF aim
  <2> QED BY <1>4, <2>2, <2>3, <2>4
<1>7. CASE /\ recipients' = Append(recipients, [order |-> 0, live |-> TRUE])
           /\ quoteReq' = [quoteReq EXCEPT ![p] = aim(Len(recipients) + 1, "persist")]
  <2>1. PICK r : r = aim(Len(recipients) + 1, "persist")
    OBVIOUS
  <2>2. /\ r \in QuoteLocal /\ r.to = Len(recipients) + 1 /\ r.pc = "persist"
        /\ r.pays = q.pays /\ r.conf = q.conf /\ r.seen = q.seen
        /\ TrueOf(r, synced) /\ r.pc \in Estimating
    <3>1. Len(recipients) + 1 \in Nat /\ Len(recipients) + 1 # 0
      BY <1>1
    <3> HIDE DEF aim, q
    <3> QED BY <1>5, <2>1, <3>1
  <2>3. Len(orders') + YetToOpen(r) <= Len(orders) + YetToOpen(q)
    <3>1. YetToOpen(r) = 3 /\ YetToOpen(q) = 3
      BY <1>1, <1>3, <2>2, YetIs
    <3>2. Len(orders') = Len(orders) /\ Len(orders) \in Nat
      BY <1>2, Parts
    <3> QED BY <3>1, <3>2
  <2>4. /\ orders' \in Seq(Int) /\ Len(orders) <= Len(orders') /\ 0 <= Len(orders')
        /\ \A i \in 1..Len(orders) : orders'[i] = orders[i]
        /\ Len(orders') = Len(orders)
    BY <1>2, Parts DEF Opens
  <2>5. quoteReq' = [quoteReq EXCEPT ![p] = r]
    BY <1>7, <2>1
  <2> HIDE DEF aim
  <2> QED BY <1>2, <1>7, <2>2, <2>3, <2>4, <2>5, AccountMade
<1> HIDE DEF aim
<1> QED BY <1>4, <1>6, <1>7

LEMMA DashboardKeeps ==
  ASSUME QuoteIInv, IsFiniteSet(Requests), NEW p \in Requests, Quoted!DashboardBank(p)
  PROVE  QuoteIInv'
<1>1. PICK q \in QuoteLocal : q = quoteReq[p]
  BY Parts
<1>2. /\ q.pc = "payout" /\ platform.mode = "dashboard_bank"
      /\ UNCHANGED <<platform, profile, synced, orders, price, limits, transfers, trades, coins,
                     quoteMet, sales>>
  BY <1>1 DEF Quoted!DashboardBank, Quoted!At
<1>3. There(q, recipients) /\ Aimed(q, recipients, orders, platform.mode)
  BY <1>1, Parts DEF Fits
<1>4. /\ Len(recipients) \in Nat /\ Len(orders) \in Nat /\ sales \in Nat
      /\ orders \in Seq(Int)
  BY Parts DEF Opens
<1>5. YetToOpen(q) = 3
  BY <1>2, YetIs DEF Estimating
<1> DEFINE made == [q EXCEPT !.pc = "config", !.to = Len(recipients) + 1]
           paid == [q EXCEPT !.pc = "requote", !.to = q.pays]
<1>6. \/ /\ recipients' = recipients
         /\ \/ quoteReq' = [quoteReq EXCEPT ![p] = Quoted!Idle]
            \/ q.pays # 0 /\ quoteReq' = [quoteReq EXCEPT ![p] = paid]
      \/ /\ recipients' = Append(recipients, [order |-> 0, live |-> TRUE])
         /\ quoteReq' = [quoteReq EXCEPT ![p] = made]
  BY <1>1, Zenon DEF Quoted!DashboardBank, Quoted!Finish, Quoted!Set, Quoted!None,
                     Quoted!Account, Quoted!BANK
<1>7. CASE recipients' = recipients /\ quoteReq' = [quoteReq EXCEPT ![p] = Quoted!Idle]
  <2>1. UNCHANGED Rested /\ sales' = sales
    BY <1>2, <1>7 DEF Rested, Kept, OpensKept
  <2> QED BY <1>7, <2>1, IdleKeeps
<1>8. CASE recipients' = recipients /\ q.pays # 0 /\ quoteReq' = [quoteReq EXCEPT ![p] = paid]
  <2>1. PICK r : r = paid
    OBVIOUS
  <2>2. /\ r \in QuoteLocal /\ r.pc = "requote" /\ r.to = q.pays /\ r.pays = q.pays
        /\ r.conf = q.conf /\ r.seen = q.seen /\ r.tries \in 0..2
    BY <2>1 DEF QuoteLocal, Paying
  <2>3. Fits(r)
    <3>1. There(r, recipients)
      BY <1>3, <1>8, <2>2 DEF There
    <3>2. Aimed(r, recipients, orders, platform.mode)
      BY <1>2, <1>3, <1>8, <2>2 DEF Aimed
    <3>3. Opened(r, transfers) /\ CoinAsked(r)
      BY <2>2 DEF Opened, CoinAsked, CoinSteps
    <3> QED BY <3>1, <3>2, <3>3 DEF Fits
  <2>4. UNCHANGED Rested /\ sales' = sales
    BY <1>2, <1>8 DEF Rested, Kept, OpensKept
  <2>5. YetToOpen(r) + 3 * sales <= YetToOpen(quoteReq[p]) + 3 * sales'
    <3>1. YetToOpen(r) = 2 - r.tries
      BY <2>2, YetIs
    <3> QED BY <1>1, <1>4, <1>5, <2>2, <2>4, <3>1
  <2>6. Goes(p, r) /\ TrueOf(r, synced) /\ SameAim(r, quoteReq[p]) /\ sales' \in Nat
    BY <1>2, <1>4, <1>8, <2>1, <2>2, <2>4 DEF Goes, TrueOf, SameAim
  <2> QED BY <2>3, <2>4, <2>5, <2>6, LocalKeeps, RestKeeps
<1>9. CASE /\ recipients' = Append(recipients, [order |-> 0, live |-> TRUE])
           /\ quoteReq' = [quoteReq EXCEPT ![p] = made]
  <2>1. PICK r : r = made
    OBVIOUS
  <2>2. /\ r \in QuoteLocal /\ r.pc = "config" /\ r.to = Len(recipients) + 1
        /\ r.pays = q.pays /\ r.conf = q.conf /\ r.seen = q.seen /\ r.tries \in 0..2
    <3>1. PICK n \in Nat : n = Len(recipients) + 1
      BY <1>4
    <3>2. r = [q EXCEPT !.pc = "config", !.to = n]
      BY <2>1, <3>1
    <3> HIDE DEF made
    <3>3. r \in QuoteLocal /\ r.pc = "config" /\ r.to = n /\ r.tries = q.tries
      BY <3>2 DEF QuoteLocal
    <3>4. r.pays = q.pays /\ r.conf = q.conf /\ r.seen = q.seen /\ r.tries \in 0..2
      BY <3>2 DEF QuoteLocal
    <3> QED BY <3>1, <3>3, <3>4
  <2>3. /\ orders' \in Seq(Int) /\ Len(orders) <= Len(orders') /\ 0 <= Len(orders')
        /\ \A i \in 1..Len(orders) : orders'[i] = orders[i]
        /\ Len(orders') = Len(orders) /\ 0 \in Nat
    BY <1>2, <1>4
  <2>4. Len(orders') + YetToOpen(r) <= Len(orders) + YetToOpen(quoteReq[p])
    <3>1. YetToOpen(r) = 2 - r.tries
      BY <2>2, YetIs
    <3> QED BY <1>1, <1>4, <1>5, <2>2, <2>3, <3>1
  <2>5. TrueOf(r, synced) /\ quoteReq' = [quoteReq EXCEPT ![p] = r]
    BY <1>9, <2>1, <2>2 DEF TrueOf
  <2> HIDE DEF made
  <2> QED BY <1>1, <1>2, <1>9, <2>2, <2>3, <2>4, <2>5, AccountMade
<1> QED BY <1>6, <1>7, <1>8, <1>9

LEMMA KeepRecipientKeeps ==
  ASSUME QuoteIInv, IsFiniteSet(Requests), NEW p \in Requests, Quoted!KeepRecipient(p)
  PROVE  QuoteIInv'
<1>1. PICK q \in QuoteLocal : q = quoteReq[p]
  BY Parts
<1>2. /\ q.pc = "config" /\ UNCHANGED <<Kept, profile, sales>>
      /\ platform' = [platform EXCEPT !.recipient = q.to]
      /\ quoteReq' = [quoteReq EXCEPT ![p] = [q EXCEPT !.pc = "requote"]]
  BY <1>1 DEF Quoted!KeepRecipient, Quoted!At, Quoted!Goto, Quoted!Set, Kept, OpensKept
<1>3. There(q, recipients) /\ Aimed(q, recipients, orders, platform.mode)
  BY <1>1, Parts DEF Fits
<1>4. PICK r : r = [q EXCEPT !.pc = "requote"]
  OBVIOUS
<1>5. /\ r \in QuoteLocal /\ r.pc = "requote" /\ r.to = q.to /\ r.pays = q.pays
      /\ r.conf = q.conf /\ r.seen = q.seen /\ r.tries = q.tries
  BY <1>4 DEF QuoteLocal, Paying
<1>6. /\ q.to \in Nat /\ q.to <= Len(recipients) /\ q.to # 0 /\ recipients[q.to].order = 0
      /\ platform.mode = "dashboard_bank"
  BY <1>2, <1>3 DEF There, Aimed, QuoteLocal
<1>7. Fits(r)
  <2>1. There(r, recipients)
    BY <1>3, <1>5, <1>6 DEF There
  <2>2. Aimed(r, recipients, orders, platform.mode)
    BY <1>3, <1>5, <1>6 DEF Aimed
  <2>3. Opened(r, transfers) /\ CoinAsked(r)
    BY <1>5 DEF Opened, CoinAsked, CoinSteps
  <2> QED BY <2>1, <2>2, <2>3 DEF Fits
<1>8. ProfileFits(profile') /\ PlatformFits(platform')
  <2>1. ProfileFits(profile) /\ PlatformFits(platform)
    BY WrittenFits
  <2> QED BY <1>2, <1>6, <2>1 DEF PlatformFits
<1>9. YetToOpen(r) + 3 * sales <= YetToOpen(quoteReq[p]) + 3 * sales' /\ sales' \in Nat
  <2>1. YetToOpen(r) = YetToOpen(q) /\ YetToOpen(q) \in Nat /\ sales \in Nat /\ sales' = sales
    BY <1>2, <1>5, Parts, YetIs
  <2> QED BY <1>1, <2>1
<1>10. /\ Goes(p, r) /\ TrueOf(r, synced) /\ SameAim(r, quoteReq[p]) /\ UNCHANGED Kept
  BY <1>2, <1>4, <1>5, <1>6 DEF Goes, TrueOf, SameAim
<1> QED BY <1>7, <1>8, <1>9, <1>10, LocalKeeps

\* PalmPay opens an account for the amount, and Busha learns of it.
LEMMA DestinationKeeps ==
  ASSUME QuoteIInv, IsFiniteSet(Requests), NEW p \in Requests, NEW q, q = quoteReq[p],
         platform.mode = "palmpay_temp", q.pc \in {"payout", "requote"},
         NEW amount \in Int, NEW tries \in 0..2, q.pc = "requote" => tries = q.tries + 1,
         Quoted!PalmPayDestination(p, amount, tries),
         UNCHANGED <<platform, profile, synced, price, limits, transfers, trades, coins,
                     quoteMet, sales>>
  PROVE  QuoteIInv'
<1>1. q \in QuoteLocal /\ Len(recipients) \in Nat /\ Len(orders) \in Nat
      /\ orders \in Seq(Int)
  BY Parts DEF Opens
<1>2. /\ orders' = Append(orders, amount)
      /\ recipients' = Append(recipients, [order |-> Len(orders) + 1, live |-> TRUE])
  BY DEF Quoted!PalmPayDestination, Quoted!Account
<1>3. PICK r : r = [q EXCEPT !.pc = "requote", !.tries = tries, !.to = Len(recipients) + 1]
  OBVIOUS
<1>4. quoteReq' = [quoteReq EXCEPT ![p] = r]
  BY <1>3 DEF Quoted!PalmPayDestination, Quoted!Set
<1>5. /\ r \in QuoteLocal /\ r.pc = "requote" /\ r.to = Len(recipients) + 1
      /\ r.pays = q.pays /\ r.conf = q.conf /\ r.seen = q.seen /\ r.tries = tries
  <2>1. PICK n \in Nat : n = Len(recipients) + 1
    BY <1>1
  <2>2. r = [q EXCEPT !.pc = "requote", !.tries = tries, !.to = n]
    BY <1>3, <2>1
  <2>3. r \in QuoteLocal /\ r.pc = "requote" /\ r.to = n /\ r.tries = tries
    BY <1>1, <2>2 DEF QuoteLocal, Paying
  <2>4. r.pays = q.pays /\ r.conf = q.conf /\ r.seen = q.seen
    BY <1>1, <2>2 DEF QuoteLocal
  <2> QED BY <2>1, <2>3, <2>4
<1>6. /\ orders' \in Seq(Int) /\ Len(orders') = Len(orders) + 1
      /\ \A i \in 1..Len(orders) : orders'[i] = orders[i]
  BY <1>1, <1>2, Appended
<1>7. PICK o \in Nat : o = Len(orders) + 1
  BY <1>1
<1>8. Len(orders) <= Len(orders') /\ o <= Len(orders') /\ o # 0
  BY <1>1, <1>6, <1>7
<1>9. Len(orders') + YetToOpen(r) <= Len(orders) + YetToOpen(quoteReq[p])
  <2>1. YetToOpen(r) = 2 - tries
    BY <1>5, YetIs
  <2>2. CASE q.pc = "payout"
    <3>1. YetToOpen(q) = 3
      BY <1>1, <2>2, YetIs DEF Estimating
    <3> QED BY <1>1, <1>6, <2>1, <3>1
  <2>3. CASE q.pc = "requote"
    <3>1. YetToOpen(q) = 2 - q.tries
      BY <1>1, <2>3, YetIs
    <3>2. q.tries \in 0..2
      BY <1>1 DEF QuoteLocal
    <3>3. tries = q.tries + 1
      BY <2>3
    <3>4. YetToOpen(r) \in Int /\ YetToOpen(q) = YetToOpen(r) + 1
      BY <2>1, <3>1, <3>2, <3>3
    <3>5. Len(orders) \in Nat /\ Len(orders') = Len(orders) + 1
      BY <1>1, <1>6
    <3> QED BY <3>4, <3>5
  <2> QED BY <2>2, <2>3
<1>10. TrueOf(r, synced)
  BY <1>5 DEF TrueOf
<1>11. recipients' = Append(recipients, [order |-> o, live |-> TRUE])
  BY <1>2, <1>7
<1>12. platform.mode # "dashboard_bank" /\ r.pc # "config"
  BY <1>5
<1> QED BY <1>1, <1>4, <1>5, <1>6, <1>8, <1>9, <1>10, <1>11, <1>12, AccountMade

LEMMA PalmPayKeeps ==
  ASSUME QuoteIInv, IsFiniteSet(Requests), NEW p \in Requests, Quoted!PalmPayTemp(p)
  PROVE  QuoteIInv'
<1>1. PICK q \in QuoteLocal : q = quoteReq[p]
  BY Parts
<1>2. /\ q.pc = "payout" /\ platform.mode = "palmpay_temp"
      /\ Quoted!PalmPayDestination(p, q.quote, 0)
      /\ UNCHANGED <<platform, profile, synced, price, limits, transfers, trades, coins,
                     quoteMet, sales>>
  BY <1>1 DEF Quoted!PalmPayTemp, Quoted!At
<1>3. q.quote \in Int /\ 0 \in 0..2 /\ q.pc # "requote"
  BY <1>2 DEF QuoteLocal
<1> QED BY <1>1, <1>2, <1>3, DestinationKeeps

LEMMA RequoteKeeps ==
  ASSUME QuoteIInv, IsFiniteSet(Requests), NEW p \in Requests, Quoted!Requote(p)
  PROVE  QuoteIInv'
<1>1. PICK q \in QuoteLocal : q = quoteReq[p]
  BY Parts
<1> DEFINE order == recipients[q.to].order
<1>2. /\ q.pc = "requote"
      /\ UNCHANGED <<platform, profile, synced, price, limits, transfers, trades, coins,
                     quoteMet, sales>>
  BY <1>1 DEF Quoted!Requote, Quoted!At
<1>3. There(q, recipients) /\ Aimed(q, recipients, orders, platform.mode)
  BY <1>1, Parts DEF Fits
<1>4. platform.mode \in SaleModes /\ price \in Int /\ q.tries \in 0..2
  <2>1. q.tries \in 0..2
    BY <1>1 DEF QuoteLocal
  <2>2. platform.mode \in SaleModes /\ price \in Int
    BY Parts DEF QuoteTyped
  <2> QED BY <2>1, <2>2
<1>5. \/ /\ UNCHANGED <<orders, recipients>>
         /\ quoteReq' = [quoteReq EXCEPT ![p] = Quoted!Idle]
      \/ /\ UNCHANGED <<orders, recipients>> /\ (order = 0 \/ orders[order] = price)
         /\ quoteReq' = [quoteReq EXCEPT ![p] = [q EXCEPT !.pc = "transfer", !.quote = price]]
      \/ order # 0 /\ q.tries < 2 /\ Quoted!PalmPayDestination(p, price, q.tries + 1)
  BY <1>1, Zenon DEF Quoted!Requote, Quoted!Finish, Quoted!Set, Quoted!BANK, Quoted!None,
                     Quoted!Match
<1>6. CASE /\ UNCHANGED <<orders, recipients>>
           /\ quoteReq' = [quoteReq EXCEPT ![p] = Quoted!Idle]
  <2>1. UNCHANGED Rested /\ sales' = sales
    BY <1>2, <1>6 DEF Rested, Kept, OpensKept
  <2> QED BY <1>6, <2>1, IdleKeeps
<1>7. CASE /\ UNCHANGED <<orders, recipients>> /\ (order = 0 \/ orders[order] = price)
           /\ quoteReq' = [quoteReq EXCEPT ![p] = [q EXCEPT !.pc = "transfer",
                                                            !.quote = price]]
  <2>1. PICK r : r = [q EXCEPT !.pc = "transfer", !.quote = price]
    OBVIOUS
  <2>2. /\ r \in QuoteLocal /\ r.pc = "transfer" /\ r.to = q.to /\ r.pays = q.pays
        /\ r.conf = q.conf /\ r.seen = q.seen /\ r.quote = price
    BY <1>4, <2>1 DEF QuoteLocal, Paying
  <2>3. Fits(r)
    <3>1. There(r, recipients)
      BY <1>2, <1>3, <2>2 DEF There, Paying
    <3>2. Aimed(r, recipients, orders, platform.mode)
      <4>1. platform.mode = "palmpay_temp" => order # 0
        BY <1>2, <1>3 DEF Aimed, Paying
      <4>2. platform.mode = "palmpay_temp" => orders[order] = price
        BY <1>7, <4>1
      <4>3. r.pays # 0 => recipients[r.pays].order = 0
        BY <1>3, <2>2 DEF Aimed
      <4>4. recipients[r.to].order = order
        BY <2>2
      <4> HIDE DEF order
      <4> QED BY <2>2, <4>1, <4>2, <4>3, <4>4 DEF Aimed
    <3>3. Opened(r, transfers) /\ CoinAsked(r)
      BY <2>2 DEF Opened, CoinAsked, CoinSteps
    <3> QED BY <3>1, <3>2, <3>3 DEF Fits
  <2>4. UNCHANGED Rested /\ sales' = sales
    BY <1>2, <1>7 DEF Rested, Kept, OpensKept
  <2>5. YetToOpen(r) + 3 * sales <= YetToOpen(quoteReq[p]) + 3 * sales' /\ sales' \in Nat
    <3>1. YetToOpen(r) = 0 /\ YetToOpen(q) \in Nat /\ sales \in Nat
      BY <2>2, Parts, YetIs DEF Estimating
    <3> QED BY <1>1, <2>4, <3>1
  <2>6. Goes(p, r) /\ TrueOf(r, synced) /\ SameAim(r, quoteReq[p])
    BY <1>1, <1>2, <1>7, <2>1, <2>2 DEF Goes, TrueOf, SameAim, Awaiting
  <2> QED BY <2>3, <2>4, <2>5, <2>6, LocalKeeps, RestKeeps
<1>8. CASE order # 0 /\ q.tries < 2 /\ Quoted!PalmPayDestination(p, price, q.tries + 1)
  <2>1. platform.mode = "palmpay_temp"
    BY <1>2, <1>3, <1>4, <1>8 DEF Aimed, SaleModes
  <2>2. q.tries + 1 \in 0..2
    BY <1>4, <1>8
  <2> QED BY <1>1, <1>2, <1>4, <1>8, <2>1, <2>2, DestinationKeeps
<1> HIDE DEF order
<1> QED BY <1>5, <1>6, <1>7, <1>8

LEMMA OpenKeeps ==
  ASSUME QuoteIInv, IsFiniteSet(Requests), NEW p \in Requests, Quoted!OpenTransfer(p)
  PROVE  QuoteIInv'
<1>1. PICK q \in QuoteLocal : q = quoteReq[p]
  BY Parts
<1>2. PICK x : x = [to |-> q.to, amount |-> q.quote]
  OBVIOUS
<1>3. PICK r : r = [q EXCEPT !.pc = "write"]
  OBVIOUS
<1>4. /\ q.pc = "transfer" /\ transfers' = Append(transfers, x)
      /\ quoteReq' = [quoteReq EXCEPT ![p] = r]
      /\ UNCHANGED <<platform, profile, synced, recipients, orders, price, limits, trades,
                     coins, quoteMet, sales>>
  BY <1>1, <1>2, <1>3 DEF Quoted!OpenTransfer, Quoted!At, Quoted!Goto, Quoted!Set
<1>5. /\ QuoteTyped /\ Opens /\ RowsTold /\ Informing /\ Alone
      /\ Len(recipients) \in Nat /\ Len(orders) \in Nat /\ Len(transfers) \in Nat
      /\ sales \in Nat /\ Fits(q)
  BY <1>1, Parts
<1>6. /\ r \in QuoteLocal /\ r.pc = "write" /\ r.to = q.to /\ r.pays = q.pays
      /\ r.conf = q.conf /\ r.seen = q.seen /\ r.quote = q.quote
  BY <1>3 DEF QuoteLocal, Paying
<1>7. q.to \in 1..Len(recipients) /\ q.quote \in Int
  <2>1. q.to \in Nat /\ q.quote \in Int
    BY DEF QuoteLocal
  <2> QED BY <1>4, <1>5, <2>1 DEF Fits, There, Paying
<1>8. platform.mode = "palmpay_temp" =>
        recipients[q.to].order # 0 /\ orders[recipients[q.to].order] = q.quote
  BY <1>4, <1>5 DEF Fits, Aimed, Paying
<1>9. /\ transfers' \in Seq([to : Nat, amount : Int])
      /\ Len(transfers') = Len(transfers) + 1 /\ transfers'[Len(transfers) + 1] = x
      /\ \A i \in 1..Len(transfers) : transfers'[i] = transfers[i]
  <2>1. transfers \in Seq([to : Nat, amount : Int]) /\ x \in [to : Nat, amount : Int]
    BY <1>2, <1>5, <1>7 DEF Opens
  <2> QED BY <1>4, <2>1, Appended
<1>10. QuoteTyped'
  <2>1. quoteReq' \in [Requests -> QuoteLocal]
    BY <1>4, <1>5, <1>6, GoesOn DEF Goes
  <2>2. Opens'
    BY <1>4, <1>5, <1>9 DEF Opens
  <2> QED BY <1>4, <1>5, <2>1, <2>2 DEF QuoteTyped
<1>11. Grown(recipients, recipients', orders, orders', transfers, transfers')
  BY <1>4, <1>5, <1>9 DEF Grown
<1>12. Fits(r)'
  <2>1. There(r, recipients)
    BY <1>4, <1>5, <1>6 DEF Fits, There, Paying
  <2>2. Aimed(r, recipients, orders, platform.mode)
    BY <1>4, <1>5, <1>6 DEF Fits, Aimed, Paying
  <2>3. Opened(r, transfers')
    BY <1>2, <1>5, <1>6, <1>9 DEF Opened
  <2>4. CoinAsked(r)
    BY <1>6 DEF CoinAsked, CoinSteps
  <2> QED BY <1>4, <2>1, <2>2, <2>3, <2>4 DEF Fits, CoinAsked
<1>13. \A k \in Requests : Fits(quoteReq[k])'
  BY <1>4, <1>6, <1>10, <1>11, <1>12, OthersFit DEF Goes
<1>14. Alone'
  <2>1. /\ quoteReq'[p] = r
        /\ \A k \in Requests \ {p} : quoteReq'[k] = quoteReq[k]
    BY <1>4, <1>5, <1>6, GoesOn DEF Goes
  <2>2. ~Awaiting(r) /\ Awaiting(q)
    BY <1>4, <1>6 DEF Awaiting
  <2> SUFFICES ASSUME platform.mode = "palmpay_temp"
               PROVE  /\ \A k \in Requests : Awaiting(quoteReq'[k]) =>
                           /\ \A i \in 1..Len(transfers') : transfers'[i].to # quoteReq'[k].to
                           /\ \A l \in Requests \ {k} :
                                Awaiting(quoteReq'[l]) => quoteReq'[l].to # quoteReq'[k].to
                      /\ \A i, j \in 1..Len(transfers') :
                           i # j => transfers'[i].to # transfers'[j].to
    BY <1>4 DEF Alone, Awaiting
  <2>3. /\ \A k \in Requests : Awaiting(quoteReq[k]) =>
             /\ \A i \in 1..Len(transfers) : transfers[i].to # quoteReq[k].to
             /\ \A l \in Requests \ {k} :
                  Awaiting(quoteReq[l]) => quoteReq[l].to # quoteReq[k].to
        /\ \A i, j \in 1..Len(transfers) : i # j => transfers[i].to # transfers[j].to
    BY <1>5 DEF Alone
  <2>4. \A i \in 1..Len(transfers) : transfers[i].to # q.to
    BY <1>1, <2>2, <2>3
  <2>5. \A i \in 1..Len(transfers') :
          \/ i \in 1..Len(transfers) /\ transfers'[i] = transfers[i]
          \/ i = Len(transfers) + 1 /\ transfers'[i].to = q.to
    <3>1. \A i \in 1..Len(transfers') : i \in 1..Len(transfers) \/ i = Len(transfers) + 1
      <4>1. Len(transfers) \in Nat /\ Len(transfers') = Len(transfers) + 1
        BY <1>5, <1>9
      <4> QED BY <4>1
    <3>2. x.to = q.to
      BY <1>2
    <3> QED BY <1>9, <3>1, <3>2
  <2>6. ASSUME NEW i \in 1..Len(transfers'), NEW j \in 1..Len(transfers'), i # j
        PROVE  transfers'[i].to # transfers'[j].to
    BY <2>3, <2>4, <2>5, <2>6
  <2>7. ASSUME NEW k \in Requests, Awaiting(quoteReq'[k])
        PROVE  /\ \A i \in 1..Len(transfers') : transfers'[i].to # quoteReq'[k].to
               /\ \A l \in Requests \ {k} :
                    Awaiting(quoteReq'[l]) => quoteReq'[l].to # quoteReq'[k].to
    <3>1. k # p /\ quoteReq'[k] = quoteReq[k] /\ Awaiting(quoteReq[k])
      BY <2>1, <2>2, <2>7
    <3>2. \A i \in 1..Len(transfers) : transfers[i].to # quoteReq[k].to
      BY <2>3, <3>1
    <3>3. q.to # quoteReq[k].to
      BY <1>1, <2>2, <2>3, <3>1
    <3>4. \A i \in 1..Len(transfers') : transfers'[i].to # quoteReq'[k].to
      BY <2>5, <3>1, <3>2, <3>3
    <3>5. ASSUME NEW l \in Requests \ {k}, Awaiting(quoteReq'[l])
          PROVE  quoteReq'[l].to # quoteReq'[k].to
      <4>1. l # p /\ quoteReq'[l] = quoteReq[l]
        BY <2>1, <2>2, <3>5
      <4> QED BY <2>3, <3>1, <3>5, <4>1
    <3> QED BY <3>4, <3>5
  <2> QED BY <2>6, <2>7
<1>15. RowsTold'
  <2>1. /\ \A i \in 1..Len(recipients) : recipients[i].order <= Len(orders)
        /\ profile.cached <= Len(recipients) /\ platform.recipient <= Len(recipients)
        /\ platform.recipient # 0 => recipients[platform.recipient].order = 0
    BY <1>5 DEF RowsTold
  <2>2. ASSUME NEW i \in 1..Len(transfers')
        PROVE  /\ transfers'[i].to \in 1..Len(recipients)
               /\ platform.mode = "palmpay_temp" =>
                    /\ recipients[transfers'[i].to].order # 0
                    /\ orders[recipients[transfers'[i].to].order] = transfers'[i].amount
    <3>1. CASE i \in 1..Len(transfers)
      BY <1>5, <1>9, <3>1 DEF RowsTold
    <3>2. CASE i = Len(transfers) + 1
      <4>1. transfers'[i].to = q.to /\ transfers'[i].amount = q.quote
        BY <1>2, <1>9, <3>2
      <4> QED BY <1>7, <1>8, <4>1
    <3> QED BY <1>5, <1>9, <3>1, <3>2
  <2>3. TradesTold'
    <3> SUFFICES ASSUME NEW i \in 1..Len(trades)
                 PROVE  /\ \E j \in 1..Len(transfers') :
                             transfers'[j] = [to |-> trades[i].to, amount |-> trades[i].credit]
                        /\ platform.mode = "palmpay_temp" =>
                             trades[i].order = recipients[trades[i].to].order
      BY <1>4 DEF TradesTold
    <3>1. PICK j \in 1..Len(transfers) :
            transfers[j] = [to |-> trades[i].to, amount |-> trades[i].credit]
      BY <1>5 DEF RowsTold, TradesTold
    <3>2. j \in 1..Len(transfers') /\ transfers'[j] = transfers[j]
      BY <1>5, <1>9
    <3>3. platform.mode = "palmpay_temp" => trades[i].order = recipients[trades[i].to].order
      BY <1>5 DEF RowsTold, TradesTold
    <3> QED BY <3>1, <3>2, <3>3
  <2> QED BY <1>4, <2>1, <2>2, <2>3 DEF RowsTold
<1>16. FewOpened'
  <2>1. YetToOpen(r) = 0 /\ YetToOpen(quoteReq[p]) \in Nat /\ Len(orders') = Len(orders)
    BY <1>4, <1>6, Parts, YetIs DEF Estimating
  <2>2. Len(orders') + YetToOpen(r) + 3 * sales
          <= Len(orders) + YetToOpen(quoteReq[p]) + 3 * sales'
    BY <1>4, <1>5, <2>1
  <2>3. platform'.mode = platform.mode /\ Goes(p, r)
    BY <1>4, <1>6 DEF Goes
  <2> QED BY <1>10, <2>1, <2>2, <2>3, YetMoves
<1>17. Informing'
  <2>1. /\ quoteReq'[p] = r
        /\ \A k \in Requests \ {p} : quoteReq'[k] = quoteReq[k]
    BY <1>4, <1>5, <1>6, GoesOn DEF Goes
  <2> QED BY <1>4, <1>5, <1>6, <2>1 DEF Informing
<1>18. Quoted!WithinLimits'
  BY <1>4 DEF QuoteIInv, Quoted!WithinLimits
<1> QED BY <1>10, <1>13, <1>14, <1>15, <1>16, <1>17, <1>18 DEF QuoteIInv

\* A handler that writes its row, of a sale or of coin, and ends.
LEMMA RowKeeps ==
  ASSUME QuoteIInv, IsFiniteSet(Requests), NEW p \in Requests,
         quoteReq' = [quoteReq EXCEPT ![p] = Quoted!Idle],
         UNCHANGED <<OpensKept, platform, profile, sales>>,
         trades' \in Seq(Trade), coins' \in Seq(CoinRow), TradesTold', Quoted!WithinLimits'
  PROVE  QuoteIInv'
<1>1. PICK r : r = Quoted!Idle
  OBVIOUS
<1>2. /\ r \in QuoteLocal /\ r.pc = "idle" /\ r.pays = 0 /\ r.to = 0 /\ r.conf = 0
      /\ r.seen.cached = 0
  BY <1>1, IdleIs
<1>3. Fits(r)
  BY <1>2, Parts, EarlyFits
<1>4. YetToOpen(r) + 3 * sales <= YetToOpen(quoteReq[p]) + 3 * sales' /\ sales' \in Nat
  <2>1. YetToOpen(r) = 0 /\ YetToOpen(quoteReq[p]) \in Nat /\ sales \in Nat /\ sales' = sales
    BY <1>2, Parts, YetIs DEF Estimating
  <2> QED BY <2>1
<1>5. Goes(p, r) /\ SameAim(r, quoteReq[p]) /\ TrueOf(r, synced) /\ UNCHANGED OpensKept
  BY <1>1, <1>2 DEF Goes, Awaiting, TrueOf, SameAim
<1>6. ProfileFits(profile') /\ PlatformFits(platform')
  BY WrittenFits
<1> QED BY <1>3, <1>4, <1>5, <1>6, WriteKeeps

LEMMA TradeKeeps ==
  ASSUME QuoteIInv, IsFiniteSet(Requests), NEW p \in Requests, Quoted!WriteTrade(p)
  PROVE  QuoteIInv'
<1>1. PICK q \in QuoteLocal : q = quoteReq[p]
  BY Parts
<1>2. PICK x : x = [to |-> q.to, credit |-> q.quote, order |-> recipients[q.to].order]
  OBVIOUS
<1>3. /\ q.pc = "write" /\ trades' = Append(trades, x)
      /\ quoteReq' = [quoteReq EXCEPT ![p] = Quoted!Idle]
      /\ UNCHANGED <<OpensKept, platform, profile, sales, coins>>
  BY <1>1, <1>2 DEF Quoted!WriteTrade, Quoted!At, Quoted!Finish, Quoted!Set, Quoted!Sold,
                    OpensKept
<1>4. /\ TradesTold /\ trades \in Seq(Trade) /\ coins \in Seq(CoinRow)
      /\ Len(recipients) \in Nat /\ Fits(q)
  BY <1>1, Parts DEF RowsTold, QuoteTyped
<1>5. q.to \in 1..Len(recipients) /\ q.quote \in Int
  <2>1. q.to \in Nat /\ q.quote \in Int
    BY DEF QuoteLocal
  <2> QED BY <1>3, <1>4, <2>1 DEF Fits, There, Paying
<1>6. recipients[q.to].order \in Nat
  BY <1>5, Parts, OpensAre
<1>7. x \in Trade
  BY <1>2, <1>5, <1>6 DEF Trade
<1>8. /\ trades' \in Seq(Trade) /\ Len(trades) \in Nat
      /\ Len(trades') = Len(trades) + 1 /\ trades'[Len(trades) + 1] = x
      /\ \A i \in 1..Len(trades) : trades'[i] = trades[i]
  BY <1>3, <1>4, <1>7, Appended
<1>9. TradesTold'
  <2>1. UNCHANGED <<transfers, recipients, platform>>
    BY <1>3 DEF OpensKept
  <2> SUFFICES ASSUME NEW i \in 1..Len(trades')
               PROVE  /\ \E j \in 1..Len(transfers) :
                           transfers[j] = [to |-> trades'[i].to, amount |-> trades'[i].credit]
                      /\ platform.mode = "palmpay_temp" =>
                           trades'[i].order = recipients[trades'[i].to].order
    BY <2>1 DEF TradesTold
  <2>2. CASE i \in 1..Len(trades)
    BY <1>4, <1>8, <2>2 DEF TradesTold
  <2>3. CASE i = Len(trades) + 1
    <3>1. trades'[i] = x
      BY <1>8, <2>3
    <3>2. \E j \in 1..Len(transfers) : transfers[j] = [to |-> q.to, amount |-> q.quote]
      BY <1>3, <1>4 DEF Fits, Opened
    <3> QED BY <1>2, <3>1, <3>2
  <2> QED BY <1>8, <2>2, <2>3
<1>10. Quoted!WithinLimits'
  BY <1>3 DEF QuoteIInv, Quoted!WithinLimits
<1>11. coins' \in Seq(CoinRow) /\ UNCHANGED <<OpensKept, platform, profile, sales>>
  BY <1>3, <1>4
<1> QED BY <1>3, <1>8, <1>9, <1>10, <1>11, RowKeeps

-----------------------------------------------------------------------------
(* The quotes: coin                                                        *)

\* A network's row is that of the network itself.
LEMMA RowOf ==
  ASSUME NEW key
  PROVE  /\ Quoted!MatchCurrencyNetwork(key) \in Networks \cup {"none"}
         /\ Quoted!Network(key) \in Networks =>
              Quoted!MatchCurrencyNetwork(key) = Quoted!Network(key)
<1> DEFINE rows == {i \in DOMAIN Quoted!Stable :
                     \/ Quoted!Stable[i] = Quoted!Network(key)
                     \/ Quoted!Stable[i] = "BSC" /\ key = "bnb"}
<1>1. /\ DOMAIN Quoted!Stable = 1..4
      /\ Quoted!Stable[1] = "TRX" /\ Quoted!Stable[2] = "ETH"
      /\ Quoted!Stable[3] = "BSC" /\ Quoted!Stable[4] = "SOL"
  BY DEF Quoted!Stable
<1>2. Quoted!MatchCurrencyNetwork(key) =
        IF rows = {} THEN "none" ELSE Quoted!Stable[Quoted!First(rows)]
  BY DEF Quoted!MatchCurrencyNetwork, Quoted!NoRow
<1>3. rows # {} => Quoted!First(rows) \in rows
  <2>1. ASSUME rows # {}
        PROVE  \E k \in rows : \A i \in rows : k <= i
    <3>1. rows \in SUBSET Nat
      <4>1. 1..4 \in SUBSET Nat
        OBVIOUS
      <4> QED BY <1>1, <4>1, Zenon
    <3> HIDE DEF rows
    <3>2. PICK n \in rows : \A m \in rows : ~(m < n)
      BY <2>1, <3>1, Least
    <3> QED BY <3>1, <3>2
  <2> HIDE DEF rows
  <2> QED BY <2>1 DEF Quoted!First
<1>4. \A i \in rows : i \in 1..4 /\ Quoted!Stable[i] \in Networks
  BY <1>1 DEF Networks
<1>5. ASSUME Quoted!Network(key) \in Networks
      PROVE  /\ rows # {}
             /\ \A i \in rows : Quoted!Stable[i] = Quoted!Network(key)
  <2>1. key # "bnb"
    BY <1>5 DEF Quoted!Network, Networks
  <2>2. \E i \in 1..4 : Quoted!Stable[i] = Quoted!Network(key)
    BY <1>1, <1>5 DEF Networks
  <2> QED BY <1>1, <2>1, <2>2
<1> HIDE DEF rows
<1> QED BY <1>2, <1>3, <1>4, <1>5

\* The names a client gives, and what they stand for.
LEMMA NamesAre ==
  ASSUME NEW key \in {"TRX", "bep20", "bnb", "polygon"}
  PROVE  /\ key \in Words /\ Quoted!MatchCurrencyNetwork(key) \in Words
         /\ key \notin {"none"}
BY RowOf DEF Words, Networks

LEMMA NetworkIs ==
  ASSUME NEW key \in Words
  PROVE  Quoted!Network(key) \in Words
BY DEF Words, Quoted!Network

LEMMA ShownIs ==
  ASSUME QuoteTyped
  PROVE  Quoted!Shown \in Told
<1>1. Quoted!ToSet(Quoted!Stable) = Networks
  BY DEF Quoted!ToSet, Quoted!Stable, Networks
<1>2. limits \in Taken
  BY DEF QuoteTyped
<1>3. \A n \in DOMAIN limits : limits[n] \in Limit
  <2>1. /\ Takes(TRUE, 2, 2, 2) \in Limit /\ Takes(TRUE, 1, 0, 0) \in Limit
        /\ Takes(TRUE, 0, 1, 0) \in Limit /\ Takes(FALSE, 0, 0, 3) \in Limit
    BY DEF Takes, Limit
  <2>2. PICK a \in Limit, b \in Limit : limits = [TRX |-> a, BSC |-> b]
    BY <1>2, <2>1, Zenon DEF Taken
  <2>3. DOMAIN limits = {"TRX", "BSC"} /\ limits["TRX"] = a /\ limits["BSC"] = b
    BY <2>2
  <2> QED BY <2>3
<1>4. Quoted!Unlimited \in Limit
  BY DEF Quoted!Unlimited, Limit
<1> QED BY <1>1, <1>3, <1>4 DEF Quoted!Shown, Told

LEMMA AskedKeeps ==
  ASSUME QuoteIInv, IsFiniteSet(Requests), NEW p \in Requests,
         NEW key \in {"TRX", "bep20", "bnb", "polygon"},
         NEW kind \in CoinSteps, NEW amount \in Int, kind = "receive" => amount = 1,
         Quoted!Asked(p, kind, key, amount)
  PROVE  QuoteIInv'
<1>1. QuoteTyped /\ quoteReq[p] \in QuoteLocal /\ sales \in Nat /\ Len(recipients) \in Nat
  BY Parts
<1> DEFINE asks(told) ==
      [Quoted!Idle EXCEPT !.pc = kind, !.kind = key, !.quote = amount,
                          !.net = Quoted!MatchCurrencyNetwork(key), !.told = told]
<1>2. /\ quoteReq[p].pc = "idle" /\ sales' = sales + 1 /\ UNCHANGED Rested
      /\ \E told \in {Quoted!Shown, Quoted!Unavailable} :
           quoteReq' = [quoteReq EXCEPT ![p] = asks(told)]
  BY DEF Quoted!Asked, Quoted!Ask, Quoted!Begin, Quoted!Set, Quoted!At, Rested, Kept, OpensKept
<1>3. PICK told \in {Quoted!Shown, Quoted!Unavailable} :
        \E r : r = asks(told) /\ quoteReq' = [quoteReq EXCEPT ![p] = r]
  BY <1>2
<1> PICK r : r = asks(told) /\ quoteReq' = [quoteReq EXCEPT ![p] = r]
  BY <1>3
<1>4. told \in Told
  BY <1>1, <1>3, ShownIs DEF Told
<1>5. /\ r \in QuoteLocal /\ r.pc = kind /\ r.kind = key /\ r.quote = amount
      /\ r.net = Quoted!MatchCurrencyNetwork(key)
      /\ r.to = 0 /\ r.pays = 0 /\ r.conf = 0 /\ r.seen.cached = 0
  <2>1. PICK net \in Words : net = Quoted!MatchCurrencyNetwork(key)
    BY NamesAre
  <2>2. PICK i \in QuoteLocal : i = Quoted!Idle
    BY IdleIs
  <2>3. i.to = 0 /\ i.pays = 0 /\ i.conf = 0 /\ i.seen.cached = 0
    BY <2>2, IdleIs
  <2>4. r = [i EXCEPT !.pc = kind, !.kind = key, !.quote = amount, !.net = net, !.told = told]
    BY <1>3, <2>1, <2>2
  <2>5. key \in Words
    BY NamesAre
  <2>6. r \in QuoteLocal
    <3>1. PICK steps : steps = Estimating \cup Paying \cup CoinSteps \cup {"idle", "config"}
      OBVIOUS
    <3>2. kind \in steps
      BY <3>1
    <3>3. QuoteLocal =
            [pc : steps, kind : Words, again : BOOLEAN, tries : 0..2,
             seen : [data : Nat, cached : Nat], pays : Nat, conf : Nat, to : Nat,
             quote : Int, net : Words, told : Told]
      BY <3>1 DEF QuoteLocal
    <3> HIDE DEF asks
    <3> QED BY <1>4, <2>4, <2>5, <3>2, <3>3
  <2>7. /\ r.pc = kind /\ r.kind = key /\ r.quote = amount /\ r.net = net
        /\ r.to = i.to /\ r.pays = i.pays /\ r.conf = i.conf /\ r.seen = i.seen
    <3> HIDE DEF asks
    <3> QED BY <2>4 DEF QuoteLocal
  <2> QED BY <2>1, <2>3, <2>6, <2>7
<1> HIDE DEF asks
<1>6. Fits(r)
  <2>1. r.pc \notin Paying \cup {"persist", "quote", "clear", "config"}
    BY <1>5 DEF CoinSteps, Paying
  <2>2. There(r, recipients)
    BY <1>1, <1>5, <2>1 DEF There
  <2>3. Aimed(r, recipients, orders, platform.mode)
    BY <1>5, <2>1, Zenon DEF Aimed, Paying
  <2>4. Opened(r, transfers) /\ CoinAsked(r)
    BY <1>5, <2>1 DEF Opened, CoinAsked, Paying
  <2> QED BY <2>2, <2>3, <2>4 DEF Fits
<1>7. YetToOpen(r) + 3 * sales <= YetToOpen(quoteReq[p]) + 3 * sales' /\ sales' \in Nat
  <2>1. YetToOpen(r) = 0 /\ YetToOpen(quoteReq[p]) \in Nat
    BY <1>5, Parts, YetIs DEF CoinSteps, Estimating
  <2> QED BY <1>1, <1>2, <2>1
<1>8. Goes(p, r) /\ TrueOf(r, synced) /\ SameAim(r, quoteReq[p])
  BY <1>3, <1>5 DEF Goes, TrueOf, SameAim, Awaiting, CoinSteps
<1> QED BY <1>2, <1>6, <1>7, <1>8, LocalKeeps, RestKeeps

\* A row of coin that keeps to what was told of its network.
KeepsTo(c) ==
  c.net \in DOMAIN c.told =>
    LET l == c.told[c.net]
    IN IF c.side = "receive" THEN c.amount >= l.minDeposit
       ELSE l.on /\ c.amount >= l.min /\ (l.max > 0 => c.amount <= l.max)

LEMMA WithinLimitsIs ==
  Quoted!WithinLimits <=> \A c \in Quoted!ToSet(coins) : KeepsTo(c)
BY DEF Quoted!WithinLimits, KeepsTo

LEMMA CoinRowKeeps ==
  ASSUME QuoteIInv, IsFiniteSet(Requests), NEW p \in Requests, NEW c \in CoinRow, KeepsTo(c),
         Quoted!Coin(p, c)
  PROVE  QuoteIInv'
<1>1. /\ coins' = Append(coins, c) /\ quoteReq' = [quoteReq EXCEPT ![p] = Quoted!Idle]
      /\ UNCHANGED <<OpensKept, platform, profile, sales, trades>>
  BY DEF Quoted!Coin, Quoted!Finish, Quoted!Set, OpensKept
<1>2. coins \in Seq(CoinRow) /\ trades \in Seq(Trade) /\ TradesTold
  BY Parts DEF QuoteTyped, RowsTold
<1>3. /\ coins' \in Seq(CoinRow) /\ Len(coins) \in Nat
      /\ Len(coins') = Len(coins) + 1 /\ coins'[Len(coins) + 1] = c
      /\ \A i \in 1..Len(coins) : coins'[i] = coins[i]
  BY <1>1, <1>2, Appended
<1>4. Quoted!WithinLimits'
  <2>1. \A x \in Quoted!ToSet(coins') : x \in Quoted!ToSet(coins) \/ x = c
    <3>1. DOMAIN coins' = 1..Len(coins') /\ DOMAIN coins = 1..Len(coins)
      BY <1>2, <1>3
    <3>2. \A i \in 1..Len(coins') : i \in 1..Len(coins) \/ i = Len(coins) + 1
      BY <1>3
    <3> QED BY <1>3, <3>1, <3>2 DEF Quoted!ToSet
  <2>2. \A x \in Quoted!ToSet(coins) : KeepsTo(x)
    BY WithinLimitsIs DEF QuoteIInv
  <2>3. \A x \in Quoted!ToSet(coins') : KeepsTo(x)
    BY <2>1, <2>2
  <2> QED BY <2>3 DEF Quoted!WithinLimits, KeepsTo
<1>5. TradesTold'
  BY <1>1, <1>2 DEF TradesTold, OpensKept
<1>6. trades' \in Seq(Trade) /\ UNCHANGED <<OpensKept, platform, profile, sales>>
  BY <1>1, <1>2
<1> QED BY <1>1, <1>3, <1>4, <1>5, <1>6, RowKeeps

LEMMA CoinKeeps ==
  ASSUME QuoteIInv, IsFiniteSet(Requests), NEW p \in Requests,
         Quoted!ExecuteSend(p) \/ Quoted!CreateReceive(p)
  PROVE  QuoteIInv'
<1>1. PICK q \in QuoteLocal : q = quoteReq[p]
  BY Parts
<1>2. /\ q.kind \in Words /\ q.quote \in Int /\ q.told \in Told /\ CoinAsked(q)
  <2>1. Fits(q)
    BY <1>1, Parts
  <2> QED BY <2>1 DEF QuoteLocal, Fits
<1>3. PICK net \in Words : net = Quoted!Network(q.kind)
  BY <1>2, NetworkIs
<1>4. \/ q.told = <<>> /\ DOMAIN q.told = {}
      \/ q.told \in [Networks -> Limit]
  BY <1>2 DEF Told, Quoted!Unavailable
<1>5. q.pc \in CoinSteps /\ net \in DOMAIN q.told => q.net = net /\ q.told[net] \in Limit
  <2>1. net \in DOMAIN q.told => net \in Networks /\ q.told[net] \in Limit
    BY <1>4
  <2>2. q.pc \in CoinSteps /\ net \in Networks => q.net = net
    BY <1>2, <1>3, RowOf DEF CoinAsked
  <2> QED BY <2>1, <2>2
<1>6. CASE Quoted!ExecuteSend(p)
  <2>1. PICK c : c = [side |-> "send", net |-> net, amount |-> q.quote, told |-> q.told]
    OBVIOUS
  <2>2. q.pc = "send" /\ Quoted!Within(q.told, q.net, q.quote) /\ Quoted!Coin(p, c)
    BY <1>1, <1>3, <1>6, <2>1 DEF Quoted!ExecuteSend, Quoted!At, Quoted!CoinRow
  <2>3. c \in CoinRow
    BY <1>2, <1>3, <2>1 DEF CoinRow
  <2>4. KeepsTo(c)
    <3>1. net \in DOMAIN q.told =>
            /\ q.told[net].on /\ q.quote >= q.told[net].min
            /\ q.told[net].max > 0 => q.quote <= q.told[net].max
      BY <1>5, <2>2 DEF Quoted!Within, CoinSteps
    <3> QED BY <2>1, <3>1 DEF KeepsTo
  <2> QED BY <2>2, <2>3, <2>4, CoinRowKeeps
<1>7. CASE Quoted!CreateReceive(p)
  <2> DEFINE least == IF q.net \in DOMAIN q.told THEN q.told[q.net].minDeposit ELSE 0
  <2>1. PICK a : a = IF least > 0 THEN least ELSE q.quote
    OBVIOUS
  <2>2. PICK c : c = [side |-> "receive", net |-> net, amount |-> a, told |-> q.told]
    OBVIOUS
  <2>3. q.pc = "receive" /\ Quoted!Coin(p, c)
    BY <1>1, <1>3, <1>7, <2>1, <2>2 DEF Quoted!CreateReceive, Quoted!At, Quoted!CoinRow
  <2>4. q.quote >= 1
    BY <1>2, <2>3 DEF CoinAsked
  <2>5. least \in Int
    <3>1. q.net \in DOMAIN q.told => q.told[q.net] \in Limit
      BY <1>4
    <3> QED BY <3>1 DEF Limit
  <2>6. a \in Int /\ a >= least
    <3> HIDE DEF least
    <3> QED BY <1>2, <2>1, <2>4, <2>5
  <2>7. c \in CoinRow
    BY <1>2, <1>3, <2>2, <2>6 DEF CoinRow
  <2>8. KeepsTo(c)
    <3>1. net \in DOMAIN q.told => a >= q.told[net].minDeposit
      BY <1>5, <2>3, <2>6 DEF CoinSteps
    <3> QED BY <2>2, <3>1 DEF KeepsTo
  <2> QED BY <2>3, <2>7, <2>8, CoinRowKeeps
<1> QED BY <1>6, <1>7

-----------------------------------------------------------------------------
(* The quotes: Busha and the customer                                      *)

LEMMA WorldKeeps ==
  ASSUME QuoteIInv, Quoted!Reprice \/ Quoted!Relimit
  PROVE  QuoteIInv'
<1>1. /\ UNCHANGED <<platform, profile, synced, recipients, orders, transfers, trades, coins,
                     quoteReq, sales, quoteMet>>
      /\ limits' \in Taken /\ price' \in {90, 100, 110}
  <2>1. limits \in Taken /\ price \in {90, 100, 110}
    BY DEF QuoteIInv, QuoteTyped
  <2>2. CASE Quoted!Reprice
    BY <2>1, <2>2 DEF Quoted!Reprice, Quoted!Unmoved
  <2>3. CASE Quoted!Relimit
    <3>1. limits' \in Taken
      BY <2>3, Zenon DEF Quoted!Relimit, Taken
    <3>2. /\ UNCHANGED <<platform, profile, synced, recipients, orders, transfers, trades,
                         coins, quoteReq, sales, quoteMet, price>>
      BY <2>3, Zenon DEF Quoted!Relimit, Quoted!Unmoved
    <3> QED BY <2>1, <3>1, <3>2
  <2> QED BY <2>2, <2>3
<1>2. QuoteTyped'
  BY <1>1 DEF QuoteIInv, QuoteTyped, Opens
<1>3. \A p \in Requests : Fits(quoteReq[p])'
  BY <1>1 DEF QuoteIInv, Fits, There, Aimed, Opened, CoinAsked
<1>4. Alone' /\ RowsTold' /\ FewOpened' /\ Informing' /\ Quoted!WithinLimits'
  <2>1. Alone' /\ RowsTold'
    BY <1>1 DEF QuoteIInv, Alone, Awaiting, RowsTold, TradesTold
  <2>2. YetByAll' = YetByAll
    BY <1>1 DEF YetByAll, YetToOpen
  <2>3. FewOpened' /\ Informing'
    BY <1>1, <2>2 DEF QuoteIInv, FewOpened, Informing
  <2>4. Quoted!WithinLimits'
    BY <1>1 DEF QuoteIInv, Quoted!WithinLimits
  <2> QED BY <2>1, <2>3, <2>4
<1> QED BY <1>2, <1>3, <1>4 DEF QuoteIInv

LEMMA Changed ==
  ASSUME NEW S, NEW s \in Seq(S), NEW k \in 1..Len(s), NEW x \in S
  PROVE  /\ [s EXCEPT ![k] = x] \in Seq(S) /\ Len([s EXCEPT ![k] = x]) = Len(s)
         /\ \A i \in 1..Len(s) : [s EXCEPT ![k] = x][i] = IF i = k THEN x ELSE s[i]
OBVIOUS

\* An account that is no longer live is still that of its order.
LEMMA RetireKeeps ==
  ASSUME QuoteIInv, Quoted!Retire
  PROVE  QuoteIInv'
<1>1. UNCHANGED <<platform, profile, synced, orders, transfers, trades, coins, price, limits,
                  quoteReq, sales, quoteMet>>
  BY DEF Quoted!Retire, Quoted!Unmoved
<1>2. /\ recipients \in Seq([order : Nat, live : BOOLEAN]) /\ Len(recipients) \in Nat
      /\ QuoteTyped /\ Opens /\ RowsTold
  BY Parts DEF Opens
<1>3. PICK k \in DOMAIN recipients :
        recipients' = [recipients EXCEPT ![k].live = FALSE]
  BY DEF Quoted!Retire, Quoted!Listed
<1>4. /\ recipients' \in Seq([order : Nat, live : BOOLEAN])
      /\ Len(recipients') = Len(recipients)
      /\ \A i \in 1..Len(recipients) : recipients'[i].order = recipients[i].order
  <2>1. PICK x : x = [recipients[k] EXCEPT !.live = FALSE]
    OBVIOUS
  <2>2. k \in 1..Len(recipients) /\ recipients[k] \in [order : Nat, live : BOOLEAN]
    BY <1>2, <1>3, OpensAre
  <2>3. x \in [order : Nat, live : BOOLEAN] /\ x.order = recipients[k].order
    BY <2>1, <2>2
  <2>4. recipients' = [recipients EXCEPT ![k] = x]
    BY <1>3, <2>1
  <2>5. /\ recipients' \in Seq([order : Nat, live : BOOLEAN])
        /\ Len(recipients') = Len(recipients)
        /\ \A i \in 1..Len(recipients) :
             recipients'[i] = IF i = k THEN x ELSE recipients[i]
    BY <1>2, <2>2, <2>3, <2>4, Changed
  <2> QED BY <2>3, <2>5
<1>5. QuoteTyped'
  BY <1>1, <1>2, <1>4 DEF QuoteTyped, Opens
<1>6. Grown(recipients, recipients', orders, orders', transfers, transfers')
  <2>1. Len(orders) \in Nat /\ Len(transfers) \in Nat
    BY Parts
  <2> QED BY <1>1, <1>2, <1>4, <2>1 DEF Grown
<1>7. \A p \in Requests : Fits(quoteReq[p])'
  <2> SUFFICES ASSUME NEW p \in Requests PROVE Fits(quoteReq[p])'
    OBVIOUS
  <2>1. PICK r : r = quoteReq[p]
    OBVIOUS
  <2>2. Fits(r) /\ r \in QuoteLocal
    BY <2>1, Parts
  <2>3. Fits(r)'
    BY <1>1, <1>2, <1>5, <1>6, <2>2, FitsLast
  <2> QED BY <1>1, <2>1, <2>3 DEF Fits, There, Aimed, Opened, CoinAsked
<1>8. Alone'
  BY <1>1 DEF QuoteIInv, Alone, Awaiting
<1>9. RowsTold'
  <2>1. \A i \in 1..Len(transfers) : transfers[i].to \in 1..Len(recipients)
    BY <1>2 DEF RowsTold
  <2>2. \A i \in 1..Len(recipients') : recipients'[i].order <= Len(orders)
    BY <1>2, <1>4 DEF RowsTold
  <2>3. \A i \in 1..Len(transfers) :
          /\ transfers[i].to \in 1..Len(recipients')
          /\ platform.mode = "palmpay_temp" =>
               /\ recipients'[transfers[i].to].order # 0
               /\ orders[recipients'[transfers[i].to].order] = transfers[i].amount
    BY <1>2, <1>4, <2>1 DEF RowsTold
  <2>4. \A i \in 1..Len(trades) :
          /\ \E j \in 1..Len(transfers) :
               transfers[j] = [to |-> trades[i].to, amount |-> trades[i].credit]
          /\ platform.mode = "palmpay_temp" =>
               trades[i].order = recipients'[trades[i].to].order
    <3> SUFFICES ASSUME NEW i \in 1..Len(trades)
                 PROVE  /\ \E j \in 1..Len(transfers) :
                             transfers[j] = [to |-> trades[i].to, amount |-> trades[i].credit]
                        /\ platform.mode = "palmpay_temp" =>
                             trades[i].order = recipients'[trades[i].to].order
      OBVIOUS
    <3>1. PICK j \in 1..Len(transfers) :
            transfers[j] = [to |-> trades[i].to, amount |-> trades[i].credit]
      BY <1>2 DEF RowsTold, TradesTold
    <3>2. platform.mode = "palmpay_temp" => trades[i].order = recipients[trades[i].to].order
      BY <1>2 DEF RowsTold, TradesTold
    <3>3. trades[i].to = transfers[j].to
      BY <3>1
    <3>4. recipients'[trades[i].to].order = recipients[trades[i].to].order
      BY <1>4, <2>1, <3>3
    <3> QED BY <3>1, <3>2, <3>4
  <2>5. /\ profile.cached <= Len(recipients') /\ platform.recipient <= Len(recipients')
        /\ platform.recipient # 0 => recipients'[platform.recipient].order = 0
    <3>1. platform.recipient \in Nat
      BY <1>2 DEF QuoteTyped
    <3>2. /\ profile.cached <= Len(recipients) /\ platform.recipient <= Len(recipients)
          /\ platform.recipient # 0 => recipients[platform.recipient].order = 0
      BY <1>2 DEF RowsTold
    <3> QED BY <1>2, <1>4, <3>1, <3>2
  <2> QED BY <1>1, <2>2, <2>3, <2>4, <2>5 DEF RowsTold, TradesTold
<1>10. FewOpened' /\ Informing' /\ Quoted!WithinLimits'
  <2>1. YetByAll' = YetByAll
    BY <1>1 DEF YetByAll, YetToOpen
  <2>2. FewOpened' /\ Informing'
    BY <1>1, <2>1 DEF QuoteIInv, FewOpened, Informing
  <2>3. Quoted!WithinLimits'
    BY <1>1 DEF QuoteIInv, Quoted!WithinLimits
  <2> QED BY <2>2, <2>3
<1> QED BY <1>5, <1>7, <1>8, <1>9, <1>10 DEF QuoteIInv

\* The customer is mirrored over what was cached.
LEMMA SyncKeeps ==
  ASSUME QuoteIInv, Quoted!Sync
  PROVE  QuoteIInv'
<1>1. /\ UNCHANGED <<platform, recipients, orders, transfers, trades, coins, price, limits,
                     quoteReq, sales>>
      /\ synced' = synced + 1 /\ profile' = [data |-> synced + 1, cached |-> 0]
      /\ quoteMet' = (quoteMet \/ \E p \in Requests : quoteReq[p].pc # "idle")
  BY DEF Quoted!Sync, Quoted!Unmoved, Quoted!None, Quoted!At
<1>2. QuoteTyped /\ synced \in Nat /\ Len(recipients) \in Nat
  BY Parts DEF QuoteTyped
<1>3. QuoteTyped'
  <2>1. profile' \in [data : Nat, cached : Nat] /\ synced' \in Nat
    BY <1>1, <1>2
  <2> QED BY <1>1, <1>2, <2>1 DEF QuoteTyped, Opens
<1>4. \A p \in Requests : Fits(quoteReq[p])'
  BY <1>1 DEF QuoteIInv, Fits, There, Aimed, Opened, CoinAsked
<1>5. Alone'
  BY <1>1 DEF QuoteIInv, Alone, Awaiting
<1>6. RowsTold'
  BY <1>1, <1>2 DEF QuoteIInv, RowsTold, TradesTold
<1>7. FewOpened'
  <2>1. YetByAll' = YetByAll
    BY <1>1 DEF YetByAll, YetToOpen
  <2> QED BY <1>1, <2>1 DEF QuoteIInv, FewOpened
<1>8. Informing'
  <2>1. ~quoteMet' => \A p \in Requests : quoteReq[p].pc = "idle"
    BY <1>1
  <2> QED BY <1>1, <2>1 DEF Informing
<1>9. Quoted!WithinLimits'
  BY <1>1 DEF QuoteIInv, Quoted!WithinLimits
<1> QED BY <1>3, <1>4, <1>5, <1>6, <1>7, <1>8, <1>9 DEF QuoteIInv

LEMMA QuoteStep ==
  ASSUME QuoteIInv, IsFiniteSet(Requests), Quoted!Next
  PROVE  QuoteIInv'
<1>1. ASSUME NEW p \in Requests, Quoted!Sale(p)
      PROVE  QuoteIInv'
  BY <1>1, BeginsOrEnds, ReadKeeps, EnsureKeeps, PersistKeeps, QuoteKeeps, DashboardKeeps,
     KeepRecipientKeeps, PalmPayKeeps, RequoteKeeps, OpenKeeps, TradeKeeps, Zenon
     DEF Quoted!Sale
<1>2. ASSUME NEW p \in Requests, Quoted!CoinMove(p)
      PROVE  QuoteIInv'
  <2>1. CASE \E key \in {"TRX", "bep20", "bnb", "polygon"} :
               \/ Quoted!StartDeposit(p, key)
               \/ \E a \in {1, 2, 3} : Quoted!StartSend(p, key, a)
    <3> PICK key \in {"TRX", "bep20", "bnb", "polygon"} :
          \/ Quoted!Asked(p, "receive", key, 1)
          \/ \E a \in {1, 2, 3} : Quoted!Asked(p, "send", key, a)
      BY <2>1 DEF Quoted!StartDeposit, Quoted!StartSend
    <3>1. CASE Quoted!Asked(p, "receive", key, 1)
      <4>1. "receive" \in CoinSteps /\ 1 \in Int
        BY DEF CoinSteps
      <4> QED BY <3>1, <4>1, AskedKeeps
    <3>2. ASSUME NEW a \in {1, 2, 3}, Quoted!Asked(p, "send", key, a)
          PROVE  QuoteIInv'
      <4>1. "send" \in CoinSteps /\ a \in Int /\ "send" # "receive"
        BY DEF CoinSteps
      <4> QED BY <3>2, <4>1, AskedKeeps
    <3> QED BY <3>1, <3>2
  <2>2. CASE Quoted!ExecuteSend(p) \/ Quoted!CreateReceive(p)
    BY <2>2, CoinKeeps
  <2>3. CASE Quoted!PreviewSend(p)
    BY <2>3, BeginsOrEnds
  <2> QED BY <1>2, <2>1, <2>2, <2>3, Zenon DEF Quoted!CoinMove
<1>3. ASSUME NEW p \in Requests, Quoted!Refused(p)
      PROVE  QuoteIInv'
  BY <1>3, BeginsOrEnds
<1> QED BY <1>1, <1>2, <1>3, WorldKeeps, RetireKeeps, SyncKeeps, Zenon DEF Quoted!Next

-----------------------------------------------------------------------------
(* The quotes: what holds at first, and what is promised                   *)

LEMMA SeqMade ==
  ASSUME NEW S, NEW n \in Nat, NEW f \in [1..n -> S]
  PROVE  f \in Seq(S) /\ Len(f) = n
OBVIOUS

LEMMA QuoteInit ==
  ASSUME Quoted!Init, IsFiniteSet(Requests)
  PROVE  QuoteIInv
<1>1. PICK n \in {0, 1} :
        /\ recipients = [i \in 1..n |-> [order |-> i, live |-> TRUE]]
        /\ orders = [i \in 1..n |-> 100]
        /\ transfers = [i \in 1..n |-> [to |-> i, amount |-> 100]]
        /\ trades = [i \in 1..n |-> [to |-> i, credit |-> 100, order |-> i]]
  BY Zenon DEF Quoted!Init, Quoted!Account, Quoted!Sold
<1>2. /\ platform \in [mode : SaleModes, bank : BOOLEAN, recipient : {0}]
      /\ profile = [data |-> 0, cached |-> 0] /\ synced = 0 /\ coins = <<>>
      /\ price \in {90, 100, 110} /\ limits \in Taken
      /\ quoteReq = [p \in Requests |-> Quoted!Idle] /\ sales = 0
  BY Zenon DEF Quoted!Init, Quoted!None, SaleModes, Taken
<1>3. /\ recipients \in Seq([order : Nat, live : BOOLEAN]) /\ Len(recipients) = n
      /\ orders \in Seq(Int) /\ Len(orders) = n
      /\ transfers \in Seq([to : Nat, amount : Int]) /\ Len(transfers) = n
      /\ trades \in Seq(Trade) /\ Len(trades) = n
  <2>1. n \in Nat
    OBVIOUS
  <2>2. recipients \in Seq([order : Nat, live : BOOLEAN]) /\ Len(recipients) = n
    <3>1. recipients \in [1..n -> [order : Nat, live : BOOLEAN]]
      BY <1>1
    <3> QED BY <2>1, <3>1, SeqMade
  <2>3. orders \in Seq(Int) /\ Len(orders) = n
    <3>1. orders \in [1..n -> Int]
      BY <1>1
    <3> QED BY <2>1, <3>1, SeqMade
  <2>4. transfers \in Seq([to : Nat, amount : Int]) /\ Len(transfers) = n
    <3>1. transfers \in [1..n -> [to : Nat, amount : Int]]
      BY <1>1
    <3> QED BY <2>1, <3>1, SeqMade
  <2>5. trades \in Seq(Trade) /\ Len(trades) = n
    <3>1. trades \in [1..n -> Trade]
      BY <1>1 DEF Trade
    <3> QED BY <2>1, <3>1, SeqMade
  <2> QED BY <2>2, <2>3, <2>4, <2>5
<1>4. \A p \in Requests : /\ quoteReq[p] = Quoted!Idle /\ quoteReq[p].pc = "idle"
                          /\ quoteReq[p] \in QuoteLocal
  BY <1>2, IdleIs
<1>5. QuoteTyped
  <2>1. /\ platform \in [mode : SaleModes, bank : BOOLEAN, recipient : Nat]
        /\ profile \in [data : Nat, cached : Nat] /\ synced \in Nat /\ sales \in Nat
    BY <1>2
  <2>2. coins \in Seq(CoinRow)
    BY <1>2
  <2>3. quoteReq \in [Requests -> QuoteLocal]
    BY <1>2, IdleIs
  <2> QED BY <1>2, <1>3, <2>1, <2>2, <2>3 DEF QuoteTyped, Opens
<1>6. \A p \in Requests : Fits(quoteReq[p])
  <2> SUFFICES ASSUME NEW p \in Requests PROVE Fits(quoteReq[p])
    OBVIOUS
  <2>1. PICK r \in QuoteLocal : r = quoteReq[p]
    BY <1>4
  <2>2. r.pc = "idle" /\ r.to = 0 /\ r.pays = 0 /\ r.conf = 0 /\ r.seen.cached = 0
    BY <1>4, <2>1, IdleIs
  <2>3. Len(recipients) \in Nat
    BY <1>3
  <2>4. Fits(r)
    BY <2>2, <2>3, EarlyFits
  <2> QED BY <2>1, <2>4
<1>7. Alone
  BY <1>1, <1>3, <1>4 DEF Alone, Awaiting
<1>8. RowsTold
  <2>1. \A i \in 1..n : /\ recipients[i].order = i /\ orders[i] = 100
                        /\ transfers[i] = [to |-> i, amount |-> 100]
                        /\ trades[i] = [to |-> i, credit |-> 100, order |-> i]
    BY <1>1
  <2>2. TradesTold
    BY <1>3, <2>1 DEF TradesTold
  <2>3. /\ profile.cached = 0 /\ platform.recipient = 0
    BY <1>2
  <2> QED BY <1>3, <2>1, <2>2, <2>3 DEF RowsTold
<1>9. FewOpened
  <2>1. \A p \in Requests : YetByAll[p] = 0
    BY <1>4, YetIs DEF YetByAll, Estimating
  <2>2. SumFunctionOnSet(YetByAll, Requests) = 0
    BY <2>1, SumOfZeros
  <2> QED BY <1>2, <1>3, <2>2 DEF FewOpened
<1>10. Informing
  BY <1>2, <1>4 DEF Informing
<1>11. Quoted!WithinLimits
  <2>1. Quoted!ToSet(coins) = {}
    BY <1>2 DEF Quoted!ToSet
  <2> QED BY <2>1 DEF Quoted!WithinLimits
<1> QED BY <1>5, <1>6, <1>7, <1>8, <1>9, <1>10, <1>11 DEF QuoteIInv

LEMMA QuoteTypes ==
  ASSUME QuoteIInv
  PROVE  Quoted!TypeOK
<1>1. /\ RowsTold /\ QuoteTyped /\ Len(recipients) \in Nat /\ Len(orders) \in Nat
      /\ DOMAIN recipients = 1..Len(recipients)
      /\ \A i \in 1..Len(recipients) : recipients[i] \in [order : Nat, live : BOOLEAN]
  <2>1. recipients \in Seq([order : Nat, live : BOOLEAN])
    BY Parts DEF Opens
  <2> QED BY <2>1, Parts, OpensAre
<1>2. price \in {90, 100, 110} /\ limits \in Taken
  BY <1>1 DEF QuoteTyped
<1>3. profile.cached \in 0..Len(recipients) /\ platform.recipient \in 0..Len(recipients)
  <2>1. profile.cached \in Nat /\ platform.recipient \in Nat
    BY <1>1 DEF QuoteTyped
  <2> QED BY <1>1, <2>1 DEF RowsTold
<1>4. \A r \in DOMAIN recipients : recipients[r].order \in 0..Len(orders)
  BY <1>1 DEF RowsTold
<1>5. \A p \in Requests : quoteReq[p].to \in 0..Len(recipients)
  <2> SUFFICES ASSUME NEW p \in Requests PROVE quoteReq[p].to \in 0..Len(recipients)
    OBVIOUS
  <2>1. quoteReq[p] \in QuoteLocal /\ quoteReq[p].to <= Len(recipients)
    BY Parts DEF Fits, There
  <2>2. quoteReq[p].to \in Nat
    BY <2>1 DEF QuoteLocal
  <2> QED BY <1>1, <2>1, <2>2
<1> QED BY <1>2, <1>3, <1>4, <1>5, Zenon DEF Quoted!TypeOK, Taken

LEMMA QuoteAligned ==
  ASSUME QuoteIInv, IsFiniteSet(Requests)
  PROVE  Quoted!PayoutAligned
<1>1. /\ RowsTold /\ Alone /\ FewOpened /\ Opens
      /\ Len(recipients) \in Nat /\ Len(orders) \in Nat /\ Len(transfers) \in Nat
      /\ sales \in Nat /\ trades \in Seq(Trade)
  BY Parts DEF QuoteTyped
<1>2. /\ DOMAIN transfers = 1..Len(transfers) /\ DOMAIN trades = 1..Len(trades)
  <2>1. transfers \in Seq([to : Nat, amount : Int])
    BY <1>1 DEF Opens
  <2> QED BY <1>1, <2>1
<1>3. /\ \A t \in Quoted!ToSet(transfers) : \E i \in 1..Len(transfers) : t = transfers[i]
      /\ \A i \in 1..Len(transfers) : transfers[i] \in Quoted!ToSet(transfers)
      /\ \A t \in Quoted!ToSet(trades) : \E i \in 1..Len(trades) : t = trades[i]
  BY <1>2 DEF Quoted!ToSet
<1>4. ASSUME platform.mode = "palmpay_temp"
      PROVE  /\ \A t \in Quoted!ToSet(transfers) :
                  /\ Quoted!OrderOf(t) # Quoted!BANK
                  /\ orders[Quoted!OrderOf(t)] = t.amount
             /\ \A i, j \in DOMAIN transfers : i # j => transfers[i].to # transfers[j].to
             /\ \A t \in Quoted!ToSet(trades) :
                  t.order # Quoted!BANK /\ orders[t.order] = t.credit
  <2>1. \A i \in 1..Len(transfers) :
          /\ recipients[transfers[i].to].order # 0
          /\ orders[recipients[transfers[i].to].order] = transfers[i].amount
    BY <1>1, <1>4 DEF RowsTold
  <2>2. \A t \in Quoted!ToSet(transfers) :
          /\ Quoted!OrderOf(t) # Quoted!BANK /\ orders[Quoted!OrderOf(t)] = t.amount
    BY <1>3, <2>1 DEF Quoted!OrderOf, Quoted!BANK, Quoted!None
  <2>3. \A i, j \in DOMAIN transfers : i # j => transfers[i].to # transfers[j].to
    BY <1>1, <1>2, <1>4 DEF Alone
  <2>4. ASSUME NEW i \in 1..Len(trades)
        PROVE  trades[i].order # 0 /\ orders[trades[i].order] = trades[i].credit
    <3>1. PICK j \in 1..Len(transfers) :
            transfers[j] = [to |-> trades[i].to, amount |-> trades[i].credit]
      BY <1>1 DEF RowsTold, TradesTold
    <3>2. trades[i].order = recipients[trades[i].to].order
      BY <1>1, <1>4 DEF RowsTold, TradesTold
    <3>3. transfers[j].to = trades[i].to /\ transfers[j].amount = trades[i].credit
      BY <3>1
    <3> QED BY <2>1, <3>2, <3>3
  <2>5. \A t \in Quoted!ToSet(trades) : t.order # Quoted!BANK /\ orders[t.order] = t.credit
    BY <1>3, <2>4 DEF Quoted!BANK, Quoted!None
  <2> QED BY <2>2, <2>3, <2>5
<1>5. platform.mode = "dashboard_bank" => Len(orders) <= 1
  BY <1>1 DEF FewOpened
<1>6. \A t \in Quoted!ToSet(trades) :
        [to |-> t.to, amount |-> t.credit] \in Quoted!ToSet(transfers)
  BY <1>1, <1>3 DEF RowsTold, TradesTold
<1>7. Len(orders) <= 1 + 3 * sales
  <2>1. SumFunctionOnSet(YetByAll, Requests) \in Nat
    <3>1. \A p \in Requests : YetByAll[p] \in Nat
      BY Parts DEF YetByAll
    <3> QED BY <3>1, SumNat
  <2>2. Len(orders) + SumFunctionOnSet(YetByAll, Requests) <= 1 + 3 * sales
    BY <1>1 DEF FewOpened
  <2>3. PICK k \in Int : k = 3 * sales
    BY <1>1
  <2> QED BY <1>1, <2>1, <2>2, <2>3
<1> QED BY <1>4, <1>5, <1>6, <1>7 DEF Quoted!PayoutAligned

-----------------------------------------------------------------------------
(* Beside the trades                                                       *)

\* What the account keeps is kept beside the trades, the identity and the quotes.
THEOREM TraderAccountInvariance == TraderSpec => []AccountIInv
<1>1. TraderInit => AccountIInv
  BY AccountInit DEF TraderInit
<1>2. AccountIInv /\ [TraderNext]_<<part, vars, accountVars, kycVars, quoteVars>>
        => AccountIInv'
  <2> SUFFICES ASSUME AccountIInv,
                      [TraderNext]_<<part, vars, accountVars, kycVars, quoteVars>>
               PROVE  AccountIInv'
    OBVIOUS
  <2>1. [Auth!Next]_Auth!vars
    BY DEF TraderNext, AccountNext, LoginsNext, accountVars, Auth!vars
  <2> QED BY <2>1, AccountStep
<1> QED BY <1>1, <1>2, PTL DEF TraderSpec

\* A code opens what it was sent for once, and is used afterwards, and of the codes that
\* replace one another at most one is good.
THEOREM TraderCodesOpenOnce == TraderSpec => []CodesOpenOnce
<1>1. AccountIInv => CodesOpenOnce
  BY AccountTypes, AccountCodes DEF CodesOpenOnce
<1> QED BY TraderAccountInvariance, <1>1, PTL

\* After a reset the sessions that are left were made since, with the new password or by
\* a device whose login had begun before, and a user who was verified has wallets.
THEOREM TraderSessionsFollow == TraderSpec => []SessionsFollowPassword
<1>1. AccountIInv => SessionsFollowPassword
  BY AccountSessions DEF SessionsFollowPassword
<1> QED BY TraderAccountInvariance, <1>1, PTL

\* A sale is paid into an account that waits for exactly its amount and takes no other,
\* coin moves within the limits told of its network, and an estimate loses no news of the
\* customer unless a sync met it.
THEOREM TraderQuotesHold == TraderSpec => []QuotesHold
<1>1. TraderInit => QuoteIInv
  BY QuoteInit, HandlersAssumption DEF TraderInit
<1>2. QuoteIInv /\ [TraderNext]_<<part, vars, accountVars, kycVars, quoteVars>>
        => QuoteIInv'
  <2> SUFFICES ASSUME QuoteIInv,
                      [TraderNext]_<<part, vars, accountVars, kycVars, quoteVars>>
               PROVE  QuoteIInv'
    OBVIOUS
  <2>1. CASE Quoted!Next
    BY <2>1, QuoteStep, HandlersAssumption
  <2>2. CASE UNCHANGED quoteVars
    <3>1. UNCHANGED <<platform, profile, synced, recipients, orders, price, limits, transfers,
                      trades, coins, quoteReq, sales, quoteMet>>
      BY <2>2 DEF quoteVars
    <3>2. QuoteTyped' /\ \A p \in Requests : Fits(quoteReq[p])'
      BY <3>1 DEF QuoteIInv, QuoteTyped, Opens, Fits, There, Aimed, Opened, CoinAsked
    <3>3. Alone' /\ RowsTold'
      BY <3>1 DEF QuoteIInv, Alone, Awaiting, RowsTold, TradesTold
    <3>4. YetByAll' = YetByAll
      BY <3>1 DEF YetByAll, YetToOpen
    <3>5. FewOpened' /\ Informing' /\ Quoted!WithinLimits'
      BY <3>1, <3>4 DEF QuoteIInv, FewOpened, Informing, Quoted!WithinLimits
    <3> QED BY <3>2, <3>3, <3>5 DEF QuoteIInv
  <2> QED BY <2>1, <2>2 DEF TraderNext
<1>3. QuoteIInv => QuotesHold
  <2> SUFFICES ASSUME QuoteIInv PROVE QuotesHold
    OBVIOUS
  <2>1. Quoted!ProfileKept
    BY DEF QuoteIInv, Informing, Quoted!ProfileKept
  <2>2. Quoted!WithinLimits
    BY DEF QuoteIInv
  <2> QED BY <2>1, <2>2, QuoteTypes, QuoteAligned, HandlersAssumption DEF QuotesHold
<1> QED BY <1>1, <1>2, <1>3, PTL DEF TraderSpec
=============================================================================
