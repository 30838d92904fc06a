-------------------------- MODULE TenantAccountsProofs --------------------------
(***************************************************************************)
(* Proofs about TenantAccounts, for any users, tenants, sessions, resets,  *)
(* factors and request slots.                                              *)
(***************************************************************************)
EXTENDS TenantAccounts, TLAPS

USE RolesAssumption, TenantOfAssumption, WorkersAssumption, NoneAssumption, BoundsAssumption

---------------------------------------------------------------------------
(* Which steps change what *)

UserStep ==
  \/ \E w \in Clients : SetCommit(w) \/ RedeemCommit(w) \/ ConfirmCommit(w) \/ ClearEnrolled(w)
  \/ \E w \in Operators : DisableCommit(w) \/ Administer(w)

LEMMA ChangesUser == Next => UserStep \/ user' = user
<1> SUFFICES ASSUME Next PROVE UserStep \/ user' = user
  OBVIOUS
<1>1. ASSUME NEW w \in Clients, ClientStep(w) PROVE UserStep \/ user' = user
  BY <1>1 DEF ClientStep, UserStep, LoginRead, LoginInsert, Begin, SetPassword, Logout,
     LogoutAll, RedeemRead, Redeem, Change, SetupCheck, SetupInsert, ConfirmRead, RevokeFactor,
     VerifyTotp, VerifyBackup, StillEnrolled, Burn, VerifyCommit
<1>2. ASSUME NEW w \in Operators, OperatorStep(w) PROVE UserStep \/ user' = user
  BY <1>2 DEF OperatorStep, UserStep, DisableRead, IssueRead, DisableCount, IssueStamp,
     IssueCommit
<1>3. ASSUME NEW w \in Workers, Abort(w) PROVE user' = user
  BY <1>3 DEF Abort
<1> QED
  BY <1>1, <1>2, <1>3 DEF Next, UserStep

SessionStep ==
  \E w \in Clients : \/ LoginInsert(w) \/ SetCommit(w) \/ Logout(w) \/ LogoutAll(w)
                     \/ RedeemCommit(w) \/ VerifyCommit(w)

LEMMA ChangesSession == Next => SessionStep \/ session' = session
<1> SUFFICES ASSUME Next PROVE SessionStep \/ session' = session
  OBVIOUS
<1>1. ASSUME NEW w \in Clients, ClientStep(w) PROVE SessionStep \/ session' = session
  BY <1>1 DEF ClientStep, SessionStep, LoginRead, Begin, SetPassword, RedeemRead, Redeem, Change,
     SetupCheck, SetupInsert, ConfirmRead, RevokeFactor, VerifyTotp, VerifyBackup,
     StillEnrolled, Burn, ConfirmCommit, ClearEnrolled
<1>2. ASSUME NEW w \in Operators, OperatorStep(w) \/ Administer(w) PROVE session' = session
  BY <1>2 DEF OperatorStep, Administer, DisableRead, IssueRead, DisableCount, DisableCommit,
     IssueStamp, IssueCommit, EnableUser, CreateUser, UpdateUser
<1>3. ASSUME NEW w \in Workers, Abort(w) PROVE session' = session
  BY <1>3 DEF Abort
<1> QED
  BY <1>1, <1>2, <1>3 DEF Next

ResetStep ==
  (\E w \in Clients : RedeemCommit(w)) \/ (\E w \in Operators : IssueCommit(w))

LEMMA ChangesReset == Next => ResetStep \/ reset' = reset
<1> SUFFICES ASSUME Next PROVE ResetStep \/ reset' = reset
  OBVIOUS
<1>1. ASSUME NEW w \in Clients, ClientStep(w) PROVE ResetStep \/ reset' = reset
  BY <1>1 DEF ClientStep, ResetStep, LoginRead, LoginInsert, Begin, SetPassword, SetCommit,
     Logout, LogoutAll, RedeemRead, Redeem, Change, SetupCheck, SetupInsert, ConfirmRead,
     RevokeFactor, VerifyTotp, VerifyBackup, StillEnrolled, Burn, ConfirmCommit,
     ClearEnrolled, VerifyCommit
<1>2. ASSUME NEW w \in Operators, OperatorStep(w) \/ Administer(w) PROVE ResetStep \/ reset' = reset
  BY <1>2 DEF OperatorStep, Administer, ResetStep, DisableRead, IssueRead, DisableCount,
     DisableCommit, IssueStamp, EnableUser, CreateUser, UpdateUser
<1>3. ASSUME NEW w \in Workers, Abort(w) PROVE reset' = reset
  BY <1>3 DEF Abort
<1> QED
  BY <1>1, <1>2, <1>3 DEF Next

FactorStep ==
  \E w \in Clients :
    SetupInsert(w) \/ ConfirmCommit(w) \/ Burn(w) \/ \E f \in Factors : RevokeFactor(w, f)

LEMMA ChangesFactor == Next => FactorStep \/ factor' = factor
<1> SUFFICES ASSUME Next PROVE FactorStep \/ factor' = factor
  OBVIOUS
<1>1. ASSUME NEW w \in Clients, ClientStep(w) PROVE FactorStep \/ factor' = factor
  BY <1>1 DEF ClientStep, FactorStep, LoginRead, LoginInsert, Begin, SetPassword, SetCommit,
     Logout, LogoutAll, RedeemRead, Redeem, RedeemCommit, Change, SetupCheck, ConfirmRead,
     VerifyTotp, VerifyBackup, StillEnrolled, ClearEnrolled, VerifyCommit
<1>2. ASSUME NEW w \in Operators, OperatorStep(w) \/ Administer(w) PROVE factor' = factor
  BY <1>2 DEF OperatorStep, Administer, DisableRead, IssueRead, DisableCount, DisableCommit,
     IssueStamp, IssueCommit, EnableUser, CreateUser, UpdateUser
<1>3. ASSUME NEW w \in Workers, Abort(w) PROVE factor' = factor
  BY <1>3 DEF Abort
<1> QED
  BY <1>1, <1>2, <1>3 DEF Next

---------------------------------------------------------------------------
(* What a step makes of one row *)

\* The change of password that holds the lock on the user's row commits.
Commits(w) == w \in Clients /\ req[w].phase = "changing" /\ (SetCommit(w) \/ RedeemCommit(w))

\* What the statements make of a row.
Hashed(row, by) == [row EXCEPT !.password = row.password + 1, !.setBy = by]
Ranked(row, role, b) == [row EXCEPT !.role = role, !.required = b]
Switched(row, b) == [row EXCEPT !.disabled = b]
Flagged(row, b) == [row EXCEPT !.enrolled = b]
Revoked(row) == [row EXCEPT !.state = "revoked"]
Verified(row, f) == [row EXCEPT !.verified = TRUE, !.factor = f]
Used(row) == [row EXCEPT !.state = "used"]
RedeemedBy(row, w) == [row EXCEPT !.state = "used", !.redeemers = row.redeemers \cup {w}]
Confirmed(row) == [row EXCEPT !.confirmed = TRUE]
Spent(row) == [row EXCEPT !.revoked = TRUE]

LEMMA UserRows ==
  ASSUME TypeOK, Next, NEW q \in Users
  PROVE  \/ user'[q] = user[q]
         \/ /\ ~Exists(q)
            /\ \E role \in Roles, b \in BOOLEAN :
                 user'[q] = Ranked(NoUser, role, b)
         \/ /\ Exists(q)
            /\ \E role \in Roles, b \in BOOLEAN :
                 user'[q] = Ranked(user[q], role, b)
         \/ \E b \in BOOLEAN : \/ user'[q] = Switched(user[q], b)
                               \/ user'[q] = Flagged(user[q], b)
         \/ \E w \in Clients : Commits(w) /\ q = req[w].user /\
              \E by \in Sessions \cup {None} : user'[q] = Hashed(user[q], by)
<1>1. q \in DOMAIN user
  BY DEF TypeOK
<1>2. CASE user' = user
  BY <1>2
<1>3. ASSUME NEW w \in Clients, SetCommit(w) \/ RedeemCommit(w)
      PROVE  user'[q] = user[q] \/ (Commits(w) /\ q = req[w].user /\
               \E by \in Sessions \cup {None} : user'[q] = Hashed(user[q], by))
  <2>1. PICK by \in Sessions \cup {None} : SetHash(req[w].user, by)
    BY <1>3 DEF SetCommit, RedeemCommit, TypeOK, Workers, Request
  <2>2. req[w].phase = "changing"
    BY <1>3 DEF SetCommit, RedeemCommit, At
  <2>3. user'[q] = user[q] \/ (q = req[w].user /\ user'[q] = Hashed(user[q], by))
    <3>1. CASE q = req[w].user
      <4>1. user'[q] = [user[q] EXCEPT !.password = user[q].password + 1, !.setBy = by]
        BY <1>1, <2>1, <3>1 DEF SetHash, TypeOK, UserRow
      <4> QED
        BY <3>1, <4>1 DEF Hashed
    <3>2. CASE q # req[w].user
      BY <1>1, <2>1, <3>2 DEF SetHash
    <3> QED
      BY <3>1, <3>2
  <2> QED
    BY <1>3, <2>2, <2>3 DEF Commits
<1>4. ASSUME NEW w \in Clients, ConfirmCommit(w) \/ ClearEnrolled(w)
      PROVE  user'[q] = user[q] \/ \E b \in BOOLEAN : user'[q] = Flagged(user[q], b)
  BY <1>1, <1>4 DEF ConfirmCommit, ClearEnrolled, Enrol, Flagged
<1>5. ASSUME NEW w \in Operators, DisableCommit(w)
      PROVE  user'[q] = user[q] \/ \E b \in BOOLEAN : user'[q] = Switched(user[q], b)
  BY <1>1, <1>5 DEF DisableCommit, Switched
<1>6. ASSUME NEW u \in Users, EnableUser(u)
      PROVE  user'[q] = user[q] \/ \E b \in BOOLEAN : user'[q] = Switched(user[q], b)
  BY <1>1, <1>6 DEF EnableUser, Switched
<1>7. ASSUME NEW u \in Users, NEW role \in Roles, CreateUser(u, role)
      PROVE  \/ user'[q] = user[q]
             \/ ~Exists(q) /\ \E b \in BOOLEAN : user'[q] = Ranked(NoUser, role, b)
  <2>1. CASE q = u
    <3>1. user'[q] = Ranked(NoUser, role, NeedsMfa(role))
      BY <1>1, <1>7, <2>1 DEF CreateUser, Ranked
    <3>2. NeedsMfa(role) \in BOOLEAN
      BY DEF NeedsMfa
    <3> QED
      BY <1>7, <2>1, <3>1, <3>2, Zenon DEF CreateUser
  <2>2. CASE q # u
    BY <1>1, <1>7, <2>2 DEF CreateUser
  <2> QED
    BY <2>1, <2>2
<1>8. ASSUME NEW u \in Users, NEW role \in Roles, UpdateUser(u, role)
      PROVE  \/ user'[q] = user[q]
             \/ Exists(q) /\ \E b \in BOOLEAN : user'[q] = Ranked(user[q], role, b)
  <2>1. CASE q = u
    <3>1. user'[q] = Ranked(user[q], role, user[q].required \/ NeedsMfa(role))
      BY <1>1, <1>8, <2>1 DEF UpdateUser, TypeOK, UserRow, Ranked
    <3>2. (user[q].required \/ NeedsMfa(role)) \in BOOLEAN
      OBVIOUS
    <3> QED
      BY <1>8, <2>1, <3>1, <3>2, Zenon DEF UpdateUser
  <2>2. CASE q # u
    BY <1>1, <1>8, <2>2 DEF UpdateUser
  <2> QED
    BY <2>1, <2>2
<1> QED
  BY <1>2, <1>3, <1>4, <1>5, <1>6, <1>7, <1>8, ChangesUser DEF UserStep, Administer

LEMMA SessionRows ==
  ASSUME TypeOK, Next, NEW s \in Sessions
  PROVE  \/ session'[s] = session[s]
         \/ session'[s] = Revoked(session[s]) /\ session[s].state = "live"
         \/ \E w \in Clients :
              /\ VerifyCommit(w) /\ s = req[w].session
              /\ session'[s] = Verified(session[s], req[w].on)
         \/ \E w \in Clients :
              /\ LoginInsert(w) /\ session[s] = NoSession
              /\ session'[s] = [state |-> "live", user |-> req[w].user,
                                verified |-> ~req[w].asked, asked |-> req[w].asked,
                                factor |-> None, under |-> user[req[w].user].password,
                                late |-> Changing(req[w].user) # {}]
<1>1. s \in DOMAIN session
  BY DEF TypeOK
<1>2. CASE session' = session
  BY <1>2
<1>3. ASSUME NEW which, Revoke(which)
      PROVE  \/ session'[s] = session[s]
             \/ session'[s] = Revoked(session[s]) /\ session[s].state = "live"
  BY <1>3 DEF Revoke, Revoked
<1>4. ASSUME NEW w \in Clients, SetCommit(w) \/ RedeemCommit(w) \/ Logout(w) \/ LogoutAll(w)
      PROVE  \E which : Revoke(which)
  BY <1>4 DEF SetCommit, RedeemCommit, Logout, LogoutAll
<1>5. ASSUME NEW w \in Clients, VerifyCommit(w)
      PROVE  \/ session'[s] = session[s]
             \/ /\ s = req[w].session
                /\ session'[s] = Verified(session[s], req[w].on)
  BY <1>1, <1>5 DEF VerifyCommit, TypeOK, SessionRow, Verified
<1>6. ASSUME NEW w \in Clients, LoginInsert(w)
      PROVE  \/ session'[s] = session[s]
             \/ /\ session[s] = NoSession
                /\ session'[s] = [state |-> "live", user |-> req[w].user,
                                  verified |-> ~req[w].asked, asked |-> req[w].asked,
                                  factor |-> None, under |-> user[req[w].user].password,
                                  late |-> Changing(req[w].user) # {}]
  BY <1>1, <1>6 DEF LoginInsert
<1> QED
  BY <1>2, <1>3, <1>4, <1>5, <1>6, ChangesSession DEF SessionStep

LEMMA ResetRows ==
  ASSUME TypeOK, Next, NEW r \in Resets
  PROVE  \/ reset'[r] = reset[r]
         \/ \E w \in Clients :
              /\ RedeemCommit(w) /\ r = req[w].on
              /\ reset'[r] = RedeemedBy(reset[r], w)
         \/ \E w \in Operators :
              /\ IssueCommit(w) /\ r \in req[w].seen
              /\ reset'[r] = Used(reset[r])
         \/ \E w \in Operators :
              /\ IssueCommit(w) /\ reset[r] = NoReset
              /\ reset'[r] = [state |-> "pending", user |-> req[w].user, issuer |-> w,
                              redeemers |-> {}]
<1>1. r \in DOMAIN reset
  BY DEF TypeOK
<1>2. CASE reset' = reset
  BY <1>2
<1>3. ASSUME NEW w \in Clients, RedeemCommit(w)
      PROVE  \/ reset'[r] = reset[r]
             \/ r = req[w].on /\ reset'[r] = RedeemedBy(reset[r], w)
  BY <1>1, <1>3 DEF RedeemCommit, Redeemed, TypeOK, ResetRow, RedeemedBy
<1>4. ASSUME NEW w \in Operators, IssueCommit(w)
      PROVE  \/ reset'[r] = reset[r]
             \/ r \in req[w].seen /\ reset'[r] = Used(reset[r])
             \/ /\ reset[r] = NoReset
                /\ reset'[r] = [state |-> "pending", user |-> req[w].user, issuer |-> w,
                                redeemers |-> {}]
  BY <1>1, <1>4 DEF IssueCommit, Used
<1> QED
  BY <1>2, <1>3, <1>4, ChangesReset DEF ResetStep

LEMMA FactorRows ==
  ASSUME TypeOK, Next, NEW f \in Factors
  PROVE  \/ factor'[f] = factor[f]
         \/ \E w \in Clients :
              /\ SetupInsert(w) /\ factor[f] = NoFactor
              /\ factor'[f] = NewFactor("totp", req[w].user)
         \/ \E w \in Clients :
              /\ ConfirmCommit(w) /\ factor[f] = NoFactor
              /\ factor'[f] = NewFactor("backup_codes", req[w].user)
         \/ \E w \in Clients :
              /\ ConfirmCommit(w) /\ f = req[w].on
              /\ factor'[f] = Confirmed(factor[f])
         \/ \E w \in Clients :
              /\ Burn(w) \/ RevokeFactor(w, f)
              /\ factor'[f] = Spent(factor[f])
<1>1. f \in DOMAIN factor
  BY DEF TypeOK
<1>2. CASE factor' = factor
  BY <1>2
<1>3. ASSUME NEW w \in Clients, SetupInsert(w)
      PROVE  factor'[f] = factor[f]
             \/ (factor[f] = NoFactor /\ factor'[f] = NewFactor("totp", req[w].user))
  BY <1>1, <1>3 DEF SetupInsert
<1>4. ASSUME NEW w \in Clients, ConfirmCommit(w)
      PROVE  \/ factor'[f] = factor[f]
             \/ factor[f] = NoFactor /\ factor'[f] = NewFactor("backup_codes", req[w].user)
             \/ f = req[w].on /\ factor'[f] = Confirmed(factor[f])
  BY <1>1, <1>4 DEF ConfirmCommit, Confirmed
<1>5. ASSUME NEW w \in Clients, NEW g \in Factors, RevokeFactor(w, g)
      PROVE  factor'[f] = factor[f]
             \/ (RevokeFactor(w, f) /\ factor'[f] = Spent(factor[f]))
  BY <1>1, <1>5 DEF RevokeFactor, Spent
<1>6. ASSUME NEW w \in Clients, Burn(w)
      PROVE  factor'[f] = factor[f] \/ factor'[f] = Spent(factor[f])
  BY <1>1, <1>6 DEF Burn, Spent
<1> QED
  BY <1>2, <1>3, <1>4, <1>5, <1>6, ChangesFactor DEF FactorStep

---------------------------------------------------------------------------
(* What rows and requests refer to *)

UsersNamed == \A u \in Users : user[u].password # 0 => Exists(u)
SessionsNamed == \A s \in Sessions : session[s].state # "none" =>
  session[s].user \in Users /\ Exists(session[s].user)
ResetsNamed == \A r \in Resets : reset[r].state = "pending" =>
  reset[r].user \in Users /\ Exists(reset[r].user)
FactorsNamed == \A f \in Factors :
  IF factor[f].type = "none" THEN factor[f].user = None
  ELSE factor[f].user \in Users /\ Exists(factor[f].user)

\* What a request has read is still there.
OfUser(f, u, type) == f \in Factors /\ factor[f].user = u /\ factor[f].type = type
Verifies(f, u) ==
  (OfUser(f, u, "totp") /\ factor[f].confirmed) \/ (OfUser(f, u, "backup_codes") /\ factor[f].revoked)

Serves(r) ==
  /\ r.phase # "none" => r.op # "none"
  /\ r.op # "none" => r.user \in Users /\ Exists(r.user)
  /\ r.op \in SessionOps => /\ r.session \in Sessions
                            /\ session[r.session].state # "none"
                            /\ session[r.session].user = r.user
  /\ r.op = "redeem" => r.on \in Resets
  /\ r.phase = "changing" => r.op \in {"set_password", "redeem"}
  /\ r.op = "confirm_totp" /\ r.phase = "checked" => OfUser(r.on, r.user, "totp")
  /\ r.op = "verify" /\ r.phase = "matched" => OfUser(r.on, r.user, "backup_codes")
  /\ r.op = "verify" /\ r.phase = "verified" => Verifies(r.on, r.user)
  /\ r.op = "revoke_factor" /\ r.phase \in {"revoked", "last"} =>
       \E f \in FactorsOf(r.user) : factor[f].revoked

Serving(w) == Serves(req[w])

\* A change of password has its user's row for itself.
Locked ==
  \A w \in Clients : req[w].phase = "changing" =>
    /\ user[req[w].user].password < MaxPasswords
    /\ \A v \in Clients : req[v].phase = "changing" /\ req[v].user = req[w].user => v = w

AccountsInv ==
  /\ TypeOK /\ UsersNamed /\ SessionsNamed /\ ResetsNamed /\ FactorsNamed /\ Locked
  /\ \A w \in Workers : Serving(w)

\* No step takes a user, a session or a factor away.
Persist ==
  /\ \A u \in Users : Exists(u) => Exists(u)'
  /\ \A s \in Sessions : session[s].state # "none" =>
       session'[s].state # "none" /\ session'[s].user = session[s].user
  /\ \A f \in Factors : factor[f].type # "none" =>
       /\ factor'[f].type = factor[f].type /\ factor'[f].user = factor[f].user
       /\ factor[f].confirmed => factor'[f].confirmed
       /\ factor[f].revoked => factor'[f].revoked

LEMMA UserEdits ==
  ASSUME NEW row \in UserRow
  PROVE  /\ \A b \in BOOLEAN : /\ Switched(row, b) \in UserRow
                               /\ Switched(row, b).role = row.role
                               /\ Switched(row, b).password = row.password
         /\ \A b \in BOOLEAN : /\ Flagged(row, b) \in UserRow
                               /\ Flagged(row, b).role = row.role
                               /\ Flagged(row, b).password = row.password
  BY DEF UserRow, Switched, Flagged

LEMMA UserRoles ==
  ASSUME NEW row \in UserRow, NEW role \in Roles, NEW b \in BOOLEAN
  PROVE  /\ Ranked(row, role, b) \in UserRow /\ Ranked(row, role, b).role = role
         /\ Ranked(row, role, b).password = row.password
  BY DEF UserRow, Ranked

LEMMA NewUser ==
  ASSUME NEW role \in Roles, NEW b \in BOOLEAN
  PROVE  /\ Ranked(NoUser, role, b) \in UserRow /\ Ranked(NoUser, role, b).role = role
         /\ Ranked(NoUser, role, b).password = 0
<1>1. 0 \in 0 .. MaxPasswords
  OBVIOUS
<1> QED
  BY <1>1 DEF UserRow, NoUser, Ranked

LEMMA UserHashed ==
  ASSUME NEW row \in UserRow, row.password < MaxPasswords, NEW by \in Sessions \cup {None}
  PROVE  Hashed(row, by) \in UserRow /\ Hashed(row, by).role = row.role
<1>1. row.password + 1 \in 0 .. MaxPasswords
  BY DEF UserRow
<1> QED
  BY <1>1 DEF UserRow, Hashed

LEMMA UserStays ==
  ASSUME AccountsInv, Next, NEW q \in Users
  PROVE  user'[q] \in UserRow /\ (Exists(q) => Exists(q)')
         /\ (user'[q].password # 0 => Exists(q)')
<1>1. user[q] \in UserRow /\ (user[q].password # 0 => user[q].role # "none") /\ "none" \notin Roles
  BY DEF AccountsInv, TypeOK, UsersNamed, Exists
<1>2. CASE user'[q] = user[q]
  BY <1>1, <1>2 DEF Exists
<1>3. ASSUME NEW role \in Roles, NEW b \in BOOLEAN,
             user'[q] = Ranked(NoUser, role, b)
      PROVE  user'[q] \in UserRow /\ user'[q].role # "none"
  BY <1>1, <1>3, NewUser
<1>4. ASSUME NEW role \in Roles, NEW b \in BOOLEAN,
             user'[q] = Ranked(user[q], role, b)
      PROVE  user'[q] \in UserRow /\ user'[q].role # "none"
  BY <1>1, <1>4, UserRoles
<1>5. ASSUME NEW b \in BOOLEAN, \/ user'[q] = Switched(user[q], b)
                                \/ user'[q] = Flagged(user[q], b)
      PROVE  user'[q] \in UserRow /\ user'[q].role = user[q].role
             /\ user'[q].password = user[q].password
  BY <1>1, <1>5, UserEdits
<1>6. ASSUME NEW w \in Clients, Commits(w), q = req[w].user, NEW by \in Sessions \cup {None},
             user'[q] = Hashed(user[q], by)
      PROVE  user'[q] \in UserRow /\ user'[q].role = user[q].role /\ Exists(q)
  <2>1. user[q].password < MaxPasswords
    BY <1>6 DEF Commits, AccountsInv, Locked
  <2>2. Exists(q)
    BY <1>6 DEF Commits, AccountsInv, Serving, Serves, Workers
  <2> QED
    BY <1>1, <1>6, <2>1, <2>2, UserHashed
<1>7. CASE \E role \in Roles, b \in BOOLEAN :
             user'[q] = Ranked(NoUser, role, b)
  BY <1>3, <1>7 DEF Exists
<1>8. CASE \E role \in Roles, b \in BOOLEAN :
             user'[q] = Ranked(user[q], role, b)
  BY <1>4, <1>8 DEF Exists
<1>9. CASE \E b \in BOOLEAN : \/ user'[q] = Switched(user[q], b)
                              \/ user'[q] = Flagged(user[q], b)
  BY <1>1, <1>5, <1>9 DEF Exists
<1>10. CASE \E w \in Clients : Commits(w) /\ q = req[w].user /\
              \E by \in Sessions \cup {None} : user'[q] = Hashed(user[q], by)
  BY <1>6, <1>10 DEF Exists
<1>11. TypeOK
  BY DEF AccountsInv
<1> QED
  BY <1>2, <1>7, <1>8, <1>9, <1>10, <1>11, UserRows

LEMMA SessionRevoked ==
  ASSUME NEW row \in SessionRow
  PROVE  /\ Revoked(row) \in SessionRow /\ Revoked(row).state = "revoked"
         /\ Revoked(row).user = row.user /\ Revoked(row).factor = row.factor
         /\ Revoked(row).verified = row.verified /\ Revoked(row).asked = row.asked
  BY DEF SessionRow, Revoked

LEMMA SessionVerified ==
  ASSUME NEW row \in SessionRow, NEW f \in Factors
  PROVE  /\ Verified(row, f) \in SessionRow /\ Verified(row, f).state = row.state
         /\ Verified(row, f).user = row.user /\ Verified(row, f).factor = f
         /\ Verified(row, f).under = row.under /\ Verified(row, f).late = row.late
  BY DEF SessionRow, Verified

LEMMA SessionStays ==
  ASSUME AccountsInv, Next, NEW s \in Sessions
  PROVE  /\ session'[s] \in SessionRow
         /\ session[s].state # "none" =>
              session'[s].state # "none" /\ session'[s].user = session[s].user
         /\ session'[s].state # "none" => session'[s].user \in Users /\ Exists(session'[s].user)
<1>1. session[s] \in SessionRow /\ TypeOK
      /\ (session[s].state # "none" => session[s].user \in Users /\ Exists(session[s].user))
  BY DEF AccountsInv, TypeOK, SessionsNamed
<1>2. CASE session'[s] = session[s]
  BY <1>1, <1>2
<1>3. CASE session'[s] = Revoked(session[s]) /\ session[s].state = "live"
  BY <1>1, <1>3, SessionRevoked
<1>4. ASSUME NEW w \in Clients, VerifyCommit(w),
             session'[s] = Verified(session[s], req[w].on)
      PROVE  session'[s] \in SessionRow /\ session'[s].state = session[s].state
             /\ session'[s].user = session[s].user
  <2>1. req[w].on \in Factors
    BY <1>4 DEF VerifyCommit, At, AccountsInv, Serving, Serves, Workers, Verifies, OfUser
  <2> QED
    BY <1>1, <1>4, <2>1, SessionVerified
<1>5. ASSUME NEW w \in Clients, LoginInsert(w), session[s] = NoSession,
             session'[s] = [state |-> "live", user |-> req[w].user,
                            verified |-> ~req[w].asked, asked |-> req[w].asked,
                            factor |-> None, under |-> user[req[w].user].password,
                            late |-> Changing(req[w].user) # {}]
      PROVE  session'[s] \in SessionRow /\ session[s].state = "none"
             /\ session'[s].user \in Users /\ Exists(session'[s].user)
  <2>1. req[w].user \in Users /\ Exists(req[w].user)
    BY <1>5 DEF LoginInsert, At, AccountsInv, Serving, Serves, Workers
  <2>2. user[req[w].user].password \in 0 .. MaxPasswords /\ req[w].asked \in BOOLEAN
    BY <1>1, <2>1 DEF TypeOK, UserRow, Request, Workers
  <2> QED
    BY <1>5, <2>1, <2>2 DEF SessionRow, NoSession
<1>6. CASE \E w \in Clients :
             /\ VerifyCommit(w) /\ s = req[w].session
             /\ session'[s] = Verified(session[s], req[w].on)
  BY <1>1, <1>4, <1>6
<1>7. CASE \E w \in Clients :
             /\ LoginInsert(w) /\ session[s] = NoSession
             /\ session'[s] = [state |-> "live", user |-> req[w].user,
                               verified |-> ~req[w].asked, asked |-> req[w].asked,
                               factor |-> None, under |-> user[req[w].user].password,
                               late |-> Changing(req[w].user) # {}]
  BY <1>5, <1>7
<1> QED
  BY <1>1, <1>2, <1>3, <1>6, <1>7, SessionRows

LEMMA ResetEdits ==
  ASSUME NEW row \in ResetRow
  PROVE  /\ Used(row) \in ResetRow /\ Used(row).state = "used" /\ Used(row).user = row.user
         /\ Used(row).issuer = row.issuer /\ Used(row).redeemers = row.redeemers
         /\ \A w \in Clients :
              /\ RedeemedBy(row, w) \in ResetRow /\ RedeemedBy(row, w).state = "used"
              /\ RedeemedBy(row, w).user = row.user /\ RedeemedBy(row, w).issuer = row.issuer
              /\ RedeemedBy(row, w).redeemers = row.redeemers \cup {w}
  BY DEF ResetRow, Used, RedeemedBy

LEMMA ResetStays ==
  ASSUME AccountsInv, Next, NEW r \in Resets
  PROVE  /\ reset'[r] \in ResetRow
         /\ reset[r].state # "none" => reset'[r].state # "none" /\ reset'[r].user = reset[r].user
                                       /\ reset'[r].issuer = reset[r].issuer
         /\ reset[r].state = "used" => reset'[r].state = "used"
         /\ reset'[r] = NoReset \/ reset'[r].state = "used" \/ reset'[r] = reset[r] \/
              \E w \in Operators : IssueCommit(w) /\ reset'[r].user = req[w].user
                                   /\ reset'[r].issuer = w /\ reset'[r].redeemers = {}
<1>1. reset[r] \in ResetRow /\ TypeOK
  BY DEF AccountsInv, TypeOK
<1>2. CASE reset'[r] = reset[r]
  BY <1>1, <1>2
<1>3. CASE reset'[r] = Used(reset[r]) \/ \E w \in Clients : reset'[r] = RedeemedBy(reset[r], w)
  <2>1. reset'[r] \in ResetRow /\ reset'[r].state = "used" /\ reset'[r].user = reset[r].user
        /\ reset'[r].issuer = reset[r].issuer
    BY <1>1, <1>3, ResetEdits
  <2> QED
    BY <2>1
<1>4. ASSUME NEW w \in Operators, IssueCommit(w), reset[r] = NoReset,
             reset'[r] = [state |-> "pending", user |-> req[w].user, issuer |-> w, redeemers |-> {}]
      PROVE  /\ reset'[r] \in ResetRow /\ reset[r].state = "none" /\ reset'[r].user = req[w].user
             /\ reset'[r].issuer = w /\ reset'[r].redeemers = {}
  BY <1>1, <1>4 DEF ResetRow, NoReset, TypeOK, Request, Workers
<1>5. CASE \E w \in Operators :
             /\ IssueCommit(w) /\ reset[r] = NoReset
             /\ reset'[r] = [state |-> "pending", user |-> req[w].user, issuer |-> w,
                             redeemers |-> {}]
  BY <1>4, <1>5
<1> QED
  BY <1>1, <1>2, <1>3, <1>5, ResetRows

LEMMA FactorEdits ==
  ASSUME NEW row \in FactorRow
  PROVE  /\ Confirmed(row) \in FactorRow /\ Confirmed(row).confirmed
         /\ Confirmed(row).type = row.type /\ Confirmed(row).user = row.user
         /\ Confirmed(row).revoked = row.revoked
         /\ Spent(row) \in FactorRow /\ Spent(row).revoked
         /\ Spent(row).type = row.type /\ Spent(row).user = row.user
         /\ Spent(row).confirmed = row.confirmed
  BY DEF FactorRow, Confirmed, Spent

LEMMA NewFactorIs ==
  ASSUME NEW type \in {"totp", "backup_codes"}, NEW u \in Users \cup {None}
  PROVE  /\ NewFactor(type, u) \in FactorRow /\ NewFactor(type, u).type = type
         /\ NewFactor(type, u).user = u /\ ~NewFactor(type, u).revoked
         /\ ~NewFactor(type, u).confirmed
  BY DEF NewFactor, NoFactor, FactorRow

LEMMA FactorStays ==
  ASSUME AccountsInv, Next, NEW f \in Factors
  PROVE  /\ factor'[f] \in FactorRow
         /\ factor[f].type # "none" =>
              /\ factor'[f].type = factor[f].type /\ factor'[f].user = factor[f].user
              /\ factor[f].confirmed => factor'[f].confirmed
              /\ factor[f].revoked => factor'[f].revoked
         /\ IF factor'[f].type = "none" THEN factor'[f].user = None
            ELSE factor'[f].user \in Users /\ Exists(factor'[f].user)
<1>1. factor[f] \in FactorRow /\ TypeOK
      /\ IF factor[f].type = "none" THEN factor[f].user = None
         ELSE factor[f].user \in Users /\ Exists(factor[f].user)
  BY DEF AccountsInv, TypeOK, FactorsNamed
<1>2. CASE factor'[f] = factor[f]
  BY <1>1, <1>2
<1>3. CASE factor'[f] = Confirmed(factor[f]) \/ factor'[f] = Spent(factor[f])
  <2>1. /\ factor'[f] \in FactorRow /\ factor'[f].type = factor[f].type
        /\ factor'[f].user = factor[f].user
        /\ factor[f].confirmed => factor'[f].confirmed
        /\ factor[f].revoked => factor'[f].revoked
    BY <1>1, <1>3, FactorEdits
  <2> QED
    BY <1>1, <2>1
<1>4. ASSUME NEW w \in Clients, SetupInsert(w) \/ ConfirmCommit(w), factor[f] = NoFactor,
             NEW type \in {"totp", "backup_codes"}, factor'[f] = NewFactor(type, req[w].user)
      PROVE  /\ factor'[f] \in FactorRow /\ factor[f].type = "none" /\ factor'[f].type = type
             /\ factor'[f].user \in Users /\ Exists(factor'[f].user)
  <2>1. req[w].user \in Users /\ Exists(req[w].user)
    BY <1>4 DEF SetupInsert, ConfirmCommit, At, AccountsInv, Serving, Serves, Workers
  <2>2. factor[f].type = "none"
    BY <1>4 DEF NoFactor
  <2> QED
    BY <1>4, <2>1, <2>2, NewFactorIs
<1>5. CASE \/ \E w \in Clients : /\ SetupInsert(w) /\ factor[f] = NoFactor
                                 /\ factor'[f] = NewFactor("totp", req[w].user)
           \/ \E w \in Clients : /\ ConfirmCommit(w) /\ factor[f] = NoFactor
                                 /\ factor'[f] = NewFactor("backup_codes", req[w].user)
  BY <1>4, <1>5
<1> QED
  BY <1>1, <1>2, <1>3, <1>5, FactorRows

LEMMA StepPersists == AccountsInv /\ Next => Persist
  BY UserStays, SessionStays, FactorStays DEF Persist

---------------------------------------------------------------------------
(* What a step makes of the requests *)

Moved(row, phase) == [row EXCEPT !.phase = phase]
On(row, phase, f) == [row EXCEPT !.phase = phase, !.on = f]
Stamped(row, seen) == [row EXCEPT !.phase = "stamped", !.seen = seen]
Locking(row, ends) == [row EXCEPT !.phase = "changing", !.ends = ends]

\* The steps of slot w that end its request, or let it go on.
Ends(w) ==
  \/ w \in Clients /\ \/ LoginInsert(w) \/ SetCommit(w) \/ Logout(w) \/ LogoutAll(w)
                      \/ RedeemCommit(w) \/ SetupInsert(w) \/ ConfirmCommit(w)
                      \/ ClearEnrolled(w) \/ VerifyCommit(w)
                      \/ StillEnrolled(w) /\ ConfirmedTotp(req[w].user) # {}
  \/ w \in Operators /\ (DisableCommit(w) \/ IssueCommit(w))
  \/ Abort(w)

GoesOn(w) ==
  \/ w \in Operators /\ DisableCount(w) /\ req'[w] = Moved(req[w], "checked")
  \/ w \in Operators /\ IssueStamp(w) /\ req'[w] = Stamped(req[w], Superseded(req[w].user))
  \/ w \in Clients /\ SetupCheck(w) /\ req'[w] = Moved(req[w], "checked")
  \/ w \in Clients /\ StillEnrolled(w) /\ req'[w] = Moved(req[w], "last")
  \/ w \in Clients /\ Burn(w) /\ req'[w] = Moved(req[w], "verified")
  \/ \E f \in Factors : w \in Clients /\
       \/ RevokeFactor(w, f) /\ req'[w] = Moved(req[w], "revoked")
       \/ ConfirmRead(w, f) /\ req'[w] = On(req[w], "checked", f)
       \/ VerifyTotp(w, f) /\ req'[w] = On(req[w], "verified", f)
       \/ VerifyBackup(w, f) /\ req'[w] = On(req[w], "matched", f)

Locks(w) ==
  /\ w \in Clients
  /\ \/ /\ SetPassword(w)
        /\ req'[w] = Locking(req[w], {s \in Others(w) : session[s].state = "live"})
     \/ /\ Redeem(w)
        /\ req'[w] = Locking(req[w], {s \in SessionsOf(req[w].user) : session[s].state = "live"})

Starts(w) ==
  \/ \E u \in Users : \/ w \in Operators /\ (DisableRead(w, u) \/ IssueRead(w, u))
                      \/ w \in Clients /\ LoginRead(w, u)
  \/ \E r \in Resets : w \in Clients /\ RedeemRead(w, r)
  \/ \E s \in Sessions, op \in SessionOps : w \in Clients /\ Begin(w, s, op)

OthersKept(w) == \A v \in Workers : v # w => req'[v] = req[v]

LEMMA EndsIs == ASSUME TypeOK, NEW w \in Workers, Ends(w) PROVE req'[w] = NoReq /\ OthersKept(w)
<1>1. Done(w)
  BY DEF Ends, LoginInsert, SetCommit, Logout, LogoutAll, RedeemCommit, SetupInsert,
     ConfirmCommit, ClearEnrolled, VerifyCommit, StillEnrolled, DisableCommit, IssueCommit, Abort
<1> QED
  BY <1>1 DEF Done, OthersKept, TypeOK

LEMMA StartsKept == ASSUME TypeOK, NEW w \in Workers, Starts(w) PROVE OthersKept(w)
  BY DEF Starts, DisableRead, IssueRead, LoginRead, RedeemRead, Begin, OthersKept, TypeOK

\* A step of a slot is of one of the four kinds.
LEMMA ClientKinds ==
  ASSUME TypeOK, NEW w \in Clients, ClientStep(w)
  PROVE  Ends(w) \/ Starts(w) \/ (GoesOn(w) /\ OthersKept(w)) \/ (Locks(w) /\ OthersKept(w))
<1>1. req[w] \in Request /\ w \in DOMAIN req /\ w \in Workers
  BY DEF TypeOK, Workers
<1>2. \A phase, v : Advance(v, phase) => req' = [req EXCEPT ![v] = Moved(req[v], phase)]
  BY DEF Advance, Moved
<1>3. \A phase : req' = [req EXCEPT ![w] = Moved(req[w], phase)] =>
        req'[w] = Moved(req[w], phase) /\ OthersKept(w)
  BY <1>1 DEF TypeOK, OthersKept
<1>4. CASE SetupCheck(w)
  BY <1>2, <1>3, <1>4 DEF SetupCheck, GoesOn
<1>5. CASE StillEnrolled(w)
  BY <1>2, <1>3, <1>5 DEF StillEnrolled, GoesOn, Ends
<1>6. CASE Burn(w)
  BY <1>2, <1>3, <1>6 DEF Burn, GoesOn
<1>7. ASSUME NEW f \in Factors, RevokeFactor(w, f) PROVE GoesOn(w) /\ OthersKept(w)
  BY <1>2, <1>3, <1>7 DEF RevokeFactor, GoesOn
<1>8. ASSUME NEW f \in Factors, NEW phase,
             req' = [req EXCEPT ![w].phase = phase, ![w].on = f]
      PROVE  req'[w] = On(req[w], phase, f) /\ OthersKept(w)
  BY <1>1, <1>8 DEF On, OthersKept, TypeOK, Request
<1>9. ASSUME NEW f \in Factors, ConfirmRead(w, f) \/ VerifyTotp(w, f) \/ VerifyBackup(w, f)
      PROVE  GoesOn(w) /\ OthersKept(w)
  BY <1>8, <1>9 DEF ConfirmRead, VerifyTotp, VerifyBackup, GoesOn
<1>10. ASSUME NEW ends, req' = [req EXCEPT ![w].phase = "changing", ![w].ends = ends]
       PROVE  req'[w] = Locking(req[w], ends) /\ OthersKept(w)
  BY <1>1, <1>10 DEF Locking, OthersKept, TypeOK, Request
<1>11. CASE SetPassword(w)
  BY <1>10, <1>11 DEF SetPassword, Change, Locks
<1>12. CASE Redeem(w)
  BY <1>10, <1>12 DEF Redeem, Change, Locks
<1> QED
  BY <1>4, <1>5, <1>6, <1>7, <1>9, <1>11, <1>12 DEF ClientStep, Ends, Starts

LEMMA OperatorKinds ==
  ASSUME TypeOK, NEW w \in Operators, OperatorStep(w)
  PROVE  Ends(w) \/ Starts(w) \/ (GoesOn(w) /\ OthersKept(w))
<1>1. req[w] \in Request /\ w \in DOMAIN req /\ w \in Workers
  BY DEF TypeOK, Workers
<1>2. CASE DisableCount(w)
  <2>1. req'[w] = Moved(req[w], "checked") /\ OthersKept(w)
    BY <1>1, <1>2 DEF DisableCount, Advance, Moved, OthersKept, TypeOK
  <2> QED
    BY <1>2, <2>1 DEF GoesOn
<1>3. CASE IssueStamp(w)
  <2>1. req'[w] = Stamped(req[w], Superseded(req[w].user)) /\ OthersKept(w)
    BY <1>1, <1>3 DEF IssueStamp, Stamped, OthersKept, TypeOK, Request
  <2> QED
    BY <1>3, <2>1 DEF GoesOn
<1> QED
  BY <1>2, <1>3 DEF OperatorStep, Ends, Starts

\* A request goes on only by a step of its own slot.
LEMMA RequestKinds ==
  ASSUME TypeOK, Next, NEW w \in Workers
  PROVE  \/ req'[w] = req[w]
         \/ Ends(w) \/ Starts(w) \/ GoesOn(w) \/ Locks(w)
<1>1. ASSUME NEW v \in Workers, OthersKept(v)
      PROVE  req'[w] = req[w] \/ v = w
  BY <1>1 DEF OthersKept
<1>2. ASSUME NEW v \in Clients, ClientStep(v)
      PROVE  req'[w] = req[w] \/ Ends(w) \/ Starts(w) \/ GoesOn(w) \/ Locks(w)
  BY <1>1, <1>2, ClientKinds, EndsIs, StartsKept DEF Workers
<1>3. ASSUME NEW v \in Operators, OperatorStep(v)
      PROVE  req'[w] = req[w] \/ Ends(w) \/ Starts(w) \/ GoesOn(w) \/ Locks(w)
  BY <1>1, <1>3, OperatorKinds, EndsIs, StartsKept DEF Workers
<1>4. ASSUME NEW v \in Workers, Abort(v) PROVE req'[w] = req[w] \/ Ends(w)
  BY <1>1, <1>4, EndsIs DEF Ends
<1>5. ASSUME NEW v \in Operators, Administer(v) PROVE req'[w] = req[w]
  BY <1>5 DEF Administer, EnableUser, CreateUser, UpdateUser
<1> QED
  BY <1>2, <1>3, <1>4, <1>5 DEF Next

---------------------------------------------------------------------------
(* The requests keep their types and what they refer to *)

LEMMA RequestEdits ==
  ASSUME NEW row \in Request
  PROVE  /\ \A phase \in Phases : Moved(row, phase) \in Request
         /\ \A phase : LET r == Moved(row, phase) IN
              r.op = row.op /\ r.phase = phase /\ r.user = row.user
              /\ r.session = row.session /\ r.on = row.on /\ r.seen = row.seen
  BY DEF Request, Moved

LEMMA RequestTakes ==
  ASSUME NEW row \in Request, NEW f \in Factors
  PROVE  /\ \A phase \in Phases : On(row, phase, f) \in Request
         /\ \A phase : LET r == On(row, phase, f) IN
              r.op = row.op /\ r.phase = phase /\ r.user = row.user
              /\ r.session = row.session /\ r.on = f /\ r.seen = row.seen
  BY DEF Request, On

LEMMA RequestStamps ==
  ASSUME NEW row \in Request, NEW seen \in SUBSET Resets
  PROVE  /\ Stamped(row, seen) \in Request
         /\ LET r == Stamped(row, seen) IN
              r.op = row.op /\ r.phase = "stamped" /\ r.user = row.user
              /\ r.session = row.session /\ r.on = row.on /\ r.seen = seen
<1>1. "stamped" \in Phases
  BY DEF Phases
<1> QED
  BY <1>1 DEF Request, Stamped

LEMMA RequestLocks ==
  ASSUME NEW row \in Request, NEW ends \in SUBSET Sessions
  PROVE  /\ Locking(row, ends) \in Request
         /\ LET r == Locking(row, ends) IN
              r.op = row.op /\ r.phase = "changing" /\ r.user = row.user
              /\ r.session = row.session /\ r.on = row.on /\ r.ends = ends
<1>1. "changing" \in Phases
  BY DEF Phases
<1> QED
  BY <1>1 DEF Request, Locking

LEMMA NoReqIs ==
  /\ NoReq \in Request /\ NoReq.op = "none" /\ NoReq.phase = "none"
  /\ Serves(NoReq)
BY DEF NoReq, Request, Ops, Phases, Serves, SessionOps

LEMMA ServesStays ==
  ASSUME AccountsInv, Next, NEW r, Serves(r) PROVE Serves(r)'
<1>1. Persist
  BY StepPersists
<1>2. FactorsNamed
  BY DEF AccountsInv
<1>3. \A f, u, type : type # "none" /\ OfUser(f, u, type) => OfUser(f, u, type)'
  BY <1>1 DEF Persist, OfUser
<1>4. \A f, u : Verifies(f, u) => Verifies(f, u)'
  BY <1>1 DEF Persist, OfUser, Verifies
<1>5. \A u \in Users : (\E f \in FactorsOf(u) : factor[f].revoked) =>
                         (\E f \in FactorsOf(u) : factor[f].revoked)'
  BY <1>1, <1>2 DEF Persist, FactorsOf, FactorsNamed
<1> QED
  BY <1>1, <1>3, <1>4, <1>5 DEF Persist, Serves

LEMMA Substituted == ASSUME NEW w, NEW r, req'[w] = r, Serves(r)' PROVE Serving(w)'
  BY DEF Serving, Serves, Verifies, OfUser, FactorsOf

LEMMA StartsServe ==
  ASSUME AccountsInv, Next, NEW w \in Workers, Starts(w)
  PROVE  req'[w] \in Request /\ Serving(w)' /\ req[w] = NoReq
         /\ req'[w].phase \in {"owner", "checked", "begun"}
<1>1. TypeOK /\ SessionsNamed /\ ResetsNamed /\ w \in DOMAIN req /\ UsersNamed
  BY DEF AccountsInv, TypeOK
<1>2. ASSUME NEW row \in Request, Serves(row), req'[w] = row
      PROVE  Serving(w)'
  BY <1>2, ServesStays, Substituted
<1>3. ASSUME NEW u \in Users, DisableRead(w, u) \/ IssueRead(w, u) \/ LoginRead(w, u)
      PROVE  \E row \in Request : req'[w] = row /\ Serves(row) /\ req[w] = NoReq
                                  /\ row.phase \in {"owner", "checked"}
  <2>1. req[w] = NoReq /\ Exists(u)
    BY <1>1, <1>3 DEF DisableRead, IssueRead, LoginRead, UsersNamed
  <2>2. \E row \in Request : /\ req'[w] = row /\ row.op \in {"disable", "issue", "login"}
                             /\ row.phase \in {"owner", "checked"} /\ row.user = u
    <3>1. CASE DisableRead(w, u)
      <4>1. PICK phase \in {"owner", "checked"} :
              phase = IF user[u].role = "account_owner" THEN "owner" ELSE "checked"
        OBVIOUS
      <4>2. PICK row : row = [NoReq EXCEPT !.op = "disable", !.user = u, !.phase = phase]
        OBVIOUS
      <4>3. req'[w] = row
        BY <1>1, <3>1, <4>1, <4>2 DEF DisableRead
      <4>4. row \in Request /\ row.op = "disable" /\ row.phase = phase /\ row.user = u
        BY <4>2 DEF Request, NoReq, Ops, Phases
      <4> QED
        BY <4>3, <4>4
    <3>2. CASE IssueRead(w, u)
      <4>1. PICK row : row = [NoReq EXCEPT !.op = "issue", !.user = u, !.phase = "checked"]
        OBVIOUS
      <4>2. req'[w] = row
        BY <1>1, <3>2, <4>1 DEF IssueRead
      <4>3. row \in Request /\ row.op = "issue" /\ row.phase = "checked" /\ row.user = u
        BY <4>1 DEF Request, NoReq, Ops, Phases
      <4> QED
        BY <4>2, <4>3
    <3>3. CASE LoginRead(w, u)
      <4>1. PICK asked \in BOOLEAN : asked = user[u].required
        BY <1>1 DEF TypeOK, UserRow
      <4>2. PICK row : row = [NoReq EXCEPT !.op = "login", !.user = u, !.phase = "checked",
                                           !.asked = asked]
        OBVIOUS
      <4>3. req'[w] = row
        BY <1>1, <3>3, <4>1, <4>2 DEF LoginRead
      <4>4. row \in Request /\ row.op = "login" /\ row.phase = "checked" /\ row.user = u
        BY <4>2 DEF Request, NoReq, Ops, Phases
      <4> QED
        BY <4>3, <4>4
    <3> QED
      BY <1>3, <3>1, <3>2, <3>3
  <2>3. ASSUME NEW row \in Request, row.op \in {"disable", "issue", "login"},
               row.phase \in {"owner", "checked"}, row.user = u
        PROVE  Serves(row)
    BY <2>1, <2>3 DEF Serves, SessionOps
  <2> QED
    BY <2>1, <2>2, <2>3
<1>4. ASSUME NEW r \in Resets, RedeemRead(w, r)
      PROVE  \E row \in Request : req'[w] = row /\ Serves(row) /\ req[w] = NoReq
                                  /\ row.phase \in {"owner", "checked"}
  <2>1. PICK u \in Users : u = reset[r].user /\ Exists(u)
    BY <1>1, <1>4 DEF RedeemRead, ResetsNamed
  <2>2. PICK row : row = [NoReq EXCEPT !.op = "redeem", !.phase = "checked", !.on = r, !.user = u]
    OBVIOUS
  <2>3. req'[w] = row /\ req[w] = NoReq
    BY <1>1, <1>4, <2>1, <2>2 DEF RedeemRead
  <2>4. row \in Request /\ row.op = "redeem" /\ row.phase = "checked" /\ row.user = u
        /\ row.on = r
    BY <2>2 DEF Request, NoReq, Ops, Phases
  <2>5. Serves(row)
    BY <2>1, <2>4 DEF Serves, SessionOps
  <2> QED
    BY <2>3, <2>4, <2>5
<1>5. ASSUME NEW s \in Sessions, NEW op \in SessionOps, Begin(w, s, op)
      PROVE  \E row \in Request : req'[w] = row /\ Serves(row) /\ req[w] = NoReq
                                  /\ row.phase = "begun"
  <2>1. PICK u \in Users : u = session[s].user /\ Exists(u) /\ session[s].state # "none"
    BY <1>1, <1>5 DEF Begin, SessionsNamed
  <2>2. PICK row : row = [NoReq EXCEPT !.op = op, !.phase = "begun", !.session = s, !.user = u]
    OBVIOUS
  <2>3. req'[w] = row /\ req[w] = NoReq
    BY <1>1, <1>5, <2>1, <2>2 DEF Begin
  <2>4. row \in Request /\ row.op = op /\ row.phase = "begun" /\ row.user = u
        /\ row.session = s
    BY <2>2 DEF Request, NoReq, Ops, Phases
  <2>5. Serves(row)
    BY <2>1, <2>4 DEF Serves, SessionOps
  <2> QED
    BY <2>3, <2>4, <2>5
<1>6. \E row \in Request : req'[w] = row /\ Serves(row) /\ req[w] = NoReq
                           /\ row.phase \in {"owner", "checked", "begun"}
  BY <1>3, <1>4, <1>5 DEF Starts
<1> QED
  BY <1>2, <1>6

LEMMA GoesOnServes ==
  ASSUME AccountsInv, Next, NEW w \in Workers, GoesOn(w)
  PROVE  req'[w] \in Request /\ Serving(w)' /\ req'[w].phase # "changing"
         /\ req'[w].op = req[w].op /\ req'[w].user = req[w].user
<1>1. PICK old \in Request : old = req[w]
  BY DEF AccountsInv, TypeOK
<1>2. Serves(old) /\ Serves(old)'
  <2>1. Serves(old)
    BY <1>1 DEF AccountsInv, Serving
  <2> QED
    BY <2>1, ServesStays
<1>3. ASSUME NEW row \in Request, req'[w] = row, Serves(row)', row.op = old.op,
             row.user = old.user, row.phase # "changing"
      PROVE  req'[w] \in Request /\ Serving(w)' /\ req'[w].phase # "changing"
             /\ req'[w].op = req[w].op /\ req'[w].user = req[w].user
  BY <1>1, <1>3, Substituted
<1>4. ASSUME NEW phase \in {"checked", "last"}, req'[w] = Moved(req[w], phase),
             old.op \in {"disable", "setup"} \/ (old.op = "revoke_factor" /\ old.phase = "revoked")
      PROVE  \E row \in Request : req'[w] = row /\ Serves(row)' /\ row.op = old.op
                                  /\ row.user = old.user /\ row.phase # "changing"
  <2>1. PICK row \in Request : row = Moved(old, phase) /\ row.op = old.op
                              /\ row.phase = phase /\ row.user = old.user
                              /\ row.session = old.session /\ row.on = old.on
    <3>1. phase \in Phases
      BY DEF Phases
    <3> QED
      BY <3>1, RequestEdits
  <2>2. Serves(row)'
    BY <1>2, <1>4, <2>1 DEF Serves, SessionOps
  <2> QED
    BY <1>1, <1>4, <2>1, <2>2
<1>5. CASE \/ DisableCount(w) /\ req'[w] = Moved(req[w], "checked")
           \/ SetupCheck(w) /\ req'[w] = Moved(req[w], "checked")
           \/ StillEnrolled(w) /\ req'[w] = Moved(req[w], "last")
  BY <1>1, <1>3, <1>4, <1>5 DEF DisableCount, SetupCheck, StillEnrolled, At
<1>6. CASE IssueStamp(w) /\ req'[w] = Stamped(req[w], Superseded(req[w].user))
  <2>1. PICK seen \in SUBSET Resets : seen = Superseded(req[w].user)
    BY DEF Superseded, Pending
  <2>2. PICK row \in Request : row = Stamped(old, seen) /\ row.op = old.op
                              /\ row.phase = "stamped" /\ row.user = old.user
                              /\ row.session = old.session /\ row.on = old.on
    BY RequestStamps
  <2>3. Serves(row)'
    BY <1>1, <1>2, <1>6, <2>2 DEF Serves, SessionOps, IssueStamp, At
  <2> QED
    BY <1>1, <1>3, <1>6, <2>1, <2>2, <2>3
<1>7. CASE w \in Clients /\ Burn(w) /\ req'[w] = Moved(req[w], "verified")
  <2>1. old.op = "verify" /\ old.phase = "matched" /\ req[w].on = old.on
    BY <1>1, <1>7 DEF Burn, At
  <2>2. OfUser(old.on, old.user, "backup_codes")
    BY <1>2, <2>1 DEF Serves
  <2>3. factor' = [factor EXCEPT ![old.on].revoked = TRUE] /\ old.on \in Factors
        /\ factor[old.on] \in FactorRow /\ factor \in [Factors -> FactorRow]
    BY <1>7, <2>1, <2>2 DEF Burn, OfUser, AccountsInv, TypeOK
  <2>4. Verifies(old.on, old.user)'
    BY <2>2, <2>3 DEF Verifies, OfUser, FactorRow
  <2>5. PICK row \in Request : row = Moved(old, "verified") /\ row.op = old.op
                              /\ row.phase = "verified" /\ row.user = old.user
                              /\ row.session = old.session /\ row.on = old.on
    BY RequestEdits DEF Phases
  <2>6. Serves(row)'
    BY <1>2, <2>1, <2>4, <2>5 DEF Serves, SessionOps
  <2> QED
    BY <1>1, <1>3, <1>7, <2>5, <2>6
<1>8. ASSUME NEW f \in Factors, w \in Clients, RevokeFactor(w, f),
             req'[w] = Moved(req[w], "revoked")
      PROVE  \E row \in Request : req'[w] = row /\ Serves(row)' /\ row.op = old.op
                                  /\ row.user = old.user /\ row.phase # "changing"
  <2>1. old.op = "revoke_factor" /\ factor[f].user = old.user
    BY <1>1, <1>8 DEF RevokeFactor, At, FactorsOf
  <2>2. factor' = [factor EXCEPT ![f].revoked = TRUE] /\ factor[f] \in FactorRow
        /\ factor \in [Factors -> FactorRow]
    BY <1>8 DEF RevokeFactor, AccountsInv, TypeOK
  <2>3. (\E g \in FactorsOf(old.user) : factor[g].revoked)'
    BY <2>1, <2>2 DEF FactorsOf, FactorRow
  <2>4. PICK row \in Request : row = Moved(old, "revoked") /\ row.op = old.op
                              /\ row.phase = "revoked" /\ row.user = old.user
                              /\ row.session = old.session /\ row.on = old.on
    BY RequestEdits DEF Phases
  <2>5. Serves(row)'
    BY <1>2, <2>1, <2>3, <2>4 DEF Serves, SessionOps
  <2> QED
    BY <1>1, <1>8, <2>4, <2>5
<1>9. ASSUME NEW f \in Factors, w \in Clients, NEW phase \in {"checked", "verified", "matched"},
             req'[w] = On(req[w], phase, f),
             \/ ConfirmRead(w, f) /\ phase = "checked"
             \/ VerifyTotp(w, f) /\ phase = "verified"
             \/ VerifyBackup(w, f) /\ phase = "matched"
      PROVE  \E row \in Request : req'[w] = row /\ Serves(row)' /\ row.op = old.op
                                  /\ row.user = old.user /\ row.phase # "changing"
  <2>1. PICK row \in Request : row = On(old, phase, f) /\ row.op = old.op
                              /\ row.phase = phase /\ row.user = old.user
                              /\ row.session = old.session /\ row.on = f
    <3>1. phase \in Phases
      BY DEF Phases
    <3> QED
      BY <3>1, RequestTakes
  <2>2. Serves(row)
    <3>1. CASE ConfirmRead(w, f) /\ phase = "checked"
      BY <1>1, <1>2, <2>1, <3>1 DEF ConfirmRead, At, ActiveTotp, FactorsOf, OfUser, Serves,
         SessionOps
    <3>2. CASE VerifyTotp(w, f) /\ phase = "verified"
      BY <1>1, <1>2, <2>1, <3>2 DEF VerifyTotp, At, ConfirmedTotp, ActiveTotp, FactorsOf, OfUser,
         Verifies, Serves, SessionOps
    <3>3. CASE VerifyBackup(w, f) /\ phase = "matched"
      BY <1>1, <1>2, <2>1, <3>3 DEF VerifyBackup, At, FactorsOf, OfUser, Serves, SessionOps
    <3> QED
      BY <1>9, <3>1, <3>2, <3>3
  <2>3. Serves(row)'
    BY <2>2, ServesStays
  <2> QED
    BY <1>1, <1>9, <2>1, <2>3
<1>10. CASE \E f \in Factors : w \in Clients /\ RevokeFactor(w, f)
                               /\ req'[w] = Moved(req[w], "revoked")
  BY <1>3, <1>8, <1>10
<1>11. CASE \E f \in Factors : w \in Clients /\
             \/ ConfirmRead(w, f) /\ req'[w] = On(req[w], "checked", f)
             \/ VerifyTotp(w, f) /\ req'[w] = On(req[w], "verified", f)
             \/ VerifyBackup(w, f) /\ req'[w] = On(req[w], "matched", f)
  BY <1>3, <1>9, <1>11
<1> QED
  BY <1>5, <1>6, <1>7, <1>10, <1>11 DEF GoesOn

LEMMA LocksServes ==
  ASSUME AccountsInv, Next, NEW w \in Workers, Locks(w)
  PROVE  /\ req'[w] \in Request /\ Serving(w)' /\ req'[w].phase = "changing"
         /\ req'[w].op = req[w].op /\ req'[w].user = req[w].user
         /\ req'[w].session = req[w].session
         /\ req'[w].ends = {s \in Sessions :
              /\ session[s].state = "live" /\ session[s].user = req[w].user
              /\ req[w].op = "set_password" => s # req[w].session}
<1>1. PICK old \in Request : old = req[w]
  BY DEF AccountsInv, TypeOK
<1>2. Serves(old) /\ Serves(old)'
  <2>1. Serves(old)
    BY <1>1 DEF AccountsInv, Serving
  <2> QED
    BY <2>1, ServesStays
<1>3. PICK ends \in SUBSET Sessions :
        /\ req'[w] = Locking(old, ends) /\ old.op \in {"set_password", "redeem"}
        /\ ends = {s \in Sessions :
             /\ session[s].state = "live" /\ session[s].user = req[w].user
             /\ req[w].op = "set_password" => s # req[w].session}
  <2>1. CASE /\ SetPassword(w)
             /\ req'[w] = Locking(req[w], {s \in Others(w) : session[s].state = "live"})
    BY <1>1, <2>1 DEF SetPassword, At, Others, SessionsOf
  <2>2. CASE /\ Redeem(w)
             /\ req'[w] = Locking(req[w], {s \in SessionsOf(req[w].user) : session[s].state = "live"})
    BY <1>1, <2>2 DEF Redeem, At, SessionsOf
  <2> QED
    BY <2>1, <2>2 DEF Locks
<1>4. PICK row \in Request : row = Locking(old, ends) /\ row.op = old.op
                            /\ row.phase = "changing" /\ row.user = old.user
                            /\ row.session = old.session /\ row.on = old.on
                            /\ row.ends = ends
  BY RequestLocks
<1>5. Serves(row)'
  BY <1>2, <1>3, <1>4 DEF Serves, SessionOps
<1>6. Serving(w)'
  BY <1>3, <1>4, <1>5, Substituted
<1> QED
  BY <1>1, <1>3, <1>4, <1>6

LEMMA EachServes ==
  ASSUME AccountsInv, Next, NEW w \in Workers
  PROVE  /\ req'[w] \in Request /\ Serving(w)'
         /\ req'[w].phase = "changing" => req'[w] = req[w] \/ Locks(w)
<1>1. TypeOK
  BY DEF AccountsInv
<1>2. CASE req'[w] = req[w]
  <2>1. PICK old \in Request : old = req[w] /\ Serves(old)
    BY <1>1 DEF AccountsInv, Serving, TypeOK
  <2>2. Serves(old)'
    BY <2>1, ServesStays
  <2> QED
    BY <1>2, <2>1, <2>2, Substituted
<1>3. CASE Ends(w)
  <2>1. PICK old \in Request : old = NoReq /\ Serves(old) /\ old.phase = "none"
    BY NoReqIs
  <2>2. Serves(old)'
    BY <2>1, ServesStays
  <2>3. req'[w] = old
    BY <1>1, <1>3, <2>1, EndsIs
  <2> QED
    BY <2>1, <2>2, <2>3, Substituted
<1> QED
  BY <1>1, <1>2, <1>3, RequestKinds, StartsServe, GoesOnServes, LocksServes

---------------------------------------------------------------------------
(* Each table stays a function on its ids *)

LEMMA UserShape == ASSUME TypeOK, Next PROVE user' = [q \in Users |-> user'[q]]
<1>1. user = [q \in Users |-> user[q]]
  BY DEF TypeOK
<1>2. CASE user' = user
  BY <1>1, <1>2
<1>3. CASE UserStep
  BY <1>1, <1>3 DEF UserStep, Administer, SetCommit, RedeemCommit, ConfirmCommit, ClearEnrolled,
     DisableCommit, EnableUser, CreateUser, UpdateUser, SetHash, Enrol
<1> QED
  BY <1>2, <1>3, ChangesUser

LEMMA SessionShape == ASSUME TypeOK, Next PROVE session' = [s \in Sessions |-> session'[s]]
<1>1. session = [s \in Sessions |-> session[s]]
  BY DEF TypeOK
<1>2. CASE session' = session
  BY <1>1, <1>2
<1>3. CASE SessionStep
  BY <1>1, <1>3 DEF SessionStep, LoginInsert, SetCommit, RedeemCommit, Logout, LogoutAll,
     VerifyCommit, Revoke
<1> QED
  BY <1>2, <1>3, ChangesSession

LEMMA ResetShape == ASSUME TypeOK, Next PROVE reset' = [r \in Resets |-> reset'[r]]
<1>1. reset = [r \in Resets |-> reset[r]]
  BY DEF TypeOK
<1>2. CASE reset' = reset
  BY <1>1, <1>2
<1>3. CASE ResetStep
  BY <1>1, <1>3 DEF ResetStep, RedeemCommit, IssueCommit, Redeemed
<1> QED
  BY <1>2, <1>3, ChangesReset

LEMMA FactorShape == ASSUME TypeOK, Next PROVE factor' = [f \in Factors |-> factor'[f]]
<1>1. factor = [f \in Factors |-> factor[f]]
  BY DEF TypeOK
<1>2. CASE factor' = factor
  BY <1>1, <1>2
<1>3. CASE FactorStep
  BY <1>1, <1>3 DEF FactorStep, SetupInsert, ConfirmCommit, Burn, RevokeFactor
<1> QED
  BY <1>2, <1>3, ChangesFactor

LEMMA ReqShape == ASSUME TypeOK, Next PROVE req' = [w \in Workers |-> req'[w]]
<1>1. req = [w \in Workers |-> req[w]]
  BY DEF TypeOK
<1>2. ASSUME NEW w \in Clients, ClientStep(w) PROVE req' = [v \in Workers |-> req'[v]]
  BY <1>1, <1>2 DEF ClientStep, LoginRead, LoginInsert, Begin, SetPassword, SetCommit,
     Logout, LogoutAll, RedeemRead, Redeem, RedeemCommit, Change, SetupCheck, SetupInsert,
     ConfirmRead, ConfirmCommit, RevokeFactor, StillEnrolled, ClearEnrolled, VerifyTotp,
     VerifyBackup, Burn, VerifyCommit, Done, Advance
<1>3. ASSUME NEW w \in Operators, OperatorStep(w) \/ Administer(w)
      PROVE  req' = [v \in Workers |-> req'[v]]
  BY <1>1, <1>3 DEF OperatorStep, Administer, DisableRead, IssueRead, DisableCount, DisableCommit,
     IssueStamp, IssueCommit, EnableUser, CreateUser, UpdateUser, Done, Advance
<1>4. ASSUME NEW w \in Workers, Abort(w) PROVE req' = [v \in Workers |-> req'[v]]
  BY <1>1, <1>4 DEF Abort, Done
<1> QED
  BY <1>2, <1>3, <1>4 DEF Next

---------------------------------------------------------------------------
(* The accounts invariant *)

LEMMA LockTaken ==
  ASSUME TypeOK, NEW w \in Workers, Locks(w)
  PROVE  /\ OthersKept(w) /\ w \in Clients /\ Changing(req[w].user) = {}
         /\ user[req[w].user].password < MaxPasswords /\ user' = user
<1>1. CASE SetPassword(w)
  <2>1. user[req[w].user].password < MaxPasswords
    BY <1>1 DEF SetPassword
  <2> QED
    BY <1>1, <2>1 DEF SetPassword, Change, Locks, OthersKept, TypeOK
<1>2. CASE Redeem(w)
  BY <1>2 DEF Redeem, Change, Locks, OthersKept, TypeOK
<1> QED
  BY <1>1, <1>2 DEF Locks

LEMMA HashChangesByCommit ==
  ASSUME AccountsInv, Next, NEW q \in Users, Exists(q)
  PROVE  \/ user'[q].password = user[q].password /\ user'[q].setBy = user[q].setBy
         \/ \E w \in Clients : Commits(w) /\ q = req[w].user /\
              \E by \in Sessions \cup {None} : user'[q] = Hashed(user[q], by)
<1>1. user[q] \in UserRow /\ TypeOK
  BY DEF AccountsInv, TypeOK
<1>2. ASSUME NEW role \in Roles, NEW b \in BOOLEAN, user'[q] = Ranked(user[q], role, b)
      PROVE  user'[q].password = user[q].password /\ user'[q].setBy = user[q].setBy
  BY <1>1, <1>2 DEF UserRow, Ranked
<1>3. ASSUME NEW b \in BOOLEAN, user'[q] = Switched(user[q], b) \/ user'[q] = Flagged(user[q], b)
      PROVE  user'[q].password = user[q].password /\ user'[q].setBy = user[q].setBy
  BY <1>1, <1>3 DEF UserRow, Switched, Flagged
<1> QED
  BY <1>1, <1>2, <1>3, UserRows

LEMMA CommitEnds == ASSUME TypeOK, NEW w, Commits(w) PROVE w \in Workers /\ req'[w] = NoReq
  BY EndsIs DEF Commits, Ends, Workers

LEMMA LockedStays == ASSUME AccountsInv, Next PROVE Locked'
<1>1. TypeOK /\ Locked
  BY DEF AccountsInv
<1>2. ASSUME NEW w \in Clients, req'[w].phase = "changing" 
      PROVE  user'[req'[w].user].password < MaxPasswords
  <2>1. w \in Workers
    BY DEF Workers
  <2>2. CASE req'[w] = req[w]
    <3>1. PICK q \in Users : q = req[w].user /\ Exists(q) /\ req'[w].user = q
      BY <1>2, <2>1, <2>2 DEF AccountsInv, Serving, Serves
    <3>2. ASSUME NEW v \in Clients, Commits(v), q = req[v].user PROVE FALSE
      <4>1. v = w
        BY <1>1, <1>2, <2>2, <3>1, <3>2 DEF Locked, Commits
      <4> QED
        BY <1>1, <1>2, <3>2, <4>1, CommitEnds, NoReqIs
    <3>3. user'[q].password = user[q].password
      BY <3>1, <3>2, HashChangesByCommit
    <3> QED
      BY <1>1, <1>2, <2>2, <3>1, <3>3 DEF Locked
  <2>3. CASE Locks(w)
    BY <1>1, <2>1, <2>3, LockTaken, LocksServes
  <2> QED
    BY <1>2, <2>1, <2>2, <2>3, EachServes
<1>3. ASSUME NEW v \in Clients, NEW w \in Clients, v # w, Locks(w),
             req'[v].phase = "changing", req'[v].user = req'[w].user
      PROVE  FALSE
  <2>1. w \in Workers /\ v \in Workers
    BY DEF Workers
  <2>2. OthersKept(w) /\ Changing(req[w].user) = {} /\ req'[w].user = req[w].user
    BY <1>1, <1>3, <2>1, LockTaken, LocksServes
  <2>3. req'[v] = req[v]
    BY <1>3, <2>1, <2>2 DEF OthersKept
  <2> QED
    BY <1>3, <2>2, <2>3 DEF Changing
<1>4. ASSUME NEW v \in Clients, NEW w \in Clients, req'[v].phase = "changing",
             req'[w].phase = "changing", req'[v].user = req'[w].user
      PROVE  v = w
  <2>1. (req'[v] = req[v] \/ Locks(v)) /\ (req'[w] = req[w] \/ Locks(w))
    BY <1>4, EachServes DEF Workers
  <2> QED
    BY <1>1, <1>3, <1>4, <2>1 DEF Locked
<1> QED
  BY <1>2, <1>4 DEF Locked

LEMMA ResetsStayNamed == ASSUME AccountsInv, Next PROVE ResetsNamed'
<1>1. ASSUME NEW r \in Resets, reset'[r].state = "pending"
      PROVE  reset'[r].user \in Users /\ Exists(reset'[r].user)
  <2>1. CASE reset'[r] = reset[r]
    BY <1>1, <2>1 DEF AccountsInv, ResetsNamed
  <2>2. ASSUME NEW w \in Operators, IssueCommit(w), reset'[r].user = req[w].user
        PROVE  reset'[r].user \in Users /\ Exists(reset'[r].user)
    BY <2>2 DEF IssueCommit, At, AccountsInv, Serving, Serves, Workers
  <2>3. reset'[r] # NoReset
    BY <1>1 DEF NoReset
  <2> QED
    BY <1>1, <2>1, <2>2, <2>3, ResetStays
<1>2. \A u \in Users : Exists(u) => Exists(u)'
  BY StepPersists DEF Persist
<1> QED
  BY <1>1, <1>2 DEF ResetsNamed, Exists

LEMMA AccountsInductive == AccountsInv /\ [Next]_vars => AccountsInv'
<1>1. ASSUME AccountsInv, Next PROVE AccountsInv'
  <2>1. TypeOK
    BY <1>1 DEF AccountsInv
  <2>2. UsersNamed'
    BY <1>1, UserStays DEF UsersNamed
  <2>3. \A u \in Users : Exists(u) => Exists(u)'
    BY <1>1, UserStays
  <2>4. SessionsNamed'
    BY <1>1, <2>3, SessionStays DEF SessionsNamed, Exists
  <2>5. FactorsNamed'
    BY <1>1, <2>3, FactorStays DEF FactorsNamed, Exists
  <2>6. ResetsNamed' /\ Locked' /\ \A w \in Workers : Serving(w)'
    BY <1>1, ResetsStayNamed, LockedStays, EachServes
  <2>7. user' \in [Users -> UserRow]
    BY <1>1, <2>1, UserStays, UserShape
  <2>8. session' \in [Sessions -> SessionRow]
    BY <1>1, <2>1, SessionStays, SessionShape
  <2>9. reset' \in [Resets -> ResetRow]
    BY <1>1, <2>1, ResetStays, ResetShape
  <2>10. factor' \in [Factors -> FactorRow]
    BY <1>1, <2>1, FactorStays, FactorShape
  <2>11. req' \in [Workers -> Request]
    BY <1>1, <2>1, EachServes, ReqShape
  <2> QED
    BY <2>2, <2>4, <2>5, <2>6, <2>7, <2>8, <2>9, <2>10, <2>11 DEF AccountsInv, TypeOK
<1>2. ASSUME AccountsInv, UNCHANGED vars PROVE AccountsInv'
  BY <1>2 DEF vars, AccountsInv, TypeOK, UsersNamed, SessionsNamed, ResetsNamed, FactorsNamed,
     Locked, Serving, Serves, Exists, OfUser, Verifies, FactorsOf
<1> QED
  BY <1>1, <1>2

LEMMA AccountsInit == Init => AccountsInv
<1> SUFFICES ASSUME Init PROVE AccountsInv
  OBVIOUS
<1>1. 0 \in 0 .. MaxPasswords
  OBVIOUS
<1>2. NoUser \in UserRow /\ NoSession \in SessionRow
  BY <1>1 DEF NoUser, UserRow, NoSession, SessionRow
<1>3. NoReset \in ResetRow /\ NoFactor \in FactorRow
  BY DEF NoReset, ResetRow, NoFactor, FactorRow
<1>4. /\ user \in [Users -> UserRow] /\ session \in [Sessions -> SessionRow]
      /\ reset \in [Resets -> ResetRow] /\ factor \in [Factors -> FactorRow]
  BY <1>2, <1>3 DEF Init
<1>5. req \in [Workers -> Request] /\ \A w \in Workers : Serving(w)
  BY NoReqIs DEF Init, Serving
<1>6. UsersNamed /\ SessionsNamed /\ ResetsNamed /\ FactorsNamed
  BY DEF Init, NoUser, NoSession, NoReset, NoFactor, UsersNamed, SessionsNamed, ResetsNamed,
     FactorsNamed
<1>7. Locked
  BY NoReqIs DEF Init, Locked, Workers
<1> QED
  BY <1>4, <1>5, <1>6, <1>7 DEF AccountsInv, TypeOK

LEMMA AccountsHold == Spec => []AccountsInv
  BY AccountsInit, AccountsInductive, PTL DEF Spec

\* Every row and every request keeps its type.
THEOREM Typed == Spec => []TypeOK
<1>1. AccountsInv => TypeOK
  BY DEF AccountsInv
<1> QED
  BY <1>1, AccountsHold, PTL

---------------------------------------------------------------------------
(* Resets *)

LEMMA RedeemsOn ==
  ASSUME AccountsInv, Next, NEW w \in Workers, req'[w].op = "redeem"
  PROVE  \/ req[w].op = "redeem" /\ req'[w].on = req[w].on
         \/ reset[req'[w].on].state = "pending"
<1>1. TypeOK /\ w \in DOMAIN req /\ req[w] \in Request
  BY DEF AccountsInv, TypeOK
<1>2. CASE Ends(w)
  BY <1>1, <1>2, EndsIs, NoReqIs
<1>3. CASE Locks(w)
  <2>1. PICK ends \in SUBSET Sessions : req'[w] = Locking(req[w], ends)
    <3>1. {s \in Others(w) : session[s].state = "live"} \in SUBSET Sessions
          /\ {s \in SessionsOf(req[w].user) : session[s].state = "live"} \in SUBSET Sessions
      BY DEF Others, SessionsOf
    <3> QED
      BY <1>3, <3>1 DEF Locks
  <2> QED
    BY <1>1, <2>1, RequestLocks
<1>4. CASE GoesOn(w)
  <2>1. req[w].op # "redeem"
    BY <1>4 DEF GoesOn, DisableCount, IssueStamp, SetupCheck, StillEnrolled, Burn, RevokeFactor,
       ConfirmRead, VerifyTotp, VerifyBackup, At
  <2> QED
    BY <1>4, <2>1, GoesOnServes
<1>5. CASE Starts(w)
  <2>1. ASSUME NEW u \in Users, DisableRead(w, u) PROVE req'[w].op # "redeem"
    <3>1. PICK phase : phase = IF user[u].role = "account_owner" THEN "owner" ELSE "checked"
      OBVIOUS
    <3>2. req'[w] = [NoReq EXCEPT !.op = "disable", !.user = u, !.phase = phase]
      BY <1>1, <2>1, <3>1 DEF DisableRead
    <3> QED
      BY <3>2 DEF NoReq
  <2>2. ASSUME NEW u \in Users, IssueRead(w, u) \/ LoginRead(w, u) PROVE req'[w].op # "redeem"
    <3>1. CASE IssueRead(w, u)
      BY <1>1, <3>1 DEF IssueRead, NoReq
    <3>2. CASE LoginRead(w, u)
      BY <1>1, <3>2 DEF LoginRead, NoReq
    <3> QED
      BY <2>2, <3>1, <3>2
  <2>3. ASSUME NEW s \in Sessions, NEW op \in SessionOps, Begin(w, s, op)
        PROVE  req'[w].op # "redeem"
    BY <1>1, <2>3 DEF Begin, NoReq, SessionOps
  <2>4. ASSUME NEW r \in Resets, RedeemRead(w, r)
        PROVE  reset[req'[w].on].state = "pending"
    BY <1>1, <2>4 DEF RedeemRead, NoReq
  <2> QED
    BY <1>5, <2>1, <2>2, <2>3, <2>4 DEF Starts
<1> QED
  BY <1>1, <1>2, <1>3, <1>4, <1>5, RequestKinds

LEMMA SpentStays == ASSUME AccountsInv, ResetsAreSpent, Next PROVE ResetsAreSpent'
<1>1. TypeOK
  BY DEF AccountsInv
<1>2. ASSUME NEW r \in Resets
      PROVE  \/ reset'[r].redeemers = {}
             \/ /\ reset[r].redeemers # {} /\ reset'[r].redeemers = reset[r].redeemers
                /\ reset'[r].state = "used"
             \/ \E w \in Clients :
                  /\ RedeemCommit(w) /\ reset'[r].state = "used"
                  /\ reset'[r].redeemers = reset[r].redeemers \cup {w}
  <2>1. reset[r] \in ResetRow
    BY <1>1 DEF TypeOK
  <2>2. CASE reset'[r] = reset[r]
    BY <2>2 DEF ResetsAreSpent
  <2>3. CASE reset'[r] = Used(reset[r])
    <3>1. reset'[r].state = "used" /\ reset'[r].redeemers = reset[r].redeemers
      BY <2>1, <2>3, ResetEdits
    <3> QED
      BY <3>1
  <2>4. ASSUME NEW w \in Clients, RedeemCommit(w), reset'[r] = RedeemedBy(reset[r], w)
        PROVE  reset'[r].state = "used" /\ reset'[r].redeemers = reset[r].redeemers \cup {w}
    BY <2>1, <2>4, ResetEdits
  <2>5. CASE \E w \in Clients : /\ RedeemCommit(w) /\ r = req[w].on
                                /\ reset'[r] = RedeemedBy(reset[r], w)
    BY <2>4, <2>5
  <2>6. CASE \E w \in Operators : /\ IssueCommit(w) /\ reset[r] = NoReset
                                  /\ reset'[r] = [state |-> "pending", user |-> req[w].user,
                                                  issuer |-> w, redeemers |-> {}]
    BY <2>6
  <2> QED
    BY <1>1, <2>2, <2>3, <2>5, <2>6, ResetRows
<1>3. ASSUME NEW r \in Resets, NEW w \in Clients, req'[w].op = "redeem", req'[w].on = r
      PROVE  w \notin reset[r].redeemers
  BY <1>3, RedeemsOn DEF Workers, ResetsAreSpent
<1>4. ASSUME NEW w \in Clients, RedeemCommit(w) PROVE req'[w].op # "redeem"
  BY <1>1, <1>4, EndsIs, NoReqIs DEF Ends, Workers
<1> QED
  BY <1>2, <1>3, <1>4 DEF ResetsAreSpent

\* A reset that was redeemed is used for good, and no slot redeems it twice.
THEOREM RedeemedIsSpent == Spec => []ResetsAreSpent
<1>1. Init => ResetsAreSpent
  BY DEF Init, NoReset, ResetsAreSpent
<1>2. AccountsInv /\ ResetsAreSpent /\ [Next]_vars => ResetsAreSpent'
  <2>1. ResetsAreSpent /\ UNCHANGED vars => ResetsAreSpent'
    BY DEF vars, ResetsAreSpent
  <2> QED
    BY <2>1, SpentStays
<1> QED
  BY <1>1, <1>2, AccountsHold, PTL DEF Spec

\* The pending resets a slot issued for a user are among those its stamp saw.
StampSees ==
  \A w \in Operators : req[w].op = "issue" /\ req[w].phase = "stamped" =>
    \A r \in Resets : /\ reset[r].state = "pending" /\ reset[r].user = req[w].user
                     /\ reset[r].issuer = w
                     => r \in req[w].seen

LEMMA StampsSet ==
  ASSUME AccountsInv, Next, NEW w \in Operators,
         req'[w].op = "issue", req'[w].phase = "stamped"
  PROVE  req'[w] = req[w] \/ (IssueStamp(w) /\ req'[w].seen = Pending(req[w].user)
                             /\ req'[w].user = req[w].user)
<1>1. TypeOK /\ w \in Workers /\ req[w] \in Request /\ w \notin Clients
  BY DEF AccountsInv, TypeOK, Workers
<1>2. ~Ends(w)
  BY <1>1, EndsIs, NoReqIs
<1>3. ~Starts(w) /\ ~Locks(w)
  BY <1>1, StartsServe, LocksServes
<1>4. CASE GoesOn(w)
  <2>1. CASE DisableCount(w)
    BY <1>1, <1>4, <2>1, GoesOnServes DEF DisableCount, At
  <2>2. CASE IssueStamp(w) /\ req'[w] = Stamped(req[w], Superseded(req[w].user))
    <3>1. Superseded(req[w].user) \in SUBSET Resets
      BY DEF Superseded, Pending
    <3> QED
      BY <1>1, <2>2, <3>1, RequestStamps DEF Superseded
  <2> QED
    BY <1>1, <1>4, <2>1, <2>2 DEF GoesOn
<1> QED
  BY <1>1, <1>2, <1>3, <1>4, RequestKinds

\* What stays pending, and the one reset a step may add.
LEMMA PendingAdds ==
  ASSUME AccountsInv, StampSees, Next
  PROVE  \/ \A r \in Resets : reset'[r].state = "pending" => reset'[r] = reset[r]
         \/ \E w \in Operators, new \in Resets :
              /\ reset'[new].issuer = w /\ req'[w] = NoReq
              /\ \A r \in Resets : r # new /\ reset'[r].state = "pending" =>
                   /\ reset'[r] = reset[r]
                   /\ ~(reset[r].user = reset'[new].user /\ reset[r].issuer = w)
<1>1. TypeOK /\ \A r \in Resets : r \in DOMAIN reset /\ reset[r] \in ResetRow
  BY DEF AccountsInv, TypeOK
<1>2. CASE reset' = reset
  BY <1>2
<1>3. ASSUME NEW w \in Clients, RedeemCommit(w), NEW r \in Resets, reset'[r].state = "pending"
      PROVE  reset'[r] = reset[r]
  <2>1. reset' = [reset EXCEPT ![req[w].on].state = "used",
                               ![req[w].on].redeemers = @ \cup {w}]
    BY <1>3 DEF RedeemCommit, Redeemed
  <2> QED
    BY <1>1, <1>3, <2>1 DEF ResetRow
<1>4. ASSUME NEW w \in Operators, IssueCommit(w)
      PROVE  \E new \in Resets :
              /\ reset'[new].issuer = w /\ req'[w] = NoReq
              /\ \A r \in Resets : r # new /\ reset'[r].state = "pending" =>
                   /\ reset'[r] = reset[r]
                   /\ ~(reset[r].user = reset'[new].user /\ reset[r].issuer = w)
  <2>1. PICK new \in Resets :
          reset' = [q \in Resets |->
            IF q = new
            THEN [state |-> "pending", user |-> req[w].user, issuer |-> w, redeemers |-> {}]
            ELSE IF q \in req[w].seen THEN [reset[q] EXCEPT !.state = "used"] ELSE reset[q]]
    BY <1>4 DEF IssueCommit
  <2>2. reset'[new].issuer = w /\ reset'[new].user = req[w].user
    BY <2>1
  <2>3. ASSUME NEW r \in Resets, r # new, reset'[r].state = "pending"
        PROVE  reset'[r] = reset[r] /\ r \notin req[w].seen
    BY <1>1, <2>1, <2>3 DEF ResetRow
  <2>4. req'[w] = NoReq /\ req[w].op = "issue" /\ req[w].phase = "stamped"
    BY <1>1, <1>4, EndsIs DEF Ends, Workers, IssueCommit, At
  <2> QED
    BY <2>2, <2>3, <2>4 DEF StampSees
<1> QED
  BY <1>2, <1>3, <1>4, ChangesReset DEF ResetStep

LEMMA StampSeesStays == ASSUME AccountsInv, StampSees, Next PROVE StampSees'
<1> SUFFICES ASSUME NEW w \in Operators, req'[w].op = "issue", req'[w].phase = "stamped",
                    NEW r \in Resets, reset'[r].state = "pending",
                    reset'[r].user = req'[w].user, reset'[r].issuer = w
             PROVE  r \in req'[w].seen
  BY DEF StampSees
<1>1. CASE IssueStamp(w) /\ req'[w].seen = Pending(req[w].user) /\ req'[w].user = req[w].user
  BY <1>1 DEF IssueStamp, Pending
<1>2. CASE req'[w] = req[w]
  <2>1. CASE \A q \in Resets : reset'[q].state = "pending" => reset'[q] = reset[q]
    BY <1>2, <2>1 DEF StampSees
  <2>2. ASSUME NEW v \in Operators, NEW new \in Resets, reset'[new].issuer = v, req'[v] = NoReq,
               \A q \in Resets : q # new /\ reset'[q].state = "pending" => reset'[q] = reset[q]
        PROVE  r \in req'[w].seen
    <3>1. v # w
      BY <2>2, NoReqIs
    <3>2. reset'[r] = reset[r]
      BY <2>2, <3>1
    <3> QED
      BY <1>2, <3>2 DEF StampSees
  <2> QED
    BY <2>1, <2>2, PendingAdds
<1> QED
  BY <1>1, <1>2, StampsSet

LEMMA OnePendingStays ==
  ASSUME AccountsInv, StampSees, OnePendingPerIssuer, Next PROVE OnePendingPerIssuer'
<1>1. CASE \A r \in Resets : reset'[r].state = "pending" => reset'[r] = reset[r]
  BY <1>1 DEF OnePendingPerIssuer, Pending
<1>2. CASE \E w \in Operators, new \in Resets :
             /\ reset'[new].issuer = w /\ req'[w] = NoReq
             /\ \A r \in Resets : r # new /\ reset'[r].state = "pending" =>
                  /\ reset'[r] = reset[r]
                  /\ ~(reset[r].user = reset'[new].user /\ reset[r].issuer = w)
  BY <1>2 DEF OnePendingPerIssuer, Pending
<1> QED
  BY <1>1, <1>2, PendingAdds

\* Of the resets one slot issued for a user at most one is pending.
THEOREM OnePendingReset == Spec => []OnePendingPerIssuer
<1>1. Init => StampSees /\ OnePendingPerIssuer
  BY NoReqIs DEF Init, StampSees, OnePendingPerIssuer, Pending, NoReset, Workers
<1>2. AccountsInv /\ StampSees /\ OnePendingPerIssuer /\ [Next]_vars
      => StampSees' /\ OnePendingPerIssuer'
  <2>1. StampSees /\ OnePendingPerIssuer /\ UNCHANGED vars => StampSees' /\ OnePendingPerIssuer'
    BY DEF vars, StampSees, OnePendingPerIssuer, Pending
  <2> QED
    BY <2>1, StampSeesStays, OnePendingStays
<1> QED
  BY <1>1, <1>2, AccountsHold, PTL DEF Spec

---------------------------------------------------------------------------
(* MFA *)

VerifiedNamed == \A s \in Sessions : session[s].asked /\ session[s].verified =>
  Verifies(session[s].factor, session[s].user)

LEMMA VerifiesStays ==
  ASSUME AccountsInv, Next, NEW f, NEW u, Verifies(f, u) PROVE Verifies(f, u)'
<1>1. Persist
  BY StepPersists
<1> QED
  BY <1>1 DEF Persist, Verifies, OfUser

LEMMA VerifiedStays == ASSUME AccountsInv, VerifiedNamed, Next PROVE VerifiedNamed'
<1>1. ASSUME NEW s \in Sessions, session'[s].asked, session'[s].verified
      PROVE  Verifies(session'[s].factor, session'[s].user)
  <2>1. session[s] \in SessionRow /\ TypeOK
    BY DEF AccountsInv, TypeOK
  <2>2. CASE session'[s] = session[s]
    BY <1>1, <2>2 DEF VerifiedNamed
  <2>3. CASE session'[s] = Revoked(session[s])
    BY <1>1, <2>1, <2>3, SessionRevoked DEF VerifiedNamed
  <2>4. ASSUME NEW w \in Clients, VerifyCommit(w), s = req[w].session,
               session'[s] = Verified(session[s], req[w].on)
        PROVE  Verifies(session'[s].factor, session'[s].user)
    <3>1. Verifies(req[w].on, req[w].user) /\ session[s].user = req[w].user
      BY <2>4 DEF VerifyCommit, At, AccountsInv, Serving, Serves, Workers, SessionOps
    <3>2. req[w].on \in Factors
      BY <3>1 DEF Verifies, OfUser
    <3> QED
      BY <2>1, <2>4, <3>1, <3>2, SessionVerified
  <2>5. ASSUME NEW w \in Clients,
               session'[s] = [state |-> "live", user |-> req[w].user,
                              verified |-> ~req[w].asked, asked |-> req[w].asked,
                              factor |-> None, under |-> user[req[w].user].password,
                              late |-> Changing(req[w].user) # {}]
        PROVE  FALSE
    <3>1. PICK b \in BOOLEAN : b = req[w].asked
      BY <2>1 DEF TypeOK, Request, Workers
    <3>2. session'[s].asked = b /\ session'[s].verified = ~b
      BY <2>5, <3>1
    <3> QED
      BY <1>1, <3>2
  <2> QED
    BY <2>1, <2>2, <2>3, <2>4, <2>5, SessionRows
<1>2. \A f, u : Verifies(f, u) => Verifies(f, u)'
  BY VerifiesStays
<1> QED
  BY <1>1, <1>2 DEF VerifiedNamed, Verifies, OfUser

\* A session that was asked for MFA is verified by a factor of its own user.
THEOREM VerifiedByOwnFactor == Spec => []VerifiedByFactor
<1>1. Init => VerifiedNamed
  BY DEF Init, NoSession, VerifiedNamed
<1>2. AccountsInv /\ VerifiedNamed /\ [Next]_vars => VerifiedNamed'
  <2>1. VerifiedNamed /\ UNCHANGED vars => VerifiedNamed'
    BY DEF vars, VerifiedNamed, Verifies, OfUser
  <2> QED
    BY <2>1, VerifiedStays
<1>3. VerifiedNamed => VerifiedByFactor
  BY DEF VerifiedNamed, VerifiedByFactor, Verifies, OfUser, FactorsOf
<1> QED
  BY <1>1, <1>2, <1>3, AccountsHold, PTL DEF Spec

\* What a step makes of the enrolment of a user none of whose factors is revoked
LEMMA FlagRows ==
  ASSUME AccountsInv, Next, NEW u \in Users, \A f \in FactorsOf(u) : ~factor[f].revoked
  PROVE  \/ user'[u].enrolled = user[u].enrolled
         \/ ~Exists(u) /\ user'[u].enrolled = FALSE
         \/ \E w \in Clients : ConfirmCommit(w) /\ u = req[w].user /\ user'[u].enrolled = TRUE
<1>1. user[u] \in UserRow /\ TypeOK /\ u \in DOMAIN user
  BY DEF AccountsInv, TypeOK
<1>2. CASE user' = user
  BY <1>2
<1>3. ASSUME NEW w \in Clients, SetCommit(w) \/ RedeemCommit(w)
      PROVE  user'[u].enrolled = user[u].enrolled
  BY <1>1, <1>3 DEF SetCommit, RedeemCommit, SetHash, UserRow
<1>4. ASSUME NEW w \in Clients, ConfirmCommit(w)
      PROVE  user'[u].enrolled = user[u].enrolled
             \/ (u = req[w].user /\ user'[u].enrolled = TRUE)
  BY <1>1, <1>4 DEF ConfirmCommit, Enrol, UserRow
<1>5. ASSUME NEW w \in Clients, ClearEnrolled(w)
      PROVE  user'[u].enrolled = user[u].enrolled
  <2>1. u # req[w].user
    BY <1>5 DEF ClearEnrolled, At, AccountsInv, Serving, Serves, Workers
  <2> QED
    BY <1>1, <1>5, <2>1 DEF ClearEnrolled
<1>6. ASSUME NEW w \in Operators, DisableCommit(w)
      PROVE  user'[u].enrolled = user[u].enrolled
  BY <1>1, <1>6 DEF DisableCommit, UserRow
<1>7. ASSUME NEW v \in Users, NEW role \in Roles, CreateUser(v, role)
      PROVE  user'[u].enrolled = user[u].enrolled \/ (~Exists(u) /\ user'[u].enrolled = FALSE)
  BY <1>1, <1>7 DEF CreateUser, NoUser
<1>8. ASSUME NEW v \in Users, NEW role \in Roles, EnableUser(v) \/ UpdateUser(v, role)
      PROVE  user'[u].enrolled = user[u].enrolled
  BY <1>1, <1>8 DEF EnableUser, UpdateUser, UserRow
<1>9. ASSUME NEW v \in Users, EnableUser(v)
      PROVE  user'[u].enrolled = user[u].enrolled
  BY <1>1, <1>9 DEF EnableUser, UserRow
<1> QED
  BY <1>2, <1>3, <1>4, <1>5, <1>6, <1>7, <1>8, <1>9, ChangesUser DEF UserStep, Administer

\* What a step makes of the confirmed TOTP factors of a user none of whose factors
\* is revoked
LEMMA ConfirmedRows ==
  ASSUME AccountsInv, Next, NEW f \in Factors, factor'[f].user \in Users, ~factor'[f].revoked,
         factor'[f].type = "totp", factor'[f].confirmed
  PROVE  \/ factor'[f] = factor[f]
         \/ \E w \in Clients : ConfirmCommit(w) /\ req[w].user = factor'[f].user
<1>1. factor[f] \in FactorRow /\ TypeOK
  BY DEF AccountsInv, TypeOK
<1>2. ASSUME NEW type \in {"totp", "backup_codes"}, NEW u \in Users \cup {None},
             factor'[f] = NewFactor(type, u)
      PROVE  FALSE
  BY <1>2, NewFactorIs
<1>3. ASSUME NEW w \in Clients PROVE req[w].user \in Users \cup {None}
  BY <1>1 DEF TypeOK, Request, Workers
<1>4. factor'[f] # Spent(factor[f])
  BY <1>1, FactorEdits
<1>5. ASSUME NEW w \in Clients, ConfirmCommit(w), f = req[w].on, factor'[f] = Confirmed(factor[f])
      PROVE  req[w].user = factor'[f].user
  <2>1. factor[f].user = req[w].user
    BY <1>5 DEF ConfirmCommit, At, AccountsInv, Serving, Serves, OfUser, Workers
  <2> QED
    BY <1>1, <1>5, <2>1, FactorEdits
<1>6. CASE \E w \in Clients : /\ ConfirmCommit(w) /\ f = req[w].on
                              /\ factor'[f] = Confirmed(factor[f])
  BY <1>5, <1>6
<1> QED
  BY <1>1, <1>2, <1>3, <1>4, <1>6, FactorRows

LEMMA EnrolledStays ==
  ASSUME AccountsInv, EnrolledUnlessRevoked, Next PROVE EnrolledUnlessRevoked'
<1>1. Persist /\ FactorsNamed /\ TypeOK
  BY StepPersists DEF AccountsInv
<1> SUFFICES ASSUME NEW u \in Users, \A f \in FactorsOf(u)' : ~factor'[f].revoked
             PROVE  user'[u].enrolled = (ConfirmedTotp(u)' # {})
  BY DEF EnrolledUnlessRevoked
<1>2. \A f \in Factors : factor'[f].user = u => ~factor'[f].revoked
  BY DEF FactorsOf
<1>3. \A f \in FactorsOf(u) : f \in Factors /\ factor[f].type # "none" /\ ~factor[f].revoked
                             /\ factor'[f].user = u
  BY <1>1, <1>2 DEF FactorsOf, FactorsNamed, Persist
<1>4. user[u].enrolled = (ConfirmedTotp(u) # {})
  BY <1>3 DEF EnrolledUnlessRevoked
<1>5. ASSUME NEW f \in ConfirmedTotp(u) PROVE f \in ConfirmedTotp(u)'
  BY <1>1, <1>2, <1>3 DEF ConfirmedTotp, ActiveTotp, FactorsOf, Persist
<1>6. ASSUME NEW w \in Clients, ConfirmCommit(w), u = req[w].user
      PROVE  user'[u].enrolled = TRUE /\ ConfirmedTotp(u)' # {}
  <2>1. user'[u].enrolled = TRUE
    BY <1>1, <1>6 DEF ConfirmCommit, Enrol, TypeOK, UserRow
  <2>2. OfUser(req[w].on, u, "totp")
    BY <1>6 DEF ConfirmCommit, At, AccountsInv, Serving, Serves, Workers
  <2>3. PICK f \in Factors : f = req[w].on /\ factor[f].user = u /\ factor[f].type = "totp"
    BY <2>2 DEF OfUser
  <2>4. factor'[f] = Confirmed(factor[f]) /\ factor[f] \in FactorRow
    <3>1. factor[f] \in FactorRow
      BY <1>1 DEF TypeOK
    <3>2. PICK codes : factor' = [g \in Factors |->
            CASE g = req[w].on -> [factor[g] EXCEPT !.confirmed = TRUE]
              [] g \in codes -> NewFactor("backup_codes", req[w].user)
              [] OTHER -> factor[g]]
            /\ codes \in SUBSET {g \in Factors : factor[g] = NoFactor}
      BY <1>6 DEF ConfirmCommit
    <3>3. f \notin codes
      BY <2>3, <3>2 DEF NoFactor
    <3>4. factor'[f] = [factor[f] EXCEPT !.confirmed = TRUE]
      BY <2>3, <3>2, <3>3
    <3> QED
      BY <3>1, <3>4 DEF Confirmed
  <2>5. f \in ConfirmedTotp(u)'
    BY <1>2, <2>3, <2>4, FactorEdits DEF ConfirmedTotp, ActiveTotp, FactorsOf
  <2> QED
    BY <2>1, <2>5
<1>7. CASE \A w \in Clients : ConfirmCommit(w) => u # req[w].user
  <2>1. ASSUME NEW f \in ConfirmedTotp(u)' PROVE f \in ConfirmedTotp(u)
    <3>1. f \in Factors /\ factor'[f].user = u /\ ~factor'[f].revoked
          /\ factor'[f].type = "totp" /\ factor'[f].confirmed
      BY DEF ConfirmedTotp, ActiveTotp, FactorsOf
    <3>2. factor'[f] = factor[f]
      BY <1>7, <3>1, ConfirmedRows
    <3> QED
      BY <3>1, <3>2 DEF ConfirmedTotp, ActiveTotp, FactorsOf
  <2>2. (ConfirmedTotp(u)' # {}) = (ConfirmedTotp(u) # {})
    BY <1>5, <2>1
  <2>3. ~Exists(u) => ConfirmedTotp(u) = {}
    BY <1>1, <1>3 DEF ConfirmedTotp, ActiveTotp, FactorsOf, FactorsNamed
  <2>4. \/ user'[u].enrolled = user[u].enrolled
        \/ ~Exists(u) /\ user'[u].enrolled = FALSE
    BY <1>3, <1>7, FlagRows
  <2> QED
    BY <1>4, <2>2, <2>3, <2>4
<1> QED
  BY <1>6, <1>7

\* As long as no factor of a user was revoked, mfa_enrolled tells whether one is
\* confirmed.
THEOREM EnrolledTells == Spec => []EnrolledUnlessRevoked
<1>1. Init => EnrolledUnlessRevoked
  <2>1. ASSUME Init, NEW u \in Users
        PROVE  user[u].enrolled = FALSE /\ ConfirmedTotp(u) = {}
    BY <2>1 DEF Init, NoUser, NoFactor, ConfirmedTotp, ActiveTotp, FactorsOf
  <2> QED
    BY <2>1 DEF EnrolledUnlessRevoked
<1>2. AccountsInv /\ EnrolledUnlessRevoked /\ [Next]_vars => EnrolledUnlessRevoked'
  <2>1. EnrolledUnlessRevoked /\ UNCHANGED vars => EnrolledUnlessRevoked'
    BY DEF vars, EnrolledUnlessRevoked, ConfirmedTotp, ActiveTotp, FactorsOf
  <2> QED
    BY <2>1, EnrolledStays
<1> QED
  BY <1>1, <1>2, AccountsHold, PTL DEF Spec

---------------------------------------------------------------------------
(* Sessions and passwords *)

\* A change of password under way ends every live session of its user but the one
\* that asks and those inserted since it looked.
ChangeEnds ==
  \A w \in Clients : req[w].phase = "changing" =>
    \A s \in Sessions : session[s].state = "live" /\ session[s].user = req[w].user =>
      \/ s \in req[w].ends \/ session[s].late
      \/ req[w].op = "set_password" /\ s = req[w].session

LiveSessions == ChangeEnds /\ LiveSessionsFollowPassword

\* A session that is live after a step was so before, the same but for its factor,
\* or is a login's.
LEMMA LiveRows ==
  ASSUME AccountsInv, Next, NEW s \in Sessions, session'[s].state = "live"
  PROVE  \/ /\ session[s].state = "live" /\ session'[s].user = session[s].user
            /\ session'[s].under = session[s].under /\ session'[s].late = session[s].late
         \/ \E w \in Clients :
              /\ LoginInsert(w) /\ session'[s].user = req[w].user
              /\ session'[s].under = user[req[w].user].password
              /\ session'[s].late = (Changing(req[w].user) # {})
<1>1. session[s] \in SessionRow /\ TypeOK
  BY DEF AccountsInv, TypeOK
<1>2. session'[s] # Revoked(session[s])
  BY <1>1, SessionRevoked
<1>3. ASSUME NEW w \in Clients, VerifyCommit(w), s = req[w].session,
             session'[s] = Verified(session[s], req[w].on)
      PROVE  /\ session[s].state = "live" /\ session'[s].user = session[s].user
             /\ session'[s].under = session[s].under /\ session'[s].late = session[s].late
  <2>1. req[w].on \in Factors
    BY <1>3 DEF VerifyCommit, At, AccountsInv, Serving, Serves, Workers, Verifies, OfUser
  <2> QED
    BY <1>1, <1>3, <2>1, SessionVerified
<1>4. CASE \E w \in Clients : /\ VerifyCommit(w) /\ s = req[w].session
                              /\ session'[s] = Verified(session[s], req[w].on)
  BY <1>3, <1>4
<1>5. ASSUME NEW w \in Clients, LoginInsert(w),
             session'[s] = [state |-> "live", user |-> req[w].user,
                            verified |-> ~req[w].asked, asked |-> req[w].asked,
                            factor |-> None, under |-> user[req[w].user].password,
                            late |-> Changing(req[w].user) # {}]
      PROVE  /\ session'[s].user = req[w].user
             /\ session'[s].under = user[req[w].user].password
             /\ session'[s].late = (Changing(req[w].user) # {})
  BY <1>5
<1>6. CASE \E w \in Clients :
             /\ LoginInsert(w) /\ session[s] = NoSession
             /\ session'[s] = [state |-> "live", user |-> req[w].user,
                               verified |-> ~req[w].asked, asked |-> req[w].asked,
                               factor |-> None, under |-> user[req[w].user].password,
                               late |-> Changing(req[w].user) # {}]
  BY <1>5, <1>6
<1> QED
  BY <1>1, <1>2, <1>4, <1>6, SessionRows

\* A commit ends the sessions its change found, and marks the one it leaves.
LEMMA CommitDoes ==
  ASSUME AccountsInv, NEW w \in Clients, Commits(w)
  PROVE  /\ \A s \in req[w].ends : s \in Sessions => session'[s].state # "live"
         /\ req[w].op = "set_password" => user'[req[w].user].setBy = req[w].session
<1>1. TypeOK /\ w \in Workers
  BY DEF AccountsInv, Workers
<1>2. req[w].user \in Users
  BY DEF Commits, AccountsInv, Serving, Serves, Workers
<1>3. Revoke(req[w].ends)
  BY DEF Commits, SetCommit, RedeemCommit
<1>4. \A s \in req[w].ends : s \in Sessions => session'[s].state # "live"
  <2>1. ASSUME NEW s \in Sessions, s \in req[w].ends PROVE session'[s].state # "live"
    <3>1. session[s] \in SessionRow
      BY <1>1 DEF TypeOK
    <3> QED
      BY <1>3, <2>1, <3>1 DEF Revoke, SessionRow
  <2> QED
    BY <2>1
<1>5. ASSUME req[w].op = "set_password" PROVE user'[req[w].user].setBy = req[w].session
  <2>1. SetHash(req[w].user, req[w].session)
    BY <1>5 DEF Commits, SetCommit, RedeemCommit, At
  <2> QED
    BY <1>1, <1>2, <2>1 DEF SetHash, TypeOK, UserRow
<1> QED
  BY <1>4, <1>5

LEMMA ChangeEndsStays == ASSUME AccountsInv, ChangeEnds, Next PROVE ChangeEnds'
<1> SUFFICES ASSUME NEW w \in Clients, req'[w].phase = "changing", NEW s \in Sessions,
                    session'[s].state = "live", session'[s].user = req'[w].user
             PROVE  \/ s \in req'[w].ends \/ session'[s].late
                    \/ req'[w].op = "set_password" /\ s = req'[w].session
  BY DEF ChangeEnds
<1>1. TypeOK /\ w \in Workers
  BY DEF AccountsInv, Workers
<1>2. CASE req'[w] = req[w]
  <2>1. CASE /\ session[s].state = "live" /\ session'[s].user = session[s].user
             /\ session'[s].under = session[s].under /\ session'[s].late = session[s].late
    BY <1>2, <2>1 DEF ChangeEnds
  <2>2. ASSUME NEW v \in Clients, LoginInsert(v), session'[s].user = req[v].user,
               session'[s].late = (Changing(req[v].user) # {})
        PROVE  session'[s].late
    <3>1. w \in Changing(req[v].user)
      BY <1>2, <2>2 DEF Changing
    <3> QED
      BY <2>2, <3>1
  <2> QED
    BY <2>1, <2>2, LiveRows
<1>3. CASE Locks(w)
  <2>1. /\ req'[w].op = req[w].op /\ req'[w].session = req[w].session
        /\ req'[w].user = req[w].user
        /\ req'[w].ends = {q \in Sessions :
             /\ session[q].state = "live" /\ session[q].user = req[w].user
             /\ req[w].op = "set_password" => q # req[w].session}
    BY <1>1, <1>3, LocksServes
  <2>2. session' = session
    BY <1>3 DEF Locks, SetPassword, Redeem, Change
  <2> QED
    BY <2>1, <2>2
<1> QED
  BY <1>1, <1>2, <1>3, EachServes

LEMMA FollowStays == ASSUME AccountsInv, LiveSessions, Next PROVE LiveSessionsFollowPassword'
<1> SUFFICES ASSUME NEW s \in Sessions, session'[s].state = "live"
             PROVE  \/ session'[s].under = user'[session'[s].user].password
                    \/ user'[session'[s].user].setBy = s \/ session'[s].late
  BY DEF LiveSessionsFollowPassword
<1>1. TypeOK /\ SessionsNamed
  BY DEF AccountsInv
<1>2. CASE /\ session[s].state = "live" /\ session'[s].user = session[s].user
           /\ session'[s].under = session[s].under /\ session'[s].late = session[s].late
  <2>1. PICK q \in Users : q = session[s].user /\ Exists(q)
    BY <1>1, <1>2 DEF SessionsNamed
  <2>2. CASE user'[q].password = user[q].password /\ user'[q].setBy = user[q].setBy
    BY <1>2, <2>1, <2>2 DEF LiveSessions, LiveSessionsFollowPassword
  <2>3. ASSUME NEW w \in Clients, Commits(w), q = req[w].user
        PROVE  session'[s].late \/ user'[q].setBy = s
    <3>1. s \notin req[w].ends
      BY <2>3, CommitDoes
    <3>2. session[s].late \/ (req[w].op = "set_password" /\ s = req[w].session)
      BY <1>2, <2>1, <2>3, <3>1 DEF LiveSessions, ChangeEnds, Commits
    <3> QED
      BY <1>2, <2>3, <3>2, CommitDoes
  <2> QED
    BY <1>2, <2>1, <2>2, <2>3, HashChangesByCommit
<1>3. ASSUME NEW w \in Clients, LoginInsert(w), session'[s].user = req[w].user,
             session'[s].under = user[req[w].user].password
      PROVE  session'[s].under = user'[session'[s].user].password
  BY <1>3 DEF LoginInsert
<1> QED
  BY <1>2, <1>3, LiveRows

\* Every live session follows its user's password.
THEOREM LiveSessionsFollow == Spec => []LiveSessionsFollowPassword
<1>1. Init => LiveSessions
  BY NoReqIs DEF Init, NoSession, LiveSessions, ChangeEnds, LiveSessionsFollowPassword, Workers
<1>2. AccountsInv /\ LiveSessions /\ [Next]_vars => LiveSessions'
  <2>1. LiveSessions /\ UNCHANGED vars => LiveSessions'
    BY DEF vars, LiveSessions, ChangeEnds, LiveSessionsFollowPassword
  <2> QED
    BY <2>1, ChangeEndsStays, FollowStays DEF LiveSessions
<1>3. LiveSessions => LiveSessionsFollowPassword
  BY DEF LiveSessions
<1> QED
  BY <1>1, <1>2, <1>3, AccountsHold, PTL DEF Spec

---------------------------------------------------------------------------
(* Owners, when operators are served one at a time *)

OneOperator == \A v, w \in Operators : v = w

\* A disable that passed its count leaves another owner, or takes none away.
OwnerLeft ==
  \A w \in Operators : req[w].op = "disable" /\ req[w].phase = "checked" =>
    \/ user[req[w].user].role # "account_owner"
    \/ ActiveOwners(TenantOf[req[w].user]) \ {req[w].user} # {}

LEMMA ClientsKeepOwners ==
  ASSUME TypeOK, NEW w \in Clients,
         SetCommit(w) \/ RedeemCommit(w) \/ ConfirmCommit(w) \/ ClearEnrolled(w)
  PROVE  \A q \in Users : user'[q].role = user[q].role /\ user'[q].disabled = user[q].disabled
<1> SUFFICES ASSUME NEW q \in Users
             PROVE  user'[q].role = user[q].role /\ user'[q].disabled = user[q].disabled
  OBVIOUS
<1>1. user[q] \in UserRow /\ q \in DOMAIN user
  BY DEF TypeOK
<1> QED
  BY <1>1 DEF SetCommit, RedeemCommit, ConfirmCommit, ClearEnrolled, SetHash, Enrol, UserRow

LEMMA SlotBusy ==
  ASSUME TypeOK, OneOperator, Next, NEW w \in Operators, req[w] # NoReq, req'[w] # NoReq
  PROVE  \A q \in Users : user'[q].role = user[q].role /\ user'[q].disabled = user[q].disabled
<1>1. ASSUME NEW v \in Operators, DisableCommit(v) \/ Administer(v) PROVE FALSE
  <2>1. v = w
    BY DEF OneOperator
  <2>2. CASE DisableCommit(v)
    BY <2>1, <2>2, EndsIs DEF Ends, Workers
  <2> QED
    BY <1>1, <2>1, <2>2 DEF Administer
<1> QED
  BY <1>1, ChangesUser, ClientsKeepOwners DEF UserStep

LEMMA OwnerLeftStays == ASSUME OneOperator, AccountsInv, OwnerLeft, Next PROVE OwnerLeft'
<1> SUFFICES ASSUME NEW w \in Operators, req'[w].op = "disable", req'[w].phase = "checked"
             PROVE  \/ user'[req'[w].user].role # "account_owner"
                    \/ \E q \in Users \ {req'[w].user} :
                         /\ TenantOf[q] = TenantOf[req'[w].user]
                         /\ user'[q].role = "account_owner" /\ ~user'[q].disabled
  BY DEF OwnerLeft, ActiveOwners
<1>1. TypeOK /\ w \in Workers /\ w \notin Clients /\ req[w] \in Request /\ w \in DOMAIN req
  BY DEF AccountsInv, TypeOK, Workers
<1>2. req'[w] # NoReq
  BY NoReqIs
<1>3. CASE Starts(w)
  <2>1. ASSUME NEW u \in Users, DisableRead(w, u)
        PROVE  user'[req'[w].user].role # "account_owner"
    <3>1. CASE user[u].role = "account_owner"
      <4>1. req'[w] = [NoReq EXCEPT !.op = "disable", !.user = u, !.phase = "owner"]
        BY <1>1, <2>1, <3>1 DEF DisableRead
      <4> QED
        BY <4>1 DEF NoReq
    <3>2. CASE user[u].role # "account_owner"
      <4>1. req'[w] = [NoReq EXCEPT !.op = "disable", !.user = u, !.phase = "checked"]
        BY <1>1, <2>1, <3>2 DEF DisableRead
      <4>2. req'[w].user = u
        BY <4>1 DEF NoReq
      <4> QED
        BY <2>1, <3>2, <4>2 DEF DisableRead
    <3> QED
      BY <3>1, <3>2
  <2>2. ASSUME NEW u \in Users, IssueRead(w, u) PROVE FALSE
    BY <1>1, <2>2 DEF IssueRead, NoReq
  <2> QED
    BY <1>1, <1>3, <2>1, <2>2 DEF Starts
<1>4. CASE DisableCount(w) /\ req'[w] = Moved(req[w], "checked")
  <2>1. req'[w].user = req[w].user
    BY <1>1, <1>4, RequestEdits
  <2>2. PICK q \in ActiveOwners(TenantOf[req[w].user]) : q # req[w].user
    BY <1>4 DEF DisableCount
  <2> QED
    BY <1>4, <2>1, <2>2 DEF DisableCount, ActiveOwners
<1>5. CASE req'[w] = req[w]
  <2>1. PICK u \in Users : u = req[w].user
    BY <1>1, <1>5 DEF AccountsInv, Serving, Serves
  <2>2. \A q \in Users : user'[q].role = user[q].role /\ user'[q].disabled = user[q].disabled
    BY <1>1, <1>2, <1>5, SlotBusy
  <2> QED
    BY <1>5, <2>1, <2>2 DEF OwnerLeft, ActiveOwners
<1>6. CASE GoesOn(w)
  <2>1. req[w].op = "disable"
    BY <1>1, <1>6, GoesOnServes
  <2>2. ~IssueStamp(w)
    BY <2>1 DEF IssueStamp, At
  <2> QED
    BY <1>1, <1>4, <1>6, <2>2 DEF GoesOn
<1> QED
  BY <1>1, <1>2, <1>3, <1>5, <1>6, RequestKinds, EndsIs DEF Locks

LEMMA OwnersStay ==
  ASSUME AccountsInv, OwnerLeft, Next, NEW t \in Tenants, ActiveOwners(t) # {},
         \A u \in Users : user'[u].role = user[u].role
  PROVE  \E q \in Users : TenantOf[q] = t /\ user'[q].role = "account_owner" /\ ~user'[q].disabled
<1>1. TypeOK /\ \A q \in Users : q \in DOMAIN user /\ user[q] \in UserRow
  BY DEF AccountsInv, TypeOK
<1>2. ASSUME NEW w \in Operators, DisableCommit(w)
      PROVE  \E q \in ActiveOwners(t) : ~user'[q].disabled
  <2>1. PICK u \in Users : u = req[w].user
    BY <1>2 DEF DisableCommit, At, AccountsInv, Serving, Serves, Workers
  <2>2. PICK q \in ActiveOwners(t) : q # u
    BY <1>2, <2>1 DEF DisableCommit, At, OwnerLeft, ActiveOwners
  <2>3. user'[q] = user[q]
    BY <1>1, <1>2, <2>1, <2>2 DEF DisableCommit, ActiveOwners
  <2> QED
    BY <2>2, <2>3 DEF ActiveOwners
<1>3. ASSUME NEW q \in Users, ~user[q].disabled,
             ~\E w \in Operators : DisableCommit(w)
      PROVE  ~user'[q].disabled
  <2>1. ASSUME NEW v \in Users, EnableUser(v) PROVE ~user'[q].disabled
    BY <1>1, <1>3, <2>1 DEF EnableUser, UserRow
  <2>2. ASSUME NEW v \in Users, NEW role \in Roles, CreateUser(v, role) PROVE ~user'[q].disabled
    BY <1>1, <1>3, <2>2 DEF CreateUser, NoUser
  <2>3. ASSUME NEW v \in Users, NEW role \in Roles, UpdateUser(v, role) PROVE ~user'[q].disabled
    BY <1>1, <1>3, <2>3 DEF UpdateUser, UserRow
  <2> QED
    BY <1>1, <1>3, <2>1, <2>2, <2>3, ChangesUser, ClientsKeepOwners DEF UserStep, Administer
<1> QED
  BY <1>2, <1>3 DEF ActiveOwners

\* When operators are served one at a time, only a change of role takes a tenant's
\* last active owner away.
THEOREM OwnersKeptBySlot == ASSUME OneOperator PROVE Spec => OwnersOutliveDisable
<1>1. Init => OwnerLeft
  BY NoReqIs DEF Init, OwnerLeft, Workers
<1>2. AccountsInv /\ OwnerLeft /\ [Next]_vars => OwnerLeft'
  <2>1. OwnerLeft /\ UNCHANGED vars => OwnerLeft'
    BY DEF vars, OwnerLeft, ActiveOwners
  <2> QED
    BY <2>1, OwnerLeftStays
<1>3. AccountsInv /\ OwnerLeft /\ [Next]_vars =>
        [\A t \in Tenants :
           /\ ActiveOwners(t) # {}
           /\ \A u \in Users : user'[u].role = user[u].role
           => ActiveOwners(t)' # {}]_vars
  <2>1. ASSUME AccountsInv, OwnerLeft, Next, NEW t \in Tenants, ActiveOwners(t) # {},
               \A u \in Users : user'[u].role = user[u].role
        PROVE  ActiveOwners(t)' # {}
    BY <2>1, OwnersStay DEF ActiveOwners
  <2> QED
    BY <2>1
<1> QED
  BY <1>1, <1>2, <1>3, AccountsHold, PTL DEF Spec, OwnersOutliveDisable

---------------------------------------------------------------------------
(* What ended stays ended *)

LEMMA RevokedStays ==
  ASSUME AccountsInv, Next, NEW s \in Sessions, session[s].state = "revoked"
  PROVE  session'[s].state = "revoked" /\ session'[s].user = session[s].user
<1>1. session[s] \in SessionRow /\ TypeOK /\ session[s] # NoSession
  BY DEF AccountsInv, TypeOK, NoSession
<1>2. ASSUME NEW w \in Clients, VerifyCommit(w), session'[s] = Verified(session[s], req[w].on)
      PROVE  session'[s].state = session[s].state /\ session'[s].user = session[s].user
  <2>1. req[w].on \in Factors
    BY <1>2 DEF VerifyCommit, At, AccountsInv, Serving, Serves, Workers, Verifies, OfUser
  <2> QED
    BY <1>1, <1>2, <2>1, SessionVerified
<1>3. CASE session'[s] = session[s]
  BY <1>3
<1>4. CASE session'[s] = Revoked(session[s])
  BY <1>1, <1>4, SessionRevoked
<1>5. CASE \E w \in Clients :
             /\ VerifyCommit(w) /\ s = req[w].session
             /\ session'[s] = Verified(session[s], req[w].on)
  BY <1>2, <1>5
<1> QED
  BY <1>1, <1>3, <1>4, <1>5, SessionRows

LEMMA PasswordsGrow ==
  ASSUME AccountsInv, Next, NEW q \in Users
  PROVE  user[q].password <= user'[q].password
<1>1. user[q] \in UserRow /\ TypeOK /\ (user[q].password # 0 => Exists(q))
  BY DEF AccountsInv, TypeOK, UsersNamed
<1>2. user[q].password \in Nat
  BY <1>1 DEF UserRow
<1>3. CASE user'[q] = user[q]
  BY <1>2, <1>3
<1>4. CASE ~Exists(q) /\ \E role \in Roles, b \in BOOLEAN : user'[q] = Ranked(NoUser, role, b)
  <2>1. user'[q].password = 0
    BY <1>4, NewUser
  <2> QED
    BY <1>1, <1>4, <2>1
<1>5. CASE \/ \E role \in Roles, b \in BOOLEAN : user'[q] = Ranked(user[q], role, b)
           \/ \E b \in BOOLEAN : user'[q] = Switched(user[q], b) \/ user'[q] = Flagged(user[q], b)
  <2>1. user'[q].password = user[q].password
    BY <1>1, <1>5, UserRoles, UserEdits
  <2> QED
    BY <1>2, <2>1
<1>6. CASE \E by \in Sessions \cup {None} : user'[q] = Hashed(user[q], by)
  <2>1. user'[q].password = user[q].password + 1
    BY <1>1, <1>6 DEF Hashed, UserRow
  <2> QED
    BY <1>2, <2>1
<1> QED
  BY <1>1, <1>3, <1>4, <1>5, <1>6, UserRows

\* No request in flight undoes what has ended: sessions, resets and factors keep
\* their end and their user, passwords only move on (auth.py, me.py, me_mfa.py,
\* tenant_users.py).
THEOREM WhatEndedIsFinal == Spec => EndedIsFinal
<1> DEFINE Final ==
      /\ \A s \in Sessions : session[s].state = "revoked" =>
           session'[s].state = "revoked" /\ session'[s].user = session[s].user
      /\ \A r \in Resets : reset[r].state = "used" =>
           reset'[r].state = "used" /\ reset'[r].user = reset[r].user
      /\ \A f \in Factors : factor[f].user # None =>
           /\ factor'[f].user = factor[f].user
           /\ factor[f].revoked => factor'[f].revoked
           /\ factor[f].confirmed => factor'[f].confirmed
      /\ \A u \in Users : user[u].password <= user'[u].password
<1>1. AccountsInv /\ [Next]_vars => [Final]_vars
  <2> SUFFICES ASSUME AccountsInv, Next PROVE Final
    OBVIOUS
  <2>1. \A s \in Sessions : session[s].state = "revoked" =>
          session'[s].state = "revoked" /\ session'[s].user = session[s].user
    BY RevokedStays
  <2>2. \A r \in Resets : reset[r].state = "used" =>
          reset'[r].state = "used" /\ reset'[r].user = reset[r].user
    BY ResetStays
  <2>3. \A f \in Factors : factor[f].user # None => factor[f].type # "none"
    BY DEF AccountsInv, FactorsNamed
  <2>4. \A f \in Factors : factor[f].user # None =>
          /\ factor'[f].user = factor[f].user
          /\ factor[f].revoked => factor'[f].revoked
          /\ factor[f].confirmed => factor'[f].confirmed
    BY <2>3, FactorStays
  <2>5. \A u \in Users : user[u].password <= user'[u].password
    BY PasswordsGrow
  <2> QED
    BY <2>1, <2>2, <2>4, <2>5
<1> QED
  BY <1>1, AccountsHold, PTL DEF Spec, EndedIsFinal
=============================================================================
