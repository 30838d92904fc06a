---------------------------- MODULE TenantAccounts ----------------------------
(***************************************************************************)
(* The users of the tenants: their roles, passwords, sessions, one-time    *)
(* resets and MFA factors.                                                 *)
(*                                                                         *)
(* Every request holds one worker.  A statement on the pool commits by     *)
(* itself, so what a handler read can be stale by the time it writes; the  *)
(* statements of one transaction that touch rows no other statement can    *)
(* change in between are one step.  Expiry only makes a row unusable, as   *)
(* if its client never came back, and is left out.                         *)
(***************************************************************************)
EXTENDS Naturals, FiniteSets

CONSTANTS
  Clients,      \* request slots serving tenant users
  Operators,    \* request slots serving platform operators
  Users,        \* possible tenant_users rows: a tenant and an email
  Tenants,
  TenantOf,     \* Users -> Tenants
  Roles,        \* the roles operators give, of those the column's CHECK lists
  Sessions,     \* ids of tenant_user_sessions rows
  Resets,       \* ids of tenant_user_password_resets rows
  Factors,      \* ids of tenant_user_mfa_factors rows
  BackupCodes,  \* backup codes of one enrolment: 10 in the code
  None,
  MaxPasswords  \* bound on the passwords a user sets, for model checking

ASSUME RolesAssumption == Roles \subseteq {"account_owner", "editor", "viewer"}
ASSUME TenantOfAssumption == TenantOf \in [Users -> Tenants]
ASSUME WorkersAssumption == Clients \cap Operators = {}
ASSUME NoneAssumption ==
  None \notin Users \cup Sessions \cup Resets \cup Factors \cup Clients \cup Operators
ASSUME BoundsAssumption == BackupCodes \in Nat /\ MaxPasswords \in Nat

VARIABLES
  user,     \* tenant_users: Users -> row; password counts the hashes stored so
            \* far, 0 is NULL; setBy is the session that changed it last, if any
  session,  \* tenant_user_sessions: Sessions -> row, with the password its user
            \* had when the row was inserted, whether the login was asked for MFA,
            \* the factor that verified it, and whether the row was inserted while
            \* a change of password had yet to commit
  reset,    \* tenant_user_password_resets: Resets -> row, with who issued it and
            \* which slots redeemed it
  factor,   \* tenant_user_mfa_factors: Factors -> row
  req       \* Clients \cup Operators -> the request being served

vars == <<user, session, reset, factor, req>>

Workers == Clients \cup Operators

NoUser == [role |-> "none", required |-> FALSE, enrolled |-> FALSE,
           disabled |-> FALSE, password |-> 0, setBy |-> None]
NoSession == [state |-> "none", user |-> None, verified |-> FALSE, asked |-> FALSE,
              factor |-> None, under |-> 0, late |-> FALSE]
NoReset == [state |-> "none", user |-> None, issuer |-> None, redeemers |-> {}]
NoFactor == [type |-> "none", user |-> None, confirmed |-> FALSE, revoked |-> FALSE]
NoReq == [op |-> "none", phase |-> "none", user |-> None, session |-> None,
          on |-> None, seen |-> {}, ends |-> {}, asked |-> FALSE]

Init ==
  /\ user = [u \in Users |-> NoUser]
  /\ session = [s \in Sessions |-> NoSession]
  /\ reset = [r \in Resets |-> NoReset]
  /\ factor = [f \in Factors |-> NoFactor]
  /\ req = [w \in Workers |-> NoReq]

Exists(u) == user[u].role # "none"
ActiveOwners(t) == {u \in Users : /\ TenantOf[u] = t
                                  /\ user[u].role = "account_owner"
                                  /\ ~user[u].disabled}
FactorsOf(u) == {f \in Factors : factor[f].user = u}
ActiveTotp(u) == {f \in FactorsOf(u) : factor[f].type = "totp" /\ ~factor[f].revoked}
ConfirmedTotp(u) == {f \in ActiveTotp(u) : factor[f].confirmed}

At(w, op, phase) == req[w].op = op /\ req[w].phase = phase
Advance(w, phase) == req' = [req EXCEPT ![w].phase = phase]
Done(w) == req' = [req EXCEPT ![w] = NoReq]

---------------------------------------------------------------------------
(* Operators: the users of a tenant *)

NeedsMfa(role) == role \in {"account_owner", "editor"}

\* create_tenant_user
CreateUser(u, role) ==
  /\ ~Exists(u)
  /\ user' = [user EXCEPT ![u] = [NoUser EXCEPT !.role = role,
                                                !.required = NeedsMfa(role)]]
  /\ UNCHANGED <<session, reset, factor, req>>

\* Faulty variant: a role the PATCH leaves out is written as NULL.
UpdateUserAbsent(u, role) ==
  /\ Exists(u)
  /\ user' = [user EXCEPT ![u].role = None]
  /\ UNCHANGED <<session, reset, factor, req>>

\* update_tenant_user: one UPDATE; a demotion leaves mfa_required on.
UpdateUser(u, role) ==
  /\ Exists(u)
  /\ user' = [user EXCEPT ![u].role = role, ![u].required = @ \/ NeedsMfa(role)]
  /\ UNCHANGED <<session, reset, factor, req>>

\* disable_tenant_user: the row is read ...
DisableRead(w, u) ==
  /\ req[w] = NoReq
  /\ Exists(u) /\ ~user[u].disabled
  /\ req' = [req EXCEPT ![w] =
       [NoReq EXCEPT !.op = "disable", !.user = u,
                     !.phase = IF user[u].role = "account_owner" THEN "owner" ELSE "checked"]]
  /\ UNCHANGED <<user, session, reset, factor>>

\* Faulty variant: the user to disable counts as one of the others.
DisableCountItself(w) ==
  /\ At(w, "disable", "owner")
  /\ ActiveOwners(TenantOf[req[w].user]) # {}
  /\ Advance(w, "checked")
  /\ UNCHANGED <<user, session, reset, factor>>

\* ... the other active owners are counted ...
DisableCount(w) ==
  /\ At(w, "disable", "owner")
  /\ ActiveOwners(TenantOf[req[w].user]) \ {req[w].user} # {}
  /\ Advance(w, "checked")
  /\ UNCHANGED <<user, session, reset, factor>>

\* ... and the UPDATE looks at neither again.
DisableCommit(w) ==
  /\ At(w, "disable", "checked")
  /\ user' = [user EXCEPT ![req[w].user].disabled = TRUE]
  /\ Done(w)
  /\ UNCHANGED <<session, reset, factor>>

\* enable_tenant_user
EnableUser(u) ==
  /\ user[u].disabled
  /\ user' = [user EXCEPT ![u].disabled = FALSE]
  /\ UNCHANGED <<session, reset, factor, req>>

\* issue_password_reset: the user is looked up on the pool ...
IssueRead(w, u) ==
  /\ req[w] = NoReq
  /\ Exists(u) /\ ~user[u].disabled
  /\ req' = [req EXCEPT ![w] = [NoReq EXCEPT !.op = "issue", !.user = u, !.phase = "checked"]]
  /\ UNCHANGED <<user, session, reset, factor>>

Pending(u) == {r \in Resets : reset[r].state = "pending" /\ reset[r].user = u}

\* Faulty variant: earlier resets stay pending.
SupersededNone(u) == {}

\* The pending resets the first UPDATE of the transaction stamps: those
\* committed when it runs.
Superseded(u) == Pending(u)

IssueStamp(w) ==
  /\ At(w, "issue", "checked")
  /\ req' = [req EXCEPT ![w].phase = "stamped", ![w].seen = Superseded(req[w].user)]
  /\ UNCHANGED <<user, session, reset, factor>>

\* The INSERT and COMMIT.
IssueCommit(w) ==
  /\ At(w, "issue", "stamped")
  /\ \E r \in Resets :
       /\ reset[r] = NoReset
       /\ reset' = [q \in Resets |->
            IF q = r
            THEN [state |-> "pending", user |-> req[w].user, issuer |-> w, redeemers |-> {}]
            ELSE IF q \in req[w].seen THEN [reset[q] EXCEPT !.state = "used"] ELSE reset[q]]
  /\ Done(w)
  /\ UNCHANGED <<user, session, factor>>

---------------------------------------------------------------------------
(* Passwords and sessions *)

\* login: one SELECT gives the hash and mfa_required; the client knows the
\* password, any other attempt is a 401 ...
LoginRead(w, u) ==
  /\ req[w] = NoReq
  /\ user[u].password # 0 /\ ~user[u].disabled
  /\ req' = [req EXCEPT ![w] = [NoReq EXCEPT !.op = "login", !.user = u, !.phase = "checked",
                                             !.asked = user[u].required]]
  /\ UNCHANGED <<user, session, reset, factor>>

\* The change of password of a user that holds the lock on the user's row
Changing(u) == {w \in Clients : req[w].phase = "changing" /\ req[w].user = u}

\* ... and create_session inserts the row once bcrypt has agreed.
LoginInsert(w) ==
  /\ At(w, "login", "checked")
  /\ \E s \in Sessions :
       /\ session[s] = NoSession
       /\ session' = [session EXCEPT ![s] =
            [state |-> "live", user |-> req[w].user, verified |-> ~req[w].asked,
             asked |-> req[w].asked, factor |-> None,
             under |-> user[req[w].user].password, late |-> Changing(req[w].user) # {}]]
  /\ Done(w)
  /\ UNCHANGED <<user, reset, factor>>

SessionOps == {"set_password", "logout", "logout_all", "setup", "confirm_totp",
               "revoke_factor", "verify"}

\* _resolve_bearer on behalf of an endpoint; totp_verify goes on only when the
\* session still needs it.
Begin(w, s, op) ==
  /\ req[w] = NoReq
  /\ session[s].state = "live" /\ ~user[session[s].user].disabled
  /\ op = "verify" => ~session[s].verified /\ user[session[s].user].required
  /\ req' = [req EXCEPT ![w] = [NoReq EXCEPT !.op = op, !.phase = "begun", !.session = s,
                                             !.user = session[s].user]]
  /\ UNCHANGED <<user, session, reset, factor>>

\* UPDATE tenant_user_sessions SET revoked_at ... WHERE revoked_at IS NULL
Revoke(which) ==
  session' = [s \in Sessions |->
    IF s \in which /\ session[s].state = "live"
    THEN [session[s] EXCEPT !.state = "revoked"] ELSE session[s]]

SessionsOf(u) == {s \in Sessions : session[s].user = u}

SetHash(u, by) ==
  user' = [user EXCEPT ![u].password = @ + 1, ![u].setBy = by]

\* A transaction of a change of password: the hash is set and sessions are
\* revoked, those its statement finds ...
Change(w, which) ==
  /\ Changing(req[w].user) = {}
  /\ req' = [req EXCEPT ![w].phase = "changing",
                        ![w].ends = {s \in which : session[s].state = "live"}]
  /\ UNCHANGED <<user, session, reset, factor>>

\* Faulty variant: only the session that asks is revoked.
OthersItself(w) == {req[w].session}

Others(w) == SessionsOf(req[w].user) \ {req[w].session}

\* set_password: every OTHER session is revoked.
SetPassword(w) ==
  /\ At(w, "set_password", "begun")
  /\ user[req[w].user].password \in 1 .. MaxPasswords - 1
  /\ Change(w, Others(w))

\* ... and both seen by others with the COMMIT.
SetCommit(w) ==
  /\ At(w, "set_password", "changing")
  /\ SetHash(req[w].user, req[w].session)
  /\ Revoke(req[w].ends)
  /\ Done(w)
  /\ UNCHANGED <<reset, factor>>

Logout(w) ==
  /\ At(w, "logout", "begun")
  /\ Revoke({req[w].session})
  /\ Done(w)
  /\ UNCHANGED <<user, reset, factor>>

LogoutAll(w) ==
  /\ At(w, "logout_all", "begun")
  /\ Revoke(SessionsOf(req[w].user))
  /\ Done(w)
  /\ UNCHANGED <<user, reset, factor>>

\* password_reset_confirm: the row is read and its secret checked ...
RedeemRead(w, r) ==
  /\ req[w] = NoReq
  /\ reset[r].state = "pending"
  /\ req' = [req EXCEPT ![w] = [NoReq EXCEPT !.op = "redeem", !.phase = "checked", !.on = r,
                                             !.user = reset[r].user]]
  /\ UNCHANGED <<user, session, reset, factor>>

\* Faulty variant: the reset is not stamped.
RedeemedPending(r, w) == [reset EXCEPT ![r].redeemers = @ \cup {w}]

Redeemed(r, w) == [reset EXCEPT ![r].state = "used", ![r].redeemers = @ \cup {w}]

\* ... and a later transaction sets the hash, revokes every session ...
Redeem(w) ==
  /\ At(w, "redeem", "checked")
  /\ user[req[w].user].password < MaxPasswords
  /\ Change(w, SessionsOf(req[w].user))

\* ... and stamps the reset, whoever did so before.
RedeemCommit(w) ==
  /\ At(w, "redeem", "changing")
  /\ reset' = Redeemed(req[w].on, w)
  /\ SetHash(req[w].user, None)
  /\ Revoke(req[w].ends)
  /\ Done(w)
  /\ UNCHANGED factor

---------------------------------------------------------------------------
(* MFA factors *)

NewFactor(type, u) == [NoFactor EXCEPT !.type = type, !.user = u]

\* totp_setup: no unrevoked TOTP factor ...
SetupCheck(w) ==
  /\ At(w, "setup", "begun")
  /\ ActiveTotp(req[w].user) = {}
  /\ Advance(w, "checked")
  /\ UNCHANGED <<user, session, reset, factor>>

\* ... then the INSERT of a draft, which no constraint stops.
SetupInsert(w) ==
  /\ At(w, "setup", "checked")
  /\ \E f \in Factors :
       /\ factor[f] = NoFactor
       /\ factor' = [factor EXCEPT ![f] = NewFactor("totp", req[w].user)]
  /\ Done(w)
  /\ UNCHANGED <<user, session, reset>>

\* totp_confirm: the draft is read and the code checked ...
ConfirmRead(w, f) ==
  /\ At(w, "confirm_totp", "begun")
  /\ f \in ActiveTotp(req[w].user) /\ ~factor[f].confirmed
  /\ req' = [req EXCEPT ![w].phase = "checked", ![w].on = f]
  /\ UNCHANGED <<user, session, reset, factor>>

\* Faulty variant: the flag is left to the next login.
EnrolUnflagged(u) == user' = user

Enrol(u) == user' = [user EXCEPT ![u].enrolled = TRUE]

\* ... then one transaction promotes it, sets mfa_enrolled and inserts the codes.
ConfirmCommit(w) ==
  LET u == req[w].user IN
  /\ At(w, "confirm_totp", "checked")
  /\ \E codes \in SUBSET {f \in Factors : factor[f] = NoFactor} :
       /\ Cardinality(codes) = BackupCodes
       /\ factor' = [f \in Factors |->
            CASE f = req[w].on -> [factor[f] EXCEPT !.confirmed = TRUE]
              [] f \in codes -> NewFactor("backup_codes", u)
              [] OTHER -> factor[f]]
  /\ Enrol(u)
  /\ Done(w)
  /\ UNCHANGED <<session, reset>>

\* revoke_factor: the UPDATE ...
RevokeFactor(w, f) ==
  /\ At(w, "revoke_factor", "begun")
  /\ f \in FactorsOf(req[w].user) /\ ~factor[f].revoked
  /\ factor' = [factor EXCEPT ![f].revoked = TRUE]
  /\ Advance(w, "revoked")
  /\ UNCHANGED <<user, session, reset>>

\* ... whether a confirmed TOTP factor is left ...
StillEnrolled(w) ==
  /\ At(w, "revoke_factor", "revoked")
  /\ IF ConfirmedTotp(req[w].user) # {} THEN Done(w) ELSE Advance(w, "last")
  /\ UNCHANGED <<user, session, reset, factor>>

\* ... and if not, the flag, by an UPDATE that does not ask again.
ClearEnrolled(w) ==
  /\ At(w, "revoke_factor", "last")
  /\ user' = [user EXCEPT ![req[w].user].enrolled = FALSE]
  /\ Done(w)
  /\ UNCHANGED <<session, reset, factor>>

\* totp_verify: the code is that of a confirmed TOTP factor ...
VerifyTotp(w, f) ==
  /\ At(w, "verify", "begun")
  /\ f \in ConfirmedTotp(req[w].user)
  /\ req' = [req EXCEPT ![w].phase = "verified", ![w].on = f]
  /\ UNCHANGED <<user, session, reset, factor>>

\* ... or a backup code among the rows read, ...
VerifyBackup(w, f) ==
  /\ At(w, "verify", "begun")
  /\ f \in FactorsOf(req[w].user)
  /\ factor[f].type = "backup_codes" /\ ~factor[f].revoked
  /\ req' = [req EXCEPT ![w].phase = "matched", ![w].on = f]
  /\ UNCHANGED <<user, session, reset, factor>>

\* Faulty variant: the code is left for another time.
BurnNothing(w) ==
  /\ At(w, "verify", "matched")
  /\ Advance(w, "verified")
  /\ UNCHANGED <<user, session, reset, factor>>

\* ... which is burnt at once, by an UPDATE that commits by itself.
Burn(w) ==
  /\ At(w, "verify", "matched")
  /\ factor' = [factor EXCEPT ![req[w].on].revoked = TRUE]
  /\ Advance(w, "verified")
  /\ UNCHANGED <<user, session, reset>>

VerifyCommit(w) ==
  /\ At(w, "verify", "verified")
  /\ session' = [session EXCEPT ![req[w].session].verified = TRUE,
                                ![req[w].session].factor = req[w].on]
  /\ Done(w)
  /\ UNCHANGED <<user, reset, factor>>

---------------------------------------------------------------------------

\* A refusal, an error or a lost connection: what was committed stays.
Abort(w) ==
  /\ req[w] # NoReq
  /\ Done(w)
  /\ UNCHANGED <<user, session, reset, factor>>

ClientStep(w) ==
  \/ \E u \in Users : LoginRead(w, u)
  \/ LoginInsert(w)
  \/ \E s \in Sessions, op \in SessionOps : Begin(w, s, op)
  \/ SetPassword(w) \/ SetCommit(w) \/ Logout(w) \/ LogoutAll(w)
  \/ \E r \in Resets : RedeemRead(w, r)
  \/ Redeem(w) \/ RedeemCommit(w)
  \/ SetupCheck(w) \/ SetupInsert(w)
  \/ \E f \in Factors : \/ ConfirmRead(w, f) \/ RevokeFactor(w, f)
                        \/ VerifyTotp(w, f) \/ VerifyBackup(w, f)
  \/ ConfirmCommit(w) \/ StillEnrolled(w) \/ ClearEnrolled(w)
  \/ Burn(w) \/ VerifyCommit(w)

OperatorStep(w) ==
  \/ \E u \in Users : DisableRead(w, u) \/ IssueRead(w, u)
  \/ DisableCount(w) \/ DisableCommit(w)
  \/ IssueStamp(w) \/ IssueCommit(w)

\* The operations of one statement, by a slot that serves nothing else meanwhile.
Administer(w) ==
  /\ req[w] = NoReq
  /\ \E u \in Users :
       EnableUser(u) \/ \E role \in Roles : CreateUser(u, role) \/ UpdateUser(u, role)

Next ==
  \/ \E w \in Clients : ClientStep(w)
  \/ \E w \in Operators : OperatorStep(w) \/ Administer(w)
  \/ \E w \in Workers : Abort(w)

Spec == Init /\ [][Next]_vars

---------------------------------------------------------------------------
(* Properties *)

UserRow == [role : Roles \cup {"none"}, required : BOOLEAN, enrolled : BOOLEAN,
            disabled : BOOLEAN, password : 0 .. MaxPasswords, setBy : Sessions \cup {None}]
SessionRow == [state : {"none", "live", "revoked"}, user : Users \cup {None},
               verified : BOOLEAN, asked : BOOLEAN, factor : Factors \cup {None},
               under : 0 .. MaxPasswords, late : BOOLEAN]
ResetRow == [state : {"none", "pending", "used"}, user : Users \cup {None},
             issuer : Operators \cup {None}, redeemers : SUBSET Clients]
FactorRow == [type : {"none", "totp", "backup_codes"}, user : Users \cup {None},
              confirmed : BOOLEAN, revoked : BOOLEAN]
Ops == SessionOps \cup {"none", "disable", "issue", "login", "redeem"}
Phases == {"none", "begun", "owner", "checked", "stamped", "revoked", "last",
           "matched", "verified", "changing"}
Request == [op : Ops, phase : Phases,
            user : Users \cup {None}, session : Sessions \cup {None},
            on : Resets \cup Factors \cup {None}, seen : SUBSET Resets, ends : SUBSET Sessions,
            asked : BOOLEAN]

\* Every row and every request has its type.
TypeOK ==
  /\ user \in [Users -> UserRow]
  /\ session \in [Sessions -> SessionRow]
  /\ reset \in [Resets -> ResetRow]
  /\ factor \in [Factors -> FactorRow]
  /\ req \in [Workers -> Request]

\* A session that is live was inserted under the password its user has now, or is
\* the one that set it, or was inserted when a change of password had looked for the
\* sessions to end and not yet committed (auth.py, me.py).
LiveSessionsFollowPassword ==
  \A s \in Sessions : session[s].state = "live" =>
    LET u == user[session[s].user] IN
    session[s].under = u.password \/ u.setBy = s \/ session[s].late

\* A session opened by a login that was asked for MFA is verified only by a factor
\* of its own user: a TOTP factor that was confirmed, or a backup code that is spent
\* (auth.py, totp_verify).
VerifiedByFactor ==
  \A s \in Sessions : session[s].asked /\ session[s].verified =>
    \E f \in FactorsOf(session[s].user) :
      /\ f = session[s].factor
      /\ \/ factor[f].type = "totp" /\ factor[f].confirmed
         \/ factor[f].type = "backup_codes" /\ factor[f].revoked

\* A reset that was redeemed is used for good, and no request slot redeems it a
\* second time: overlapping requests can both succeed, later ones cannot
\* (auth.py, password_reset_confirm).
ResetsAreSpent ==
  \A r \in Resets : reset[r].redeemers # {} =>
    /\ reset[r].state = "used"
    /\ \A w \in Clients : req[w].op = "redeem" /\ req[w].on = r =>
         w \notin reset[r].redeemers

\* Of the resets one operator slot issued for a user at most one is pending: a new
\* one supersedes those issued before it began (tenant_users.py,
\* issue_password_reset).
OnePendingPerIssuer ==
  \A u \in Users : \A r, q \in Pending(u) : reset[r].issuer = reset[q].issuer => r = q

\* mfa_enrolled tells whether a user has a confirmed TOTP factor, as long as no
\* factor of theirs was revoked: only the revocation's separate statements can let
\* the two drift apart (me_mfa.py).
EnrolledUnlessRevoked ==
  \A u \in Users : (\A f \in FactorsOf(u) : ~factor[f].revoked) =>
    user[u].enrolled = (ConfirmedTotp(u) # {})

\* No step but a change of role takes a tenant's last active owner away
\* (tenant_users.py, disable_tenant_user).
OwnersOutliveDisable ==
  [][\A t \in Tenants :
       /\ ActiveOwners(t) # {}
       /\ \A u \in Users : user'[u].role = user[u].role
       => ActiveOwners(t)' # {}]_vars

\* What ends is final, whatever a request read before still goes on to write: a
\* revoked session, a used reset and a revoked factor stay so and with their user, no
\* confirmation is taken back and no earlier password returns (auth.py, me.py,
\* me_mfa.py, tenant_users.py).
EndedIsFinal ==
  [][/\ \A s \in Sessions : session[s].state = "revoked" =>
          session'[s].state = "revoked" /\ session'[s].user = session[s].user
     /\ \A r \in Resets : reset[r].state = "used" =>
          reset'[r].state = "used" /\ reset'[r].user = reset[r].user
     /\ \A f \in Factors : factor[f].user # None =>
          /\ factor'[f].user = factor[f].user
          /\ factor[f].revoked => factor'[f].revoked
          /\ factor[f].confirmed => factor'[f].confirmed
     /\ \A u \in Users : user[u].password <= user'[u].password]_vars
=============================================================================
