---------------------------- MODULE AdminSessions ----------------------------
(***************************************************************************)
(* One admin account, the sessions signed in on it and the refresh tokens  *)
(* that renew them (AuthService, SessionService, AdminJwtGuard), while a   *)
(* super admin changes the account (AdminUsersService).                    *)
(*                                                                         *)
(* Every handler reads a row, awaits (bcrypt, a second read, a signature)  *)
(* and then writes the columns that differ from the copy it read.  Any     *)
(* other request may run in between.  The account's writes and the         *)
(* revocation of its sessions that follows them are separate statements.   *)
(***************************************************************************)
EXTENDS Naturals, FiniteSets

CONSTANTS Session,
          Request,      \* requests in flight at once
          NoSession,
          Granted,      \* the roles the account is moved between
          MaxFailed,    \* MAX_FAILED_ATTEMPTS
          MaxTokens,    \* bound: refresh tokens minted per session
          MaxChanges    \* bound: changes that revoke the sessions

Role == {"super_admin", "underwriter", "funding", "agent", "read_only"}

\* Every role that may write anything at all.
OPERATORS == Role \ {"read_only"}

RoleMatrix ==
  [view |-> Role, notes |-> OPERATORS,
   edit |-> {"super_admin", "underwriter"},
   requestDocuments |-> {"super_admin", "underwriter"},
   casework |-> {"super_admin", "underwriter"},
   decide |-> {"super_admin", "underwriter"},
   fund |-> {"super_admin", "funding"},
   sendReviewInvitation |-> {"super_admin", "funding"},
   markCalledIn |-> {"super_admin", "agent"},
   resendEmail |-> {"super_admin", "agent"},
   reveal |-> {"super_admin"}, moderateReviews |-> {"super_admin"},
   manageUsers |-> {"super_admin"}]

\* What a role may do (roleCan, and RolesGuard on every guarded route).
Rights(role) == {c \in DOMAIN RoleMatrix : role \in RoleMatrix[c]}

ASSUME SessionAssumption == NoSession \notin Session
ASSUME GrantedAssumption == Granted \subseteq Role /\ Granted # {}
ASSUME BoundsAssumption  == /\ MaxFailed \in Nat \ {0}
                            /\ MaxTokens \in Nat \ {0}
                            /\ MaxChanges \in Nat

VARIABLES
  account,    \* the row of admin_users
  row,        \* the rows of admin_sessions
  minted,     \* refresh tokens minted for each session, numbered from 1
  jwt,        \* access tokens handed out
  challenge,  \* whether a sign-in challenge was handed out
  at,         \* a request's next step
  user,       \* the copy of the account a request has read
  held,       \* the session a request works on
  copy,       \* the copy of that session's row
  token,      \* the refresh token a request presents
  epoch,      \* history: changes of the account that revoke its sessions
  seen,       \* history: the epoch in which a request read the account
  overlapped, \* history: sessions created across such a change
  spent,      \* history: refresh tokens that have been exchanged
  misses      \* history, since the counter was last cleared: wrong passwords,
              \* and requests that wrote it after another had overtaken them

requestVars == <<at, user, held, copy, token, seen>>
vars == <<account, row, minted, jwt, challenge, requestVars, epoch,
          overlapped, spent, misses>>

\* lock: locked_until is null, in the past, or ahead.  A secret is stored
\* before it is confirmed; mfa_enabled says that it was.
Account == [is_active : BOOLEAN, role : Role, failed_attempts : Nat,
            lock : {"none", "past", "ahead"}, mfa_secret : BOOLEAN,
            mfa_enabled : BOOLEAN]

\* current and previous stand for the two hash columns, 0 for null; dated
\* for refresh_token_expires_at not null; over for expires_at in the past.
SessionRow == [made : BOOLEAN, revoked : BOOLEAN, over : BOOLEAN,
               current : Nat, previous : Nat, dated : BOOLEAN]

NewRow == [made |-> FALSE, revoked |-> FALSE, over |-> FALSE,
           current |-> 0, previous |-> 0, dated |-> FALSE]

NewAccount == [is_active |-> TRUE, role |-> CHOOSE g \in Granted : TRUE,
               failed_attempts |-> 0, lock |-> "none",
               mfa_secret |-> FALSE, mfa_enabled |-> FALSE]

\* The changed columns of a copy, written over whatever the row is now.
Save(now, read, set) ==
  [c \in DOMAIN now |-> IF c \in DOMAIN set /\ set[c] # read[c]
                        THEN set[c] ELSE now[c]]

live(s) == row[s].made /\ ~row[s].revoked

\* A request forgets what it read when it has no more use for it.
Leave(r, there) ==
  /\ at'    = [at EXCEPT ![r] = there]
  /\ user'  = [user EXCEPT ![r] = NewAccount]
  /\ held'  = [held EXCEPT ![r] = NoSession]
  /\ copy'  = [copy EXCEPT ![r] = NewRow]
  /\ token' = [token EXCEPT ![r] = 0]
  /\ seen'  = [seen EXCEPT ![r] = 0]

Done(r) == Leave(r, "idle")

Goto(r, there) == at' = [at EXCEPT ![r] = there]

ReadAccount(r) == /\ user' = [user EXCEPT ![r] = account]
                  /\ seen' = [seen EXCEPT ![r] = epoch]

\* The counter and the lock are written from a copy, and another request may
\* have written them since it was read.
NoMisses == [wrong |-> 0, overtaken |-> 0]

Overtaken(r) == \/ user[r].failed_attempts # account.failed_attempts
                \/ user[r].lock # account.lock

Misses(r, wrong) ==
  misses' = [wrong |-> misses.wrong + wrong,
             overtaken |-> IF Overtaken(r) THEN misses.overtaken + 1
                           ELSE misses.overtaken]

\* failed_attempts = 0, locked_until = null: a copy that counts nothing leaves
\* the counter as it is, and one that knows of no lock the lock.
ClearCounter(r) ==
  /\ account' = Save(account, user[r], [failed_attempts |-> 0, lock |-> "none"])
  /\ IF user[r].failed_attempts # 0 THEN misses' = NoMisses
     ELSE IF user[r].lock # "none" THEN Misses(r, 0) ELSE UNCHANGED misses

\* An account write that is followed by revokeAllForUser.
OwesRevocation(r) == /\ epoch < MaxChanges
                     /\ epoch' = epoch + 1
                     /\ Leave(r, "revoke_all")

-----------------------------------------------------------------------------
(* Sign-in, step one: the password *)

Login(r) ==
  /\ at[r] = "idle"
  /\ account.is_active
  /\ account.lock # "ahead"
  /\ ReadAccount(r)
  /\ Goto(r, "compare")
  /\ UNCHANGED <<account, row, minted, jwt, challenge, held, copy, token,
                 epoch, overlapped, spent, misses>>

\* bcrypt.compare fails: registerFailedAttempt.  (Mutant: the comparison of
\* the attempts with the limit is off by one.)
RegisterLate(r) ==
  LET attempts == user[r].failed_attempts + 1
      locks    == attempts > MaxFailed
  IN  /\ at[r] = "compare"
      /\ account' = Save(account, user[r],
                         [failed_attempts |-> attempts,
                          lock |-> IF locks THEN "ahead" ELSE "none"])
      /\ Misses(r, 1)
      /\ IF locks THEN OwesRevocation(r) ELSE Done(r) /\ UNCHANGED epoch
      /\ UNCHANGED <<row, minted, jwt, challenge, overlapped, spent>>

RegisterFailedAttempt(r) ==
  LET attempts == user[r].failed_attempts + 1
      locks    == attempts >= MaxFailed
  IN  /\ at[r] = "compare"
      /\ account' = Save(account, user[r],
                         [failed_attempts |-> attempts,
                          lock |-> IF locks THEN "ahead" ELSE "none"])
      /\ Misses(r, 1)
      /\ IF locks THEN OwesRevocation(r) ELSE Done(r) /\ UNCHANGED epoch
      /\ UNCHANGED <<row, minted, jwt, challenge, overlapped, spent>>

\* bcrypt.compare succeeds: the counter is cleared, and the copy decides
\* which second factor is asked for.
PasswordMatches(r) ==
  /\ at[r] = "compare"
  /\ ClearCounter(r)
  /\ IF user[r].mfa_enabled /\ user[r].mfa_secret
     THEN challenge' = TRUE /\ Done(r)
     ELSE /\ Goto(r, "enroll")
          /\ UNCHANGED <<challenge, user, held, copy, token, seen>>
  /\ UNCHANGED <<row, minted, jwt, epoch, overlapped, spent>>

BeginEnrollment(r) ==
  /\ at[r] = "enroll"
  /\ account' = Save(account, user[r],
                     [mfa_secret |-> TRUE, mfa_enabled |-> FALSE])
  /\ challenge' = TRUE
  /\ Done(r)
  /\ UNCHANGED <<row, minted, jwt, epoch, overlapped, spent, misses>>

-----------------------------------------------------------------------------
(* Sign-in, step two: the code *)

\* A challenge may be used again, and at either stage.
VerifyMfa(r) ==
  /\ at[r] = "idle"
  /\ challenge
  /\ account.is_active
  /\ account.mfa_secret
  /\ ReadAccount(r)
  /\ Goto(r, "create")
  /\ UNCHANGED <<account, row, minted, jwt, challenge, held, copy, token,
                 epoch, overlapped, spent, misses>>

CreateSession(r) ==
  /\ at[r] = "create"
  /\ \E s \in Session :
       /\ ~row[s].made
       /\ row'  = [row EXCEPT ![s].made = TRUE]
       /\ held' = [held EXCEPT ![r] = s]
       /\ copy' = [copy EXCEPT ![r] = row'[s]]
       /\ overlapped' = IF seen[r] = epoch THEN overlapped
                        ELSE overlapped \cup {s}
  /\ Goto(r, "issue")
  /\ UNCHANGED <<account, minted, jwt, challenge, user, token, seen, epoch,
                 spent, misses>>

\* The access token carries the role of the account as it was read.
BuildSuccess(r) == jwt' = jwt \cup {[sid |-> held[r], role |-> user[r].role]}

\* issueRefreshToken, then buildSuccess.
IssueRefreshToken(r) ==
  LET s == held[r]
  IN  /\ at[r] = "issue"
      /\ minted' = [minted EXCEPT ![s] = @ + 1]
      /\ row' = [row EXCEPT ![s] =
                   Save(row[s], copy[r], [current |-> minted'[s],
                                          previous |-> 0, dated |-> TRUE])]
      /\ IF user[r].mfa_enabled THEN BuildSuccess(r) /\ Done(r)
         ELSE /\ Goto(r, "enable")
              /\ UNCHANGED <<jwt, user, held, copy, token, seen>>
      /\ UNCHANGED <<account, challenge, epoch, overlapped, spent, misses>>

EnableMfa(r) ==
  /\ at[r] = "enable"
  /\ account' = [account EXCEPT !.mfa_enabled = TRUE]
  /\ BuildSuccess(r)
  /\ Done(r)
  /\ UNCHANGED <<row, minted, challenge, epoch, overlapped, spent, misses>>

-----------------------------------------------------------------------------
(* Revocation *)

REVOKED_FIELDS == [current |-> 0, previous |-> 0, dated |-> FALSE]

\* Conditional on revoked_at IS NULL, whatever anybody has read.
RevokeRows(S) ==
  row' = [s \in Session |-> IF s \in S /\ live(s)
                            THEN [row[s] EXCEPT !.revoked = TRUE, !.current = 0,
                                                !.previous = 0, !.dated = FALSE]
                            ELSE row[s]]

RevokeAllForUser(r) ==
  /\ at[r] \in {"revoke_all", "revoke_replayed"}
  /\ RevokeRows(Session)
  /\ Done(r)
  /\ UNCHANGED <<account, minted, jwt, challenge, epoch, overlapped, spent, misses>>

\* Of the row that was read, whatever has become of it.
Revoke(r) ==
  LET s == held[r]
  IN  /\ at[r] = "revoke"
      /\ row' = [row EXCEPT ![s] =
                   [Save(row[s], copy[r], REVOKED_FIELDS)
                      EXCEPT !.revoked = TRUE]]
      /\ Done(r)
      /\ UNCHANGED <<account, minted, jwt, challenge, epoch, overlapped,
                     spent, misses>>

\* Where assertUsable leads with the row as it is now: a session presented
\* from elsewhere is killed, and which address calls is up to the caller.
AssertUsable(r, s, next) ==
  IF row[s].revoked THEN Done(r)
  ELSE /\ \/ row[s].over /\ Goto(r, "revoke")
          \/ Goto(r, "revoke")
          \/ ~row[s].over /\ Goto(r, next)
       /\ held' = [held EXCEPT ![r] = s]
       /\ copy' = [copy EXCEPT ![r] = row[s]]
       /\ UNCHANGED <<user, token, seen>>

-----------------------------------------------------------------------------
(* Renewal *)

\* consumeRefreshToken: a token that matches no current hash goes on to
\* detectReuse, one on a row without an expiry date is refused.
ConsumeRefreshToken(r) ==
  /\ at[r] = "idle"
  /\ \E s \in Session : \E t \in 1..minted[s] :
       IF row[s].current # t
       THEN /\ Goto(r, "detect")
            /\ held'  = [held EXCEPT ![r] = s]
            /\ token' = [token EXCEPT ![r] = t]
            /\ UNCHANGED <<user, copy, seen>>
       ELSE IF ~row[s].dated
       THEN /\ Goto(r, "revoke")
            /\ held' = [held EXCEPT ![r] = s]
            /\ copy' = [copy EXCEPT ![r] = row[s]]
            /\ UNCHANGED <<user, token, seen>>
       ELSE AssertUsable(r, s, "load")
  /\ UNCHANGED <<account, row, minted, jwt, challenge, epoch, overlapped,
                 spent, misses>>

DetectReuse(r) ==
  /\ at[r] = "detect"
  /\ IF row[held[r]].previous = token[r]
     THEN Leave(r, "revoke_replayed")
     ELSE Done(r)
  /\ UNCHANGED <<account, row, minted, jwt, challenge, epoch, overlapped,
                 spent, misses>>

\* refresh: the account as it is now decides, not as it was at sign-in.
Refresh(r) ==
  /\ at[r] = "load"
  /\ ReadAccount(r)
  /\ IF account.is_active THEN Goto(r, "rotate") ELSE Goto(r, "revoke")
  /\ UNCHANGED <<account, row, minted, jwt, challenge, held, copy, token,
                 epoch, overlapped, spent, misses>>

\* (Mutants: the two hashes are swapped; the whole copy is written back.)
RotateSwapped(r) ==
  LET s == held[r]
  IN  /\ at[r] = "rotate"
      /\ minted[s] < MaxTokens
      /\ minted' = [minted EXCEPT ![s] = @ + 1]
      /\ row' = [row EXCEPT ![s] =
                   Save(row[s], copy[r], [previous |-> minted'[s],
                                          current |-> copy[r].current])]
      /\ spent' = spent \cup {<<s, copy[r].current>>}
      /\ BuildSuccess(r)
      /\ Done(r)
      /\ UNCHANGED <<account, challenge, epoch, overlapped, misses>>

RotateWholeRow(r) ==
  LET s == held[r]
  IN  /\ at[r] = "rotate"
      /\ minted[s] < MaxTokens
      /\ minted' = [minted EXCEPT ![s] = @ + 1]
      /\ row' = [row EXCEPT ![s] = [copy[r] EXCEPT !.previous = @,
                                                   !.current = minted'[s]]]
      /\ spent' = spent \cup {<<s, copy[r].current>>}
      /\ BuildSuccess(r)
      /\ Done(r)
      /\ UNCHANGED <<account, challenge, epoch, overlapped, misses>>

RotateRefreshToken(r) ==
  LET s == held[r]
  IN  /\ at[r] = "rotate"
      /\ minted[s] < MaxTokens
      /\ minted' = [minted EXCEPT ![s] = @ + 1]
      /\ row' = [row EXCEPT ![s] =
                   Save(row[s], copy[r], [previous |-> copy[r].current,
                                          current |-> minted'[s],
                                          dated |-> TRUE])]
      /\ spent' = spent \cup {<<s, copy[r].current>>}
      /\ BuildSuccess(r)
      /\ Done(r)
      /\ UNCHANGED <<account, challenge, epoch, overlapped, misses>>

-----------------------------------------------------------------------------
(* A request of the signed-in admin *)

\* canActivate: the signature, then touch.  A refused request changes at most
\* the session.
CanActivate(r) ==
  /\ at[r] = "idle"
  /\ \E j \in jwt : AssertUsable(r, j.sid, "inside")
  /\ UNCHANGED <<account, row, minted, jwt, challenge, epoch, overlapped,
                 spent, misses>>

\* RolesGuard goes by the role in the token.  User management is the one
\* guarded route that changes what is modelled here.
RolesGuard(r) ==
  /\ at[r] = "idle"
  /\ \E j \in jwt : /\ "manageUsers" \in Rights(j.role)
                    /\ AssertUsable(r, j.sid, "find")
  /\ UNCHANGED <<account, row, minted, jwt, challenge, epoch, overlapped,
                 spent, misses>>

Logout(r) ==
  /\ at[r] = "inside"
  /\ RevokeRows({held[r]})
  /\ Done(r)
  /\ UNCHANGED <<account, minted, jwt, challenge, epoch, overlapped, spent, misses>>

\* assertPassword: the current password is asked for again, and a wrong one
\* is not counted.
AssertPassword(r) ==
  /\ at[r] = "inside"
  /\ IF account.is_active
     THEN Goto(r, "change") /\ UNCHANGED <<user, held, copy, token, seen>>
     ELSE Done(r)
  /\ UNCHANGED <<account, row, minted, jwt, challenge, epoch, overlapped,
                 spent, misses>>

\* The new hash is not a column any property here tells apart.
ChangePassword(r) ==
  /\ at[r] = "change"
  /\ OwesRevocation(r)
  /\ UNCHANGED <<account, row, minted, jwt, challenge, overlapped, spent, misses>>

-----------------------------------------------------------------------------
(* A super admin changes the account *)

\* By another super admin, or by this one.
FindOrFail(r) ==
  /\ at[r] \in {"idle", "find"}
  /\ ReadAccount(r)
  /\ Goto(r, "manage")
  /\ UNCHANGED <<account, row, minted, jwt, challenge, held, copy, token,
                 epoch, overlapped, spent, misses>>

\* (Mutant: only a deactivation revokes the sessions.)
UpdateOnlyDeactivation(r) ==
  /\ at[r] = "manage"
  /\ \E role \in Granted, active \in BOOLEAN :
       /\ account' = Save(account, user[r], [role |-> role, is_active |-> active])
       /\ IF ~active /\ user[r].is_active
          THEN OwesRevocation(r)
          ELSE Done(r) /\ UNCHANGED epoch
  /\ UNCHANGED <<row, minted, jwt, challenge, overlapped, spent, misses>>

Update(r) ==
  /\ at[r] = "manage"
  /\ \E role \in Granted, active \in BOOLEAN :
       /\ account' = Save(account, user[r], [role |-> role, is_active |-> active])
       /\ IF role # user[r].role \/ (~active /\ user[r].is_active)
          THEN OwesRevocation(r)
          ELSE Done(r) /\ UNCHANGED epoch
  /\ UNCHANGED <<row, minted, jwt, challenge, overlapped, spent, misses>>

Unlock(r) ==
  /\ at[r] = "manage"
  /\ ClearCounter(r)
  /\ Done(r)
  /\ UNCHANGED <<row, minted, jwt, challenge, epoch, overlapped, spent>>

ResetMfa(r) ==
  /\ at[r] = "manage"
  /\ account' = Save(account, user[r], [mfa_secret |-> FALSE,
                                        mfa_enabled |-> FALSE])
  /\ OwesRevocation(r)
  /\ UNCHANGED <<row, minted, jwt, challenge, overlapped, spent, misses>>

ResetPassword(r) ==
  /\ at[r] = "manage"
  /\ ClearCounter(r)
  /\ OwesRevocation(r)
  /\ UNCHANGED <<row, minted, jwt, challenge, overlapped, spent>>

-----------------------------------------------------------------------------
(* Time.  Access tokens and challenges do not expire here: they allow more    *)
(* this way than in the code, where they last minutes.                        *)

\* LOCKOUT_MS after the lock.
LockoutPasses ==
  /\ account.lock = "ahead"
  /\ account' = [account EXCEPT !.lock = "past"]
  /\ misses' = NoMisses
  /\ UNCHANGED <<row, minted, jwt, challenge, requestVars, epoch, overlapped, spent>>

\* ABSOLUTE_SESSION_MS after the sign-in.  IDLE_TIMEOUT_MS is no shorter, so
\* the idle rule never fires first.
TwoHoursPass(s) ==
  /\ live(s)
  /\ ~row[s].over
  /\ row' = [row EXCEPT ![s].over = TRUE]
  /\ UNCHANGED <<account, minted, jwt, challenge, requestVars, epoch,
                 overlapped, spent, misses>>

-----------------------------------------------------------------------------
Init ==
  /\ account = NewAccount
  /\ row     = [s \in Session |-> NewRow]
  /\ minted  = [s \in Session |-> 0]
  /\ jwt = {} /\ challenge = FALSE
  /\ at    = [r \in Request |-> "idle"]
  /\ user  = [r \in Request |-> NewAccount]
  /\ held  = [r \in Request |-> NoSession]
  /\ copy  = [r \in Request |-> NewRow]
  /\ token = [r \in Request |-> 0]
  /\ seen  = [r \in Request |-> 0]
  /\ epoch = 0 /\ overlapped = {} /\ spent = {} /\ misses = NoMisses

SignIn(r) == \/ Login(r) \/ RegisterFailedAttempt(r) \/ PasswordMatches(r)
             \/ BeginEnrollment(r) \/ VerifyMfa(r) \/ CreateSession(r)
             \/ IssueRefreshToken(r) \/ EnableMfa(r)

Renew(r) == \/ ConsumeRefreshToken(r) \/ DetectReuse(r) \/ Refresh(r)
            \/ RotateRefreshToken(r)

Use(r) == \/ CanActivate(r) \/ RolesGuard(r) \/ Logout(r)
          \/ AssertPassword(r) \/ ChangePassword(r)

Manage(r) == \/ FindOrFail(r) \/ Update(r) \/ Unlock(r) \/ ResetMfa(r)
             \/ ResetPassword(r)

TimePasses == LockoutPasses \/ \E s \in Session : TwoHoursPass(s)

Next == \/ \E r \in Request : \/ SignIn(r) \/ Renew(r) \/ Use(r) \/ Manage(r)
                              \/ RevokeAllForUser(r) \/ Revoke(r)
        \/ TimePasses

Spec == Init /\ [][Next]_vars

-----------------------------------------------------------------------------
Step == {"idle", "compare", "enroll", "create", "issue", "enable", "detect",
         "load", "rotate", "revoke", "revoke_all", "revoke_replayed",
         "inside", "find", "change", "manage"}

\* Every variable has its type, and a session that does not exist is blank.
TypeOK ==
  /\ account \in Account
  /\ row \in [Session -> SessionRow]
  /\ minted \in [Session -> Nat]
  /\ jwt \subseteq [sid : Session, role : Role]
  /\ challenge \in BOOLEAN
  /\ at \in [Request -> Step]
  /\ user \in [Request -> Account]
  /\ held \in [Request -> Session \cup {NoSession}]
  /\ copy \in [Request -> SessionRow]
  /\ token \in [Request -> Nat]
  /\ seen \in [Request -> Nat]
  /\ epoch \in Nat /\ misses \in [wrong : Nat, overtaken : Nat]
  /\ overlapped \subseteq Session
  /\ spent \subseteq Session \X Nat
  /\ \A s \in Session : ~row[s].made => row[s] = NewRow /\ minted[s] = 0

Revoking == \E r \in Request : at[r] = "revoke_all"

\* AdminUsersService.update: a change of role or a deactivation takes effect at
\* once.  An access token of a live session gives the rights its admin has now,
\* and none is of an inactive account, except while the revocation is on its way
\* and on a session whose sign-in ran across a change.  A refresh that runs
\* across one is no such exception.
RightsAreCurrent ==
  \A j \in jwt : live(j.sid) =>
    \/ account.is_active /\ Rights(j.role) = Rights(account.role)
    \/ j.sid \in overlapped \/ Revoking

\* SessionService.revoke and its siblings: a revoked session stays revoked,
\* whatever a request that read the row before may still write.  (A part of
\* what FollowsRefreshFamily says.)
RevokedForGood == [][\A s \in Session : row[s].revoked => row'[s].revoked]_vars

\* What a row is to whoever presents a refresh token: after its revocation or
\* its two hours it answers to none, whatever hash it carries.
Phase(s) == IF ~row[s].made THEN "unopened"
            ELSE IF row[s].revoked THEN "revoked"
            ELSE IF row[s].over THEN "expired"
            ELSE "open"

Accepts(s) == IF Phase(s) = "open" THEN row[s].current ELSE 0

Family == INSTANCE RefreshFamily
            WITH phase <- [s \in Session |-> Phase(s)],
                 accepts <- [s \in Session |-> Accepts(s)]

\* SessionService: the rows implement sessions that accept one token at a time,
\* never an older one again, and none once they have ended, and that stay
\* revoked, however sign-ins, exchanges and revocations write over each other.
FollowsRefreshFamily == Family!Spec

CurrentIsUnspent ==
  \A s \in Session : <<s, row[s].current>> \notin spent

\* rotateRefreshToken: the token a row accepts has never been exchanged, also
\* when two exchanges of one token overlap, and every row is one the columns
\* allow.
SessionsAreSound == TypeOK /\ CurrentIsUnspent

\* registerFailedAttempt: MaxFailed wrong passwords lock the account if they come
\* one at a time.  Requests in parallel write over each other's count, may lower
\* it and may even lift a lock; every one that is overtaken so costs at most
\* another MaxFailed guesses.
GuessesAreBounded ==
  account.lock # "ahead" => misses.wrong < MaxFailed * (misses.overtaken + 1)
=============================================================================
