------------------------- MODULE AdminSessions_proofs -------------------------
(***************************************************************************)
(* The theorems about AdminSessions: what its rows and refresh tokens keep *)
(* however requests overlap, for any sessions, requests and limits.        *)
(***************************************************************************)
EXTENDS AdminSessions, TLAPS

\* A request that has come this far works on a session that exists.
Owning == {"issue", "enable", "load", "rotate", "revoke"}

HeldIsMade ==
  \A r \in Request : at[r] \in Owning =>
    held[r] \in Session /\ row[held[r]].made

TokensAreOfSessions == \A j \in jwt : row[j.sid].made

\* A row's token has been minted, and so has the one a request has seen there.
CurrentIsMinted == \A s \in Session : row[s].current <= minted[s]

CopyIsMinted ==
  \A r \in Request :
    /\ at[r] \in {"issue", "load", "rotate"} => copy[r].current <= minted[held[r]]
    /\ at[r] \in {"load", "rotate"} => copy[r].current # 0

SpentIsMinted ==
  \A p \in spent : p[2] # 0 /\ p[2] <= minted[p[1]]

IInv == /\ TypeOK
        /\ HeldIsMade
        /\ TokensAreOfSessions
        /\ CurrentIsMinted
        /\ CopyIsMinted
        /\ SpentIsMinted
        /\ CurrentIsUnspent

\* The account is active, and in this role.
Holds(role) == account.is_active /\ role = account.role

\* What may be said of a session under a role its admin has not, or no more.
Excused(s, role) ==
  live(s) => Holds(role) \/ s \in overlapped \/ Revoking

\* On the way to an access token a request carries the role it has read.
Bearing == {"issue", "enable", "rotate"}

RightsInv ==
  /\ \A r \in Request :
       /\ seen[r] <= epoch
       /\ at[r] = "create" /\ seen[r] = epoch => Holds(user[r].role)
       /\ at[r] \in Bearing => Excused(held[r], user[r].role)
  /\ \A j \in jwt : Excused(j.sid, j.role)
-----------------------------------------------------------------------------
(* Rows and copies *)

LEMMA BlanksTyped == NewAccount \in Account /\ NewRow \in SessionRow
<1>1. (CHOOSE g \in Granted : TRUE) \in Role  BY GrantedAssumption
<1> QED  BY <1>1 DEF NewAccount, Account, NewRow, SessionRow

\* What a write of changed columns makes of an account.
Missed == [wrong : Nat, overtaken : Nat]

LEMMA MissesTyped ==
  ASSUME TypeOK, NEW r \in Request, NEW wrong \in {0, 1}, Misses(r, wrong)
  PROVE  /\ misses' \in Missed
         /\ misses'.wrong = misses.wrong + wrong
         /\ misses'.overtaken = IF Overtaken(r) THEN misses.overtaken + 1
                                ELSE misses.overtaken
BY DEF Misses, Missed, TypeOK

LEMMA SaveAccount ==
  ASSUME NEW now \in Account, NEW read \in Account
  PROVE  /\ \A n \in Nat, l \in {"none", "ahead"} :
              Save(now, read, [failed_attempts |-> n, lock |-> l]) \in Account
         /\ \A secret, enabled \in BOOLEAN :
              Save(now, read, [mfa_secret |-> secret,
                               mfa_enabled |-> enabled]) \in Account
         /\ \A role \in Role, active \in BOOLEAN :
              Save(now, read, [role |-> role, is_active |-> active]) \in Account
<1>1. ASSUME NEW n \in Nat, NEW l \in {"none", "ahead"}
      PROVE  Save(now, read, [failed_attempts |-> n, lock |-> l]) \in Account
  BY <1>1 DEF Save, Account
<1>2. ASSUME NEW secret \in BOOLEAN, NEW enabled \in BOOLEAN
      PROVE  Save(now, read, [mfa_secret |-> secret,
                              mfa_enabled |-> enabled]) \in Account
  BY <1>2 DEF Save, Account
<1>3. ASSUME NEW role \in Role, NEW active \in BOOLEAN
      PROVE  Save(now, read, [role |-> role, is_active |-> active]) \in Account
  BY <1>3 DEF Save, Account
<1> QED  BY <1>1, <1>2, <1>3

LEMMA ClearTyped ==
  ASSUME TypeOK, NEW r \in Request, ClearCounter(r)
  PROVE  account' \in Account /\ misses' \in Missed
<1>1. account' \in Account  BY SaveAccount DEF ClearCounter, TypeOK
<1>2. misses \in Missed /\ NoMisses \in Missed
  BY DEF TypeOK, Missed, NoMisses
<1> QED  BY <1>1, <1>2, MissesTyped DEF ClearCounter

\* What the writes of issueRefreshToken and rotateRefreshToken make of a row.
LEMMA SaveTokens ==
  ASSUME NEW now \in SessionRow, NEW read \in SessionRow,
         NEW n \in Nat, NEW p \in Nat, n # read.current,
         NEW written,
         written = Save(now, read, [previous |-> p, current |-> n, dated |-> TRUE])
  PROVE  /\ written \in SessionRow
         /\ written.made = now.made
         /\ written.revoked = now.revoked
         /\ written.current = n
  BY DEF Save, SessionRow

LEMMA SaveRevocation ==
  ASSUME NEW now \in SessionRow, NEW read \in SessionRow
  PROVE  /\ Save(now, read, REVOKED_FIELDS) \in SessionRow
         /\ Save(now, read, REVOKED_FIELDS).made = now.made
         /\ Save(now, read, REVOKED_FIELDS).current \in {0, now.current}
  BY DEF Save, SessionRow, REVOKED_FIELDS

-----------------------------------------------------------------------------
(* The requests' own variables *)

RequestTyped == /\ at \in [Request -> Step]
                /\ user \in [Request -> Account]
                /\ held \in [Request -> Session \cup {NoSession}]
                /\ copy \in [Request -> SessionRow]
                /\ token \in [Request -> Nat]
                /\ seen \in [Request -> Nat]

\* The other requests stay where they are.
Alone(r) == \A q \in Request \ {r} :
              at'[q] = at[q] /\ held'[q] = held[q] /\ copy'[q] = copy[q]

LEMMA LeaveTyped ==
  ASSUME TypeOK, NEW r \in Request, NEW there \in Step, Leave(r, there)
  PROVE  RequestTyped' /\ Alone(r) /\ at'[r] = there
  BY BlanksTyped DEF TypeOK, Leave, RequestTyped, Alone

LEMMA DoneTyped ==
  ASSUME TypeOK, NEW r \in Request, Done(r)
  PROVE  RequestTyped' /\ Alone(r) /\ at'[r] = "idle"
  BY LeaveTyped DEF Done, Step

LEMMA GotoTyped ==
  ASSUME TypeOK, NEW r \in Request, NEW there \in Step, Goto(r, there),
         UNCHANGED <<user, held, copy, token, seen>>
  PROVE  RequestTyped' /\ Alone(r) /\ at'[r] = there
  BY DEF TypeOK, Goto, RequestTyped, Alone

LEMMA ReadTyped ==
  ASSUME TypeOK, NEW r \in Request, NEW there \in Step, Goto(r, there),
         ReadAccount(r), UNCHANGED <<held, copy, token>>
  PROVE  RequestTyped' /\ Alone(r) /\ at'[r] = there
  BY DEF TypeOK, Goto, ReadAccount, RequestTyped, Alone

LEMMA OwesTyped ==
  ASSUME TypeOK, NEW r \in Request, OwesRevocation(r)
  PROVE  RequestTyped' /\ Alone(r) /\ at'[r] = "revoke_all" /\ epoch' \in Nat
  BY LeaveTyped DEF TypeOK, OwesRevocation, Step

LEMMA UsableTyped ==
  ASSUME TypeOK, NEW r \in Request, NEW s \in Session, NEW next \in Step,
         AssertUsable(r, s, next)
  PROVE  /\ RequestTyped' /\ Alone(r)
         /\ \/ at'[r] = "idle"
            \/ /\ at'[r] \in {"revoke", next}
               /\ held'[r] = s /\ copy'[r] = row[s]
<1>1. CASE row[s].revoked
  BY <1>1, DoneTyped DEF AssertUsable
<1>2. CASE ~row[s].revoked
  <2>1. PICK there \in {"revoke", next} : Goto(r, there)
    BY <1>2 DEF AssertUsable
  <2> QED
    BY <1>2, <2>1 DEF AssertUsable, Goto, TypeOK, RequestTyped, Alone, Step
<1> QED  BY <1>1, <1>2

-----------------------------------------------------------------------------
(* Steps that write no session row *)

\* A request that goes on with nothing in hand disturbs nothing.
LEMMA AsideKeeps ==
  ASSUME IInv, NEW r \in Request, Alone(r), at'[r] \notin Owning, TypeOK',
         UNCHANGED <<row, minted, jwt, spent>>
  PROVE  IInv'
<1> USE DEF IInv
<1>1. HeldIsMade'  BY DEF HeldIsMade, Alone
<1>2. TokensAreOfSessions'  BY DEF TokensAreOfSessions
<1>3. CurrentIsMinted'  BY DEF CurrentIsMinted
<1>4. CopyIsMinted'  BY DEF CopyIsMinted, Alone, Owning
<1>5. SpentIsMinted'  BY DEF SpentIsMinted
<1>6. CurrentIsUnspent'  BY DEF CurrentIsUnspent
<1> QED  BY <1>1, <1>2, <1>3, <1>4, <1>5, <1>6

\* A request that takes a session in hand, and its row as it is now.
LEMMA TakingKeeps ==
  ASSUME IInv, NEW r \in Request, NEW s \in Session, Alone(r), TypeOK',
         row[s].made, held'[r] = s, copy'[r] = row[s],
         at'[r] = "load" => row[s].current # 0,
         at'[r] \notin {"issue", "enable", "rotate"},
         UNCHANGED <<row, minted, jwt, spent>>
  PROVE  IInv'
<1> USE DEF IInv
<1>1. HeldIsMade'  BY DEF HeldIsMade, Alone
<1>2. TokensAreOfSessions'  BY DEF TokensAreOfSessions
<1>3. CurrentIsMinted'  BY DEF CurrentIsMinted
<1>4. CopyIsMinted'
  BY DEF CopyIsMinted, CurrentIsMinted, HeldIsMade, Alone, Owning
<1>5. SpentIsMinted'  BY DEF SpentIsMinted
<1>6. CurrentIsUnspent'  BY DEF CurrentIsUnspent
<1> QED  BY <1>1, <1>2, <1>3, <1>4, <1>5, <1>6

\* The steps of a sign-in up to the session, and a super admin's changes.
LEMMA AccountSteps ==
  ASSUME IInv, NEW r \in Request,
         \/ Login(r) \/ RegisterFailedAttempt(r) \/ PasswordMatches(r)
         \/ BeginEnrollment(r) \/ VerifyMfa(r) \/ FindOrFail(r) \/ Update(r)
         \/ Unlock(r) \/ ResetMfa(r) \/ ResetPassword(r)
         \/ AssertPassword(r) \/ ChangePassword(r)
  PROVE  IInv'
<1> USE DEF IInv
<1>1. /\ RequestTyped' /\ Alone(r) /\ at'[r] \notin Owning
      /\ epoch' \in Nat
  <2>1. CASE Login(r)
    BY <2>1, ReadTyped DEF Login, Owning, Step, TypeOK
  <2>2. CASE RegisterFailedAttempt(r)
    BY <2>2, DoneTyped, OwesTyped DEF RegisterFailedAttempt, Owning, TypeOK
  <2>3. CASE PasswordMatches(r)
    BY <2>3, DoneTyped, GotoTyped DEF PasswordMatches, Owning, Step, TypeOK
  <2>4. CASE BeginEnrollment(r)
    BY <2>4, DoneTyped DEF BeginEnrollment, Owning, TypeOK
  <2>5. CASE VerifyMfa(r)
    BY <2>5, ReadTyped DEF VerifyMfa, Owning, Step, TypeOK
  <2>6. CASE FindOrFail(r)
    BY <2>6, ReadTyped DEF FindOrFail, Owning, Step, TypeOK
  <2>7. CASE Update(r)
    BY <2>7, DoneTyped, OwesTyped DEF Update, Owning, TypeOK
  <2>8. CASE Unlock(r)
    BY <2>8, DoneTyped DEF Unlock, Owning, TypeOK
  <2>9. CASE ResetMfa(r)
    BY <2>9, OwesTyped DEF ResetMfa, Owning
  <2>10. CASE ResetPassword(r)
    BY <2>10, OwesTyped DEF ResetPassword, Owning
  <2>11. CASE AssertPassword(r)
    BY <2>11, DoneTyped, GotoTyped DEF AssertPassword, Owning, Step, TypeOK
  <2>12. CASE ChangePassword(r)
    BY <2>12, OwesTyped DEF ChangePassword, Owning
  <2> QED
    BY <2>1, <2>2, <2>3, <2>4, <2>5, <2>6, <2>7, <2>8, <2>9, <2>10, <2>11, <2>12
<1>2. /\ account' \in Account /\ misses' \in Missed /\ challenge' \in BOOLEAN
      /\ UNCHANGED <<row, minted, jwt, spent, overlapped>>
  <2> USE SaveAccount DEF TypeOK, Missed
  <2>1. CASE Login(r)  BY <2>1 DEF Login
  <2>2. CASE RegisterFailedAttempt(r)
    <3> DEFINE attempts == user[r].failed_attempts + 1
               lock     == IF attempts >= MaxFailed THEN "ahead" ELSE "none"
    <3>1. /\ account' = Save(account, user[r], [failed_attempts |-> attempts,
                                                lock |-> lock])
          /\ Misses(r, 1) /\ challenge' = challenge
          /\ UNCHANGED <<row, minted, jwt, spent, overlapped>>
      BY <2>2 DEF RegisterFailedAttempt
    <3>2. attempts \in Nat /\ lock \in {"none", "ahead"}  BY DEF Account
    <3>3. \A n \in Nat, l \in {"none", "ahead"} :
            Save(account, user[r], [failed_attempts |-> n, lock |-> l]) \in Account
      OBVIOUS
    <3>4. misses' \in Missed  BY <3>1, MissesTyped
    <3> HIDE DEF attempts, lock
    <3> QED  BY <3>1, <3>2, <3>3, <3>4
  <2>3. CASE PasswordMatches(r)
    BY <2>3, ClearTyped DEF PasswordMatches
  <2>4. CASE BeginEnrollment(r)  BY <2>4 DEF BeginEnrollment
  <2>5. CASE VerifyMfa(r)  BY <2>5 DEF VerifyMfa
  <2>6. CASE FindOrFail(r)  BY <2>6 DEF FindOrFail
  <2>7. CASE Update(r)  BY <2>7, GrantedAssumption DEF Update
  <2>8. CASE Unlock(r)  BY <2>8, ClearTyped DEF Unlock
  <2>9. CASE ResetMfa(r)  BY <2>9 DEF ResetMfa
  <2>10. CASE ResetPassword(r)  BY <2>10, ClearTyped DEF ResetPassword
  <2>11. CASE AssertPassword(r)  BY <2>11 DEF AssertPassword
  <2>12. CASE ChangePassword(r)  BY <2>12 DEF ChangePassword
  <2> QED
    BY <2>1, <2>2, <2>3, <2>4, <2>5, <2>6, <2>7, <2>8, <2>9, <2>10, <2>11, <2>12
<1>3. TypeOK'  BY <1>1, <1>2 DEF TypeOK, Missed, RequestTyped
<1> QED  BY <1>1, <1>2, <1>3, AsideKeeps

\* The reads of a session row by a refresh and by the guard.
LEMMA ReadingSteps ==
  ASSUME IInv, NEW r \in Request,
         \/ ConsumeRefreshToken(r) \/ DetectReuse(r)
         \/ CanActivate(r) \/ RolesGuard(r)
  PROVE  IInv'
<1> USE DEF IInv
<1>1. UNCHANGED <<account, row, minted, jwt, challenge, epoch, overlapped,
                  spent, misses>>
  BY DEF ConsumeRefreshToken, DetectReuse, CanActivate, RolesGuard
<1>2. ASSUME RequestTyped'  PROVE TypeOK'
  BY <1>1, <1>2 DEF TypeOK, RequestTyped
<1>3. ASSUME NEW s \in Session, row[s].made,
             NEW next \in {"load", "inside", "find"},
             next = "load" => row[s].current # 0, AssertUsable(r, s, next)
      PROVE  IInv'
  <2>1. /\ RequestTyped' /\ Alone(r)
        /\ \/ at'[r] = "idle"
           \/ /\ at'[r] \in {"revoke", next}
              /\ held'[r] = s /\ copy'[r] = row[s]
    BY <1>3, UsableTyped DEF Step
  <2>2. TypeOK'  BY <1>2, <2>1
  <2>3. CASE at'[r] = "idle"
    BY <1>1, <2>1, <2>2, <2>3, AsideKeeps DEF Owning
  <2>4. CASE at'[r] \in {"revoke", next} /\ held'[r] = s /\ copy'[r] = row[s]
    BY <1>1, <1>3, <2>1, <2>2, <2>4, TakingKeeps
  <2> QED  BY <2>1, <2>3, <2>4
<1>4. CASE ConsumeRefreshToken(r)
  <2> DEFINE Presents(s, k) ==
          IF row[s].current # k
          THEN /\ Goto(r, "detect")
               /\ held'  = [held EXCEPT ![r] = s]
               /\ token' = [token EXCEPT ![r] = k]
               /\ UNCHANGED <<user, copy, seen>>
          ELSE IF ~row[s].dated
          THEN /\ Goto(r, "revoke")
               /\ held' = [held EXCEPT ![r] = s]
               /\ copy' = [copy EXCEPT ![r] = row[s]]
               /\ UNCHANGED <<user, token, seen>>
          ELSE AssertUsable(r, s, "load")
  <2>0. PICK s \in Session : \E k \in 1..minted[s] : Presents(s, k)
    BY <1>4 DEF ConsumeRefreshToken
  <2>1. PICK k \in 1..minted[s] : Presents(s, k)
    BY <2>0
  <2>2. minted[s] \in Nat  BY DEF TypeOK
  <2>3. k \in Nat /\ k # 0 /\ minted[s] # 0  BY <2>2
  <2>4. row[s].made  BY <2>3 DEF TypeOK
  <2>5. CASE row[s].current # k
    <3>1. RequestTyped' /\ Alone(r) /\ at'[r] = "detect"
      BY <2>1, <2>3, <2>5 DEF TypeOK, RequestTyped, Goto, Alone, Step
    <3> QED  BY <1>1, <1>2, <3>1, AsideKeeps DEF Owning
  <2>6. CASE row[s].current = k /\ ~row[s].dated
    <3>1. /\ RequestTyped' /\ Alone(r) /\ at'[r] = "revoke"
          /\ held'[r] = s /\ copy'[r] = row[s]
      BY <2>1, <2>6 DEF TypeOK, RequestTyped, Goto, Alone, Step
    <3> QED  BY <1>1, <1>2, <2>4, <3>1, TakingKeeps
  <2>7. CASE row[s].current = k /\ row[s].dated
    BY <1>3, <2>1, <2>3, <2>4, <2>7
  <2> QED  BY <2>5, <2>6, <2>7
<1>5. CASE DetectReuse(r)
  <2>1. RequestTyped' /\ Alone(r) /\ at'[r] \in {"revoke_replayed", "idle"}
    BY <1>5, DoneTyped, LeaveTyped DEF DetectReuse, Step
  <2> QED  BY <1>1, <1>2, <2>1, AsideKeeps DEF Owning
<1>6. CASE CanActivate(r)
  <2>1. PICK j \in jwt : AssertUsable(r, j.sid, "inside")
    BY <1>6 DEF CanActivate
  <2>2. j.sid \in Session /\ row[j.sid].made
    BY DEF TypeOK, TokensAreOfSessions
  <2> QED  BY <1>3, <2>1, <2>2
<1>7. CASE RolesGuard(r)
  <2>1. PICK j \in jwt : AssertUsable(r, j.sid, "find")
    BY <1>7 DEF RolesGuard
  <2>2. j.sid \in Session /\ row[j.sid].made
    BY DEF TypeOK, TokensAreOfSessions
  <2> QED  BY <1>3, <2>1, <2>2
<1> QED  BY <1>4, <1>5, <1>6, <1>7

LEMMA RefreshKeeps ==
  ASSUME IInv, NEW r \in Request, Refresh(r)
  PROVE  IInv'
<1> USE DEF IInv
<1>1. /\ RequestTyped' /\ Alone(r) /\ at'[r] \in {"rotate", "revoke"}
      /\ UNCHANGED <<held, copy>>
  BY ReadTyped DEF Refresh, Step
<1>2. UNCHANGED <<account, row, minted, jwt, challenge, epoch, overlapped,
                  spent, misses>> /\ at[r] = "load"
  BY DEF Refresh
<1>3. TypeOK'  BY <1>1, <1>2 DEF TypeOK, RequestTyped
<1>4. HeldIsMade'  BY <1>1, <1>2 DEF HeldIsMade, Alone, Owning
<1>5. TokensAreOfSessions'  BY <1>2 DEF TokensAreOfSessions
<1>6. CurrentIsMinted'  BY <1>2 DEF CurrentIsMinted
<1>7. CopyIsMinted'  BY <1>1, <1>2 DEF CopyIsMinted, Alone
<1>8. SpentIsMinted' /\ CurrentIsUnspent'
  BY <1>2 DEF SpentIsMinted, CurrentIsUnspent
<1> QED  BY <1>3, <1>4, <1>5, <1>6, <1>7, <1>8
-----------------------------------------------------------------------------
(* Steps that write session rows *)

\* A write keeps what is made, and a row's token stays, is cleared or is one
\* minted just now.
LEMMA RowsKeep ==
  ASSUME IInv, NEW r \in Request, Alone(r), TypeOK',
         \A s \in Session : row[s].made => row'[s].made,
         \A s \in Session : minted[s] <= minted'[s],
         \A s \in Session :
           \/ row'[s].current \in {0, row[s].current}
           \/ row'[s].current = minted'[s] /\ minted[s] < minted'[s],
         at'[r] \in Owning => held'[r] \in Session /\ row'[held'[r]].made,
         at'[r] \notin {"load", "rotate"},
         at'[r] = "issue" => copy'[r].current <= minted'[held'[r]],
         \A j \in jwt' : j \in jwt \/ row'[j.sid].made
  PROVE  /\ HeldIsMade' /\ TokensAreOfSessions' /\ CurrentIsMinted'
         /\ CopyIsMinted'
         /\ spent' = spent => IInv'
<1> USE DEF IInv
<1>1. HeldIsMade'  BY DEF HeldIsMade, Alone
<1>2. TokensAreOfSessions'  BY DEF TokensAreOfSessions, TypeOK
<1>3. CurrentIsMinted'
  <2> SUFFICES ASSUME NEW s \in Session  PROVE row'[s].current <= minted'[s]
    BY DEF CurrentIsMinted
  <2>1. /\ minted[s] \in Nat /\ minted'[s] \in Nat /\ row[s].current \in Nat
        /\ row[s].current <= minted[s] /\ minted[s] <= minted'[s]
    BY DEF TypeOK, SessionRow, CurrentIsMinted
  <2> QED  BY <2>1
<1>4. CopyIsMinted'
  <2> SUFFICES ASSUME NEW q \in Request
      PROVE  /\ at'[q] \in {"issue", "load", "rotate"}
                 => copy'[q].current <= minted'[held'[q]]
             /\ at'[q] \in {"load", "rotate"} => copy'[q].current # 0
    BY DEF CopyIsMinted
  <2>1. CASE q = r  BY <2>1
  <2>2. CASE q # r
    <3>1. at'[q] = at[q] /\ held'[q] = held[q] /\ copy'[q] = copy[q]
      BY <2>2 DEF Alone
    <3>2. CASE at[q] \in {"issue", "load", "rotate"}
      <4>1. held[q] \in Session  BY <3>2 DEF HeldIsMade, Owning
      <4>2. /\ minted[held[q]] \in Nat /\ minted'[held[q]] \in Nat
            /\ copy[q].current \in Nat
            /\ minted[held[q]] <= minted'[held[q]]
        BY <4>1 DEF TypeOK, SessionRow
      <4> QED  BY <3>1, <3>2, <4>2 DEF CopyIsMinted
    <3>3. CASE at[q] \notin {"issue", "load", "rotate"}  BY <3>1, <3>3
    <3> QED  BY <3>2, <3>3
  <2> QED  BY <2>1, <2>2
<1>5. ASSUME spent' = spent  PROVE SpentIsMinted'
  BY <1>5 DEF SpentIsMinted, TypeOK
<1>6. ASSUME spent' = spent  PROVE CurrentIsUnspent'
  <2> SUFFICES ASSUME NEW s \in Session, <<s, row'[s].current>> \in spent
      PROVE  FALSE
    BY <1>6 DEF CurrentIsUnspent
  <2>1. row'[s].current # 0 /\ row'[s].current <= minted[s]
    BY DEF SpentIsMinted
  <2>2. minted[s] \in Nat /\ minted'[s] \in Nat  BY DEF TypeOK
  <2>3. row'[s].current = row[s].current  BY <2>1, <2>2
  <2> QED  BY <2>3 DEF CurrentIsUnspent
<1> QED  BY <1>1, <1>2, <1>3, <1>4, <1>5, <1>6

LEMMA CreateKeeps ==
  ASSUME IInv, NEW r \in Request, CreateSession(r)
  PROVE  /\ IInv'
         /\ \A s \in Session : row[s].revoked => row'[s].revoked
<1> USE DEF IInv
<1>1. PICK s \in Session :
        /\ ~row[s].made
        /\ row'  = [row EXCEPT ![s].made = TRUE]
        /\ held' = [held EXCEPT ![r] = s]
        /\ copy' = [copy EXCEPT ![r] = row'[s]]
        /\ overlapped' = IF seen[r] = epoch THEN overlapped
                         ELSE overlapped \cup {s}
  BY DEF CreateSession
<1>2. row[s] = NewRow /\ minted[s] = 0  BY <1>1 DEF TypeOK
<1>3. /\ row' \in [Session -> SessionRow]
      /\ row'[s].made /\ row'[s].current = 0
      /\ \A z \in Session \ {s} : row'[z] = row[z]
  <2>1. row'[s] = [NewRow EXCEPT !.made = TRUE]  BY <1>1, <1>2 DEF TypeOK
  <2>2. row'[s] \in SessionRow /\ row'[s].made /\ row'[s].current = 0
    <3>1. ASSUME NEW old \in SessionRow
          PROVE  LET new == [old EXCEPT !.made = TRUE]
                 IN  new \in SessionRow /\ new.made /\ new.current = old.current
      BY DEF SessionRow
    <3>2. NewRow.current = 0  BY DEF NewRow
    <3> QED  BY <2>1, <3>1, <3>2, BlanksTyped
  <2>3. \A z \in Session \ {s} : row'[z] = row[z]  BY <1>1 DEF TypeOK
  <2>4. row' = [row EXCEPT ![s] = row'[s]]  BY <1>1 DEF TypeOK
  <2> QED  BY <2>2, <2>3, <2>4 DEF TypeOK
<1>4. /\ RequestTyped' /\ Alone(r) /\ at'[r] = "issue"
      /\ held'[r] = s /\ copy'[r] = row'[s]
  BY <1>1, <1>3 DEF CreateSession, Goto, TypeOK, RequestTyped, Alone, Step
<1>5. UNCHANGED <<account, minted, jwt, challenge, epoch, spent, misses>>
  BY DEF CreateSession
<1>6. TypeOK'  BY <1>1, <1>3, <1>4, <1>5 DEF TypeOK, RequestTyped
<1>7. \A z \in Session : /\ row[z].made => row'[z].made
                         /\ minted[z] <= minted'[z]
                         /\ row'[z].current \in {0, row[z].current}
                         /\ row[z].revoked => row'[z].revoked
  BY <1>2, <1>3, <1>5 DEF TypeOK, NewRow
<1>8. copy'[r].current <= minted'[held'[r]]  BY <1>2, <1>3, <1>4, <1>5
<1> QED  BY <1>3, <1>4, <1>5, <1>6, <1>7, <1>8, RowsKeep

\* issueRefreshToken and rotateRefreshToken: what the write makes of the row.
LEMMA WriteTokens ==
  ASSUME IInv, NEW r \in Request, at[r] \in {"issue", "rotate"},
         NEW p \in Nat,
         minted' = [minted EXCEPT ![held[r]] = @ + 1],
         row' = [row EXCEPT ![held[r]] =
                   Save(row[held[r]], copy[r],
                        [previous |-> p, current |-> minted'[held[r]],
                         dated |-> TRUE])]
  PROVE  /\ held[r] \in Session
         /\ row' \in [Session -> SessionRow]
         /\ minted' \in [Session -> Nat]
         /\ minted'[held[r]] = minted[held[r]] + 1
         /\ row'[held[r]].current = minted'[held[r]]
         /\ row'[held[r]].made
         /\ \A z \in Session \ {held[r]} : row'[z] = row[z] /\ minted'[z] = minted[z]
         /\ \A z \in Session : /\ row'[z].made = row[z].made
                               /\ row'[z].revoked = row[z].revoked
<1> USE DEF IInv
<1> DEFINE h == held[r]
<1>1. h \in Session /\ row[h].made  BY DEF HeldIsMade, Owning
<1>2. /\ minted[h] \in Nat /\ copy[r].current \in Nat
      /\ row[h] \in SessionRow /\ copy[r] \in SessionRow
      /\ copy[r].current <= minted[h]
  BY <1>1 DEF TypeOK, SessionRow, CopyIsMinted
<1>3. /\ minted'[h] = minted[h] + 1 /\ minted' \in [Session -> Nat]
      /\ \A z \in Session \ {h} : minted'[z] = minted[z]
  BY <1>1, <1>2 DEF TypeOK
<1>4. minted'[h] \in Nat /\ minted'[h] # copy[r].current  BY <1>2, <1>3
<1> DEFINE written == Save(row[h], copy[r], [previous |-> p, current |-> minted'[h],
                                             dated |-> TRUE])
<1>5. row'[h] = written /\ \A z \in Session \ {h} : row'[z] = row[z]
  BY <1>1 DEF TypeOK
<1>6. /\ written \in SessionRow /\ written.made = row[h].made
      /\ written.revoked = row[h].revoked /\ written.current = minted'[h]
  <2>1. ASSUME NEW n \in Nat, n # copy[r].current,
               NEW w, w = Save(row[h], copy[r], [previous |-> p, current |-> n,
                                                 dated |-> TRUE])
        PROVE  /\ w \in SessionRow /\ w.made = row[h].made
               /\ w.revoked = row[h].revoked /\ w.current = n
    BY <1>2, <2>1, SaveTokens
  <2> HIDE DEF h
  <2> QED  BY <1>4, <2>1
<1>7. row' \in [Session -> SessionRow]
  <2> HIDE DEF written
  <2> QED  BY <1>1, <1>5, <1>6 DEF TypeOK
<1> HIDE DEF written
<1> QED  BY <1>1, <1>3, <1>5, <1>6, <1>7
LEMMA IssueKeeps ==
  ASSUME IInv, NEW r \in Request, IssueRefreshToken(r)
  PROVE  /\ IInv'
         /\ \A s \in Session : row[s].revoked => row'[s].revoked
<1> USE DEF IInv
<1>1. /\ held[r] \in Session
      /\ row' \in [Session -> SessionRow] /\ minted' \in [Session -> Nat]
      /\ minted'[held[r]] = minted[held[r]] + 1
      /\ row'[held[r]].current = minted'[held[r]] /\ row'[held[r]].made
      /\ \A z \in Session \ {held[r]} : row'[z] = row[z] /\ minted'[z] = minted[z]
      /\ \A z \in Session : /\ row'[z].made = row[z].made
                            /\ row'[z].revoked = row[z].revoked
  <2>1. /\ at[r] = "issue"
        /\ minted' = [minted EXCEPT ![held[r]] = @ + 1]
        /\ row' = [row EXCEPT ![held[r]] =
                     Save(row[held[r]], copy[r],
                          [previous |-> 0, current |-> minted'[held[r]],
                           dated |-> TRUE])]
    BY DEF IssueRefreshToken, Save
  <2> QED  BY <2>1, WriteTokens
<1>2. /\ RequestTyped' /\ Alone(r)
      /\ at'[r] = "idle" \/ (at'[r] = "enable" /\ held' = held)
  BY DoneTyped, GotoTyped DEF IssueRefreshToken, Step
<1>3. jwt' = jwt \/ BuildSuccess(r)  BY DEF IssueRefreshToken
<1>4. /\ jwt' \subseteq [sid : Session, role : Role]
      /\ \A j \in jwt' : j \in jwt \/ row'[j.sid].made
  BY <1>1, <1>3 DEF BuildSuccess, TypeOK, Account
<1>5. UNCHANGED <<account, challenge, epoch, overlapped, spent, misses>>
  BY DEF IssueRefreshToken
<1>6. TypeOK'  BY <1>1, <1>2, <1>4, <1>5 DEF TypeOK, RequestTyped, HeldIsMade, Owning
<1>7. \A s \in Session :
        /\ row[s].made => row'[s].made
        /\ minted[s] <= minted'[s]
        /\ \/ row'[s].current \in {0, row[s].current}
           \/ row'[s].current = minted'[s] /\ minted[s] < minted'[s]
  BY <1>1 DEF TypeOK
<1> QED  BY <1>1, <1>2, <1>4, <1>5, <1>6, <1>7, RowsKeep DEF Owning

LEMMA EnableKeeps ==
  ASSUME IInv, NEW r \in Request, EnableMfa(r)
  PROVE  IInv'
<1> USE DEF IInv
<1>1. RequestTyped' /\ Alone(r) /\ at'[r] = "idle"
  BY DoneTyped DEF EnableMfa
<1>2. held[r] \in Session /\ row[held[r]].made
  BY DEF EnableMfa, HeldIsMade, Owning
<1>3. UNCHANGED <<row, minted, challenge, epoch, overlapped, spent, misses>>
  BY DEF EnableMfa
<1>4. /\ jwt' \subseteq [sid : Session, role : Role]
      /\ \A j \in jwt' : j \in jwt \/ row'[j.sid].made
  BY <1>2, <1>3 DEF EnableMfa, BuildSuccess, TypeOK, Account
<1>5. account' \in Account  BY DEF EnableMfa, TypeOK, Account
<1>6. TypeOK'  BY <1>1, <1>3, <1>4, <1>5 DEF TypeOK, RequestTyped
<1>7. \A s \in Session : /\ row[s].made => row'[s].made
                         /\ minted[s] <= minted'[s]
                         /\ row'[s].current \in {0, row[s].current}
  BY <1>3 DEF TypeOK
<1> QED  BY <1>1, <1>3, <1>4, <1>6, <1>7, RowsKeep DEF Owning

\* The revocation of every live session of a set, and of one read before.
LEMMA RevocationKeeps ==
  ASSUME IInv, NEW r \in Request,
         RevokeAllForUser(r) \/ Logout(r) \/ Revoke(r)
  PROVE  /\ IInv'
         /\ \A s \in Session : row[s].revoked => row'[s].revoked
<1> USE DEF IInv
<1>1. /\ RequestTyped' /\ Alone(r) /\ at'[r] = "idle"
      /\ UNCHANGED <<account, minted, jwt, challenge, epoch, overlapped, spent,
                     misses>>
  BY DoneTyped DEF RevokeAllForUser, Logout, Revoke
<1> DEFINE Cleared ==
      /\ row' \in [Session -> SessionRow]
      /\ \A s \in Session : /\ row'[s].made = row[s].made
                            /\ row'[s].current \in {0, row[s].current}
                            /\ row[s].revoked => row'[s].revoked
                            /\ ~row[s].made => row'[s] = row[s]
<1>2. Cleared
  <2>1. ASSUME NEW S, RevokeRows(S)  PROVE Cleared
    <3>1. /\ row \in [Session -> SessionRow]
          /\ \A s \in Session : ~row[s].made => row[s] = NewRow
      BY DEF TypeOK
    <3>2. \A s \in Session :
            /\ row'[s] \in SessionRow
            /\ row'[s].made = row[s].made
            /\ row'[s].current \in {0, row[s].current}
            /\ row[s].revoked => row'[s].revoked
            /\ ~row[s].made => row'[s] = row[s]
      BY <2>1, <3>1 DEF RevokeRows, live, SessionRow
    <3>3. row' = [s \in Session |-> row'[s]]  BY <2>1 DEF RevokeRows
    <3>4. row' \in [Session -> SessionRow]  BY <3>2, <3>3
    <3> QED  BY <3>2, <3>4
  <2>2. CASE Revoke(r)
    <3> DEFINE h    == held[r]
               kept == Save(row[h], copy[r], REVOKED_FIELDS)
    <3>1. h \in Session /\ row[h].made  BY <2>2 DEF Revoke, HeldIsMade, Owning
    <3>2. row[h] \in SessionRow /\ copy[r] \in SessionRow  BY <3>1 DEF TypeOK
    <3>3. /\ kept \in SessionRow /\ kept.made = row[h].made
          /\ kept.current \in {0, row[h].current}
      BY <3>2, SaveRevocation
    <3>4. row' = [row EXCEPT ![h] = [kept EXCEPT !.revoked = TRUE]]
      BY <2>2 DEF Revoke
    <3> HIDE DEF kept, h
    <3> QED  BY <3>1, <3>2, <3>3, <3>4 DEF TypeOK, SessionRow
  <2> QED  BY <2>1, <2>2 DEF RevokeAllForUser, Logout
<1>3. TypeOK'  BY <1>1, <1>2 DEF TypeOK, RequestTyped
<1>4. \A s \in Session : minted[s] <= minted'[s]  BY <1>1 DEF TypeOK
<1> QED  BY <1>1, <1>2, <1>3, <1>4, RowsKeep DEF Owning

\* The exchanged token was minted, and it is not the new one.
LEMMA RotateKeeps ==
  ASSUME IInv, NEW r \in Request, RotateRefreshToken(r)
  PROVE  /\ IInv'
         /\ \A s \in Session : row[s].revoked => row'[s].revoked
<1> USE DEF IInv
<1> DEFINE h == held[r]
           c == copy[r].current
<1>1. /\ at[r] = "rotate"
      /\ minted' = [minted EXCEPT ![h] = @ + 1]
      /\ row' = [row EXCEPT ![h] = Save(row[h], copy[r], [previous |-> c,
                                     current |-> minted'[h], dated |-> TRUE])]
      /\ spent' = spent \cup {<<h, c>>}
      /\ BuildSuccess(r) /\ Done(r)
      /\ UNCHANGED <<account, challenge, epoch, overlapped, misses>>
  BY DEF RotateRefreshToken
<1>2. c \in Nat /\ c # 0 /\ c <= minted[h]
  BY <1>1 DEF TypeOK, SessionRow, CopyIsMinted
<1>3. /\ h \in Session
      /\ row' \in [Session -> SessionRow] /\ minted' \in [Session -> Nat]
      /\ minted'[h] = minted[h] + 1
      /\ row'[h].current = minted'[h] /\ row'[h].made
      /\ \A z \in Session \ {h} : row'[z] = row[z] /\ minted'[z] = minted[z]
      /\ \A z \in Session : /\ row'[z].made = row[z].made
                            /\ row'[z].revoked = row[z].revoked
  BY <1>1, <1>2, WriteTokens
<1>4. RequestTyped' /\ Alone(r) /\ at'[r] = "idle"  BY <1>1, DoneTyped
<1>5. /\ jwt' \subseteq [sid : Session, role : Role]
      /\ \A j \in jwt' : j \in jwt \/ row'[j.sid].made
  BY <1>1, <1>3 DEF BuildSuccess, TypeOK, Account
<1>6. spent' \subseteq Session \X Nat  BY <1>1, <1>2, <1>3 DEF TypeOK
<1>7. TypeOK'
  <2>1. \A s \in Session : ~row'[s].made => row'[s] = NewRow /\ minted'[s] = 0
    BY <1>3 DEF TypeOK
  <2>2. UNCHANGED <<account, challenge, epoch, overlapped, misses>>  BY <1>1
  <2> QED  BY <1>3, <1>4, <1>5, <1>6, <2>1, <2>2 DEF TypeOK, RequestTyped
<1>8. \A s \in Session :
        /\ row[s].made => row'[s].made
        /\ minted[s] \in Nat /\ minted[s] <= minted'[s]
        /\ \/ row'[s].current \in {0, row[s].current}
           \/ row'[s].current = minted'[s] /\ minted[s] < minted'[s]
  BY <1>3 DEF TypeOK
<1> HIDE DEF h, c
<1>9. /\ HeldIsMade' /\ TokensAreOfSessions' /\ CurrentIsMinted'
      /\ CopyIsMinted'
  BY <1>4, <1>5, <1>7, <1>8, RowsKeep DEF Owning
<1>10. SpentIsMinted'
  <2> SUFFICES ASSUME NEW p \in spent'
      PROVE  p[2] # 0 /\ p[2] <= minted'[p[1]]
    BY DEF SpentIsMinted
  <2>1. CASE p \in spent
    <3>1. p[1] \in Session /\ p[2] \in Nat  BY <2>1 DEF TypeOK
    <3> QED  BY <2>1, <3>1, <1>3, <1>8 DEF SpentIsMinted, TypeOK
  <2>2. CASE p = <<h, c>>
    BY <2>2, <1>2, <1>3, <1>8
  <2> QED  BY <1>1, <2>1, <2>2
<1>11. CurrentIsUnspent'
  <2> SUFFICES ASSUME NEW s \in Session, <<s, row'[s].current>> \in spent'
      PROVE  FALSE
    BY DEF CurrentIsUnspent
  <2>1. CASE s = h
    <3>1. row'[s].current = minted[s] + 1 /\ minted[s] \in Nat
      BY <2>1, <1>3, <1>8
    <3>2. <<s, row'[s].current>> \notin spent
      BY <3>1 DEF SpentIsMinted
    <3>3. row'[s].current # c  BY <3>1, <2>1, <1>2
    <3> QED  BY <1>1, <3>2, <3>3
  <2>2. CASE s # h
    <3>1. row'[s] = row[s]  BY <2>2, <1>3
    <3>2. <<s, row[s].current>> \in spent  BY <3>1, <1>1, <2>2
    <3> QED  BY <3>2 DEF CurrentIsUnspent
  <2> QED  BY <2>1, <2>2
<1> QED  BY <1>3, <1>7, <1>9, <1>10, <1>11

-----------------------------------------------------------------------------
(* Time, and the theorems *)

LEMMA TimeKeeps ==
  ASSUME IInv, TimePasses
  PROVE  /\ IInv'
         /\ \A s \in Session : row[s].revoked => row'[s].revoked
<1> USE DEF IInv
<1> DEFINE Kept ==
      /\ row' \in [Session -> SessionRow]
      /\ \A s \in Session : /\ row'[s].made = row[s].made
                            /\ row'[s].revoked = row[s].revoked
                            /\ row'[s].current = row[s].current
                            /\ ~row[s].made => row'[s] = row[s]
<1>1. Kept
  <2>1. CASE LockoutPasses  BY <2>1 DEF LockoutPasses, TypeOK
  <2>2. ASSUME NEW z \in Session, TwoHoursPass(z)  PROVE Kept
    <3>1. row' = [row EXCEPT ![z].over = TRUE] /\ row[z].made
      BY <2>2 DEF TwoHoursPass, live
    <3>2. ASSUME NEW old \in SessionRow
          PROVE  LET new == [old EXCEPT !.over = TRUE]
                 IN  /\ new \in SessionRow /\ new.made = old.made
                     /\ new.revoked = old.revoked /\ new.current = old.current
      BY DEF SessionRow
    <3>3. row'[z] = [row[z] EXCEPT !.over = TRUE] /\ row[z] \in SessionRow
      BY <3>1 DEF TypeOK
    <3>4. /\ row'[z] \in SessionRow /\ row'[z].made = row[z].made
          /\ row'[z].revoked = row[z].revoked /\ row'[z].current = row[z].current
      BY <3>2, <3>3
    <3>5. row' = [row EXCEPT ![z] = row'[z]]  BY <3>1 DEF TypeOK
    <3> QED  BY <3>1, <3>4, <3>5 DEF TypeOK
  <2> QED  BY <2>1, <2>2 DEF TimePasses
<1>2. /\ account' \in Account /\ misses' \in Missed
      /\ UNCHANGED <<minted, jwt, challenge, requestVars, epoch, overlapped,
                     spent>>
  BY DEF TimePasses, LockoutPasses, TwoHoursPass, TypeOK, Account, Missed,
         NoMisses
<1>3. TypeOK'  BY <1>1, <1>2 DEF TypeOK, Missed, requestVars
<1>4. HeldIsMade'  BY <1>1, <1>2 DEF HeldIsMade, requestVars, Owning
<1>5. TokensAreOfSessions'  BY <1>1, <1>2 DEF TokensAreOfSessions, TypeOK
<1>6. CurrentIsMinted'  BY <1>1, <1>2 DEF CurrentIsMinted
<1>7. CopyIsMinted'  BY <1>2 DEF CopyIsMinted, requestVars
<1>8. SpentIsMinted' /\ CurrentIsUnspent'
  BY <1>1, <1>2 DEF SpentIsMinted, CurrentIsUnspent
<1> QED  BY <1>1, <1>3, <1>4, <1>5, <1>6, <1>7, <1>8

LEMMA IInvInit == Init => IInv
<1> SUFFICES ASSUME Init  PROVE IInv  OBVIOUS
<1>1. TypeOK  BY BlanksTyped DEF Init, TypeOK, Step, NewRow, NoMisses
<1>2. HeldIsMade /\ TokensAreOfSessions /\ CopyIsMinted
  BY DEF Init, HeldIsMade, TokensAreOfSessions, CopyIsMinted, Owning
<1>3. CurrentIsMinted /\ SpentIsMinted /\ CurrentIsUnspent
  BY DEF Init, CurrentIsMinted, SpentIsMinted, CurrentIsUnspent, NewRow
<1> QED  BY <1>1, <1>2, <1>3 DEF IInv

\* Every step keeps the invariant and every revocation.
LEMMA StepKeeps ==
  ASSUME IInv, [Next]_vars
  PROVE  /\ IInv'
         /\ \A s \in Session : row[s].revoked => row'[s].revoked
<1>1. CASE UNCHANGED vars
  BY <1>1 DEF vars, requestVars, IInv, TypeOK, HeldIsMade, TokensAreOfSessions,
              CurrentIsMinted, CopyIsMinted, SpentIsMinted, CurrentIsUnspent
<1>2. CASE TimePasses  BY <1>2, TimeKeeps
<1>3. ASSUME NEW r \in Request,
             \/ Login(r) \/ RegisterFailedAttempt(r) \/ PasswordMatches(r)
             \/ BeginEnrollment(r) \/ VerifyMfa(r) \/ FindOrFail(r) \/ Update(r)
             \/ Unlock(r) \/ ResetMfa(r) \/ ResetPassword(r)
             \/ AssertPassword(r) \/ ChangePassword(r)
      PROVE  IInv' /\ row' = row
  <2>1. IInv'  BY <1>3, AccountSteps
  <2>2. row' = row
    BY <1>3 DEF Login, RegisterFailedAttempt, PasswordMatches, BeginEnrollment,
                VerifyMfa, FindOrFail, Update, Unlock, ResetMfa, ResetPassword,
                AssertPassword, ChangePassword
  <2> QED  BY <2>1, <2>2
<1>4. ASSUME NEW r \in Request,
             \/ ConsumeRefreshToken(r) \/ DetectReuse(r) \/ CanActivate(r)
             \/ RolesGuard(r) \/ Refresh(r) \/ EnableMfa(r)
      PROVE  IInv' /\ row' = row
  <2>1. IInv'  BY <1>4, ReadingSteps, RefreshKeeps, EnableKeeps
  <2>2. row' = row
    BY <1>4 DEF ConsumeRefreshToken, DetectReuse, CanActivate, RolesGuard,
                Refresh, EnableMfa
  <2> QED  BY <2>1, <2>2
<1>5. ASSUME NEW r \in Request,
             \/ CreateSession(r) \/ IssueRefreshToken(r) \/ RevokeAllForUser(r)
             \/ Logout(r) \/ Revoke(r) \/ RotateRefreshToken(r)
      PROVE  /\ IInv'
             /\ \A s \in Session : row[s].revoked => row'[s].revoked
  BY <1>5, CreateKeeps, IssueKeeps, RevocationKeeps, RotateKeeps
<1> QED
  BY <1>1, <1>2, <1>3, <1>4, <1>5 DEF Next, SignIn, Renew, Use, Manage

LEMMA Invariance == Spec => []IInv
BY IInvInit, StepKeeps, PTL DEF Spec

\* rotateRefreshToken: however many exchanges, sign-ins and revocations
\* overlap, no row accepts a refresh token that has been exchanged before.
THEOREM SessionsSound == Spec => []SessionsAreSound
<1>1. IInv => SessionsAreSound  BY DEF IInv, SessionsAreSound
<1> QED  BY <1>1, Invariance, PTL

\* SessionService.revoke and its siblings: no write of a request that read a
\* session before its revocation brings it back.
THEOREM RevocationHolds == Spec => RevokedForGood
<1>1. IInv /\ [Next]_vars
        => [\A s \in Session : row[s].revoked => row'[s].revoked]_vars
  BY StepKeeps
<1> QED  BY <1>1, Invariance, PTL DEF Spec, RevokedForGood

-----------------------------------------------------------------------------
(* The rows implement the family of refresh tokens *)

Phases == [s \in Session |-> Phase(s)]
Tokens == [s \in Session |-> Accepts(s)]

\* A step that changes the row of s alone changes what s is, and nothing else.
LEMMA RowStep ==
  ASSUME NEW s \in Session, \A z \in Session \ {s} : row'[z] = row[z]
  PROVE  /\ Phases' = [Phases EXCEPT ![s] = Phase(s)']
         /\ Tokens' = [Tokens EXCEPT ![s] = Accepts(s)']
         /\ Phases[s] = Phase(s) /\ Tokens[s] = Accepts(s)
         /\ Tokens'[s] = Accepts(s)'
BY DEF Phases, Tokens, Phase, Accepts

\* One that leaves a row as it was to the holder of a token.
LEMMA RowStutters ==
  ASSUME NEW s \in Session, \A z \in Session \ {s} : row'[z] = row[z],
         Phase(s)' = Phase(s), Accepts(s)' = Accepts(s)
  PROVE  UNCHANGED <<Phases, Tokens>>
BY DEF Phases, Tokens, Phase, Accepts

LEMMA OpenStep ==
  ASSUME TypeOK, NEW r \in Request, CreateSession(r)
  PROVE  Family!Next
<1>1. PICK s \in Session : ~row[s].made /\ row' = [row EXCEPT ![s].made = TRUE]
  BY DEF CreateSession
<1>2. row[s] = NewRow  BY <1>1 DEF TypeOK
<1>3. row'[s] = [NewRow EXCEPT !.made = TRUE]
      /\ \A z \in Session \ {s} : row'[z] = row[z]
  BY <1>1, <1>2 DEF TypeOK
<1>4. /\ Phase(s) = "unopened" /\ Phase(s)' = "open"
      /\ Accepts(s) = 0 /\ Accepts(s)' = 0
  BY <1>2, <1>3 DEF Phase, Accepts, NewRow
<1>5. Tokens' = Tokens
  BY <1>3, <1>4 DEF Tokens, Phase, Accepts
<1>6. Family!Open(s)
  BY <1>3, <1>4, <1>5, RowStep DEF Family!Open, Phases, Tokens
<1> QED  BY <1>6 DEF Family!Next

\* What issueRefreshToken and rotateRefreshToken write is newer than all there
\* was, and an ended session stays what it is.
LEMMA TokenStep ==
  ASSUME IInv, NEW r \in Request, at[r] \in {"issue", "rotate"},
         NEW p \in Nat,
         minted' = [minted EXCEPT ![held[r]] = @ + 1],
         row' = [row EXCEPT ![held[r]] =
                   Save(row[held[r]], copy[r],
                        [previous |-> p, current |-> minted'[held[r]],
                         dated |-> TRUE])]
  PROVE  [Family!Next]_<<Phases, Tokens>>
<1> DEFINE s == held[r]
<1>1. /\ s \in Session
      /\ row'[s].current = minted[s] + 1
      /\ \A z \in Session \ {s} : row'[z] = row[z]
      /\ row'[s].made = row[s].made /\ row'[s].revoked = row[s].revoked
  BY WriteTokens
<1>2. row[s] \in SessionRow /\ copy[r] \in SessionRow
  BY <1>1 DEF IInv, TypeOK
<1>3. row'[s].over = row[s].over
  BY <1>1, <1>2 DEF IInv, TypeOK, Save, SessionRow
<1>4. minted[s] \in Nat /\ row[s].current \in Nat /\ row[s].current <= minted[s]
  BY <1>1, <1>2 DEF IInv, TypeOK, CurrentIsMinted, SessionRow
<1>5. PICK h \in Session : h = s  BY <1>1
<1> HIDE DEF s
<1>6. Phase(h)' = Phase(h)  BY <1>1, <1>3, <1>5 DEF Phase
<1>7. CASE Phase(h) = "open"
  <2>1. Accepts(h)' > Accepts(h)
    BY <1>1, <1>4, <1>5, <1>6, <1>7 DEF Accepts
  <2>2. \A z \in Session \ {h} : Phase(z)' = Phase(z)
    BY <1>1, <1>5 DEF Phase
  <2>3. Phases' = Phases  BY <1>6, <2>2 DEF Phases
  <2>4. Family!Renew(h)
    BY <1>1, <1>5, <1>7, <2>1, <2>3, RowStep DEF Family!Renew, Phases, Tokens
  <2> QED  BY <2>4 DEF Family!Next
<1>8. CASE Phase(h) # "open"
  <2>1. Accepts(h)' = Accepts(h)  BY <1>6, <1>8 DEF Accepts
  <2> QED  BY <1>1, <1>5, <1>6, <2>1, RowStutters
<1> QED  BY <1>7, <1>8

LEMMA ExpireStep ==
  ASSUME TypeOK, NEW s \in Session, TwoHoursPass(s)
  PROVE  Family!Next
<1>1. /\ row[s].made /\ ~row[s].revoked /\ ~row[s].over
      /\ row[s] \in SessionRow /\ row'[s] = [row[s] EXCEPT !.over = TRUE]
      /\ \A z \in Session \ {s} : row'[z] = row[z]
  BY DEF TwoHoursPass, live, TypeOK
<1>2. /\ Phase(s) = "open" /\ Phase(s)' = "expired" /\ Accepts(s)' = 0
  BY <1>1 DEF Phase, Accepts, SessionRow
<1>3. Family!Expire(s)
  BY <1>1, <1>2, RowStep DEF Family!Expire, Phases, Tokens
<1> QED  BY <1>3 DEF Family!Next

\* The statement of revokeAllForUser and revokeById.
LEMMA RevokeStep ==
  ASSUME TypeOK, NEW S \in SUBSET Session, RevokeRows(S)
  PROVE  Family!Next
<1> DEFINE T == {s \in S : live(s)}
<1>1. \A s \in T : /\ Phase(s) \in {"open", "expired"}
                   /\ Phase(s)' = "revoked" /\ Accepts(s)' = 0
  BY DEF RevokeRows, live, Phase, Accepts, TypeOK, SessionRow
<1>2. \A s \in Session \ T : row'[s] = row[s]
  BY DEF RevokeRows
<1>3. \A s \in Session \ T : Phase(s)' = Phase(s) /\ Accepts(s)' = Accepts(s)
  BY <1>2 DEF Phase, Accepts
<1> HIDE DEF T
<1>4. T \in SUBSET Session  BY DEF T
<1>5. Family!Revoke(T)
  BY <1>1, <1>3, <1>4 DEF Family!Revoke, Phases, Tokens
<1> QED  BY <1>4, <1>5 DEF Family!Next

\* SessionService.revoke, of a row that may have been revoked since it was read.
LEMMA RevokeOneStep ==
  ASSUME IInv, NEW r \in Request, Revoke(r)
  PROVE  [Family!Next]_<<Phases, Tokens>>
<1>1. PICK h \in Session : h = held[r] /\ row[h].made
  BY DEF Revoke, IInv, HeldIsMade, Owning
<1> DEFINE kept == Save(row[h], copy[r], REVOKED_FIELDS)
<1>2. row[h] \in SessionRow /\ copy[r] \in SessionRow  BY DEF IInv, TypeOK
<1>3. kept \in SessionRow /\ kept.made = row[h].made
  BY <1>2, SaveRevocation
<1>4. /\ row'[h] = [kept EXCEPT !.revoked = TRUE]
      /\ \A z \in Session \ {h} : row'[z] = row[z]
  BY <1>1 DEF Revoke, IInv, TypeOK
<1> HIDE DEF kept
<1>5. Phase(h)' = "revoked" /\ Accepts(h)' = 0
  BY <1>1, <1>3, <1>4 DEF Phase, Accepts, SessionRow
<1>6. CASE row[h].revoked
  <2>1. Phase(h) = "revoked" /\ Accepts(h) = 0
    BY <1>1, <1>6 DEF Phase, Accepts
  <2> QED  BY <1>4, <1>5, <2>1, RowStutters
<1>7. CASE ~row[h].revoked
  <2>1. Phase(h) \in {"open", "expired"}  BY <1>1, <1>7 DEF Phase
  <2>2. \A z \in Session \ {h} : Phase(z)' = Phase(z) /\ Accepts(z)' = Accepts(z)
    BY <1>4 DEF Phase, Accepts
  <2>3. Family!Revoke({h})
    BY <1>5, <2>1, <2>2 DEF Family!Revoke, Phases, Tokens
  <2> QED  BY <2>3 DEF Family!Next
<1> QED  BY <1>6, <1>7

\* SessionService: whatever overlaps, what the holder of a refresh token can do
\* with the rows is what the abstract sessions allow: one token at a time, each
\* newer than any before it, none after the end, and revoked for good.
THEOREM ImplementsRefreshFamily == Spec => FollowsRefreshFamily
<1> USE DEF Phases, Tokens
<1>1. Init => Family!Init
  BY DEF Init, Family!Init, Phase, Accepts, NewRow
<1>2. IInv /\ [Next]_vars => [Family!Next]_<<Phases, Tokens>>
  <2> HIDE DEF Phases, Tokens
  <2> SUFFICES ASSUME IInv, [Next]_vars
               PROVE  [Family!Next]_<<Phases, Tokens>>
    OBVIOUS
  <2>1. TypeOK  BY DEF IInv
  <2>2. CASE row' = row
    BY <2>2 DEF Phases, Tokens, Phase, Accepts
  <2>3. ASSUME NEW r \in Request,
               \/ SignIn(r) \/ Renew(r) \/ Use(r) \/ Manage(r)
               \/ RevokeAllForUser(r) \/ Revoke(r)
        PROVE  [Family!Next]_<<Phases, Tokens>>
    <3>1. CASE CreateSession(r)  BY <2>1, <3>1, OpenStep
    <3>2. CASE IssueRefreshToken(r)
      <4>1. /\ at[r] = "issue"
            /\ minted' = [minted EXCEPT ![held[r]] = @ + 1]
            /\ row' = [row EXCEPT ![held[r]] =
                         Save(row[held[r]], copy[r],
                              [previous |-> 0, current |-> minted'[held[r]],
                               dated |-> TRUE])]
        BY <3>2 DEF IssueRefreshToken, Save
      <4> QED  BY <4>1, TokenStep
    <3>3. CASE RotateRefreshToken(r)
      <4>1. /\ at[r] = "rotate"
            /\ minted' = [minted EXCEPT ![held[r]] = @ + 1]
            /\ row' = [row EXCEPT ![held[r]] =
                         Save(row[held[r]], copy[r],
                              [previous |-> copy[r].current,
                               current |-> minted'[held[r]], dated |-> TRUE])]
        BY <3>3 DEF RotateRefreshToken
      <4>2. copy[r].current \in Nat  BY <2>1 DEF TypeOK, SessionRow
      <4> QED  BY <4>1, <4>2, TokenStep
    <3>4. CASE RevokeAllForUser(r)
      BY <2>1, <3>4, RevokeStep DEF RevokeAllForUser
    <3>5. CASE Logout(r)
      <4>1. RevokeRows({held[r]})  BY <3>5 DEF Logout
      <4>2. RevokeRows({held[r]} \cap Session)  BY <4>1 DEF RevokeRows
      <4> QED  BY <2>1, <4>2, RevokeStep
    <3>6. CASE Revoke(r)  BY <3>6, RevokeOneStep
    <3>7. CASE \/ Login(r) \/ RegisterFailedAttempt(r) \/ PasswordMatches(r)
               \/ BeginEnrollment(r) \/ VerifyMfa(r) \/ EnableMfa(r) \/ Manage(r)
      BY <2>2, <3>7 DEF Login, RegisterFailedAttempt, PasswordMatches,
         BeginEnrollment, VerifyMfa, EnableMfa, Manage, FindOrFail, Update, Unlock,
         ResetMfa, ResetPassword
    <3>8. CASE \/ ConsumeRefreshToken(r) \/ DetectReuse(r) \/ Refresh(r)
               \/ CanActivate(r) \/ RolesGuard(r) \/ AssertPassword(r)
               \/ ChangePassword(r)
      BY <2>2, <3>8 DEF ConsumeRefreshToken, DetectReuse, Refresh, CanActivate,
         RolesGuard, AssertPassword, ChangePassword
    <3> QED
      BY <2>3, <3>1, <3>2, <3>3, <3>4, <3>5, <3>6, <3>7, <3>8
      DEF SignIn, Renew, Use
  <2>4. CASE TimePasses
    <3>1. CASE LockoutPasses  BY <2>2, <3>1 DEF LockoutPasses
    <3>2. ASSUME NEW s \in Session, TwoHoursPass(s)
          PROVE  [Family!Next]_<<Phases, Tokens>>
      BY <2>1, <3>2, ExpireStep
    <3> QED  BY <2>4, <3>1, <3>2 DEF TimePasses
  <2>5. CASE UNCHANGED vars  BY <2>2, <2>5 DEF vars
  <2> QED  BY <2>3, <2>4, <2>5 DEF Next
<1> QED  BY <1>1, <1>2, Invariance, PTL DEF Spec, FollowsRefreshFamily, Family!Spec

-----------------------------------------------------------------------------
(* The role in an access token *)

Apart(r) ==
  \A q \in Request \ {r} : /\ at'[q] = at[q] /\ held'[q] = held[q]
                           /\ user'[q] = user[q] /\ seen'[q] = seen[q]

LEMMA LeaveApart ==
  ASSUME TypeOK, NEW r \in Request, NEW there, Leave(r, there)
  PROVE  Apart(r) /\ at'[r] = there /\ seen'[r] = 0
BY DEF TypeOK, Leave, Apart

LEMMA DoneApart ==
  ASSUME TypeOK, NEW r \in Request, Done(r)
  PROVE  Apart(r) /\ at'[r] = "idle" /\ seen'[r] = 0
BY LeaveApart DEF Done

LEMMA GotoApart ==
  ASSUME TypeOK, NEW r \in Request, NEW there, Goto(r, there),
         UNCHANGED <<user, seen>>,
         \A q \in Request \ {r} : held'[q] = held[q]
  PROVE  Apart(r) /\ at'[r] = there /\ seen'[r] = seen[r] /\ user'[r] = user[r]
BY DEF TypeOK, Goto, Apart

LEMMA ReadApart ==
  ASSUME TypeOK, NEW r \in Request, NEW there, Goto(r, there),
         ReadAccount(r), UNCHANGED held
  PROVE  /\ Apart(r) /\ at'[r] = there /\ held'[r] = held[r]
         /\ seen'[r] = epoch /\ user'[r] = account
BY DEF TypeOK, Goto, ReadAccount, Apart

LEMMA UsableApart ==
  ASSUME TypeOK, NEW r \in Request, NEW s \in Session, NEW next,
         AssertUsable(r, s, next)
  PROVE  /\ Apart(r) /\ at'[r] \in {"idle", "revoke", next}
         /\ seen'[r] \in {0, seen[r]}
<1>1. CASE row[s].revoked
  BY <1>1, DoneApart DEF AssertUsable
<1>2. CASE ~row[s].revoked
  <2>1. PICK there \in {"revoke", next} : Goto(r, there)
    BY <1>2 DEF AssertUsable
  <2>2. UNCHANGED <<user, seen>> /\ \A q \in Request \ {r} : held'[q] = held[q]
    BY <1>2 DEF AssertUsable, TypeOK
  <2> QED  BY <2>1, <2>2, GotoApart
<1> QED  BY <1>1, <1>2

\* What an active account may do stays as it is.
StandingKept ==
  account.is_active => account'.is_active /\ account'.role = account.role

\* Only an update writes the role or whether the account is active.
LEMMA SaveKeepsStanding ==
  ASSUME NEW now \in Account, NEW read, NEW set,
         "role" \notin DOMAIN set, "is_active" \notin DOMAIN set
  PROVE  /\ Save(now, read, set).role = now.role
         /\ Save(now, read, set).is_active = now.is_active
BY DEF Save, Account

\* A step that leaves the standing, and leaves no revocation undone.
LEMMA RightsKeep ==
  ASSUME IInv, RightsInv, NEW r \in Request, Apart(r),
         StandingKept, epoch' = epoch,
         overlapped \subseteq overlapped',
         \A s \in Session : row[s].revoked => row'[s].revoked,
         at[r] # "revoke_all",
         seen'[r] <= epoch,
         at'[r] = "create" => Holds(user[r].role)',
         at'[r] \in Bearing => Excused(held[r], user[r].role)',
         \A j \in jwt' : j \in jwt \/ Excused(j.sid, j.role)'
  PROVE  RightsInv'
<1> USE DEF RightsInv
<1>1. Revoking => Revoking'  BY DEF Revoking, Apart
<1>2. ASSUME NEW s \in Session, NEW role, row[s].made, Excused(s, role)
      PROVE  Excused(s, role)'
  <2>1. live(s)' => live(s)  BY <1>2 DEF live
  <2> QED  BY <1>1, <1>2, <2>1 DEF Excused, Holds, StandingKept
<1>3. ASSUME NEW q \in Request
      PROVE  /\ seen'[q] <= epoch'
             /\ at'[q] = "create" /\ seen'[q] = epoch' => Holds(user[q].role)'
             /\ at'[q] \in Bearing => Excused(held[q], user[q].role)'
  <2>1. CASE q = r  BY <2>1
  <2>2. CASE q # r
    <3>1. /\ at'[q] = at[q] /\ held'[q] = held[q]
          /\ user'[q] = user[q] /\ seen'[q] = seen[q]
      BY <2>2 DEF Apart
    <3>2. ASSUME at[q] \in Bearing  PROVE Excused(held[q], user[q].role)'
      <4>1. held[q] \in Session /\ row[held[q]].made
        BY <3>2 DEF IInv, HeldIsMade, Owning, Bearing
      <4>2. Excused(held[q], user[q].role)  BY <3>2
      <4> DEFINE s == held[q]
                 role == user[q].role
      <4>3. s' = s /\ role' = role  BY <3>1
      <4> HIDE DEF s, role
      <4>4. s \in Session /\ row[s].made /\ Excused(s, role)  BY <4>1, <4>2 DEF s, role
      <4>5. live(s)' => live(s)  BY <4>3, <4>4 DEF live
      <4>6. Excused(s, role)'
        BY <1>1, <4>3, <4>4, <4>5 DEF Excused, Holds, StandingKept
      <4> QED  BY <4>6 DEF s, role
    <3>3. at'[q] = "create" /\ seen'[q] = epoch' => Holds(user[q].role)'
      BY <3>1 DEF Holds, StandingKept
    <3> QED  BY <3>1, <3>2, <3>3
  <2> QED  BY <2>1, <2>2
<1>4. ASSUME NEW j \in jwt  PROVE Excused(j.sid, j.role)'
  <2>1. j.sid \in Session /\ row[j.sid].made /\ Excused(j.sid, j.role)
    BY DEF IInv, TypeOK, TokensAreOfSessions
  <2> QED  BY <1>2, <2>1
<1> QED  BY <1>3, <1>4

\* A change that revokes the sessions excuses them until it has.
LEMMA OwesKeeps ==
  ASSUME IInv, RightsInv, NEW r \in Request, OwesRevocation(r)
  PROVE  RightsInv'
<1>1. /\ epoch' = epoch + 1 /\ epoch \in Nat
      /\ seen \in [Request -> Nat] /\ seen' = [seen EXCEPT ![r] = 0]
  BY DEF OwesRevocation, Leave, IInv, TypeOK
<1>2. Revoking'
  BY DEF OwesRevocation, Leave, Revoking, IInv, TypeOK
<1>3. ASSUME NEW q \in Request  PROVE seen'[q] < epoch'
  BY <1>1 DEF RightsInv
<1> QED  BY <1>1, <1>2, <1>3 DEF RightsInv, Excused

\* Once it has, none of them is live.
LEMMA RevokedKeep ==
  ASSUME IInv, RightsInv, NEW r \in Request, RevokeAllForUser(r)
  PROVE  RightsInv'
<1>1. /\ Apart(r) /\ at'[r] = "idle" /\ seen'[r] = 0
      /\ UNCHANGED <<account, jwt, epoch, overlapped>>
  BY DoneApart DEF RevokeAllForUser, IInv
<1>2. \A s \in Session : ~live(s)'
  BY DEF RevokeAllForUser, RevokeRows, live, IInv, TypeOK, SessionRow
<1>3. \A s \in Session : \A role : Excused(s, role)'
  BY <1>2 DEF Excused
<1>4. IInv'  BY RevocationKeeps
<1>5. \A q \in Request : at'[q] \in Bearing => held'[q] \in Session
  BY <1>4 DEF IInv, HeldIsMade, Owning, Bearing
<1>6. \A j \in jwt' : j.sid \in Session  BY <1>4 DEF IInv, TypeOK
<1>7. epoch \in Nat  BY DEF IInv, TypeOK
<1>8. ASSUME NEW q \in Request
      PROVE  /\ seen'[q] <= epoch'
             /\ at'[q] = "create" /\ seen'[q] = epoch' => Holds(user[q].role)'
  BY <1>1, <1>7, <1>8 DEF Apart, RightsInv, Holds
<1>9. ASSUME NEW q \in Request, at'[q] \in Bearing
      PROVE  Excused(held[q], user[q].role)'
  BY <1>3, <1>5, <1>9
<1>10. ASSUME NEW j \in jwt'  PROVE Excused(j.sid, j.role)'
  BY <1>3, <1>6
<1> QED  BY <1>8, <1>9, <1>10 DEF RightsInv

LEMMA PlainKeeps ==
  ASSUME IInv, RightsInv, NEW r \in Request, Apart(r),
         StandingKept, UNCHANGED <<epoch, overlapped, jwt>>,
         \A s \in Session : row[s].revoked => row'[s].revoked,
         at[r] # "revoke_all",
         at'[r] \notin Bearing \cup {"create"},
         seen'[r] \in {0, seen[r], epoch}
  PROVE  RightsInv'
<1>1. seen'[r] <= epoch  BY DEF RightsInv, IInv, TypeOK
<1> QED  BY <1>1, RightsKeep

\* The steps of a sign-in up to its code, and a super admin's changes.
LEMMA AccountRights ==
  ASSUME IInv, RightsInv, NEW r \in Request,
         \/ Login(r) \/ RegisterFailedAttempt(r) \/ PasswordMatches(r)
         \/ BeginEnrollment(r) \/ FindOrFail(r) \/ Update(r)
         \/ Unlock(r) \/ ResetMfa(r) \/ ResetPassword(r)
         \/ AssertPassword(r) \/ ChangePassword(r)
  PROVE  RightsInv'
<1> DEFINE Plain == /\ StandingKept
                    /\ at[r] # "revoke_all"
                    /\ Apart(r) /\ at'[r] \notin Bearing \cup {"create"}
                    /\ seen'[r] \in {0, seen[r], epoch}
<1>1. TypeOK /\ account \in Account /\ user[r] \in Account
  BY DEF IInv, TypeOK
<1>2. UNCHANGED <<row, jwt, overlapped>>
  BY DEF Login, RegisterFailedAttempt, PasswordMatches, BeginEnrollment,
         FindOrFail, Update, Unlock, ResetMfa, ResetPassword, AssertPassword,
         ChangePassword
<1>3. ASSUME Plain, epoch' = epoch  PROVE RightsInv'
  BY <1>2, <1>3, PlainKeeps
<1> DEFINE counts(n, l) == [failed_attempts |-> n, lock |-> l]
           secrets(a, b) == [mfa_secret |-> a, mfa_enabled |-> b]
<1>4. /\ \A n, l : account' = Save(account, user[r], counts(n, l)) => StandingKept
      /\ \A a, b : account' = Save(account, user[r], secrets(a, b)) => StandingKept
  <2>1. /\ \A n, l : {"role", "is_active"} \cap DOMAIN counts(n, l) = {}
        /\ \A a, b : {"role", "is_active"} \cap DOMAIN secrets(a, b) = {}
    OBVIOUS
  <2> HIDE DEF counts, secrets
  <2> QED  BY <1>1, <2>1, SaveKeepsStanding DEF StandingKept
<1>14. account' = account => StandingKept  BY DEF StandingKept
<1>5. CASE Login(r)
  BY <1>1, <1>3, <1>5, <1>14, ReadApart DEF Login, Bearing
<1>6. CASE RegisterFailedAttempt(r)
  <2>1. CASE OwesRevocation(r)  BY <2>1, OwesKeeps
  <2>2. CASE ~OwesRevocation(r)
    <3>1. Done(r) /\ epoch' = epoch /\ at[r] = "compare"
      BY <1>6, <2>2 DEF RegisterFailedAttempt
    <3>2. \E n, l : account' = Save(account, user[r], counts(n, l))
      BY <1>6 DEF RegisterFailedAttempt
    <3>3. StandingKept  BY <1>4, <3>2
    <3> QED  BY <1>1, <1>3, <3>1, <3>3, DoneApart DEF Bearing
  <2> QED  BY <2>1, <2>2
<1>7. CASE PasswordMatches(r)
  <2>1. StandingKept /\ at[r] = "compare" /\ epoch' = epoch
    BY <1>4, <1>7 DEF PasswordMatches, ClearCounter
  <2>2. \/ Done(r)
        \/ Goto(r, "enroll") /\ UNCHANGED <<user, held, seen>>
    BY <1>7 DEF PasswordMatches
  <2> QED  BY <1>1, <1>3, <2>1, <2>2, DoneApart, GotoApart DEF Bearing
<1>8. CASE BeginEnrollment(r)
  <2>1. StandingKept /\ at[r] = "enroll" /\ epoch' = epoch
    BY <1>4, <1>8 DEF BeginEnrollment
  <2> QED  BY <1>1, <1>3, <1>8, <2>1, DoneApart DEF BeginEnrollment, Bearing
<1>9. CASE FindOrFail(r)
  BY <1>1, <1>3, <1>9, <1>14, ReadApart DEF FindOrFail, Bearing
<1>10. CASE Update(r)
  <2>1. CASE OwesRevocation(r)  BY <2>1, OwesKeeps
  <2>2. CASE ~OwesRevocation(r)
    <3>1. PICK role \in Granted, active \in BOOLEAN :
            /\ account' = Save(account, user[r], [role |-> role,
                                                  is_active |-> active])
            /\ role = user[r].role /\ (active \/ ~user[r].is_active)
            /\ Done(r) /\ UNCHANGED epoch
      BY <1>10, <2>2 DEF Update
    <3>2. StandingKept
      BY <1>1, <3>1 DEF Save, Account, StandingKept
    <3>3. at[r] = "manage"  BY <1>10 DEF Update
    <3> QED  BY <1>1, <1>3, <3>1, <3>2, <3>3, DoneApart DEF Bearing
  <2> QED  BY <2>1, <2>2
<1>11. CASE Unlock(r)
  <2>1. StandingKept /\ at[r] = "manage" /\ epoch' = epoch
    BY <1>4, <1>11 DEF Unlock, ClearCounter
  <2> QED  BY <1>1, <1>3, <1>11, <2>1, DoneApart DEF Unlock, Bearing
<1>12. CASE ResetMfa(r) \/ ResetPassword(r) \/ ChangePassword(r)
  BY <1>12, OwesKeeps DEF ResetMfa, ResetPassword, ChangePassword
<1>13. CASE AssertPassword(r)
  <2>1. /\ at[r] = "inside" /\ epoch' = epoch /\ account' = account
        /\ Done(r) \/ (Goto(r, "change") /\ UNCHANGED <<user, held, seen>>)
    BY <1>13 DEF AssertPassword
  <2> QED  BY <1>1, <1>3, <1>14, <2>1, DoneApart, GotoApart DEF Bearing
<1> QED
  BY <1>5, <1>6, <1>7, <1>8, <1>9, <1>10, <1>11, <1>12, <1>13

\* The steps that read or end a session.
LEMMA SessionRights ==
  ASSUME IInv, RightsInv, NEW r \in Request,
         \/ ConsumeRefreshToken(r) \/ DetectReuse(r) \/ CanActivate(r)
         \/ RolesGuard(r) \/ Logout(r) \/ Revoke(r)
  PROVE  RightsInv'
<1>1. TypeOK  BY DEF IInv
<1>2. /\ UNCHANGED <<account, jwt, epoch, overlapped>>
      /\ at[r] # "revoke_all"
  BY DEF ConsumeRefreshToken, DetectReuse, CanActivate, RolesGuard, Logout, Revoke
<1>3. \A s \in Session : row[s].revoked => row'[s].revoked
  <2>1. CASE Logout(r) \/ Revoke(r)  BY <2>1, RevocationKeeps
  <2>2. CASE ~(Logout(r) \/ Revoke(r))
    BY <2>2 DEF ConsumeRefreshToken, DetectReuse, CanActivate, RolesGuard
  <2> QED  BY <2>1, <2>2
<1>4. /\ Apart(r) /\ at'[r] \notin Bearing \cup {"create"}
      /\ seen'[r] \in {0, seen[r]}
  <2>1. CASE Logout(r) \/ Revoke(r)
    BY <1>1, <2>1, DoneApart DEF Logout, Revoke, Bearing
  <2>2. CASE DetectReuse(r)
    <3>1. \/ Done(r)
          \/ Leave(r, "revoke_replayed")
      BY <2>2 DEF DetectReuse
    <3> QED  BY <1>1, <3>1, DoneApart, LeaveApart DEF Bearing
  <2>3. CASE CanActivate(r)
    <3>1. PICK j \in jwt : AssertUsable(r, j.sid, "inside")
      BY <2>3 DEF CanActivate
    <3>2. j.sid \in Session  BY <1>1 DEF TypeOK
    <3> QED  BY <1>1, <3>1, <3>2, UsableApart DEF Bearing
  <2>4. CASE RolesGuard(r)
    <3>1. PICK j \in jwt : AssertUsable(r, j.sid, "find")
      BY <2>4 DEF RolesGuard
    <3>2. j.sid \in Session  BY <1>1 DEF TypeOK
    <3> QED  BY <1>1, <3>1, <3>2, UsableApart DEF Bearing
  <2>5. CASE ConsumeRefreshToken(r)
    <3>1. PICK s \in Session :
            \/ AssertUsable(r, s, "load")
            \/ /\ Goto(r, "detect") \/ Goto(r, "revoke")
               /\ held' = [held EXCEPT ![r] = s]
               /\ UNCHANGED <<user, seen>>
      BY <2>5 DEF ConsumeRefreshToken
    <3>2. CASE AssertUsable(r, s, "load")
      BY <1>1, <3>2, UsableApart DEF Bearing
    <3>3. CASE ~AssertUsable(r, s, "load")
      <4>1. \A q \in Request \ {r} : held'[q] = held[q]
        BY <1>1, <3>1, <3>3 DEF TypeOK
      <4> QED  BY <1>1, <3>1, <3>3, <4>1, GotoApart DEF Bearing
    <3> QED  BY <3>2, <3>3
  <2> QED  BY <2>1, <2>2, <2>3, <2>4, <2>5
<1>5. StandingKept  BY <1>2 DEF StandingKept
<1> QED  BY <1>2, <1>3, <1>4, <1>5, PlainKeeps

\* The steps that take a role from the account, and those that pass it on.
LEMMA BearingRights ==
  ASSUME IInv, RightsInv, NEW r \in Request,
         \/ VerifyMfa(r) \/ CreateSession(r) \/ IssueRefreshToken(r)
         \/ EnableMfa(r) \/ Refresh(r) \/ RotateRefreshToken(r)
  PROVE  RightsInv'
<1>1. TypeOK /\ epoch \in Nat /\ seen[r] \in Nat /\ seen[r] <= epoch
  BY DEF IInv, RightsInv, TypeOK
<1>2. /\ StandingKept /\ epoch' = epoch
      /\ at[r] # "revoke_all"
  BY <1>1 DEF VerifyMfa, CreateSession, IssueRefreshToken, EnableMfa, Refresh,
         RotateRefreshToken, TypeOK, Account, StandingKept
<1>3. \A s \in Session : row[s].revoked => row'[s].revoked
  <2>1. CASE CreateSession(r)  BY <2>1, CreateKeeps
  <2>2. CASE IssueRefreshToken(r)  BY <2>2, IssueKeeps
  <2>3. CASE RotateRefreshToken(r)  BY <2>3, RotateKeeps
  <2>4. CASE VerifyMfa(r) \/ EnableMfa(r) \/ Refresh(r)
    BY <2>4 DEF VerifyMfa, EnableMfa, Refresh
  <2> QED  BY <2>1, <2>2, <2>3, <2>4
<1>4. overlapped \subseteq overlapped'
  BY DEF VerifyMfa, CreateSession, IssueRefreshToken, EnableMfa, Refresh,
         RotateRefreshToken
<1>5. CASE VerifyMfa(r)
  <2>1. /\ Apart(r) /\ at'[r] = "create" /\ seen'[r] = epoch
        /\ user'[r] = account /\ jwt' = jwt
    BY <1>1, <1>5, ReadApart DEF VerifyMfa
  <2>2. Holds(user[r].role)'
    BY <1>5, <2>1 DEF VerifyMfa, Holds
  <2> QED  BY <1>1, <1>2, <1>3, <1>4, <2>1, <2>2, RightsKeep DEF Bearing
<1>6. CASE CreateSession(r)
  <2>1. PICK s \in Session :
          /\ held' = [held EXCEPT ![r] = s]
          /\ overlapped' = IF seen[r] = epoch THEN overlapped
                           ELSE overlapped \cup {s}
    BY <1>6 DEF CreateSession
  <2>2. Goto(r, "issue") /\ UNCHANGED <<user, seen, jwt, account>> /\ at[r] = "create"
    BY <1>6 DEF CreateSession
  <2>3. held'[r] = s /\ \A q \in Request \ {r} : held'[q] = held[q]
    BY <1>1, <2>1 DEF TypeOK
  <2>4. Apart(r) /\ at'[r] = "issue" /\ seen'[r] = seen[r] /\ user'[r] = user[r]
    BY <1>1, <2>2, <2>3, GotoApart
  <2>5. Holds(user[r].role) \/ s \in overlapped'
    BY <2>1, <2>2 DEF RightsInv
  <2>6. Excused(held[r], user[r].role)'
    BY <2>2, <2>3, <2>4, <2>5 DEF Excused, Holds
  <2> QED  BY <1>1, <1>2, <1>3, <1>4, <2>2, <2>4, <2>6, RightsKeep
<1> DEFINE s == held[r]
           role == user[r].role
           Given == \/ jwt' = jwt
                    \/ jwt' = jwt \cup {[sid |-> s, role |-> role]}
<1>7. ASSUME at[r] \in Bearing, Apart(r), overlapped' = overlapped, Given,
             \/ at'[r] = "idle" /\ seen'[r] = 0
             \/ /\ at'[r] = "enable" /\ held'[r] = s /\ user'[r] = user[r]
                /\ seen'[r] = seen[r]
      PROVE  RightsInv'
  <2>1. s \in Session /\ row[s].made /\ Excused(s, role)
    BY <1>7 DEF RightsInv, IInv, HeldIsMade, Owning, Bearing
  <2> DEFINE StillExcused ==
               row'[s].made /\ ~row'[s].revoked =>
                 \/ account'.is_active /\ role = account'.role
                 \/ s \in overlapped' \/ Revoking'
  <2>2. StillExcused
    <3>1. Revoking => Revoking'
      BY <1>2, <1>7 DEF Revoking, Apart
    <3>2. row'[s].made /\ ~row'[s].revoked => live(s)
      BY <1>3, <2>1 DEF live
    <3> HIDE DEF s, role
    <3> QED  BY <1>2, <1>7, <2>1, <3>1, <3>2 DEF Excused, Holds, StandingKept
  <2>3. at'[r] \in Bearing => Excused(held[r], user[r].role)'
    BY <1>7, <2>2 DEF Excused, Holds, live, Bearing
  <2>4. ASSUME NEW j \in jwt'  PROVE j \in jwt \/ Excused(j.sid, j.role)'
    <3>1. ASSUME j = [sid |-> s, role |-> role]  PROVE Excused(j.sid, j.role)'
      <4>1. j.sid = s /\ j.role = role  BY <3>1
      <4> HIDE DEF s, role
      <4> QED  BY <2>2, <4>1 DEF Excused, Holds, live
    <3> QED  BY <1>7, <3>1
  <2>5. at'[r] # "create" /\ seen'[r] <= epoch  BY <1>1, <1>7
  <2> QED  BY <1>2, <1>3, <1>4, <1>7, <2>3, <2>4, <2>5, RightsKeep
<1>8. CASE IssueRefreshToken(r)
  <2>1. /\ at[r] \in Bearing /\ overlapped' = overlapped
        /\ \/ BuildSuccess(r) /\ Done(r)
           \/ /\ Goto(r, "enable")
              /\ UNCHANGED <<jwt, user, held, seen>>
    BY <1>8 DEF IssueRefreshToken, Bearing
  <2>2. CASE BuildSuccess(r) /\ Done(r)
    BY <1>1, <1>7, <2>1, <2>2, DoneApart DEF BuildSuccess
  <2>3. CASE Goto(r, "enable") /\ UNCHANGED <<jwt, user, held, seen>>
    BY <1>1, <1>7, <2>1, <2>3, GotoApart
  <2> QED  BY <2>1, <2>2, <2>3
<1>9. CASE EnableMfa(r) \/ RotateRefreshToken(r)
  <2>1. /\ at[r] \in Bearing /\ overlapped' = overlapped
        /\ BuildSuccess(r) /\ Done(r)
    BY <1>9 DEF EnableMfa, RotateRefreshToken, Bearing
  <2> QED  BY <1>1, <1>7, <2>1, DoneApart DEF BuildSuccess
<1>10. CASE Refresh(r)
  <2>1. /\ IF account.is_active THEN Goto(r, "rotate") ELSE Goto(r, "revoke")
        /\ ReadAccount(r) /\ UNCHANGED <<held, jwt, account>>
    BY <1>10 DEF Refresh
  <2>2. /\ Apart(r) /\ at'[r] \in {"rotate", "revoke"} /\ seen'[r] = epoch
        /\ user'[r] = account
        /\ at'[r] = "rotate" => account.is_active
    BY <1>1, <2>1, ReadApart
  <2>3. at'[r] \in Bearing => Excused(held[r], user[r].role)'
    BY <2>1, <2>2 DEF Excused, Holds, Bearing
  <2> QED  BY <1>1, <1>2, <1>3, <1>4, <2>1, <2>2, <2>3, RightsKeep
<1> QED  BY <1>5, <1>6, <1>8, <1>9, <1>10

LEMMA TimeRights ==
  ASSUME IInv, RightsInv, TimePasses \/ UNCHANGED vars
  PROVE  RightsInv'
<1>1. \A s \in Session : /\ row'[s].made = row[s].made
                         /\ row'[s].revoked = row[s].revoked
  <2>1. CASE UNCHANGED vars  BY <2>1 DEF vars
  <2>2. CASE LockoutPasses  BY <2>2 DEF LockoutPasses
  <2>3. ASSUME NEW z \in Session, TwoHoursPass(z)
        PROVE  \A s \in Session : /\ row'[s].made = row[s].made
                                  /\ row'[s].revoked = row[s].revoked
    BY <2>3 DEF TwoHoursPass, IInv, TypeOK, SessionRow
  <2> QED  BY <2>1, <2>2, <2>3 DEF TimePasses
<1>2. /\ account'.role = account.role /\ account'.is_active = account.is_active
      /\ UNCHANGED <<at, user, held, seen, jwt, epoch, overlapped>>
  BY DEF TimePasses, LockoutPasses, TwoHoursPass, vars, requestVars, IInv, TypeOK,
         Account
<1>3. Revoking' = Revoking  BY <1>2 DEF Revoking
<1>4. \A s \in Session : \A role : Excused(s, role) => Excused(s, role)'
  BY <1>1, <1>2, <1>3 DEF Excused, Holds, live
<1>5. ASSUME NEW q \in Request, at[q] \in Bearing
      PROVE  Excused(held[q], user[q].role)'
  <2>1. held[q] \in Session /\ Excused(held[q], user[q].role)
    BY <1>5 DEF RightsInv, IInv, HeldIsMade, Owning, Bearing
  <2> DEFINE s == held[q]
             role == user[q].role
  <2>2. s' = s /\ role' = role  BY <1>2
  <2> HIDE DEF s, role
  <2>3. s \in Session /\ Excused(s, role)  BY <2>1 DEF s, role
  <2>4. Excused(s, role)'
    BY <1>1, <1>2, <1>3, <2>2, <2>3 DEF Excused, Holds, live
  <2> QED  BY <2>4 DEF s, role
<1>6. ASSUME NEW j \in jwt  PROVE Excused(j.sid, j.role)'
  BY <1>4 DEF RightsInv, IInv, TypeOK
<1> QED  BY <1>2, <1>5, <1>6 DEF RightsInv, Holds

LEMMA RightsStep == IInv /\ RightsInv /\ [Next]_vars => RightsInv'
BY AccountRights, SessionRights, BearingRights, TimeRights, RevokedKeep
DEF Next, SignIn, Renew, Use, Manage

\* AdminUsersService.update: a change of role or a deactivation takes effect at
\* once.  Whatever overlaps, a live session is of an active account and its access
\* token has its admin's present rights, but for a revocation under way and a
\* sign-in that ran across a change.
THEOREM RightsCurrent == Spec => []RightsAreCurrent
<1>1. Init => RightsInv
  BY DEF Init, RightsInv, Bearing
<1>2. RightsInv => RightsAreCurrent
  BY DEF RightsInv, Excused, Holds, RightsAreCurrent
<1> QED  BY <1>1, <1>2, RightsStep, Invariance, PTL DEF Spec

-----------------------------------------------------------------------------
(* How many guesses a lock costs *)

\* How far the row is on its way to a lock.
Rank(a) == IF a.lock = "ahead" THEN MaxFailed
           ELSE IF a.failed_attempts < MaxFailed THEN a.failed_attempts
           ELSE MaxFailed - 1

\* Login refuses a locked account, so no comparison has read a lock ahead.
Unread == \A r \in Request : at[r] = "compare" => user[r].lock # "ahead"

\* A counter of 0 has counted nothing.
Blank == account.failed_attempts = 0 => misses.wrong = 0

\* Every request that was overtaken sets the row back by less than MaxFailed.
Counted == misses.wrong <= MaxFailed * misses.overtaken + Rank(account)

GuessInv == Unread /\ Blank /\ Counted

LEMMA Product ==
  ASSUME NEW k \in Nat
  PROVE  /\ MaxFailed * k \in Nat
         /\ MaxFailed * (k + 1) = MaxFailed * k + MaxFailed
BY BoundsAssumption

LEMMA RankFacts ==
  ASSUME NEW a \in Account
  PROVE  /\ Rank(a) \in 0..MaxFailed
         /\ a.lock # "ahead" => Rank(a) < MaxFailed
BY BoundsAssumption DEF Rank, Account

-----------------------------------------------------------------------------
(* The steps *)

\* What a wrong password leaves in the row.
LEMMA MissLeaves ==
  ASSUME IInv, NEW r \in Request, RegisterFailedAttempt(r), user[r].lock # "ahead"
  PROVE  /\ account'.failed_attempts = user[r].failed_attempts + 1
         /\ IF user[r].failed_attempts + 1 >= MaxFailed
            THEN account'.lock = "ahead"
            ELSE account'.lock \in {"none", account.lock}
         /\ Misses(r, 1)
<1> DEFINE n == user[r].failed_attempts + 1
           l == IF n >= MaxFailed THEN "ahead" ELSE "none"
<1>1. /\ account' = Save(account, user[r], [failed_attempts |-> n, lock |-> l])
      /\ Misses(r, 1)
  BY DEF RegisterFailedAttempt
<1>2. account \in Account /\ user[r] \in Account  BY DEF IInv, TypeOK
<1>3. n \in Nat /\ n # user[r].failed_attempts  BY <1>2 DEF Account
<1>4. l \in {"none", "ahead"}  OBVIOUS
<1>5. n >= MaxFailed => l = "ahead"  OBVIOUS
<1>6. n < MaxFailed => l = "none"  BY <1>3, BoundsAssumption
<1>7. n = user[r].failed_attempts + 1  OBVIOUS
<1> HIDE DEF n, l
<1>8. /\ account'.failed_attempts = n
      /\ l # user[r].lock => account'.lock = l
      /\ l = user[r].lock => account'.lock = account.lock
  BY <1>1, <1>2, <1>3 DEF Save, Account
<1>9. IF n >= MaxFailed THEN account'.lock = "ahead"
      ELSE account'.lock \in {"none", account.lock}
  BY <1>3, <1>4, <1>5, <1>6, <1>8, BoundsAssumption
<1> QED  BY <1>1, <1>7, <1>8, <1>9

LEMMA MissKeeps ==
  ASSUME IInv, IInv', GuessInv, NEW r \in Request, RegisterFailedAttempt(r)
  PROVE  Blank' /\ Counted'
<1>1. at[r] = "compare"  BY DEF RegisterFailedAttempt
<1>2. user[r].lock # "ahead"  BY <1>1 DEF GuessInv, Unread
<1> DEFINE d == user[r].failed_attempts
           k == misses.overtaken
           m == misses.wrong
<1>3. /\ account'.failed_attempts = d + 1
      /\ IF d + 1 >= MaxFailed THEN account'.lock = "ahead"
         ELSE account'.lock \in {"none", account.lock}
      /\ Misses(r, 1)
  BY <1>2, MissLeaves
<1>4. /\ account \in Account /\ account' \in Account /\ user[r] \in Account
      /\ d \in Nat /\ k \in Nat /\ m \in Nat
  BY DEF IInv, TypeOK, Account
<1>5. /\ misses'.wrong = m + 1
      /\ misses'.overtaken = IF Overtaken(r) THEN k + 1 ELSE k
  BY <1>3, MissesTyped DEF IInv
<1>6. Blank'  BY <1>3, <1>4 DEF Blank
<1>7. m <= MaxFailed * k + Rank(account)  BY DEF GuessInv, Counted
<1>8. /\ Rank(account) \in 0..MaxFailed /\ Rank(account)' \in 0..MaxFailed
      /\ MaxFailed * k \in Nat /\ MaxFailed * (k + 1) = MaxFailed * k + MaxFailed
  BY <1>4, RankFacts, Product
<1>9. Rank(account)' >= 1
  BY <1>3, <1>4, BoundsAssumption DEF Rank
<1>10. CASE Overtaken(r)
  <2>1. misses'.overtaken = k + 1  BY <1>5, <1>10
  <2>2. m + 1 <= MaxFailed * (k + 1) + Rank(account)'
    <3> HIDE DEF m, k
    <3> QED  BY <1>4, <1>7, <1>8, <1>9, BoundsAssumption
  <2> QED  BY <1>5, <1>6, <2>1, <2>2 DEF Counted
<1>11. CASE ~Overtaken(r)
  <2>1. /\ misses'.overtaken = k
        /\ account.failed_attempts = d /\ account.lock # "ahead"
    BY <1>2, <1>5, <1>11 DEF Overtaken
  <2>2. Rank(account)' = Rank(account) + 1
    <3>1. CASE d + 1 >= MaxFailed
      BY <1>3, <1>4, <2>1, <3>1, BoundsAssumption DEF Rank
    <3>2. CASE d + 1 < MaxFailed
      <4>1. account'.lock # "ahead"  BY <1>3, <1>4, <2>1, <3>2, BoundsAssumption
      <4> QED  BY <1>3, <1>4, <2>1, <3>2, <4>1, BoundsAssumption DEF Rank
    <3> QED  BY <1>4, <3>1, <3>2, BoundsAssumption
  <2>3. m + 1 <= MaxFailed * k + Rank(account)'
    <3> HIDE DEF m, k
    <3> QED  BY <1>4, <1>7, <1>8, <2>2, BoundsAssumption
  <2> QED  BY <1>5, <1>6, <2>1, <2>3 DEF Counted
<1> QED  BY <1>10, <1>11

\* The counter is cleared, by a password that matches or by a manager.
LEMMA ClearKeeps ==
  ASSUME IInv, IInv', GuessInv, NEW r \in Request, ClearCounter(r)
  PROVE  Blank' /\ Counted'
<1> DEFINE k == misses.overtaken
           m == misses.wrong
<1>1. /\ account \in Account /\ account' \in Account /\ user[r] \in Account
      /\ k \in Nat /\ m \in Nat
  BY DEF IInv, TypeOK
<1>2. /\ Rank(account) \in 0..MaxFailed /\ Rank(account)' \in 0..MaxFailed
      /\ MaxFailed * k \in Nat /\ MaxFailed * (k + 1) = MaxFailed * k + MaxFailed
  BY <1>1, RankFacts, Product
<1>3. /\ user[r].failed_attempts = 0 =>
           account'.failed_attempts = account.failed_attempts
      /\ user[r].lock = "none" => account'.lock = account.lock
  BY <1>1 DEF ClearCounter, Save, Account
<1>4. CASE user[r].failed_attempts # 0
  <2>1. misses' = NoMisses  BY <1>4 DEF ClearCounter
  <2>2. misses'.wrong = 0 /\ misses'.overtaken = 0  BY <2>1 DEF NoMisses
  <2>3. MaxFailed * 0 = 0  BY BoundsAssumption
  <2> QED  BY <1>2, <2>2, <2>3 DEF Blank, Counted
<1>5. CASE user[r].failed_attempts = 0 /\ user[r].lock = "none"
  <2>1. misses' = misses  BY <1>5 DEF ClearCounter
  <2>2. Rank(account)' = Rank(account)  BY <1>3, <1>5 DEF Rank
  <2> QED  BY <1>3, <1>5, <2>1, <2>2 DEF Blank, Counted, GuessInv
<1>6. CASE user[r].failed_attempts = 0 /\ user[r].lock # "none"
  <2>1. Misses(r, 0)  BY <1>6 DEF ClearCounter
  <2>2. /\ misses'.wrong = m
        /\ misses'.overtaken = IF Overtaken(r) THEN k + 1 ELSE k
    BY <1>1, <2>1, MissesTyped DEF IInv
  <2>3. Blank'  BY <1>3, <1>6, <2>2 DEF Blank, GuessInv
  <2>4. CASE Overtaken(r)
    <3>1. m <= MaxFailed * k + Rank(account)  BY DEF GuessInv, Counted
    <3>2. m <= MaxFailed * (k + 1) + Rank(account)'
      <4> HIDE DEF m, k
      <4> QED  BY <1>1, <1>2, <3>1, BoundsAssumption
    <3>3. misses'.overtaken = k + 1  BY <2>2, <2>4
    <3> QED  BY <2>2, <2>3, <3>2, <3>3 DEF Counted
  <2>5. CASE ~Overtaken(r)
    <3>1. m = 0  BY <1>6, <2>5 DEF Overtaken, GuessInv, Blank
    <3>2. misses'.overtaken = k /\ misses'.wrong = 0  BY <2>2, <2>5, <3>1
    <3>3. 0 <= MaxFailed * k + Rank(account)'
      <4> HIDE DEF m, k
      <4> QED  BY <1>2
    <3> QED  BY <2>3, <3>2, <3>3 DEF Counted
  <2> QED  BY <2>4, <2>5
<1> QED  BY <1>4, <1>5, <1>6

LEMMA LockoutKeeps ==
  ASSUME IInv, IInv', GuessInv, LockoutPasses
  PROVE  GuessInv'
<1>1. /\ misses'.wrong = 0 /\ misses'.overtaken = 0
      /\ UNCHANGED <<at, user>> /\ account' \in Account
  BY DEF LockoutPasses, NoMisses, requestVars, IInv, TypeOK
<1>2. Rank(account)' \in 0..MaxFailed  BY <1>1, RankFacts
<1>3. MaxFailed * 0 = 0  BY BoundsAssumption
<1> QED  BY <1>1, <1>2, <1>3 DEF GuessInv, Unread, Blank, Counted

-----------------------------------------------------------------------------
(* Nothing else touches the counter *)

\* The row's counter and lock, and the guesses made.
CounterKept == /\ account'.failed_attempts = account.failed_attempts
               /\ account'.lock = account.lock
               /\ misses' = misses

LEMMA CounterKeeps ==
  ASSUME GuessInv, CounterKept
  PROVE  Blank' /\ Counted'
BY DEF GuessInv, CounterKept, Blank, Counted, Rank

LEMMA Untouched ==
  ASSUME IInv, NEW r \in Request,
         \/ Login(r) \/ BeginEnrollment(r) \/ VerifyMfa(r) \/ CreateSession(r)
         \/ IssueRefreshToken(r) \/ EnableMfa(r) \/ Renew(r) \/ Use(r)
         \/ FindOrFail(r) \/ Update(r) \/ ResetMfa(r)
         \/ RevokeAllForUser(r) \/ Revoke(r)
  PROVE  CounterKept
<1>1. account \in Account /\ user[r] \in Account  BY DEF IInv, TypeOK
<1>2. CASE BeginEnrollment(r)
  BY <1>1, <1>2 DEF BeginEnrollment, CounterKept, Save, Account
<1>3. CASE EnableMfa(r)  BY <1>1, <1>3 DEF EnableMfa, CounterKept, Account
<1>4. CASE Update(r)
  <2>1. PICK role \in Granted, active \in BOOLEAN :
          account' = Save(account, user[r], [role |-> role, is_active |-> active])
    BY <1>4 DEF Update
  <2> QED  BY <1>1, <1>4, <2>1 DEF Update, CounterKept, Save, Account
<1>5. CASE ResetMfa(r)
  BY <1>1, <1>5 DEF ResetMfa, CounterKept, Save, Account
<1>6. CASE \/ Login(r) \/ VerifyMfa(r) \/ CreateSession(r) \/ IssueRefreshToken(r)
           \/ Renew(r) \/ Use(r) \/ FindOrFail(r) \/ RevokeAllForUser(r) \/ Revoke(r)
  BY <1>6 DEF Login, VerifyMfa, CreateSession, IssueRefreshToken, Renew, Use,
     ConsumeRefreshToken, DetectReuse, Refresh, RotateRefreshToken, CanActivate,
     RolesGuard, Logout, AssertPassword, ChangePassword, FindOrFail,
     RevokeAllForUser, Revoke, CounterKept
<1> QED  BY <1>2, <1>3, <1>4, <1>5, <1>6

-----------------------------------------------------------------------------
(* Only a login begins a comparison *)

\* Everybody else stays, and r compares no more.
Ended(r) ==
  /\ at'[r] # "compare"
  /\ \A q \in Request \ {r} : at'[q] = at[q] /\ user'[q] = user[q]

LEMMA EndsUnread ==
  ASSUME GuessInv, NEW r \in Request, Ended(r)
  PROVE  Unread'
BY DEF GuessInv, Unread, Ended

\* Where a request's own moves lead.
LEMMA MovesEnd ==
  ASSUME TypeOK, NEW r \in Request
  PROVE  /\ Done(r) => Ended(r)
         /\ OwesRevocation(r) => Ended(r)
         /\ \A there \in Step \ {"compare"} :
              /\ Leave(r, there) => Ended(r)
              /\ Goto(r, there) /\ (ReadAccount(r) \/ user' = user) => Ended(r)
<1>1. \A there \in Step \ {"compare"} : Leave(r, there) => Ended(r)
  BY DEF TypeOK, Leave, Ended
<1>2. \A there \in Step \ {"compare"} :
        Goto(r, there) /\ (ReadAccount(r) \/ user' = user) => Ended(r)
  BY DEF TypeOK, Goto, ReadAccount, Ended
<1> QED  BY <1>1, <1>2 DEF Done, OwesRevocation, Step

LEMMA UsableEnds ==
  ASSUME TypeOK, NEW r \in Request, NEW s,
         NEW next \in Step \ {"compare"}, AssertUsable(r, s, next)
  PROVE  Ended(r)
<1>1. \/ Done(r)
      \/ Goto(r, "revoke") /\ user' = user
      \/ Goto(r, next) /\ user' = user
  BY DEF AssertUsable
<1> QED  BY <1>1, MovesEnd DEF Step

LEMMA AccountEnds ==
  ASSUME TypeOK, NEW r \in Request,
         \/ RegisterFailedAttempt(r) \/ PasswordMatches(r) \/ BeginEnrollment(r)
         \/ VerifyMfa(r) \/ CreateSession(r) \/ IssueRefreshToken(r)
         \/ EnableMfa(r) \/ Manage(r)
  PROVE  Ended(r)
<1>1. \/ Done(r) \/ OwesRevocation(r)
      \/ Goto(r, "enroll") /\ user' = user
      \/ Goto(r, "create") /\ ReadAccount(r)
      \/ Goto(r, "issue") /\ user' = user
      \/ Goto(r, "enable") /\ user' = user
      \/ Goto(r, "manage") /\ ReadAccount(r)
  BY DEF RegisterFailedAttempt, PasswordMatches, BeginEnrollment, VerifyMfa,
         CreateSession, IssueRefreshToken, EnableMfa, Manage, FindOrFail,
         Update, Unlock, ResetMfa, ResetPassword
<1> QED  BY <1>1, MovesEnd DEF Step

LEMMA SessionEnds ==
  ASSUME TypeOK, NEW r \in Request,
         Renew(r) \/ Use(r) \/ RevokeAllForUser(r) \/ Revoke(r)
  PROVE  Ended(r)
<1>1. CASE ConsumeRefreshToken(r)
  <2>1. PICK s \in Session : \E t \in 1..minted[s] :
          \/ Goto(r, "detect") /\ user' = user
          \/ Goto(r, "revoke") /\ user' = user
          \/ AssertUsable(r, s, "load")
    BY <1>1 DEF ConsumeRefreshToken
  <2> QED  BY <2>1, MovesEnd, UsableEnds DEF Step
<1>2. CASE DetectReuse(r)
  <2>1. Done(r) \/ Leave(r, "revoke_replayed")  BY <1>2 DEF DetectReuse
  <2> QED  BY <2>1, MovesEnd DEF Step
<1>3. CASE Refresh(r)
  <2>1. ReadAccount(r) /\ (Goto(r, "rotate") \/ Goto(r, "revoke"))
    BY <1>3 DEF Refresh
  <2> QED  BY <2>1, MovesEnd DEF Step
<1>4. CASE RotateRefreshToken(r)  BY <1>4, MovesEnd DEF RotateRefreshToken
<1>5. CASE CanActivate(r)
  <2>1. PICK j \in jwt : AssertUsable(r, j.sid, "inside")  BY <1>5 DEF CanActivate
  <2> QED  BY <2>1, UsableEnds DEF Step
<1>6. CASE RolesGuard(r)
  <2>1. PICK j \in jwt : AssertUsable(r, j.sid, "find")  BY <1>6 DEF RolesGuard
  <2> QED  BY <2>1, UsableEnds DEF Step
<1>7. CASE Logout(r)  BY <1>7, MovesEnd DEF Logout
<1>8. CASE AssertPassword(r)
  <2>1. Done(r) \/ (Goto(r, "change") /\ user' = user)  BY <1>8 DEF AssertPassword
  <2> QED  BY <2>1, MovesEnd DEF Step
<1>9. CASE ChangePassword(r)  BY <1>9, MovesEnd DEF ChangePassword
<1>10. CASE RevokeAllForUser(r)  BY <1>10, MovesEnd DEF RevokeAllForUser
<1>11. CASE Revoke(r)  BY <1>11, MovesEnd DEF Revoke
<1> QED  BY <1>1, <1>2, <1>3, <1>4, <1>5, <1>6, <1>7, <1>8, <1>9, <1>10, <1>11
         DEF Renew, Use

LEMMA LoginUnread ==
  ASSUME IInv, GuessInv, NEW r \in Request, Login(r)
  PROVE  Unread'
BY DEF IInv, TypeOK, GuessInv, Unread, Login, ReadAccount, Goto

LEMMA GuessStep ==
  IInv /\ IInv' /\ GuessInv /\ [Next]_vars => GuessInv'
<1> SUFFICES ASSUME IInv, IInv', GuessInv, [Next]_vars
             PROVE  GuessInv'
  OBVIOUS
<1>1. ASSUME CounterKept, UNCHANGED <<at, user>>  PROVE GuessInv'
  <2>1. Unread'  BY <1>1 DEF GuessInv, Unread
  <2> QED  BY <1>1, <2>1, CounterKeeps DEF GuessInv
<1>2. CASE UNCHANGED vars
  BY <1>1, <1>2 DEF vars, requestVars, CounterKept
<1>3. ASSUME NEW r \in Request,
             \/ SignIn(r) \/ Renew(r) \/ Use(r) \/ Manage(r)
             \/ RevokeAllForUser(r) \/ Revoke(r)
      PROVE  GuessInv'
  <2>1. Unread'
    BY <1>3, LoginUnread, AccountEnds, SessionEnds, EndsUnread DEF SignIn, IInv
  <2>2. Blank' /\ Counted'
    <3>1. CASE RegisterFailedAttempt(r)  BY <3>1, MissKeeps
    <3>2. CASE PasswordMatches(r) \/ Unlock(r) \/ ResetPassword(r)
      BY <3>2, ClearKeeps DEF PasswordMatches, Unlock, ResetPassword
    <3>3. CASE \/ Login(r) \/ BeginEnrollment(r) \/ VerifyMfa(r) \/ CreateSession(r)
               \/ IssueRefreshToken(r) \/ EnableMfa(r) \/ Renew(r) \/ Use(r)
               \/ FindOrFail(r) \/ Update(r) \/ ResetMfa(r)
               \/ RevokeAllForUser(r) \/ Revoke(r)
      BY <3>3, Untouched, CounterKeeps
    <3> QED  BY <1>3, <3>1, <3>2, <3>3 DEF SignIn, Manage
  <2> QED  BY <2>1, <2>2 DEF GuessInv
<1>4. CASE LockoutPasses  BY <1>4, LockoutKeeps
<1>5. ASSUME NEW s \in Session, TwoHoursPass(s)  PROVE GuessInv'
  BY <1>1, <1>5 DEF TwoHoursPass, requestVars, CounterKept
<1> QED  BY <1>2, <1>3, <1>4, <1>5 DEF Next, TimePasses

\* registerFailedAttempt, for any requests in parallel: however the count of
\* wrong passwords is written over, and even where a lock is lifted by a request
\* that read the row before it, an account that is not locked has been tried less
\* than MaxFailed times for each request that was overtaken, and MaxFailed more.
THEOREM GuessesFew == Spec => []GuessesAreBounded
<1>1. Init => GuessInv
  <2>1. SUFFICES ASSUME Init  PROVE GuessInv
    OBVIOUS
  <2>2. /\ misses.wrong = 0 /\ misses.overtaken = 0
        /\ account.failed_attempts = 0 /\ account.lock = "none"
        /\ \A r \in Request : at[r] = "idle"
    BY <2>1 DEF Init, NewAccount, NoMisses
  <2>3. MaxFailed * 0 = 0 /\ Rank(account) = 0
    BY <2>2, BoundsAssumption DEF Rank
  <2> QED  BY <2>2, <2>3 DEF GuessInv, Unread, Blank, Counted
<1>2. IInv /\ GuessInv => GuessesAreBounded
  <2>1. SUFFICES ASSUME IInv, GuessInv, account.lock # "ahead"
                 PROVE  misses.wrong < MaxFailed * (misses.overtaken + 1)
    BY DEF GuessesAreBounded
  <2> DEFINE k == misses.overtaken
             m == misses.wrong
  <2>2. account \in Account /\ k \in Nat /\ m \in Nat
    BY <2>1 DEF IInv, TypeOK
  <2>3. /\ Rank(account) \in 0..MaxFailed /\ Rank(account) < MaxFailed
        /\ MaxFailed * k \in Nat /\ MaxFailed * (k + 1) = MaxFailed * k + MaxFailed
    BY <2>1, <2>2, RankFacts, Product
  <2>4. m <= MaxFailed * k + Rank(account)  BY <2>1 DEF GuessInv, Counted
  <2>5. m < MaxFailed * (k + 1)
    <3> HIDE DEF m, k
    <3> QED  BY <2>2, <2>3, <2>4, BoundsAssumption
  <2> QED  BY <2>5
<1>3. IInv /\ IInv' /\ GuessInv /\ [Next]_vars => GuessInv'  BY GuessStep
<1> QED  BY <1>1, <1>2, <1>3, Invariance, PTL DEF Spec
=============================================================================
