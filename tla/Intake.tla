-------------------------------- MODULE Intake --------------------------------
(***************************************************************************)
(* What an anonymous visitor can do: submit an application                 *)
(* (ApplicationIntakeService) and look one up (ApplicationStatusService).  *)
(* Every rule is a statement of its own, read before the row it guards     *)
(* exists; the row is inserted in a transaction; the confirmation and the  *)
(* reminders follow its commit, in the same process.                       *)
(*                                                                         *)
(* The staff's work on a file (ApplicationWorkflow) is here only as far as *)
(* the rules look at it.                                                   *)
(***************************************************************************)
EXTENDS DripSchedule

CONSTANTS Request,         \* requests in flight at once
          Person,          \* one SSN each
          Home,            \* [Person -> state, ZIP and the zone it really is]
          Instant,         \* when a form may be submitted
          Anytime,         \* the same, for the rules of the schedule alone
          Later,           \* after how many minutes other mails may follow
          Shared,          \* signals (email, phone, name and birth date,
                           \* account) that two people's forms have in common
          MaxFiles,        \* bound: files ever created
          PoolSize,        \* connections to the database
          LOOKUP_ATTEMPT_LIMIT

VARIABLES
  file,   \* the applications, in the order they were committed
  at,     \* a request's next step
  who,    \* whose form a request carries
  rule,   \* which blocking rule is next
  flag,   \* possible_duplicate, as computed
  held,   \* the file a request has committed
  rows,   \* blocked_attempts of one address in the last fifteen minutes,
          \* reason status_lookup_failed
  out,    \* connections checked out of the pool
  plan,   \* whose reminders the last step planned, and when they are sent
  newer,  \* history: files committed since a request came in
  failed  \* history: inserts that failed since the process started

requestVars == <<at, who, rule, flag, held, newer>>
vars == <<file, requestVars, rows, out, plan, failed>>

\* aged: submitted more than 90 days ago.  with: the files its submission could
\* not see.
File == [person : Person, state : {"open", "funded", "declined", "closed"},
         aged : BOOLEAN, flagged : BOOLEAN,
         with : SUBSET (1..MaxFiles)]

ASSUME PoolAssumption    == PoolSize \in Nat \ {0}
ASSUME RequestAssumption == IsFiniteSet(Request)
ASSUME BoundAssumption   == MaxFiles \in Nat
ASSUME InstantAssumption == Instant \cup Anytime \cup Later \subseteq Nat
ASSUME LimitAssumption   == Shared \in 0..4 /\ LOOKUP_ATTEMPT_LIMIT \in Nat \ {0}
ASSUME PersonAssumption  == Person # {}
ASSUME HomeAssumption    ==
  \A p \in Person : /\ Home[p].zone \in DOMAIN OFFSET
                    /\ Home[p].zip \in Nat

NoPlan == [person |-> CHOOSE p \in Person : TRUE, submitted |-> 0,
           sends |-> <<>>]

Similar(p, q) == IF p = q THEN 4 ELSE Shared

Goto(r, there) == /\ at' = [at EXCEPT ![r] = there]
                  /\ UNCHANGED <<who, rule, flag, held, newer>>

Done(r) == /\ at'    = [at EXCEPT ![r] = "idle"]
           /\ who'   = [who EXCEPT ![r] = CHOOSE p \in Person : TRUE]
           /\ rule'  = [rule EXCEPT ![r] = 1]
           /\ flag'  = [flag EXCEPT ![r] = FALSE]
           /\ held'  = [held EXCEPT ![r] = 0]
           /\ newer' = [newer EXCEPT ![r] = {}]

\* What else the borrower may be about to get, next to the confirmation.
Known(t) == {{t, t + a, t + a + b} : a \in Later, b \in Later}

\* A statement needs a connection for as long as it runs.
Connects == out < PoolSize

-----------------------------------------------------------------------------
(* The blocking rules *)

Create(r) ==
  /\ at[r] = "idle"
  /\ \E p \in Person : who' = [who EXCEPT ![r] = p]
  /\ at' = [at EXCEPT ![r] = "rule"]
  /\ UNCHANGED <<file, rule, flag, held, newer, rows, out, failed>>

\* 1. an application in flight, 2. a declined one submitted less than 90 days
\* ago, 3. a funded loan (payoff_recorded_at has no writer in this program).
\* (Mutant: a funded file is not in flight.)
BlocksUnlessFunded(f, n) ==
  \/ n = 1 /\ f.state = "open"
  \/ n = 2 /\ f.state = "declined" /\ ~f.aged

Blocks(f, n) ==
  \/ n = 1 /\ f.state \notin {"declined", "closed"}
  \/ n = 2 /\ f.state = "declined" /\ ~f.aged
  \/ n = 3 /\ f.state = "funded"

AssertNotBlocked(r) ==
  /\ at[r] = "rule"
  /\ Connects
  /\ IF \E k \in DOMAIN file : file[k].person = who[r] /\ Blocks(file[k], rule[r])
     THEN Goto(r, "blocked")
     ELSE IF rule[r] < 3
     THEN /\ rule' = [rule EXCEPT ![r] = @ + 1]
          /\ UNCHANGED <<at, who, flag, held, newer>>
     ELSE Goto(r, "signals")
  /\ UNCHANGED <<file, rows, out, failed>>

\* The row is for the fraud review, under a reason that no count here looks
\* at; 409 follows whether it could be written or not.
RecordBlockedAttempt(r) ==
  /\ at[r] = "blocked"
  /\ Done(r)
  /\ UNCHANGED <<file, rows, out, failed>>

\* Two shared signals flag the form, whoever has sent it.  The query's limit of
\* 100 candidates is never reached here.
FindPossibleDuplicate(r) ==
  /\ at[r] = "signals"
  /\ Connects
  /\ flag' = [flag EXCEPT ![r] =
                \E k \in DOMAIN file : Similar(who[r], file[k].person) >= 2]
  /\ at' = [at EXCEPT ![r] = "begin"]
  /\ UNCHANGED <<file, who, rule, held, newer, rows, out, failed>>

-----------------------------------------------------------------------------
(* The insert *)

\* The transaction keeps its connection.
BeginTransaction(r) ==
  /\ at[r] = "begin"
  /\ Connects
  /\ out' = out + 1
  /\ Goto(r, "insert")
  /\ UNCHANGED <<file, rows, failed>>

CreateWithUniqueId(r) ==
  /\ at[r] = "insert"
  /\ Goto(r, "commit")
  /\ UNCHANGED <<file, rows, out, failed>>

\* The catch block of persist reports the error and does not roll back: the
\* connection stays with the transaction.  An application_id that is taken
\* ends here too, because the database refuses the retry in the transaction
\* the collision has aborted.
InsertFails(r) ==
  /\ at[r] = "insert"
  /\ failed' = failed + 1
  /\ Done(r)
  /\ UNCHANGED <<file, rows, out>>

NewFile(r) ==
  [person |-> who[r], state |-> "open", aged |-> FALSE,
   flagged |-> flag[r], with |-> newer[r]]

\* The others in flight may have missed it.
Committed(r) ==
  LET k == Len(file) + 1
  IN  /\ k <= MaxFiles
      /\ file' = Append(file, NewFile(r))
      /\ newer' = [q \in Request |-> IF q # r /\ at[q] # "idle"
                                     THEN newer[q] \cup {k} ELSE newer[q]]
      /\ held' = [held EXCEPT ![r] = k]

\* (Mutant: the connection is not returned.)
CommitKeepsConnection(r) ==
  /\ at[r] = "commit"
  /\ Committed(r)
  /\ at' = [at EXCEPT ![r] = "mail"]
  /\ UNCHANGED <<who, rule, flag, rows, out, failed>>

Commit(r) ==
  /\ at[r] = "commit"
  /\ Committed(r)
  /\ out' = out - 1
  /\ at' = [at EXCEPT ![r] = "mail"]
  /\ UNCHANGED <<who, rule, flag, rows, failed>>

\* The transaction is over for the pool either way, and the visitor reads an
\* error: the commit was refused, or it went through and its answer was lost.
CommitFails(r) ==
  /\ at[r] = "commit"
  /\ out' = out - 1
  /\ Done(r)
  /\ UNCHANGED <<file, rows, failed>>

CommitAnswerLost(r) ==
  LET k == Len(file) + 1
  IN  /\ at[r] = "commit"
      /\ k <= MaxFiles
      /\ file' = Append(file, NewFile(r))
      /\ out' = out - 1
      /\ at' = [at EXCEPT ![r] = "idle"]
      /\ newer' = [q \in Request |->
                     IF q = r THEN {}
                     ELSE IF at[q] # "idle" THEN newer[q] \cup {k}
                     ELSE newer[q]]
      /\ who'  = [who EXCEPT ![r] = CHOOSE p \in Person : TRUE]
      /\ rule' = [rule EXCEPT ![r] = 1]
      /\ flag' = [flag EXCEPT ![r] = FALSE]
      /\ UNCHANGED <<held, rows, failed>>

-----------------------------------------------------------------------------
(* After the commit *)

\* It is sent, or its failure is logged.  (Mutant: it ends the request.)
ConfirmOrThrow(r) ==
  /\ at[r] = "mail"
  /\ Goto(r, "plan") \/ Done(r)
  /\ UNCHANGED <<file, rows, out, failed>>

SendConfirmation(r) ==
  /\ at[r] = "mail"
  /\ Goto(r, "plan")
  /\ UNCHANGED <<file, rows, out, failed>>

\* The confirmation is the only other mail that is known of.
Plan ==
  [p \in Person |-> [submitted \in Instant |->
     buildDripSchedule(submitted, resolveTimezone(Home[p].state, Home[p].zip),
                       {submitted})]]

\* The rows and jobs of the plan are DripQueue's matter.
StartSequences(r) ==
  /\ at[r] = "plan"
  /\ \E submitted \in Instant :
       plan' = [person |-> who[r], submitted |-> submitted,
                sends |-> Plan[who[r]][submitted]]
  /\ Done(r)
  /\ UNCHANGED <<file, rows, out, failed>>

-----------------------------------------------------------------------------
(* Faults *)

\* All connections are out: the statement waits, and then gives up.
AcquireTimesOut(r) ==
  /\ at[r] \in {"rule", "signals", "begin", "limit", "find"}
  /\ ~Connects
  /\ Done(r)
  /\ UNCHANGED <<file, rows, out, failed>>

\* The database rolls back what the process had begun.
ProcessDies ==
  /\ \E r \in Request : at[r] # "idle"
  /\ at'    = [r \in Request |-> "idle"]
  /\ who'   = [r \in Request |-> CHOOSE p \in Person : TRUE]
  /\ rule'  = [r \in Request |-> 1]
  /\ flag'  = [r \in Request |-> FALSE]
  /\ held'  = [r \in Request |-> 0]
  /\ newer' = [r \in Request |-> {}]
  /\ out' = 0 /\ failed' = 0
  /\ UNCHANGED <<file, rows>>

-----------------------------------------------------------------------------
(* Looking a file up, from one address *)

Lookup(r) ==
  /\ at[r] = "idle"
  /\ Goto(r, "limit")
  /\ UNCHANGED <<file, rows, out, failed>>

\* (Mutant: one more is let through.)
EnforceLater(r) ==
  /\ at[r] = "limit"
  /\ Connects
  /\ IF rows > LOOKUP_ATTEMPT_LIMIT THEN Done(r) ELSE Goto(r, "find")
  /\ UNCHANGED <<file, rows, out, failed>>

EnforceRateLimit(r) ==
  /\ at[r] = "limit"
  /\ Connects
  /\ IF rows >= LOOKUP_ATTEMPT_LIMIT THEN Done(r) ELSE Goto(r, "find")
  /\ UNCHANGED <<file, rows, out, failed>>

\* The id and the email belong together, or not.
FindByCredentials(r) ==
  /\ at[r] = "find"
  /\ Connects
  /\ \/ file # <<>> /\ Done(r)
     \/ Goto(r, "record")
  /\ UNCHANGED <<file, rows, out, failed>>

\* A row that cannot be written is logged.
RecordFailedLookup(r) ==
  /\ at[r] = "record"
  /\ rows' \in {rows, rows + 1}
  /\ Done(r)
  /\ UNCHANGED <<file, out, failed>>

-----------------------------------------------------------------------------
(* Staff and time *)

\* A decline, a withdrawal or expiry, a disbursement.
CloseFile(k) ==
  /\ file[k].state = "open"
  /\ \E s \in {"funded", "declined", "closed"} :
       file' = [file EXCEPT ![k].state = s]
  /\ UNCHANGED <<requestVars, rows, out, failed>>

\* Older files come of age first.
NinetyDaysSinceSubmission(k) ==
  /\ ~file[k].aged
  /\ \A j \in 1..(k - 1) : file[j].aged
  /\ \A r \in Request : at[r] = "idle"
  /\ file' = [file EXCEPT ![k].aged = TRUE]
  /\ UNCHANGED <<requestVars, rows, out, failed>>

\* The oldest failed lookup leaves LOOKUP_WINDOW_MS.
LookupLeavesWindow ==
  /\ rows > 0
  /\ rows' = rows - 1
  /\ UNCHANGED <<file, requestVars, out, failed>>

-----------------------------------------------------------------------------
Init ==
  /\ file   = <<>>
  /\ at     = [r \in Request |-> "idle"]
  /\ who    = [r \in Request |-> CHOOSE p \in Person : TRUE]
  /\ rule   = [r \in Request |-> 1]
  /\ flag   = [r \in Request |-> FALSE]
  /\ held   = [r \in Request |-> 0]
  /\ newer  = [r \in Request |-> {}]
  /\ rows = 0 /\ out = 0 /\ failed = 0
  /\ plan = NoPlan

Submit(r) == \/ Create(r) \/ AssertNotBlocked(r) \/ RecordBlockedAttempt(r)
             \/ FindPossibleDuplicate(r) \/ BeginTransaction(r)
             \/ CreateWithUniqueId(r) \/ InsertFails(r)
             \/ Commit(r) \/ CommitFails(r) \/ CommitAnswerLost(r)
             \/ SendConfirmation(r)

Track(r) == \/ Lookup(r) \/ EnforceRateLimit(r) \/ FindByCredentials(r)
            \/ RecordFailedLookup(r)

Elsewhere == \/ ProcessDies \/ LookupLeavesWindow
             \/ \E k \in DOMAIN file : \/ CloseFile(k)
                                       \/ NinetyDaysSinceSubmission(k)

Next == \/ /\ \/ \E r \in Request : Submit(r) \/ Track(r) \/ AcquireTimesOut(r)
              \/ Elsewhere
           /\ plan' = NoPlan
        \/ \E r \in Request : StartSequences(r)

Spec == Init /\ [][Next]_vars

-----------------------------------------------------------------------------
Step == {"idle", "rule", "blocked", "signals", "begin", "insert", "commit",
         "mail", "plan", "limit", "find", "record"}

InTransaction == {r \in Request : at[r] \in {"insert", "commit"}}

\* Every variable has its type, and only a request that has committed a file
\* holds one.
TypeOK ==
  /\ file \in Seq(File) /\ Len(file) <= MaxFiles
  /\ at \in [Request -> Step] /\ who \in [Request -> Person]
  /\ rule \in [Request -> 1..3] /\ flag \in [Request -> BOOLEAN]
  /\ held \in [Request -> 0..Len(file)]
  /\ rows \in Nat /\ out \in 0..PoolSize /\ failed \in Nat
  /\ newer \in [Request -> SUBSET DOMAIN file]
  /\ \A r \in Request : (held[r] # 0) <=> (at[r] \in {"mail", "plan"})

\* assertNotBlocked, rules 1 and 3: one person has two files in flight, or one
\* next to a funded loan, only if the two were submitted at the same time.
OneFileInFlight ==
  \A j, k \in DOMAIN file :
    /\ j < k
    /\ file[j].person = file[k].person
    /\ file[j].state \in {"open", "funded"}
    => j \in file[k].with

\* assertNotBlocked, rule 2: nobody has another file until 90 days after they
\* submitted the one that was declined, but for two submitted at once.
DeclinedWaitsFromSubmission ==
  \A j, k \in DOMAIN file :
    /\ j < k
    /\ file[j].person = file[k].person
    /\ file[j].state = "declined" /\ ~file[j].aged
    => j \in file[k].with

\* findPossibleDuplicate: a form that shares two signals with an earlier file is
\* flagged, unless the two were submitted at the same time.
LookalikesAreFlagged ==
  \A j, k \in DOMAIN file :
    /\ j < k
    /\ Similar(file[j].person, file[k].person) >= 2
    => file[k].flagged \/ j \in file[k].with

\* submitPublicApplication: the three rules together hold of every file, however
\* submissions overlap with each other and with the staff's work.
IntakeRulesHold == /\ TypeOK
                   /\ OneFileInFlight
                   /\ DeclinedWaitsFromSubmission
                   /\ LookalikesAreFlagged

\* persist: every connection that is out belongs to a running transaction or
\* was lost to an insert that failed; a submission that succeeds gives its
\* connection back.
OnlyFailedInsertsLeak == out = Cardinality(InTransaction) + failed

\* runPostCommitEffects: a request that has committed a file does not end before
\* its reminders are planned, whatever became of the confirmation, unless the
\* process dies.
FollowedUp ==
  [][\A r \in Request : held[r] # 0 /\ held'[r] = 0
       => \/ plan'.person = who[r] /\ plan'.sends # <<>>
          \/ \A q \in Request : at'[q] = "idle"]_vars

\* enforceRateLimit: failed lookups from one address stay under the limit but
\* for those that were counted at the same time.
LookupsBounded ==
  rows <= LOOKUP_ATTEMPT_LIMIT - 1 + Cardinality(Request)

\* buildDripSchedule: in every plan no two reminders are closer than two hours,
\* none is for the night where the borrower lives, none for within ninety minutes
\* of the confirmation, no last one for a Sunday, and the reminders of a sequence
\* come in the order of their numbers.  The rules push reminders into each
\* other's way, and this is where they come to rest.
PlanKeepsRules ==
  LET zone == Home[plan.person].zone
  IN  /\ WellSpaced(plan.sends)
      /\ LeavesTheNightAlone(plan.sends, zone)
      /\ FinalsOffSunday(plan.sends, zone)
      /\ ClearOf(plan.sends, {plan.submitted})
      /\ InStepOrder(plan.sends)

\* The same when the borrower is about to get two more mails, at any time of the
\* first days: the rules still come to rest within MAX_ROUNDS.  (No caller of
\* startSequences knows of any yet.  No variable occurs in this, and one state
\* is enough to evaluate it in.)
RulesSettle ==
  Init =>
    \A p \in Person, submitted \in Anytime : \A known \in Known(submitted) :
      LET zone  == Home[p].zone
          sends == buildDripSchedule(submitted, zone, known)
      IN  /\ WellSpaced(sends)
          /\ LeavesTheNightAlone(sends, zone)
          /\ FinalsOffSunday(sends, zone)
          /\ ClearOf(sends, known)
          /\ InStepOrder(sends)

\* buildDripSchedule: the rules hold of the plan of every file, and of every plan
\* the borrower's other mails could call for.
SchedulesHold == PlanKeepsRules /\ RulesSettle
=============================================================================
