------------------------------ MODULE DripQueue ------------------------------
(***************************************************************************)
(* The drip reminders of one application: the rows of email_sequences that *)
(* say what became of each step, and the BullMQ jobs that send them.       *)
(*                                                                         *)
(* Four kinds of process touch them.  Intake plans every step: first all   *)
(* rows, then all jobs.  A handler that moves the file saves it and then   *)
(* tears down the sequences the new state has no use for: rows by one      *)
(* UPDATE per sequence, then jobs one by one.  A worker reads the file     *)
(* when a job is due and decides again whether to send.  The borrower may  *)
(* unsubscribe, or the address bounce, at any moment.                      *)
(***************************************************************************)
EXTENDS StatusMachine, Naturals, FiniteSets

CONSTANTS CallStep, BankStep,  \* the steps of the two sequences
          NoStep, NoFile,      \* what an idle worker has
          Address,             \* the borrower's email addresses
          Worker,              \* drip workers
          Mover,               \* handlers that move the file
          Attempts,            \* the queue's attempts per job
          Reached,             \* the statuses the file takes in a run
          Faults               \* what may fail

ASSUME StepAssumption ==
  CallStep \cap BankStep = {} /\ NoStep \notin CallStep \cup BankStep
ASSUME WorkerAssumption == IsFiniteSet(Worker)
ASSUME AttemptsAssumption == Attempts \in Nat \ {0}
ASSUME ReachedAssumption == "pending_call" \in Reached /\ Reached \subseteq Status
ASSUME FaultsAssumption ==
  Faults \subseteq {"smtp", "database", "redis", "restart", "stall"}

VARIABLES
  file,        \* the application row, as far as the reminders read it
  been,        \* history: the statuses it has held, which stale copies may hold
  suppressed,  \* the addresses on the suppression list
  step,        \* email_sequences.status of each step
  job,         \* where its job is
  tries,       \* the job's attemptsMade
  stalled,     \* jobs whose lock ran out once
  toPersist, toEnqueue,  \* what intake has still to plan
  rows, jobs,  \* what each mover has still to tear down
  pc, at, seen,          \* a worker: its next await, its step, the file it read
  made,        \* and attemptsMade in its copy of the job
  lapsed,      \* workers that run a job whose lock they have lost
  mails,       \* how often each step was accepted by the SMTP server
  late,        \* history: mails per sequence since it was last called off
  mishap       \* history: steps that met a fault other than a refused mail, or
               \* were torn down while intake was still planning them

fileVars   == <<file, been>>
planVars   == <<toPersist, toEnqueue>>
queueVars  == <<step, job, tries, stalled>>
moverVars  == <<rows, jobs>>
workerVars == <<pc, at, seen, made, lapsed>>
vars == <<fileVars, suppressed, queueVars, planVars, moverVars, workerVars,
          mails, late, mishap>>

Step == CallStep \cup BankStep
SequenceKey == {"call_in", "bank_verification"}
SequenceOf(s) == IF s \in CallStep THEN "call_in" ELSE "bank_verification"
StepsOf(keys) == {s \in Step : SequenceOf(s) \in keys}

File == [email : Address, status : Status,
         called_in : BOOLEAN, bank_verified : BOOLEAN]

-----------------------------------------------------------------------------
(* The cancellation rules *)

STATUS_RANK ==
  [received |-> 0, pending_call |-> 1, in_review |-> 2,
   bank_verification_pending |-> 3, bank_verification_complete |-> 4,
   agreement_sent |-> 5, agreement_signed |-> 6,
   verification_deposit_sent |-> 7, verification_deposit_confirmed |-> 8,
   underwriting |-> 9, approved |-> 10, funded |-> 11]

PastReview(status) == STATUS_RANK[status] > STATUS_RANK["in_review"]

BankDone(status) ==
  STATUS_RANK[status] >= STATUS_RANK["bank_verification_complete"]

\* Whether a step of a sequence should be cancelled rather than sent.
evaluateCancellation(key, f, sup) ==
  \/ sup
  \/ isTerminal(f.status)
  \/ key = "call_in" /\ (f.called_in \/ PastReview(f.status))
  \/ key = "bank_verification" /\ (f.bank_verified \/ BankDone(f.status))

\* Which sequences a move to a status tears down.
sequencesCancelledBy(status) ==
  {key \in SequenceKey :
     \/ isTerminal(status)
     \/ key = "call_in" /\ PastReview(status)
     \/ key = "bank_verification" /\ BankDone(status)}

\* A sequence is called off for a file with f in its row.
OffFor(f, key) == evaluateCancellation(key, f, f.email \in suppressed)

-----------------------------------------------------------------------------
(* Intake plans the steps (startSequences) *)

\* A row that cannot be written is logged and skipped.
Persist(s) ==
  /\ s \in toPersist
  /\ toPersist' = toPersist \ {s}
  /\ \/ step' = [step EXCEPT ![s] = "scheduled"] /\ UNCHANGED mishap
     \/ /\ "database" \in Faults
        /\ mishap' = mishap \cup {s}
        /\ UNCHANGED step
  /\ UNCHANGED <<fileVars, suppressed, job, tries, stalled, toEnqueue, moverVars,
                 workerVars, mails, late>>

\* All rows are written before the first job is added.
Enqueue(s) ==
  /\ toPersist = {}
  /\ s \in toEnqueue
  /\ toEnqueue' = toEnqueue \ {s}
  /\ \/ job' = [job EXCEPT ![s] = "waiting"] /\ UNCHANGED mishap
     \/ /\ "redis" \in Faults
        /\ mishap' = mishap \cup {s}
        /\ UNCHANGED job
  /\ UNCHANGED <<fileVars, suppressed, step, tries, stalled, toPersist, moverVars,
                 workerVars, mails, late>>

\* Nobody plans the rest later.
PlannerDies ==
  /\ "restart" \in Faults
  /\ toEnqueue # {}
  /\ toPersist' = {}
  /\ toEnqueue' = {}
  /\ mishap' = mishap \cup toEnqueue
  /\ UNCHANGED <<fileVars, suppressed, queueVars, moverVars, workerVars, mails, late>>

-----------------------------------------------------------------------------
(* A handler moves the file and tears down (runAction, cancelSequences) *)

\* The row is f from now on.
Store(f) ==
  /\ f.status \in Reached
  /\ file' = f
  /\ been' = been \cup {f.status}
  /\ late' = [key \in SequenceKey |-> IF OffFor(f, key) THEN late[key] ELSE 0]

\* The handler is idle, saves f and starts to tear down the sequences keys.
Move(m, f, keys) ==
  /\ rows[m] = {}
  /\ jobs[m] = {}
  /\ Store(f)
  /\ rows' = [rows EXCEPT ![m] = keys]
  /\ jobs' = [jobs EXCEPT ![m] = StepsOf(keys)]
  /\ UNCHANGED <<suppressed, queueVars, planVars, workerVars, mails, mishap>>

\* Any handler of the workflow, and the expiry sweep: a move the status machine
\* allows from the status in the handler's copy, which may be an old one, or an
\* action that leaves the status alone.
Transition(m) ==
  \E from \in been, to \in Reached :
    \/ from = to /\ Move(m, file, sequencesCancelledBy(to))
    \/ /\ canTransition(from, to)
       /\ Move(m, [file EXCEPT !.status = to], sequencesCancelledBy(to))

\* Two handlers cancel for a reason of their own, and then again for the new
\* status, the same sequences or fewer.
MarkAsCalledIn(m) ==
  /\ "pending_call" \in been
  /\ Move(m, [file EXCEPT !.status = "bank_verification_pending",
                          !.called_in = TRUE], {"call_in"})

RecordBankVerified(m) ==
  /\ {"pending_call", "in_review", "bank_verification_pending"} \cap been # {}
  /\ Move(m, [file EXCEPT !.status = "bank_verification_complete",
                          !.bank_verified = TRUE], SequenceKey)

\* Two handlers save a status on the way (EarlySave of ApplicationWorkflow)
\* before they save the one they tear down for.
EarlySave ==
  /\ \E from \in been,
        to \in {"bank_verification_pending", "verification_deposit_confirmed"} :
       canTransition(from, to) /\ Store([file EXCEPT !.status = to])
  /\ UNCHANGED <<suppressed, queueVars, planVars, moverVars, workerVars, mails,
                 mishap>>

\* An edit of the address tears nothing down.
EditEmail ==
  /\ \E email \in Address : Store([file EXCEPT !.email = email])
  /\ UNCHANGED <<suppressed, queueVars, planVars, moverVars, workerVars, mails,
                 mishap>>

\* (Mutant: the rows are not cancelled, only the jobs removed.)
CancelNoRows(m) ==
  /\ rows[m] # {}
  /\ rows' = [rows EXCEPT ![m] = {}]
  /\ UNCHANGED <<fileVars, suppressed, queueVars, planVars, jobs, workerVars, mails,
                 late, mishap>>

\* The rows of one sequence, in one UPDATE ... WHERE status = 'scheduled'.  The
\* first failure ends the updates, not the handler.
CancelRows(m) ==
  /\ \/ \E key \in rows[m] :
          /\ step' = [s \in Step |->
                        IF SequenceOf(s) = key /\ step[s] = "scheduled"
                        THEN "cancelled" ELSE step[s]]
          /\ rows' = [rows EXCEPT ![m] = @ \ {key}]
          /\ mishap' = mishap \cup (toPersist \cap StepsOf({key}))
     \/ /\ "database" \in Faults
        /\ rows[m] # {}
        /\ rows' = [rows EXCEPT ![m] = {}]
        /\ mishap' = mishap \cup StepsOf(rows[m])
        /\ UNCHANGED step
  /\ UNCHANGED <<fileVars, suppressed, job, tries, stalled, planVars, jobs,
                 workerVars, mails, late>>

\* A job that runs, or has not been added yet, is not there to be removed.
RemoveJob(m) ==
  /\ rows[m] = {}
  /\ \E s \in jobs[m] :
       /\ jobs' = [jobs EXCEPT ![m] = @ \ {s}]
       /\ \/ /\ job[s] = "waiting"
             /\ job' = [job EXCEPT ![s] = "gone"]
             /\ tries' = [tries EXCEPT ![s] = 0]
             /\ stalled' = stalled \ {s}
          \/ /\ job[s] # "waiting" \/ "redis" \in Faults
             /\ UNCHANGED <<job, tries, stalled>>
  /\ UNCHANGED <<fileVars, suppressed, step, planVars, rows, workerVars, mails, late,
                 mishap>>

MoverDies(m) ==
  /\ "restart" \in Faults
  /\ rows[m] # {} \/ jobs[m] # {}
  /\ rows' = [rows EXCEPT ![m] = {}]
  /\ jobs' = [jobs EXCEPT ![m] = {}]
  /\ UNCHANGED <<fileVars, suppressed, queueVars, planVars, workerVars, mails, late,
                 mishap>>

\* One-click unsubscribe, hard bounce or complaint; nothing lifts it.
Suppress ==
  /\ \E email \in Address \ suppressed : suppressed' = suppressed \cup {email}
  /\ UNCHANGED <<fileVars, queueVars, planVars, moverVars, workerVars, mails, late,
                 mishap>>

-----------------------------------------------------------------------------
(* A worker runs a job (DripProcessor.process) *)

Goto(w, there) == /\ pc' = [pc EXCEPT ![w] = there]
                  /\ UNCHANGED <<at, seen, made, lapsed>>

\* The address in the worker's copy of the file.
Barred(w) == seen[w].email \in suppressed

Leave(w) == /\ pc' = [pc EXCEPT ![w] = "idle"]
            /\ at' = [at EXCEPT ![w] = NoStep]
            /\ seen' = [seen EXCEPT ![w] = NoFile]
            /\ made' = [made EXCEPT ![w] = 0]
            /\ lapsed' = lapsed \ {w}

\* The queue refuses what a worker reports of a job it holds no lock for.
Refused(w) == w \in lapsed /\ UNCHANGED <<job, tries, stalled>>

\* The worker's job is over, done or out of attempts.
Finish(w) == /\ w \notin lapsed
             /\ job' = [job EXCEPT ![at[w]] = "gone"]
             /\ tries' = [tries EXCEPT ![at[w]] = 0]
             /\ stalled' = stalled \ {at[w]}

Complete(w) == (Refused(w) \/ Finish(w)) /\ Leave(w)

\* The job waits for its next attempt.
Retry(w) == /\ w \notin lapsed
            /\ job' = [job EXCEPT ![at[w]] = "waiting"]
            /\ tries' = [tries EXCEPT ![at[w]] = made[w] + 1]
            /\ UNCHANGED stalled

LastAttempt(w) == made[w] + 1 >= Attempts

\* (Mutant: attempts without a limit.)
ThrowUnlimited(w) == (Refused(w) \/ Retry(w)) /\ Leave(w)

\* process() throws: the job is tried again, if it has an attempt left.
Throw(w) ==
  /\ \/ Refused(w)
     \/ ~LastAttempt(w) /\ Retry(w)
     \/ LastAttempt(w) /\ Finish(w)
  /\ Leave(w)

\* A statement outside the try block fails.
Breaks(w) ==
  /\ "database" \in Faults
  /\ mishap' = mishap \cup {at[w]}
  /\ Throw(w)
  /\ UNCHANGED step

Take(w) ==
  /\ pc[w] = "idle"
  /\ \E s \in Step : /\ job[s] = "waiting"
                     /\ job' = [job EXCEPT ![s] = "active"]
                     /\ at' = [at EXCEPT ![w] = s]
                     /\ made' = [made EXCEPT ![w] = tries[s]]
  /\ pc' = [pc EXCEPT ![w] = "read"]
  /\ UNCHANGED <<fileVars, suppressed, step, tries, stalled, planVars, moverVars,
                 seen, lapsed, mails, late, mishap>>

Read(w) ==
  /\ pc[w] = "read"
  /\ \/ /\ seen' = [seen EXCEPT ![w] = file]
        /\ pc' = [pc EXCEPT ![w] = "check"]
        /\ UNCHANGED <<at, made, lapsed, queueVars, mishap>>
     \/ Breaks(w)
  /\ UNCHANGED <<fileVars, suppressed, planVars, moverVars, mails, late>>

\* (Mutant: the rules are not evaluated again.)
SkipCheck(w) ==
  /\ pc[w] = "check"
  /\ Goto(w, "prepare")
  /\ UNCHANGED <<fileVars, suppressed, queueVars, planVars, moverVars, mails, late,
                 mishap>>

Check(w) ==
  /\ pc[w] = "check"
  /\ \/ /\ Goto(w, IF OffFor(seen[w], SequenceOf(at[w]))
                   THEN "cancel" ELSE "prepare")
        /\ UNCHANGED <<queueVars, mishap>>
     \/ Breaks(w)
  /\ UNCHANGED <<fileVars, suppressed, planVars, moverVars, mails, late>>

\* cancelStep writes only over a row that is still scheduled.
Cancelled(s) ==
  [step EXCEPT ![s] = IF @ = "scheduled" THEN "cancelled" ELSE @]

CancelStep(w) ==
  /\ pc[w] = "cancel"
  /\ \/ step' = Cancelled(at[w]) /\ Complete(w) /\ UNCHANGED mishap
     \/ Breaks(w)
  /\ UNCHANGED <<fileVars, suppressed, planVars, moverVars, mails, late>>

\* A bank reminder's link is issued outside the try block; sendEmail then looks
\* at the suppression list again, inside it.
Prepare(w) ==
  /\ pc[w] = "prepare"
  /\ \/ /\ Goto(w, IF Barred(w) THEN "withhold" ELSE "send")
        /\ UNCHANGED <<queueVars, mishap>>
     \/ at[w] \in BankStep /\ Breaks(w)
     \/ /\ "database" \in Faults
        /\ mishap' = mishap \cup {at[w]}
        /\ Goto(w, "failing")
        /\ UNCHANGED queueVars
  /\ UNCHANGED <<fileVars, suppressed, planVars, moverVars, mails, late>>

Withhold(w) ==
  /\ pc[w] = "withhold"
  /\ \/ step' = Cancelled(at[w]) /\ Complete(w) /\ UNCHANGED mishap
     \/ /\ "database" \in Faults
        /\ mishap' = mishap \cup {at[w]}
        /\ Goto(w, "failing")
        /\ UNCHANGED queueVars
  /\ UNCHANGED <<fileVars, suppressed, planVars, moverVars, mails, late>>

\* (Mutant: a send without an answer is repeated on the spot.)
DeliverAgain(w) ==
  /\ pc[w] = "send"
  /\ mails' = [mails EXCEPT ![at[w]] = @ + 1]
  /\ late' = [late EXCEPT ![SequenceOf(at[w])] =
       IF OffFor(file, SequenceOf(at[w])) THEN @ + 1 ELSE @]
  /\ \/ Goto(w, "record") /\ UNCHANGED mishap
     \/ /\ "smtp" \in Faults
        /\ Goto(w, "send")
        /\ mishap' = mishap \cup {at[w]}
  /\ UNCHANGED <<fileVars, suppressed, queueVars, planVars, moverVars>>

\* The SMTP server accepts the mail or refuses it, or accepts it and the answer
\* is lost.
Deliver(w) ==
  /\ pc[w] = "send"
  /\ \/ /\ mails' = [mails EXCEPT ![at[w]] = @ + 1]
        /\ late' = [late EXCEPT ![SequenceOf(at[w])] =
             IF OffFor(file, SequenceOf(at[w])) THEN @ + 1 ELSE @]
        /\ \/ Goto(w, "record") /\ UNCHANGED mishap
           \/ /\ "smtp" \in Faults
              /\ Goto(w, "failing")
              /\ mishap' = mishap \cup {at[w]}
     \/ /\ "smtp" \in Faults
        /\ Goto(w, "failing")
        /\ UNCHANGED <<mails, late, mishap>>
  /\ UNCHANGED <<fileVars, suppressed, queueVars, planVars, moverVars>>

\* markSent and markFailed write over whatever the row holds, if there is one.
Marked(s, status) == [step EXCEPT ![s] = IF @ = "unplanned" THEN @ ELSE status]

\* (Mutant: markSent writes only over a scheduled row.)
RecordIfScheduled(w) ==
  /\ pc[w] = "record"
  /\ step' = [step EXCEPT ![at[w]] = IF @ = "scheduled" THEN "sent" ELSE @]
  /\ Complete(w)
  /\ UNCHANGED <<fileVars, suppressed, planVars, moverVars, mails, late, mishap>>

Record(w) ==
  /\ pc[w] = "record"
  /\ \/ step' = Marked(at[w], "sent") /\ Complete(w) /\ UNCHANGED mishap
     \/ /\ "database" \in Faults
        /\ mishap' = mishap \cup {at[w]}
        /\ Goto(w, "failing")
        /\ UNCHANGED queueVars
  /\ UNCHANGED <<fileVars, suppressed, planVars, moverVars, mails, late>>

\* The catch block: only the last attempt retires the step.
Failing(w) ==
  /\ pc[w] = "failing"
  /\ Throw(w)
  /\ IF ~LastAttempt(w)
     THEN UNCHANGED <<step, mishap>>
     ELSE \/ step' = Marked(at[w], "failed") /\ UNCHANGED mishap
          \/ /\ "database" \in Faults
             /\ mishap' = mishap \cup {at[w]}
             /\ UNCHANGED step
  /\ UNCHANGED <<fileVars, suppressed, planVars, moverVars, mails, late>>

\* The lock of an active job runs out; the queue takes the job for stalled and
\* hands it out once more, but not twice.
Stall(w) ==
  /\ IF at[w] \in stalled
     THEN Finish(w)
     ELSE /\ w \notin lapsed
          /\ job' = [job EXCEPT ![at[w]] = "waiting"]
          /\ stalled' = stalled \cup {at[w]}
          /\ UNCHANGED tries
  /\ mishap' = mishap \cup {at[w]}
  /\ UNCHANGED <<fileVars, suppressed, step, planVars, moverVars, mails, late>>

\* Nobody renewed it in time (a busy event loop, Redis out of reach), and the
\* worker goes on with the job all the same.
LockLapses(w) ==
  /\ "stall" \in Faults
  /\ pc[w] # "idle"
  /\ Stall(w)
  /\ lapsed' = lapsed \cup {w}
  /\ UNCHANGED <<pc, at, seen, made>>

\* The process restarts.
WorkerDies(w) ==
  /\ "restart" \in Faults
  /\ pc[w] # "idle"
  /\ \/ Stall(w)
     \/ /\ Refused(w)
        /\ UNCHANGED <<fileVars, suppressed, step, planVars, moverVars, mails, late,
                       mishap>>
  /\ Leave(w)

-----------------------------------------------------------------------------

Init ==
  /\ \E email \in Address :
       file = [email |-> email, status |-> "pending_call",
               called_in |-> FALSE, bank_verified |-> FALSE]
  /\ been = {"pending_call"}
  /\ suppressed \in SUBSET Address
  /\ step = [s \in Step |-> "unplanned"]
  /\ job = [s \in Step |-> "not_added"]
  /\ tries = [s \in Step |-> 0]
  /\ stalled = {}
  /\ toPersist = Step /\ toEnqueue = Step
  /\ rows = [m \in Mover |-> {}] /\ jobs = [m \in Mover |-> {}]
  /\ pc = [w \in Worker |-> "idle"]
  /\ at = [w \in Worker |-> NoStep]
  /\ seen = [w \in Worker |-> NoFile]
  /\ made = [w \in Worker |-> 0]
  /\ lapsed = {}
  /\ mails = [s \in Step |-> 0]
  /\ late = [key \in SequenceKey |-> 0]
  /\ mishap = {}

Plan == \E s \in Step : Persist(s) \/ Enqueue(s)

TearDown(m) == CancelRows(m) \/ RemoveJob(m)

Work(w) ==
  \/ Take(w) \/ Read(w) \/ Check(w) \/ CancelStep(w) \/ Prepare(w)
  \/ Withhold(w) \/ Deliver(w) \/ Record(w) \/ Failing(w)

Next ==
  \/ Plan \/ PlannerDies
  \/ \E m \in Mover : \/ Transition(m) \/ MarkAsCalledIn(m)
                      \/ RecordBankVerified(m)
                      \/ TearDown(m) \/ MoverDies(m)
  \/ EarlySave \/ EditEmail \/ Suppress
  \/ \E w \in Worker : Work(w) \/ WorkerDies(w) \/ LockLapses(w)

Spec == Init /\ [][Next]_vars

\* Intake, a handler and a worker that have begun go on; jobs come due.
FairSpec == /\ Spec
            /\ WF_vars(Plan)
            /\ \A m \in Mover : WF_vars(TearDown(m))
            /\ \A w \in Worker : WF_vars(Work(w))

-----------------------------------------------------------------------------
(* Properties *)

Settled == {"sent", "cancelled", "failed"}

WorkerStep == {"idle", "read", "check", "cancel", "prepare", "withhold", "send",
               "record", "failing"}

TypeOK ==
  /\ file \in File
  /\ been \subseteq Status
  /\ suppressed \subseteq Address
  /\ step \in [Step -> {"unplanned", "scheduled"} \cup Settled]
  /\ job \in [Step -> {"not_added", "waiting", "active", "gone"}]
  /\ tries \in [Step -> 0 .. Attempts - 1]
  /\ stalled \subseteq Step
  /\ toPersist \subseteq Step
  /\ toEnqueue \subseteq Step
  /\ rows \in [Mover -> SUBSET SequenceKey]
  /\ jobs \in [Mover -> SUBSET Step]
  /\ pc \in [Worker -> WorkerStep]
  /\ at \in [Worker -> Step \cup {NoStep}]
  /\ \A w \in Worker : pc[w] = "idle" <=> at[w] = NoStep
  /\ seen \in [Worker -> File \cup {NoFile}]
  /\ made \in [Worker -> 0 .. Attempts - 1]
  /\ lapsed \subseteq Worker
  /\ mails \in [Step -> Nat]
  /\ late \in [SequenceKey -> Nat]
  /\ mishap \subseteq Step

\* Whatever fails, however often jobs are retried and however handlers overwrite
\* each other: while a sequence is called off, for its status, its flag or an
\* unsubscribe, each worker sends at most one more of its reminders, the one it
\* was sending already.
LateMailsBounded ==
  \A key \in SequenceKey : late[key] <= Cardinality(Worker)

\* However often answers are lost, processes restart and jobs are handed out again
\* under a worker that still runs them, the borrower gets the same reminder at most
\* once per attempt, and once more for the one time a job may stall.
CopiesBounded == \A s \in Step : mails[s] <= Attempts + 1

\* Unless a write failed, an answer was lost or the job stalled, the row tells what
\* the borrower got: one mail if it says sent, none if it says cancelled or failed,
\* even when the step is torn down while a worker is sending it.
RowTellsMail ==
  \A s \in Step \ mishap :
    job[s] # "active" => mails[s] = IF step[s] = "sent" THEN 1 ELSE 0

\* Every step that met no mishap of its own is sent, cancelled or failed in the
\* end, whatever befalls the other steps.
EveryStepSettles ==
  \A s \in Step :
    (step[s] = "scheduled") ~> (step[s] \in Settled \/ s \in mishap)

=============================================================================
