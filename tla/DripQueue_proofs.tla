--------------------------- MODULE DripQueue_proofs ---------------------------
(***************************************************************************)
(* Proofs about DripQueue for every set of steps, workers and handlers,    *)
(* any number of attempts and any faults.                                  *)
(***************************************************************************)
EXTENDS DripQueue, FiniteSetTheorems, TLAPS

-----------------------------------------------------------------------------
(* The cancellation rules *)

\* A sequence is called off.
Off(key) == OffFor(file, key)

\* The rules a handler tears down by and the rules a worker checks by agree on
\* every status: what is torn down for a status would not be sent in it, and
\* what would not be sent for the status alone is torn down.
THEOREM RulesAgree ==
  \A status \in Status, key \in SequenceKey :
    key \in sequencesCancelledBy(status) <=>
      evaluateCancellation(key, [status |-> status, called_in |-> FALSE,
                                 bank_verified |-> FALSE], FALSE)
BY DEF sequencesCancelledBy, evaluateCancellation, SequenceKey

-----------------------------------------------------------------------------
(* Type correctness *)

LEMMA KeyOfStep == \A s \in Step : SequenceOf(s) \in SequenceKey
BY DEF Step, SequenceOf, SequenceKey

LEMMA NoStepIsNone == NoStep \notin Step
BY StepAssumption DEF Step

LEMMA LeaveTyped ==
  ASSUME TypeOK, NEW w \in Worker, Leave(w)
  PROVE  /\ pc' \in [Worker -> WorkerStep]
         /\ at' \in [Worker -> Step \cup {NoStep}]
         /\ \A v \in Worker : pc'[v] = "idle" <=> at'[v] = NoStep
         /\ seen' \in [Worker -> File \cup {NoFile}]
         /\ made' \in [Worker -> 0 .. Attempts - 1]
         /\ lapsed' \subseteq Worker
BY AttemptsAssumption DEF TypeOK, Leave, WorkerStep

LEMMA GotoTyped ==
  ASSUME TypeOK, NEW w \in Worker, pc[w] # "idle",
         NEW there \in {"cancel", "prepare", "withhold", "send", "record",
                        "failing"},
         Goto(w, there)
  PROVE  /\ pc' \in [Worker -> WorkerStep]
         /\ at' \in [Worker -> Step \cup {NoStep}]
         /\ \A v \in Worker : pc'[v] = "idle" <=> at'[v] = NoStep
         /\ seen' \in [Worker -> File \cup {NoFile}]
         /\ made' \in [Worker -> 0 .. Attempts - 1]
         /\ lapsed' \subseteq Worker
BY DEF TypeOK, Goto, WorkerStep

\* A job that ends, stalls or is thrown back keeps the types of the queue.
LEMMA FinishTyped ==
  ASSUME TypeOK, NEW w \in Worker, at[w] \in Step, Refused(w) \/ Finish(w)
  PROVE  /\ job' \in [Step -> {"not_added", "waiting", "active", "gone"}]
         /\ tries' \in [Step -> 0 .. Attempts - 1]
         /\ stalled' \subseteq Step
BY AttemptsAssumption DEF TypeOK, Refused, Finish

LEMMA ThrowTyped ==
  ASSUME TypeOK, NEW w \in Worker, at[w] \in Step, Throw(w)
  PROVE  /\ job' \in [Step -> {"not_added", "waiting", "active", "gone"}]
         /\ tries' \in [Step -> 0 .. Attempts - 1]
         /\ stalled' \subseteq Step
         /\ Leave(w)
<1>1. CASE Refused(w) \/ Finish(w)
  BY <1>1, FinishTyped DEF Throw
<1>2. CASE ~LastAttempt(w) /\ Retry(w)
  <2>1. made[w] + 1 \in 0 .. Attempts - 1
    BY <1>2, AttemptsAssumption DEF TypeOK, LastAttempt
  <2> QED  BY <1>2, <2>1 DEF TypeOK, Throw, Retry
<1> QED  BY <1>1, <1>2 DEF Throw

LEMMA StallTyped ==
  ASSUME TypeOK, NEW w \in Worker, at[w] \in Step, Stall(w)
  PROVE  /\ job' \in [Step -> {"not_added", "waiting", "active", "gone"}]
         /\ tries' \in [Step -> 0 .. Attempts - 1]
         /\ stalled' \subseteq Step
         /\ mishap' \subseteq Step
<1>1. mishap' \subseteq Step  BY DEF Stall, TypeOK
<1>2. CASE at[w] \in stalled
  BY <1>1, <1>2, FinishTyped DEF Stall
<1>3. CASE at[w] \notin stalled
  BY <1>1, <1>3 DEF Stall, TypeOK
<1> QED  BY <1>2, <1>3

LEMMA MarkTyped ==
  ASSUME TypeOK, NEW s \in Step
  PROVE  /\ Cancelled(s) \in [Step -> {"unplanned", "scheduled"} \cup Settled]
         /\ \A status \in Settled :
              Marked(s, status) \in [Step -> {"unplanned", "scheduled"} \cup Settled]
BY DEF TypeOK, Cancelled, Marked, Settled

LEMMA AtStep ==
  ASSUME TypeOK, NEW w \in Worker, pc[w] # "idle"
  PROVE  at[w] \in Step
BY DEF TypeOK

LEMMA InitTyped == Init => TypeOK
<1>1. "pending_call" \in Status  BY DEF Status, PIPELINE
<1> QED
  BY <1>1, AttemptsAssumption DEF Init, TypeOK, File, WorkerStep

\* A save of the row.
LEMMA StoreTyped ==
  ASSUME TypeOK, NEW f \in File, Store(f)
  PROVE  file' \in File /\ been' \subseteq Status /\ late' \in [SequenceKey -> Nat]
BY DEF TypeOK, Store, File

\* A handler's move.
LEMMA MoveTyped ==
  ASSUME TypeOK, NEW m \in Mover, NEW f \in File, NEW keys \in SUBSET SequenceKey,
         Move(m, f, keys)
  PROVE  TypeOK'
<1>1. StepsOf(keys) \subseteq Step  BY DEF StepsOf
<1> QED
  BY <1>1, StoreTyped
  DEF fileVars, Move, TypeOK, queueVars, planVars, workerVars

LEMMA MoverMoves ==
  ASSUME TypeOK, NEW m \in Mover,
         Transition(m) \/ MarkAsCalledIn(m) \/ RecordBankVerified(m)
  PROVE  \E f \in File, keys \in SUBSET SequenceKey : Move(m, f, keys)
<1>1. CASE Transition(m)
  <2>1. PICK to \in Reached :
          \/ Move(m, file, sequencesCancelledBy(to))
          \/ Move(m, [file EXCEPT !.status = to], sequencesCancelledBy(to))
    BY <1>1 DEF Transition
  <2>2. file \in File /\ [file EXCEPT !.status = to] \in File
    BY ReachedAssumption DEF TypeOK, File
  <2>3. sequencesCancelledBy(to) \in SUBSET SequenceKey
    BY DEF sequencesCancelledBy
  <2> QED  BY <2>1, <2>2, <2>3
<1>2. CASE MarkAsCalledIn(m)
  <2>1. [file EXCEPT !.status = "bank_verification_pending",
                     !.called_in = TRUE] \in File
    BY DEF TypeOK, File, Status, PIPELINE
  <2>2. {"call_in"} \in SUBSET SequenceKey  BY DEF SequenceKey
  <2> QED  BY <1>2, <2>1, <2>2 DEF MarkAsCalledIn
<1>3. CASE RecordBankVerified(m)
  <2>1. [file EXCEPT !.status = "bank_verification_complete",
                     !.bank_verified = TRUE] \in File
    BY DEF TypeOK, File, Status, PIPELINE
  <2> QED  BY <1>3, <2>1 DEF RecordBankVerified
<1> QED  BY <1>1, <1>2, <1>3

\* A save that tears nothing down.
LEMMA SaveTyped ==
  ASSUME TypeOK, EarlySave \/ EditEmail
  PROVE  /\ \E f \in File : Store(f)
         /\ UNCHANGED <<suppressed, queueVars, planVars, moverVars, workerVars,
                        mails, mishap>>
<1>1. CASE EarlySave
  <2>1. PICK to \in {"bank_verification_pending",
                     "verification_deposit_confirmed"} :
          Store([file EXCEPT !.status = to])
    BY <1>1 DEF EarlySave
  <2>2. [file EXCEPT !.status = to] \in File
    BY DEF TypeOK, File, Status, PIPELINE
  <2> QED  BY <1>1, <2>1, <2>2 DEF EarlySave
<1>2. CASE EditEmail
  <2>1. PICK email \in Address : Store([file EXCEPT !.email = email])
    BY <1>2 DEF EditEmail
  <2>2. [file EXCEPT !.email = email] \in File  BY DEF TypeOK, File
  <2> QED  BY <1>2, <2>1, <2>2 DEF EditEmail
<1> QED  BY <1>1, <1>2

LEMMA PlanTyped == TypeOK /\ (Plan \/ PlannerDies) => TypeOK'
<1> SUFFICES ASSUME TypeOK, Plan \/ PlannerDies PROVE TypeOK'
  OBVIOUS
<1>1. ASSUME NEW s \in Step, Persist(s) PROVE TypeOK'
  BY <1>1 DEF fileVars, Persist, TypeOK, moverVars, workerVars, Settled
<1>2. ASSUME NEW s \in Step, Enqueue(s) PROVE TypeOK'
  BY <1>2 DEF fileVars, Enqueue, TypeOK, moverVars, workerVars
<1>3. CASE PlannerDies
  BY <1>3 DEF fileVars, PlannerDies, TypeOK, queueVars, moverVars, workerVars
<1> QED  BY <1>1, <1>2, <1>3 DEF fileVars, Plan

LEMMA TearDownTyped ==
  ASSUME TypeOK, NEW m \in Mover, TearDown(m) \/ MoverDies(m)
  PROVE  TypeOK'
<1>1. CASE CancelRows(m)
  <2>1. /\ step' \in [Step -> {"unplanned", "scheduled"} \cup Settled]
        /\ rows' \in [Mover -> SUBSET SequenceKey]
        /\ mishap' \subseteq Step
    <3>1. CASE \E key \in rows[m] :
                 /\ step' = [s \in Step |->
                               IF SequenceOf(s) = key /\ step[s] = "scheduled"
                               THEN "cancelled" ELSE step[s]]
                 /\ rows' = [rows EXCEPT ![m] = @ \ {key}]
                 /\ mishap' = mishap \cup (toPersist \cap StepsOf({key}))
      BY <3>1 DEF TypeOK, Settled
    <3>2. CASE /\ rows' = [rows EXCEPT ![m] = {}]
               /\ mishap' = mishap \cup StepsOf(rows[m])
               /\ UNCHANGED step
      BY <3>2 DEF TypeOK, StepsOf
    <3> QED  BY <1>1, <3>1, <3>2 DEF CancelRows
  <2> QED  BY <1>1, <2>1 DEF fileVars, CancelRows, TypeOK, planVars, workerVars
<1>2. CASE RemoveJob(m)
  BY <1>2, AttemptsAssumption
  DEF fileVars, RemoveJob, TypeOK, planVars, workerVars
<1>3. CASE MoverDies(m)
  BY <1>3 DEF fileVars, MoverDies, TypeOK, queueVars, planVars, workerVars
<1> QED  BY <1>1, <1>2, <1>3 DEF fileVars, TearDown

LEMMA BreaksTyped ==
  ASSUME TypeOK, NEW w \in Worker, pc[w] # "idle", Breaks(w),
         UNCHANGED <<fileVars, suppressed, planVars, moverVars, mails, late>>
  PROVE  TypeOK'
<1>1. at[w] \in Step  BY AtStep
<1>2. Throw(w) /\ mishap' = mishap \cup {at[w]} /\ UNCHANGED step
  BY DEF Breaks
<1>3. /\ job' \in [Step -> {"not_added", "waiting", "active", "gone"}]
      /\ tries' \in [Step -> 0 .. Attempts - 1]
      /\ stalled' \subseteq Step
      /\ Leave(w)
  BY <1>1, <1>2, ThrowTyped
<1> QED
  BY <1>1, <1>2, <1>3, LeaveTyped DEF fileVars, TypeOK, planVars, moverVars

\* A worker that goes on to its next await and changes nothing else but mishap.
LEMMA WalkTyped ==
  ASSUME TypeOK, NEW w \in Worker, pc[w] # "idle",
         NEW there \in {"cancel", "prepare", "withhold", "send", "record",
                        "failing"},
         Goto(w, there), mishap' \subseteq Step,
         UNCHANGED <<fileVars, suppressed, queueVars, planVars, moverVars, mails,
                     late>>
  PROVE  TypeOK'
BY GotoTyped DEF fileVars, TypeOK, queueVars, planVars, moverVars

LEMMA CompleteTyped ==
  ASSUME TypeOK, NEW w \in Worker, pc[w] # "idle", Complete(w),
         step' \in [Step -> {"unplanned", "scheduled"} \cup Settled],
         UNCHANGED <<fileVars, suppressed, planVars, moverVars, mails, late, mishap>>
  PROVE  TypeOK'
<1>1. at[w] \in Step  BY AtStep
<1>2. (Refused(w) \/ Finish(w)) /\ Leave(w)  BY DEF Complete
<1> QED
  BY <1>1, <1>2, FinishTyped, LeaveTyped
  DEF fileVars, TypeOK, planVars, moverVars

LEMMA WorkTyped ==
  ASSUME TypeOK, NEW w \in Worker, Work(w) \/ WorkerDies(w) \/ LockLapses(w)
  PROVE  TypeOK'
<1>1. CASE Take(w)
  BY <1>1, NoStepIsNone
  DEF fileVars, Take, TypeOK, planVars, moverVars, WorkerStep
<1>2. CASE Read(w)
  <2>1. CASE Breaks(w)
    BY <1>2, <2>1, BreaksTyped DEF Read
  <2>2. CASE /\ seen' = [seen EXCEPT ![w] = file]
             /\ pc' = [pc EXCEPT ![w] = "check"]
             /\ UNCHANGED <<at, made, lapsed, queueVars, mishap>>
    BY <1>2, <2>2
    DEF fileVars, Read, TypeOK, queueVars, planVars, moverVars, WorkerStep
  <2> QED  BY <1>2, <2>1, <2>2 DEF Read
<1>3. CASE Check(w)
  <2>1. CASE Breaks(w)
    BY <1>3, <2>1, BreaksTyped DEF Check
  <2>2. CASE /\ Goto(w, IF OffFor(seen[w], SequenceOf(at[w]))
                        THEN "cancel" ELSE "prepare")
             /\ UNCHANGED <<queueVars, mishap>>
    BY <1>3, <2>2, WalkTyped DEF Check, TypeOK
  <2> QED  BY <1>3, <2>1, <2>2 DEF Check
<1>4. CASE CancelStep(w)
  <2>1. CASE Breaks(w)
    BY <1>4, <2>1, BreaksTyped DEF CancelStep
  <2>2. CASE step' = Cancelled(at[w]) /\ Complete(w) /\ UNCHANGED mishap
    BY <1>4, <2>2, CompleteTyped, MarkTyped, AtStep DEF CancelStep
  <2> QED  BY <1>4, <2>1, <2>2 DEF CancelStep
<1>5. CASE Prepare(w)
  <2>1. CASE Breaks(w)
    BY <1>5, <2>1, BreaksTyped DEF Prepare
  <2>2. CASE /\ Goto(w, IF Barred(w) THEN "withhold" ELSE "send")
             /\ UNCHANGED <<queueVars, mishap>>
    BY <1>5, <2>2, WalkTyped DEF Prepare, TypeOK
  <2>3. CASE /\ mishap' = mishap \cup {at[w]}
             /\ Goto(w, "failing")
             /\ UNCHANGED queueVars
    BY <1>5, <2>3, WalkTyped, AtStep DEF Prepare, TypeOK
  <2> QED  BY <1>5, <2>1, <2>2, <2>3 DEF Prepare
<1>6. CASE Withhold(w)
  <2>1. CASE step' = Cancelled(at[w]) /\ Complete(w) /\ UNCHANGED mishap
    BY <1>6, <2>1, CompleteTyped, MarkTyped, AtStep DEF Withhold
  <2>2. CASE /\ mishap' = mishap \cup {at[w]}
             /\ Goto(w, "failing")
             /\ UNCHANGED queueVars
    BY <1>6, <2>2, WalkTyped, AtStep DEF Withhold, TypeOK
  <2> QED  BY <1>6, <2>1, <2>2 DEF Withhold
<1>7. CASE Deliver(w)
  <2>1. pc[w] # "idle" /\ at[w] \in Step /\ SequenceOf(at[w]) \in SequenceKey
    BY <1>7, AtStep, KeyOfStep DEF Deliver
  <2>2. /\ mails' \in [Step -> Nat]
        /\ late' \in [SequenceKey -> Nat]
        /\ mishap' \subseteq Step
    BY <1>7, <2>1 DEF Deliver, TypeOK
  <2>3. \E there \in {"record", "failing"} : Goto(w, there)
    BY <1>7 DEF Deliver
  <2> QED
    BY <1>7, <2>1, <2>2, <2>3, GotoTyped
    DEF fileVars, Deliver, TypeOK, queueVars, planVars, moverVars
<1>8. CASE Record(w)
  <2>1. CASE step' = Marked(at[w], "sent") /\ Complete(w) /\ UNCHANGED mishap
    BY <1>8, <2>1, CompleteTyped, MarkTyped, AtStep DEF Record, Settled
  <2>2. CASE /\ mishap' = mishap \cup {at[w]}
             /\ Goto(w, "failing")
             /\ UNCHANGED queueVars
    BY <1>8, <2>2, WalkTyped, AtStep DEF Record, TypeOK
  <2> QED  BY <1>8, <2>1, <2>2 DEF Record
<1>9. CASE Failing(w)
  <2>1. pc[w] # "idle" /\ at[w] \in Step  BY <1>9, AtStep DEF Failing
  <2>2. /\ job' \in [Step -> {"not_added", "waiting", "active", "gone"}]
        /\ tries' \in [Step -> 0 .. Attempts - 1]
        /\ stalled' \subseteq Step
        /\ Leave(w)
    BY <1>9, <2>1, ThrowTyped DEF Failing
  <2>3. /\ step' \in [Step -> {"unplanned", "scheduled"} \cup Settled]
        /\ mishap' \subseteq Step
    BY <1>9, <2>1, MarkTyped DEF Failing, TypeOK, Settled
  <2> QED
    BY <1>9, <2>2, <2>3, LeaveTyped
    DEF fileVars, Failing, TypeOK, planVars, moverVars
<1>10. CASE WorkerDies(w)
  <2>1. pc[w] # "idle" /\ at[w] \in Step  BY <1>10, AtStep DEF WorkerDies
  <2>2. /\ job' \in [Step -> {"not_added", "waiting", "active", "gone"}]
        /\ tries' \in [Step -> 0 .. Attempts - 1]
        /\ stalled' \subseteq Step
        /\ mishap' \subseteq Step
        /\ UNCHANGED <<fileVars, suppressed, step, planVars, moverVars, mails, late>>
    <3>1. CASE Stall(w)  BY <2>1, <3>1, StallTyped DEF Stall
    <3>2. CASE Refused(w)
      BY <1>10, <2>1, <3>1, <3>2, FinishTyped DEF WorkerDies, TypeOK
    <3> QED  BY <1>10, <3>1, <3>2 DEF WorkerDies
  <2>3. Leave(w)  BY <1>10 DEF WorkerDies
  <2> QED
    BY <2>1, <2>2, <2>3, LeaveTyped DEF fileVars, TypeOK, planVars, moverVars
<1>11. CASE LockLapses(w)
  <2>1. pc[w] # "idle" /\ at[w] \in Step  BY <1>11, AtStep DEF LockLapses
  <2>2. /\ lapsed' = lapsed \cup {w} /\ UNCHANGED <<pc, at, seen, made>>
        /\ UNCHANGED <<fileVars, suppressed, step, planVars, moverVars, mails, late>>
    BY <1>11 DEF LockLapses, Stall
  <2> QED
    BY <1>11, <2>1, <2>2, StallTyped
    DEF LockLapses, fileVars, TypeOK, planVars, moverVars
<1> QED
  BY <1>1, <1>2, <1>3, <1>4, <1>5, <1>6, <1>7, <1>8, <1>9, <1>10, <1>11 DEF Work

LEMMA StepTyped == TypeOK /\ [Next]_vars => TypeOK'
<1> SUFFICES ASSUME TypeOK, [Next]_vars PROVE TypeOK'
  OBVIOUS
<1>1. CASE Plan \/ PlannerDies  BY <1>1, PlanTyped
<1>2. ASSUME NEW m \in Mover,
             Transition(m) \/ MarkAsCalledIn(m) \/ RecordBankVerified(m)
      PROVE  TypeOK'
  BY <1>2, MoverMoves, MoveTyped
<1>3. ASSUME NEW m \in Mover, TearDown(m) \/ MoverDies(m) PROVE TypeOK'
  BY <1>3, TearDownTyped
<1>4. CASE Suppress
  BY <1>4
  DEF Suppress, TypeOK, fileVars, queueVars, planVars, moverVars, workerVars
<1>7. CASE EarlySave \/ EditEmail
  BY <1>7, SaveTyped, StoreTyped
  DEF fileVars, TypeOK, queueVars, planVars, moverVars, workerVars
<1>5. ASSUME NEW w \in Worker, Work(w) \/ WorkerDies(w) \/ LockLapses(w)
      PROVE  TypeOK'
  BY <1>5, WorkTyped
<1>6. CASE UNCHANGED vars
  BY <1>6 DEF fileVars, TypeOK, vars, queueVars, planVars, moverVars, workerVars
<1> QED  BY <1>1, <1>2, <1>3, <1>4, <1>5, <1>6, <1>7 DEF Next

\* Rows, jobs and workers keep their types.
THEOREM TypeCorrect == Spec => []TypeOK
<1> QED  BY InitTyped, StepTyped, PTL DEF Spec
-----------------------------------------------------------------------------
(* Locks *)

\* Worker w runs a job and holds its lock.
Holds(w) == pc[w] # "idle" /\ w \notin lapsed

\* Only one worker holds a job's lock; a worker without it runs a job that met
\* a mishap.
LockInv ==
  /\ TypeOK
  /\ \A w \in Worker : Holds(w) => job[at[w]] = "active" /\ made[w] = tries[at[w]]
  /\ \A v, w \in Worker : Holds(v) /\ Holds(w) /\ at[v] = at[w] => v = w
  /\ \A w \in lapsed : pc[w] # "idle" /\ at[w] \in mishap
  /\ \A s \in toEnqueue : job[s] = "not_added"
  /\ \A w \in Worker : pc[w] # "idle" => at[w] \notin toEnqueue

\* A worker goes on with its job.
Stays(w) ==
  /\ pc[w] # "idle"
  /\ \A v \in Worker : pc'[v] = "idle" <=> pc[v] = "idle"
  /\ UNCHANGED <<job, tries, stalled, planVars, at, made, lapsed>>
  /\ mishap \subseteq mishap'

\* A worker is done with its job, whatever becomes of it.
Leaves(w) ==
  /\ pc[w] # "idle"
  /\ Leave(w)
  /\ Complete(w) \/ Throw(w) \/ WorkerDies(w)
  /\ UNCHANGED planVars
  /\ mishap \subseteq mishap'

\* What a worker's step can be.
LEMMA WorkShape ==
  ASSUME TypeOK, NEW w \in Worker, Work(w) \/ WorkerDies(w)
  PROVE  Take(w) \/ Stays(w) \/ Leaves(w)
<1>1. ASSUME pc[w] # "idle", Breaks(w), UNCHANGED planVars  PROVE Leaves(w)
  BY <1>1 DEF Breaks, Throw, Leaves
<1>2. ASSUME pc[w] # "idle", Complete(w), UNCHANGED <<planVars, mishap>>
      PROVE  Leaves(w)
  BY <1>2 DEF Complete, Leaves
<1>3. ASSUME pc[w] # "idle", NEW there \in WorkerStep \ {"idle"}, Goto(w, there),
             UNCHANGED <<queueVars, planVars>>, mishap \subseteq mishap'
      PROVE  Stays(w)
  BY <1>3 DEF Goto, Stays, TypeOK, queueVars
<1>4. CASE Read(w)
  BY <1>1, <1>4 DEF Read, Stays, TypeOK, queueVars
<1>5. CASE Check(w)
  BY <1>1, <1>3, <1>5 DEF Check, WorkerStep
<1>6. CASE CancelStep(w)
  BY <1>1, <1>2, <1>6 DEF CancelStep
<1>7. CASE Prepare(w)
  BY <1>1, <1>3, <1>7 DEF Prepare, WorkerStep
<1>8. CASE Withhold(w)
  BY <1>2, <1>3, <1>8 DEF Withhold, WorkerStep
<1>9. CASE Deliver(w)
  <2>1. PICK there \in {"record", "failing"} : Goto(w, there)
    BY <1>9 DEF Deliver
  <2>2. mishap \subseteq mishap' /\ UNCHANGED <<queueVars, planVars>> /\ pc[w] # "idle"
    BY <1>9 DEF Deliver
  <2> QED  BY <1>3, <2>1, <2>2 DEF WorkerStep
<1>10. CASE Record(w)
  BY <1>2, <1>3, <1>10 DEF Record, WorkerStep
<1>11. CASE Failing(w)
  BY <1>11 DEF Failing, Throw, Leaves
<1>12. CASE WorkerDies(w)
  BY <1>12 DEF WorkerDies, Stall, Leaves
<1> QED
  BY <1>4, <1>5, <1>6, <1>7, <1>8, <1>9, <1>10, <1>11, <1>12 DEF Work

\* Only the job whose lock the worker holds is touched.
LEMMA OtherJobs ==
  ASSUME TypeOK, NEW w \in Worker, pc[w] # "idle",
         Complete(w) \/ Throw(w) \/ WorkerDies(w) \/ LockLapses(w)
  PROVE  \A s \in Step : \/ s = at[w] /\ w \notin lapsed
                         \/ /\ job'[s] = job[s] /\ tries'[s] = tries[s]
                            /\ s \in stalled' <=> s \in stalled
<1> DEFINE Others == \A s \in Step : \/ s = at[w] /\ w \notin lapsed
                                     \/ /\ job'[s] = job[s] /\ tries'[s] = tries[s]
                                        /\ s \in stalled' <=> s \in stalled
<1>1. Refused(w) => Others  BY DEF Refused
<1>2. Finish(w) => Others  BY DEF Finish, TypeOK
<1>3. Retry(w) => Others  BY DEF Retry, TypeOK
<1>4. Stall(w) => Others  BY <1>2 DEF Stall, TypeOK
<1> QED
  BY <1>1, <1>2, <1>3, <1>4 DEF Complete, Throw, WorkerDies, LockLapses

LEMMA LockStays ==
  ASSUME LockInv, NEW w \in Worker, Stays(w), TypeOK'
  PROVE  LockInv'
<1>1. /\ UNCHANGED <<job, tries, toEnqueue, at, made, lapsed>>
      /\ mishap \subseteq mishap'
      /\ \A v \in Worker : pc'[v] = "idle" <=> pc[v] = "idle"
  BY DEF Stays, planVars
<1>2. \A v \in Worker : Holds(v)' <=> Holds(v)  BY <1>1 DEF Holds
<1>3. \A v \in lapsed' : pc'[v] # "idle" /\ at'[v] \in mishap'
  BY <1>1 DEF LockInv, TypeOK
<1> QED  BY <1>1, <1>2, <1>3 DEF LockInv

LEMMA LockLeaves ==
  ASSUME LockInv, NEW w \in Worker, Leaves(w), TypeOK'
  PROVE  LockInv'
<1>t. TypeOK  BY DEF LockInv
<1>1. /\ \A v \in Worker : v # w => /\ pc'[v] = pc[v] /\ at'[v] = at[v]
                                    /\ made'[v] = made[v]
      /\ pc'[w] = "idle" /\ lapsed' = lapsed \ {w}
      /\ toEnqueue' = toEnqueue /\ mishap \subseteq mishap'
  BY <1>t DEF Leaves, Leave, TypeOK, planVars
<1>2. \A s \in Step : \/ s = at[w] /\ w \notin lapsed
                      \/ job'[s] = job[s] /\ tries'[s] = tries[s]
  BY <1>t, OtherJobs DEF Leaves
<1>3. ASSUME NEW v \in Worker, Holds(v)'
      PROVE  Holds(v) /\ v # w /\ job'[at'[v]] = "active" /\ made'[v] = tries'[at'[v]]
  <2>1. v # w /\ Holds(v)  BY <1>1, <1>3 DEF Holds
  <2>2. at[v] \in Step /\ (w \notin lapsed => at[v] # at[w])
    BY <1>t, <2>1, AtStep DEF LockInv, Holds, Leaves
  <2> QED  BY <1>1, <1>2, <2>1, <2>2 DEF LockInv
<1>4. \A v, u \in Worker : Holds(v)' /\ Holds(u)' /\ at'[v] = at'[u] => v = u
  BY <1>1, <1>3 DEF LockInv
<1>5. \A s \in toEnqueue' : job'[s] = "not_added"
  <2>1. at[w] \notin toEnqueue  BY DEF LockInv, Leaves
  <2> QED  BY <1>1, <1>2, <1>t, <2>1 DEF LockInv, TypeOK
<1>6. \A v \in lapsed' : pc'[v] # "idle" /\ at'[v] \in mishap'
  BY <1>1, <1>t DEF LockInv, TypeOK
<1>7. \A v \in Worker : pc'[v] # "idle" => at'[v] \notin toEnqueue'
  BY <1>1 DEF LockInv
<1> QED  BY <1>3, <1>4, <1>5, <1>6, <1>7 DEF LockInv

LEMMA LockLost ==
  ASSUME LockInv, NEW w \in Worker, LockLapses(w), TypeOK'
  PROVE  LockInv'
<1>t. TypeOK  BY DEF LockInv
<1>1. /\ UNCHANGED <<pc, at, made, planVars>> /\ lapsed' = lapsed \cup {w}
      /\ mishap' = mishap \cup {at[w]} /\ pc[w] # "idle"
  BY DEF LockLapses, Stall
<1>2. \A s \in Step : \/ s = at[w] /\ w \notin lapsed
                      \/ job'[s] = job[s] /\ tries'[s] = tries[s]
  BY <1>t, <1>1, OtherJobs
<1>3. ASSUME NEW v \in Worker, Holds(v)'
      PROVE  Holds(v) /\ job'[at'[v]] = "active" /\ made'[v] = tries'[at'[v]]
  <2>1. v # w /\ Holds(v)  BY <1>1, <1>3 DEF Holds
  <2>2. at[v] \in Step /\ (w \notin lapsed => at[v] # at[w])
    BY <1>t, <1>1, <2>1, AtStep DEF LockInv, Holds
  <2> QED  BY <1>1, <1>2, <2>1, <2>2 DEF LockInv
<1>5. \A s \in toEnqueue' : job'[s] = "not_added"
  <2>1. at[w] \notin toEnqueue  BY <1>1 DEF LockInv
  <2> QED  BY <1>1, <1>2, <1>t, <2>1 DEF LockInv, TypeOK, planVars
<1> QED  BY <1>1, <1>3, <1>5 DEF LockInv, planVars

LEMMA LockStep == LockInv /\ [Next]_vars => LockInv'
<1> SUFFICES ASSUME LockInv, [Next]_vars PROVE LockInv'
  OBVIOUS
<1>t. TypeOK /\ TypeOK'  BY StepTyped DEF LockInv
<1>1. ASSUME NEW s \in Step, Persist(s) PROVE LockInv'
  BY <1>1, <1>t DEF Persist, LockInv, Holds, workerVars
<1>2. ASSUME NEW s \in Step, Enqueue(s) PROVE LockInv'
  <2>1. s \in toEnqueue /\ job[s] = "not_added"  BY <1>2 DEF Enqueue, LockInv
  <2>2. \A v \in Worker : pc[v] # "idle" => at[v] # s  BY <2>1 DEF LockInv
  <2>3. /\ \A r \in Step : r # s => job'[r] = job[r]
        /\ UNCHANGED <<tries, workerVars>> /\ toEnqueue' = toEnqueue \ {s}
        /\ mishap \subseteq mishap'
    BY <1>2, <1>t DEF Enqueue, TypeOK
  <2>4. \A v \in Worker : Holds(v) => at[v] \in Step /\ at[v] # s
    BY <1>t, <2>2, AtStep DEF Holds
  <2>5. \A r \in toEnqueue' : job'[r] = "not_added"
    BY <1>t, <2>3 DEF LockInv, TypeOK
  <2> QED
    BY <1>t, <2>3, <2>4, <2>5 DEF LockInv, Holds, workerVars
<1>3. CASE PlannerDies
  BY <1>3, <1>t DEF PlannerDies, LockInv, Holds, queueVars, workerVars
<1>4. ASSUME NEW m \in Mover,
             Transition(m) \/ MarkAsCalledIn(m) \/ RecordBankVerified(m)
      PROVE  LockInv'
  <2>1. UNCHANGED <<job, tries, planVars, workerVars, mishap>>
    BY <1>4, <1>t, MoverMoves DEF Move, queueVars
  <2> QED  BY <1>t, <2>1 DEF LockInv, Holds, planVars, workerVars
<1>5. ASSUME NEW m \in Mover, TearDown(m) \/ MoverDies(m) PROVE LockInv'
  <2>1. UNCHANGED <<planVars, workerVars>> /\ mishap \subseteq mishap'
    BY <1>5 DEF TearDown, CancelRows, RemoveJob, MoverDies
  <2>2. \A s \in Step : job[s] # "waiting" => job'[s] = job[s] /\ tries'[s] = tries[s]
    BY <1>5, <1>t
    DEF TearDown, CancelRows, RemoveJob, MoverDies, queueVars, TypeOK
  <2>3. \A v \in Worker : Holds(v) => at[v] \in Step
    BY <1>t, AtStep DEF Holds
  <2>4. \A s \in toEnqueue : job'[s] = "not_added"
    BY <1>t, <2>2 DEF LockInv, TypeOK
  <2> QED
    BY <1>t, <2>1, <2>2, <2>3, <2>4 DEF LockInv, Holds, planVars, workerVars
<1>6. CASE EarlySave \/ EditEmail
  BY <1>6, <1>t, SaveTyped
  DEF LockInv, Holds, queueVars, planVars, workerVars
<1>7. CASE Suppress
  BY <1>7, <1>t DEF Suppress, LockInv, Holds, queueVars, planVars, workerVars
<1>8. ASSUME NEW w \in Worker, Take(w) PROVE LockInv'
  <2>1. PICK s \in Step : /\ job[s] = "waiting"
                          /\ job' = [job EXCEPT ![s] = "active"]
                          /\ at' = [at EXCEPT ![w] = s]
                          /\ made' = [made EXCEPT ![w] = tries[s]]
    BY <1>8 DEF Take
  <2>2. /\ UNCHANGED <<tries, planVars, lapsed, mishap>> /\ pc[w] = "idle"
        /\ pc' = [pc EXCEPT ![w] = "read"]
    BY <1>8 DEF Take
  <2>3. w \notin lapsed /\ s \notin toEnqueue
    BY <2>1, <2>2 DEF LockInv
  <2>4. \A v \in Worker : Holds(v) => v # w /\ at[v] # s /\ at[v] \in Step
    BY <1>t, <2>1, <2>2, AtStep DEF LockInv, Holds
  <2>5. /\ at'[w] = s /\ made'[w] = tries[s] /\ job'[s] = "active"
        /\ \A v \in Worker : v # w => /\ at'[v] = at[v] /\ made'[v] = made[v]
                                      /\ pc'[v] = pc[v]
        /\ \A r \in Step : r # s => job'[r] = job[r]
    BY <1>t, <2>1, <2>2 DEF TypeOK
  <2>6. \A v \in Worker : Holds(v)' => v = w \/ Holds(v)
    BY <2>2, <2>5 DEF Holds
  <2>7. \A v \in Worker :
          Holds(v)' => job'[at'[v]] = "active" /\ made'[v] = tries'[at'[v]]
    BY <2>2, <2>4, <2>5, <2>6 DEF LockInv
  <2>8. \A v, u \in Worker : Holds(v)' /\ Holds(u)' /\ at'[v] = at'[u] => v = u
    BY <2>4, <2>5, <2>6 DEF LockInv
  <2>9. \A r \in toEnqueue' : job'[r] = "not_added"
    BY <1>t, <2>2, <2>3, <2>5 DEF LockInv, TypeOK, planVars
  <2>10. \A v \in lapsed' : pc'[v] # "idle" /\ at'[v] \in mishap'
    BY <1>t, <2>2, <2>3, <2>5 DEF LockInv, TypeOK
  <2>11. \A v \in Worker : pc'[v] # "idle" => at'[v] \notin toEnqueue'
    BY <2>2, <2>3, <2>5 DEF LockInv, planVars
  <2> QED  BY <1>t, <2>7, <2>8, <2>9, <2>10, <2>11 DEF LockInv
<1>9. ASSUME NEW w \in Worker, Work(w) \/ WorkerDies(w) \/ LockLapses(w)
      PROVE  LockInv'
  BY <1>8, <1>9, <1>t, WorkShape, LockStays, LockLeaves, LockLost
<1>10. CASE UNCHANGED vars
  BY <1>10, <1>t
  DEF LockInv, Holds, vars, queueVars, planVars, workerVars
<1> QED
  BY <1>1, <1>2, <1>3, <1>4, <1>5, <1>6, <1>7, <1>9, <1>10 DEF Next, Plan

LEMMA LockInit == Init => LockInv
BY InitTyped DEF Init, LockInv, Holds

-----------------------------------------------------------------------------
(* How often a step is sent *)

\* Workers whose attempt at the step may still send it, lock or no lock.
Sending(s) ==
  {w \in Worker : at[w] = s /\ pc[w] \in {"read", "check", "prepare", "send"}}

\* The attempts that may still be handed out.
Left(s) ==
  IF job[s] = "gone" THEN 0
  ELSE (Attempts - tries[s]) - (IF job[s] = "active" THEN 1 ELSE 0)
         + (IF s \in stalled THEN 0 ELSE 1)

CopiesInv(s) == mails[s] + Cardinality(Sending(s)) + Left(s) <= Attempts + 1

LEMMA SendingSize ==
  ASSUME NEW s \in Step
  PROVE  IsFiniteSet(Sending(s)) /\ Cardinality(Sending(s)) \in Nat
<1>1. Sending(s) \subseteq Worker  BY DEF Sending
<1> QED  BY <1>1, WorkerAssumption, FS_Subset, FS_CardinalityType

LEMMA LeftSize ==
  ASSUME TypeOK, NEW s \in Step
  PROVE  Left(s) \in Nat
<1>1. tries[s] \in 0 .. Attempts - 1  BY DEF TypeOK
<1> QED  BY <1>1, AttemptsAssumption DEF Left

\* A step that sends nothing and lets nobody else send.
LEMMA CopiesKept ==
  ASSUME TypeOK, TypeOK', NEW s \in Step, CopiesInv(s), mails'[s] = mails[s],
         Left(s)' <= Left(s), Sending(s)' \subseteq Sending(s)
  PROVE  CopiesInv(s)'
<1>1. IsFiniteSet(Sending(s)) /\ Cardinality(Sending(s)) \in Nat
  BY SendingSize
<1>2. /\ Cardinality(Sending(s)') <= Cardinality(Sending(s))
      /\ Cardinality(Sending(s)') \in Nat
  BY <1>1, FS_Subset, FS_CardinalityType
<1>3. Left(s) \in Nat /\ mails[s] \in Nat /\ Left(s)' \in Nat
  <2>1. Left(s) \in Nat  BY LeftSize
  <2>2. Left(s)' \in Nat  BY AttemptsAssumption DEF TypeOK, Left
  <2> QED  BY <2>1, <2>2 DEF TypeOK
<1>4. Cardinality(Sending(s))' = Cardinality(Sending(s)')  OBVIOUS
<1> QED  BY <1>1, <1>2, <1>3, <1>4, AttemptsAssumption DEF CopiesInv

\* What the end of an attempt, or a stalled lock, leaves to be handed out.
LEMMA LeftShrinks ==
  ASSUME LockInv, NEW w \in Worker, pc[w] # "idle",
         Complete(w) \/ Throw(w) \/ WorkerDies(w) \/ LockLapses(w),
         NEW s \in Step
  PROVE  Left(s)' <= Left(s)
<1>t. TypeOK  BY DEF LockInv
<1>0. /\ Left(s) \in Nat /\ at[w] \in Step
      /\ tries[s] \in 0 .. Attempts - 1 /\ Attempts \in Nat
  BY <1>t, LeftSize, AtStep, AttemptsAssumption DEF TypeOK
<1>1. CASE job'[s] = job[s] /\ tries'[s] = tries[s] /\ (s \in stalled' <=> s \in stalled)
  <2>1. Left(s)' = Left(s)  BY <1>1 DEF Left
  <2> QED  BY <1>0, <2>1
<1>2. CASE s = at[w] /\ w \notin lapsed
  <2>1. job[s] = "active" /\ made[w] = tries[s]
    BY <1>2 DEF LockInv, Holds
  <2>2. CASE Finish(w)
    <3>1. job'[s] = "gone"  BY <1>t, <1>2, <2>2 DEF Finish, TypeOK
    <3> QED  BY <1>0, <3>1 DEF Left
  <2>3. CASE Retry(w)
    <3>1. job'[s] = "waiting" /\ tries'[s] = tries[s] + 1 /\ stalled' = stalled
      BY <1>t, <1>2, <2>1, <2>3 DEF Retry, TypeOK
    <3> QED  BY <1>0, <2>1, <3>1 DEF Left
  <2>4. CASE Stall(w) /\ s \notin stalled
    <3>1. job'[s] = "waiting" /\ tries'[s] = tries[s] /\ s \in stalled'
      BY <1>t, <1>2, <2>4 DEF Stall, TypeOK
    <3> QED  BY <1>0, <2>1, <2>4, <3>1 DEF Left
  <2>5. \/ Finish(w) \/ Retry(w)
        \/ Stall(w) /\ s \notin stalled
    BY <1>2 DEF Complete, Throw, WorkerDies, LockLapses, Stall, Refused
  <2> QED  BY <2>2, <2>3, <2>4, <2>5
<1> QED  BY <1>t, <1>1, <1>2, OtherJobs

\* Nobody but a worker adds to what may still be sent.
LEMMA SendingKept ==
  ASSUME NEW s \in Step, NEW w \in Worker,
         \A v \in Worker : v # w => pc'[v] = pc[v] /\ at'[v] = at[v],
         w \in Sending(s)' => w \in Sending(s)
  PROVE  Sending(s)' \subseteq Sending(s)
BY DEF Sending

LEMMA WorkCopies ==
  ASSUME LockInv, TypeOK', NEW s \in Step, CopiesInv(s), NEW w \in Worker,
         Work(w) \/ WorkerDies(w) \/ LockLapses(w)
  PROVE  CopiesInv(s)'
<1>t. TypeOK  BY DEF LockInv
<1>1. \A v \in Worker : v # w => pc'[v] = pc[v] /\ at'[v] = at[v]
  BY <1>t DEF Work, WorkerDies, LockLapses, Take, Read, Check, CancelStep, Prepare,
     Withhold, Deliver, Record, Failing, Breaks, Throw, Complete, Leave, Goto, TypeOK
<1>0. /\ IsFiniteSet(Sending(s)) /\ Cardinality(Sending(s)) \in Nat
      /\ Left(s) \in Nat /\ mails[s] \in Nat /\ Attempts \in Nat
  BY <1>t, SendingSize, LeftSize, AttemptsAssumption DEF TypeOK
<1>2. CASE Take(w)
  <2>1. PICK r \in Step : /\ job[r] = "waiting"
                          /\ job' = [job EXCEPT ![r] = "active"]
                          /\ at' = [at EXCEPT ![w] = r]
    BY <1>2 DEF Take
  <2>2. /\ UNCHANGED <<tries, stalled, mails>> /\ pc[w] = "idle"
        /\ pc' = [pc EXCEPT ![w] = "read"] /\ at'[w] = r
    BY <1>t, <1>2, <2>1 DEF Take, TypeOK
  <2>3. CASE r # s
    <3>1. Left(s)' = Left(s)  BY <1>t, <2>1, <2>2, <2>3 DEF Left, TypeOK
    <3>2. w \notin Sending(s)'  BY <2>2, <2>3 DEF Sending
    <3> QED  BY <1>t, <1>0, <1>1, <2>2, <3>1, <3>2, SendingKept, CopiesKept
  <2>4. CASE r = s
    <3>1. job'[s] = "active"  BY <1>t, <2>1, <2>4 DEF TypeOK
    <3>2. Left(s)' = Left(s) - 1
      <4>1. tries[s] \in 0 .. Attempts - 1  BY <1>t DEF TypeOK
      <4> QED  BY <1>0, <2>1, <2>2, <2>4, <3>1, <4>1 DEF Left
    <3>3. w \notin Sending(s) /\ Sending(s)' \subseteq Sending(s) \cup {w}
      BY <1>1, <2>2 DEF Sending
    <3>4. /\ IsFiniteSet(Sending(s) \cup {w})
          /\ Cardinality(Sending(s) \cup {w}) = Cardinality(Sending(s)) + 1
      BY <1>0, <3>3, FS_AddElement
    <3>5. /\ Cardinality(Sending(s)') <= Cardinality(Sending(s)) + 1
          /\ Cardinality(Sending(s)') \in Nat
      BY <3>3, <3>4, FS_Subset, FS_CardinalityType
    <3>6. Cardinality(Sending(s))' = Cardinality(Sending(s)')  OBVIOUS
    <3> QED  BY <1>0, <2>2, <3>2, <3>5, <3>6 DEF CopiesInv
  <2> QED  BY <2>3, <2>4
<1>3. CASE Deliver(w)
  <2>1. /\ UNCHANGED queueVars /\ pc[w] = "send" /\ at[w] \in Step
        /\ at' = at /\ pc'[w] \in {"record", "failing"}
        /\ mails' = mails \/ mails' = [mails EXCEPT ![at[w]] = @ + 1]
    BY <1>t, <1>3, AtStep DEF Deliver, Goto, TypeOK
  <2>2. Left(s)' = Left(s)  BY <2>1 DEF Left, queueVars
  <2>3. w \notin Sending(s)' /\ Sending(s)' \subseteq Sending(s)
    BY <1>1, <2>1 DEF Sending
  <2>4. CASE mails'[s] = mails[s]
    BY <1>t, <1>0, <2>2, <2>3, <2>4, CopiesKept
  <2>5. CASE mails'[s] # mails[s]
    <3>1. at[w] = s /\ mails'[s] = mails[s] + 1
      BY <1>t, <2>1, <2>5 DEF TypeOK
    <3>2. w \in Sending(s) /\ Sending(s)' \subseteq Sending(s) \ {w}
      BY <2>1, <2>3, <3>1 DEF Sending
    <3>3. /\ IsFiniteSet(Sending(s) \ {w})
          /\ Cardinality(Sending(s) \ {w}) = Cardinality(Sending(s)) - 1
      BY <1>0, <3>2, FS_RemoveElement
    <3>4. /\ Cardinality(Sending(s)') <= Cardinality(Sending(s)) - 1
          /\ Cardinality(Sending(s)') \in Nat
      BY <3>2, <3>3, FS_Subset, FS_CardinalityType
    <3>5. Cardinality(Sending(s))' = Cardinality(Sending(s)')  OBVIOUS
    <3> QED  BY <1>0, <2>2, <3>1, <3>4, <3>5 DEF CopiesInv
  <2> QED  BY <2>4, <2>5
<1>4. CASE ~Take(w) /\ ~Deliver(w)
  <2>1. mails' = mails
    BY <1>4 DEF Work, WorkerDies, LockLapses, Stall, Read, Check, CancelStep,
       Prepare, Withhold, Record, Failing
  <2>2. Left(s)' <= Left(s)
    <3>1. CASE Stays(w)
      <4>1. Left(s)' = Left(s)  BY <3>1 DEF Stays, Left
      <4> QED  BY <1>0, <4>1
    <3>2. CASE Leaves(w)  BY <3>2, LeftShrinks DEF Leaves
    <3>3. CASE LockLapses(w)  BY <3>3, LeftShrinks DEF LockLapses
    <3> QED  BY <1>t, <1>4, <3>1, <3>2, <3>3, WorkShape
  <2>3. w \in Sending(s)' => w \in Sending(s)
    <3>1. CASE Leave(w)  BY <1>t, <3>1 DEF Leave, Sending, TypeOK
    <3>2. CASE ~Leave(w)
      <4>1. /\ at'[w] = at[w]
            /\ pc'[w] \in {"read", "check", "prepare", "send"} =>
                 pc[w] \in {"read", "check", "prepare", "send"}
        BY <1>t, <1>4, <3>2 DEF Work, WorkerDies, LockLapses, Read, Check,
           CancelStep, Prepare, Withhold, Record, Failing, Breaks, Throw,
           Complete, Goto, TypeOK
      <4> QED  BY <4>1 DEF Sending
    <3> QED  BY <3>1, <3>2
  <2> QED  BY <1>t, <1>1, <2>1, <2>2, <2>3, SendingKept, CopiesKept
<1> QED  BY <1>2, <1>3, <1>4

LEMMA CopiesStep ==
  ASSUME LockInv, TypeOK', [Next]_vars, NEW s \in Step, CopiesInv(s)
  PROVE  CopiesInv(s)'
<1>t. TypeOK  BY DEF LockInv
<1>0. Left(s) \in Nat /\ tries[s] \in 0 .. Attempts - 1 /\ Attempts \in Nat
  BY <1>t, LeftSize, AttemptsAssumption DEF TypeOK
<1>1. ASSUME UNCHANGED <<workerVars, mails>>, Left(s)' <= Left(s)
      PROVE  CopiesInv(s)'
  <2>1. Sending(s)' = Sending(s)  BY <1>1 DEF Sending, workerVars
  <2> QED  BY <1>1, <1>t, <2>1, CopiesKept
<1>2. ASSUME UNCHANGED <<job, tries, stalled>>  PROVE Left(s)' <= Left(s)
  <2>1. Left(s)' = Left(s)  BY <1>2 DEF Left
  <2> QED  BY <1>0, <2>1
<1>3. ASSUME NEW r \in Step, Persist(r) PROVE CopiesInv(s)'
  BY <1>1, <1>2, <1>3 DEF Persist
<1>4. ASSUME NEW r \in Step, Enqueue(r) PROVE CopiesInv(s)'
  <2>1. /\ UNCHANGED <<workerVars, mails, tries, stalled>>
        /\ job[r] = "not_added"
        /\ job' = job \/ job' = [job EXCEPT ![r] = "waiting"]
    BY <1>4 DEF Enqueue, LockInv
  <2>2. Left(s)' = Left(s)  BY <1>t, <2>1 DEF Left, TypeOK
  <2> QED  BY <1>0, <1>1, <2>1, <2>2
<1>5. CASE PlannerDies
  BY <1>1, <1>2, <1>5 DEF PlannerDies, queueVars
<1>6. ASSUME NEW m \in Mover,
             Transition(m) \/ MarkAsCalledIn(m) \/ RecordBankVerified(m)
      PROVE  CopiesInv(s)'
  BY <1>1, <1>2, <1>6, <1>t, MoverMoves DEF Move, queueVars
<1>7. ASSUME NEW m \in Mover, CancelRows(m) \/ MoverDies(m) PROVE CopiesInv(s)'
  BY <1>1, <1>2, <1>7 DEF CancelRows, MoverDies, queueVars
<1>8. ASSUME NEW m \in Mover, RemoveJob(m) PROVE CopiesInv(s)'
  <2>1. /\ UNCHANGED <<workerVars, mails>>
        /\ \/ job'[s] = "gone"
           \/ job'[s] = job[s] /\ tries'[s] = tries[s]
              /\ (s \in stalled' <=> s \in stalled)
    BY <1>8, <1>t DEF RemoveJob, TypeOK
  <2>2. Left(s)' <= Left(s)  BY <1>0, <2>1 DEF Left
  <2> QED  BY <1>1, <2>1, <2>2
<1>9. CASE EarlySave \/ EditEmail
  BY <1>1, <1>2, <1>9, <1>t, SaveTyped DEF queueVars
<1>10. CASE Suppress \/ UNCHANGED vars
  BY <1>1, <1>2, <1>10 DEF Suppress, vars, queueVars
<1> QED
  BY <1>3, <1>4, <1>5, <1>6, <1>7, <1>8, <1>9, <1>10, WorkCopies
  DEF Next, Plan, TearDown

\* However often answers are lost, processes die and jobs are handed out under
\* a worker that still runs them, a step is sent at most once per attempt and
\* once more for a stall.
THEOREM CopiesFew == Spec => []CopiesBounded
<1> DEFINE Inv == LockInv /\ \A s \in Step : CopiesInv(s)
<1>1. Init => Inv
  <2> SUFFICES ASSUME Init, NEW s \in Step PROVE CopiesInv(s)
    BY LockInit
  <2>1. Sending(s) = {}  BY DEF Init, Sending
  <2>2. Cardinality(Sending(s)) = 0  BY <2>1, FS_EmptySet
  <2>3. Left(s) = Attempts + 1 /\ mails[s] = 0
    BY AttemptsAssumption DEF Init, Left
  <2> QED  BY <2>2, <2>3, AttemptsAssumption DEF CopiesInv
<1>2. Inv /\ [Next]_vars => Inv'
  BY LockStep, CopiesStep DEF LockInv
<1>3. Inv => CopiesBounded
  <2> SUFFICES ASSUME Inv, NEW s \in Step PROVE mails[s] <= Attempts + 1
    BY DEF CopiesBounded
  <2>1. /\ mails[s] \in Nat /\ Left(s) \in Nat /\ Cardinality(Sending(s)) \in Nat
        /\ Attempts \in Nat
    BY LeftSize, SendingSize, AttemptsAssumption DEF LockInv, TypeOK
  <2> QED  BY <2>1 DEF CopiesInv
<1> QED  BY <1>1, <1>2, <1>3, PTL DEF Spec
-----------------------------------------------------------------------------
(* Reminders after they were called off *)

\* Workers whose attempt at a step of the sequence may still send it.
MaySend(key) ==
  {w \in Worker :
     /\ at[w] \in Step /\ SequenceOf(at[w]) = key
     /\ \/ pc[w] \in {"prepare", "send"}
        \/ pc[w] = "check" /\ ~OffFor(seen[w], key)}

LateInv(key) ==
  IF Off(key) THEN late[key] + Cardinality(MaySend(key)) <= Cardinality(Worker)
              ELSE late[key] = 0

LEMMA MaySendSize ==
  ASSUME NEW key \in SequenceKey
  PROVE  /\ IsFiniteSet(MaySend(key)) /\ Cardinality(MaySend(key)) \in Nat
         /\ Cardinality(Worker) \in Nat
         /\ Cardinality(MaySend(key)) <= Cardinality(Worker)
<1>1. MaySend(key) \subseteq Worker  BY DEF MaySend
<1> QED
  BY <1>1, WorkerAssumption, FS_Subset, FS_CardinalityType

\* A step that sends no late mail of the sequence, and lets nobody else send one
\* once it is called off.
LEMMA LateKept ==
  ASSUME TypeOK, NEW key \in SequenceKey, LateInv(key), late'[key] = late[key],
         Off(key) => Off(key)' /\ MaySend(key)' \subseteq MaySend(key)
  PROVE  LateInv(key)'
<1>1. late[key] \in Nat  BY DEF TypeOK
<1>2. /\ Cardinality(MaySend(key)) \in Nat /\ IsFiniteSet(MaySend(key))
      /\ Cardinality(MaySend(key)) <= Cardinality(Worker)
      /\ Cardinality(Worker) \in Nat
  BY MaySendSize
<1>3. MaySend(key)' \subseteq Worker  BY DEF MaySend
<1>4. /\ Cardinality(MaySend(key)') \in Nat
      /\ Cardinality(MaySend(key)') <= Cardinality(Worker)
  BY <1>3, WorkerAssumption, FS_Subset, FS_CardinalityType
<1>5. CASE Off(key)
  <2>1. Cardinality(MaySend(key)') <= Cardinality(MaySend(key))
    BY <1>2, <1>5, FS_Subset
  <2> QED  BY <1>1, <1>2, <1>4, <1>5, <2>1 DEF LateInv
<1>6. CASE ~Off(key)
  BY <1>1, <1>2, <1>4, <1>6 DEF LateInv
<1> QED  BY <1>5, <1>6

\* A step of one worker after which it may send only if it might before.
LEMMA WorkerKept ==
  ASSUME NEW key \in SequenceKey, NEW w \in Worker, UNCHANGED suppressed,
         \A v \in Worker : v # w =>
           pc'[v] = pc[v] /\ at'[v] = at[v] /\ seen'[v] = seen[v],
         w \in MaySend(key)' => w \in MaySend(key)
  PROVE  MaySend(key)' \subseteq MaySend(key)
<1>1. ASSUME NEW v \in Worker, v # w, v \in MaySend(key)' PROVE v \in MaySend(key)
  BY <1>1 DEF MaySend, OffFor
<1> QED  BY <1>1 DEF MaySend

\* A save after which the sequence is on starts the count again.
LEMMA LateStored ==
  ASSUME TypeOK, NEW key \in SequenceKey, LateInv(key), NEW f \in File, Store(f),
         UNCHANGED <<suppressed, workerVars>>
  PROVE  LateInv(key)'
<1>1. MaySend(key)' = MaySend(key)
  BY DEF fileVars, MaySend, OffFor, workerVars
<1>2. /\ Off(key)' <=> OffFor(f, key)
      /\ late'[key] = IF OffFor(f, key) THEN late[key] ELSE 0
  BY DEF Store, Off, OffFor
<1>3. /\ Cardinality(MaySend(key)) \in Nat /\ Cardinality(Worker) \in Nat
      /\ Cardinality(MaySend(key)) <= Cardinality(Worker)
  BY MaySendSize
<1>4. late[key] \in Nat  BY DEF TypeOK
<1> QED  BY <1>1, <1>2, <1>3, <1>4 DEF LateInv

\* What a worker's step does to the attempts that may still send.
LEMMA WorkLate ==
  ASSUME TypeOK, NEW key \in SequenceKey, LateInv(key),
         NEW w \in Worker, Work(w) \/ WorkerDies(w) \/ LockLapses(w)
  PROVE  LateInv(key)'
<1>1. UNCHANGED <<fileVars, suppressed>>
  BY DEF Work, WorkerDies, LockLapses, Stall, Take, Read, Check, CancelStep, Prepare, Withhold,
         Deliver, Record, Failing
<1>2. Off(key)' = Off(key)  BY <1>1 DEF Off, OffFor, fileVars
<1>3. \A v \in Worker : v # w =>
        pc'[v] = pc[v] /\ at'[v] = at[v] /\ seen'[v] = seen[v]
  BY DEF Work, WorkerDies, LockLapses, Stall, Take, Read, Check, CancelStep, Prepare, Withhold,
         Deliver, Record, Failing, Breaks, Throw, Complete, Leave, Goto, TypeOK
<1>4. CASE Leave(w) /\ UNCHANGED late
  <2>1. w \notin MaySend(key)'
    BY <1>4 DEF Leave, MaySend, TypeOK
  <2> QED  BY <1>1, <1>2, <1>3, <1>4, <2>1, WorkerKept, LateKept
<1>5. CASE Take(w)
  <2>1. pc'[w] = "read"  BY <1>5 DEF Take, TypeOK
  <2>2. w \notin MaySend(key)'  BY <2>1 DEF MaySend
  <2> QED  BY <1>1, <1>2, <1>3, <1>5, <2>2, WorkerKept, LateKept DEF Take
<1>6. CASE Read(w) /\ ~Leave(w)
  <2>1. /\ pc'[w] = "check" /\ seen'[w] = file /\ UNCHANGED late
    BY <1>6 DEF Read, Breaks, Throw, TypeOK
  <2>2. Off(key) => w \notin MaySend(key)'
    BY <1>1, <2>1 DEF Off, OffFor, MaySend, fileVars
  <2>3. Off(key) => MaySend(key)' \subseteq MaySend(key)
    BY <1>1, <1>3, <2>2, WorkerKept
  <2> QED  BY <1>2, <2>1, <2>3, LateKept
<1>7. CASE Check(w) /\ ~Leave(w)
  <2>1. /\ pc[w] = "check" /\ at'[w] = at[w] /\ seen'[w] = seen[w]
        /\ UNCHANGED late
        /\ pc'[w] = IF OffFor(seen[w], SequenceOf(at[w]))
                    THEN "cancel" ELSE "prepare"
    BY <1>7 DEF Check, Breaks, Throw, Goto, TypeOK
  <2>2. w \in MaySend(key)' => w \in MaySend(key)
    BY <2>1 DEF MaySend
  <2> QED  BY <1>1, <1>2, <1>3, <2>1, <2>2, WorkerKept, LateKept
<1>8. CASE Prepare(w) /\ ~Leave(w)
  <2>1. /\ pc[w] = "prepare" /\ at'[w] = at[w] /\ UNCHANGED late
    BY <1>8 DEF Prepare, Breaks, Throw, Goto
  <2>2. w \in MaySend(key)' => w \in MaySend(key)
    BY <2>1 DEF MaySend
  <2> QED  BY <1>1, <1>2, <1>3, <2>1, <2>2, WorkerKept, LateKept
<1>9. CASE (Withhold(w) \/ Record(w)) /\ ~Leave(w)
  <2>1. pc'[w] = "failing" /\ UNCHANGED late
    BY <1>9 DEF Withhold, Record, Complete, Goto, TypeOK
  <2>2. w \notin MaySend(key)'  BY <2>1 DEF MaySend
  <2> QED  BY <1>1, <1>2, <1>3, <2>1, <2>2, WorkerKept, LateKept
<1>10. CASE Deliver(w)
  <2>1. pc[w] = "send" /\ at[w] \in Step  BY <1>10, AtStep DEF Deliver
  <2>2. pc'[w] \in {"record", "failing"}  BY <1>10 DEF Deliver, Goto, TypeOK
  <2>3. w \notin MaySend(key)'  BY <2>2 DEF MaySend
  <2>4. MaySend(key)' \subseteq MaySend(key)
    BY <1>1, <1>3, <2>3, WorkerKept
  <2>5. CASE late'[key] = late[key]
    BY <1>2, <2>4, <2>5, LateKept
  <2>6. CASE late'[key] # late[key]
    <3>1. /\ SequenceOf(at[w]) = key /\ Off(key)
          /\ late'[key] = late[key] + 1
      BY <1>10, <2>6 DEF Deliver, Off, TypeOK
    <3>2. w \in MaySend(key)  BY <2>1, <3>1 DEF MaySend
    <3>3. MaySend(key)' \subseteq MaySend(key) \ {w}  BY <2>3, <2>4
    <3>4. /\ IsFiniteSet(MaySend(key)) /\ Cardinality(MaySend(key)) \in Nat
          /\ Cardinality(Worker) \in Nat
      BY MaySendSize
    <3>5. /\ IsFiniteSet(MaySend(key) \ {w})
          /\ Cardinality(MaySend(key) \ {w}) = Cardinality(MaySend(key)) - 1
      BY <3>2, <3>4, FS_RemoveElement
    <3>6. /\ Cardinality(MaySend(key)') <= Cardinality(MaySend(key)) - 1
          /\ Cardinality(MaySend(key)') \in Nat
      BY <3>3, <3>5, FS_Subset, FS_CardinalityType
    <3> QED
      BY <1>2, <3>1, <3>4, <3>6 DEF LateInv, TypeOK
  <2> QED  BY <2>5, <2>6
<1>11. CASE WorkerDies(w) \/ CancelStep(w) \/ Failing(w)
  <2>1. Leave(w) /\ UNCHANGED late
    BY <1>11 DEF WorkerDies, Stall, CancelStep, Failing, Breaks, Throw, Complete
  <2> QED  BY <2>1, <1>4
<1>12. CASE Read(w) \/ Check(w) \/ Prepare(w) \/ Withhold(w) \/ Record(w)
  <2>1. UNCHANGED late
    BY <1>12 DEF Read, Check, Prepare, Withhold, Record
  <2>2. CASE Leave(w)  BY <2>1, <2>2, <1>4
  <2>3. CASE ~Leave(w)  BY <2>3, <1>6, <1>7, <1>8, <1>9, <1>12
  <2> QED  BY <2>2, <2>3
<1>13. CASE LockLapses(w)
  <2>1. UNCHANGED <<pc, at, seen, late>>  BY <1>13 DEF LockLapses, Stall
  <2>2. w \in MaySend(key)' => w \in MaySend(key)
    BY <1>1, <2>1 DEF MaySend, OffFor
  <2> QED  BY <1>1, <1>2, <1>3, <2>1, <2>2, WorkerKept, LateKept
<1> QED  BY <1>5, <1>10, <1>11, <1>12, <1>13 DEF Work

LEMMA LateStep ==
  ASSUME TypeOK, [Next]_vars, NEW key \in SequenceKey, LateInv(key)
  PROVE  LateInv(key)'
<1>1. CASE UNCHANGED <<file, suppressed, workerVars, late>>
  BY <1>1 DEF fileVars, LateInv, Off, OffFor, MaySend, workerVars
<1>2. CASE Plan \/ PlannerDies
  BY <1>1, <1>2 DEF Plan, Persist, Enqueue, PlannerDies, fileVars
<1>3. ASSUME NEW m \in Mover, TearDown(m) \/ MoverDies(m) PROVE LateInv(key)'
  BY <1>1, <1>3 DEF TearDown, CancelRows, RemoveJob, MoverDies, fileVars
<1>4. ASSUME NEW m \in Mover,
             Transition(m) \/ MarkAsCalledIn(m) \/ RecordBankVerified(m)
      PROVE  LateInv(key)'
  BY <1>4, MoverMoves, LateStored DEF Move
<1>7. CASE EarlySave \/ EditEmail
  BY <1>7, SaveTyped, LateStored
<1>5. CASE Suppress
  <2>1. /\ suppressed \subseteq suppressed'
        /\ UNCHANGED <<file, workerVars, late>>
    BY <1>5 DEF Suppress, fileVars
  <2>2. Off(key) => Off(key)'  BY <2>1 DEF Off, OffFor, evaluateCancellation
  <2>3. MaySend(key)' \subseteq MaySend(key)
    BY <2>1 DEF fileVars, MaySend, workerVars, OffFor, evaluateCancellation
  <2> QED  BY <2>1, <2>2, <2>3, LateKept
<1>6. CASE UNCHANGED vars
  BY <1>1, <1>6 DEF vars, fileVars
<1> QED
  BY <1>2, <1>3, <1>4, <1>5, <1>6, <1>7, WorkLate DEF Next

\* Whatever fails, however often jobs are retried and however handlers overwrite
\* each other, each worker sends at most one reminder of a sequence while it is
\* called off.
THEOREM LateMails == Spec => []LateMailsBounded
<1> DEFINE Inv == TypeOK /\ \A key \in SequenceKey : LateInv(key)
<1>1. Init => Inv
  <2> SUFFICES ASSUME Init, NEW key \in SequenceKey PROVE LateInv(key)
    BY InitTyped
  <2>1. late[key] = 0  BY DEF Init
  <2>2. /\ Cardinality(MaySend(key)) \in Nat /\ Cardinality(Worker) \in Nat
        /\ Cardinality(MaySend(key)) <= Cardinality(Worker)
    BY MaySendSize
  <2> QED  BY <2>1, <2>2 DEF LateInv
<1>2. Inv /\ [Next]_vars => Inv'
  BY StepTyped, LateStep
<1>3. Inv => LateMailsBounded
  <2> SUFFICES ASSUME Inv, NEW key \in SequenceKey
               PROVE  late[key] <= Cardinality(Worker)
    BY DEF LateMailsBounded
  <2>1. late[key] \in Nat  BY DEF TypeOK
  <2> QED  BY <2>1, MaySendSize DEF LateInv
<1> QED  BY <1>1, <1>2, <1>3, PTL DEF Spec

-----------------------------------------------------------------------------
(* Rows and mails *)

\* What a step without a mishap of its own has come to.
Tells(s) ==
  s \notin mishap =>
    /\ step[s] = "unplanned" => s \in toPersist
    /\ job[s] # "active" => mails[s] = IF step[s] = "sent" THEN 1 ELSE 0
    /\ job[s] \in {"not_added", "waiting"} => step[s] # "sent"
    /\ \A w \in Worker : at[w] = s =>
         /\ step[s] # "sent"
         /\ mails[s] = IF pc[w] = "record" THEN 1 ELSE 0

PlanInv == /\ toPersist \subseteq toEnqueue
           /\ \A s \in toPersist : step[s] = "unplanned"

TellInv == LockInv /\ PlanInv /\ \A s \in Step : Tells(s)

\* A step that nobody moves on.
LEMMA TellsKept ==
  ASSUME TypeOK, NEW s \in Step, Tells(s), mishap \subseteq mishap',
         job'[s] = job[s], mails'[s] = mails[s],
         \/ step'[s] = step[s]
         \/ step[s] = "scheduled" /\ step'[s] = "cancelled",
         s \in toPersist => s \in toPersist',
         \A w \in Worker : at'[w] = s =>
           at[w] = s /\ (pc'[w] = "record" <=> pc[w] = "record")
  PROVE  Tells(s)'
  BY DEF Tells

LEMMA PlanKept ==
  ASSUME PlanInv, UNCHANGED planVars,
         \A s \in Step : step[s] = "unplanned" => step'[s] = "unplanned",
         TypeOK
  PROVE  PlanInv'
  BY DEF PlanInv, planVars, TypeOK

LEMMA PlanTells ==
  ASSUME TellInv, Plan \/ PlannerDies
  PROVE  PlanInv' /\ \A s \in Step : Tells(s)'
<1>t. TypeOK  BY DEF TellInv, LockInv
<1>1. ASSUME NEW t \in Step, Persist(t)
      PROVE  PlanInv' /\ \A s \in Step : Tells(s)'
  <2>1. /\ toPersist' = toPersist \ {t} /\ t \in toPersist
        /\ UNCHANGED <<job, tries, toEnqueue, workerVars, mails>>
        /\ \/ step' = [step EXCEPT ![t] = "scheduled"] /\ mishap' = mishap
           \/ mishap' = mishap \cup {t} /\ step' = step
    BY <1>1 DEF Persist
  <2>2. PlanInv'  BY <1>t, <2>1 DEF TellInv, PlanInv, TypeOK
  <2>3. \A s \in Step \ {t} : Tells(s)'
    BY <1>t, <2>1, TellsKept DEF TellInv, TypeOK, workerVars
  <2>4. job[t] = "not_added" /\ \A w \in Worker : at[w] # t
    BY <1>t, <2>1, NoStepIsNone DEF TellInv, PlanInv, LockInv, TypeOK
  <2>5. Tells(t)'
    BY <1>t, <2>1, <2>4 DEF TellInv, PlanInv, Tells, TypeOK, workerVars
  <2> QED  BY <2>2, <2>3, <2>5
<1>2. ASSUME NEW t \in Step, Enqueue(t)
      PROVE  PlanInv' /\ \A s \in Step : Tells(s)'
  <2>1. /\ toPersist = {} /\ toPersist' = {} /\ t \in toEnqueue
        /\ UNCHANGED <<step, workerVars, mails>>
        /\ \/ job' = [job EXCEPT ![t] = "waiting"] /\ mishap' = mishap
           \/ mishap' = mishap \cup {t} /\ job' = job
    BY <1>2 DEF Enqueue
  <2>2. PlanInv'  BY <2>1 DEF PlanInv
  <2>3. \A s \in Step \ {t} : Tells(s)'
    BY <1>t, <2>1, TellsKept DEF TellInv, TypeOK, workerVars
  <2>4. job[t] = "not_added"  BY <2>1 DEF TellInv, LockInv
  <2>5. Tells(t)'
    BY <1>t, <2>1, <2>4 DEF TellInv, Tells, TypeOK, workerVars
  <2> QED  BY <2>2, <2>3, <2>5
<1>3. CASE PlannerDies
  <2>1. /\ toPersist' = {} /\ mishap' = mishap \cup toEnqueue
        /\ UNCHANGED <<step, job, workerVars, mails>>
    BY <1>3 DEF PlannerDies, queueVars
  <2> QED
    BY <2>1 DEF TellInv, PlanInv, Tells, workerVars
<1> QED  BY <1>1, <1>2, <1>3 DEF Plan

LEMMA HandlerTells ==
  ASSUME TellInv, NEW m \in Mover, TearDown(m) \/ MoverDies(m)
  PROVE  PlanInv' /\ \A s \in Step : Tells(s)'
<1>t. TypeOK  BY DEF TellInv, LockInv
<1>1. UNCHANGED <<planVars, workerVars, mails>> /\ mishap \subseteq mishap'
  BY DEF TearDown, CancelRows, RemoveJob, MoverDies
<1>2. \A s \in Step : \/ step'[s] = step[s]
                      \/ step[s] = "scheduled" /\ step'[s] = "cancelled"
  <2>1. CASE CancelRows(m)  BY <2>1, <1>t DEF CancelRows, TypeOK
  <2>2. CASE RemoveJob(m) \/ MoverDies(m)
    BY <2>2 DEF RemoveJob, MoverDies, queueVars
  <2> QED  BY <2>1, <2>2 DEF TearDown
<1>3. PlanInv'  BY <1>t, <1>1, <1>2, PlanKept DEF TellInv
<1>4. \A s \in Step : \/ job'[s] = job[s]
                      \/ /\ job[s] = "waiting" /\ job'[s] = "gone"
                         /\ step' = step
  BY <1>t DEF TearDown, CancelRows, RemoveJob, MoverDies, queueVars, TypeOK
<1>5. ASSUME NEW s \in Step  PROVE Tells(s)'
  <2>1. Tells(s)  BY DEF TellInv
  <2>2. CASE job'[s] = job[s]
    BY <1>t, <1>1, <1>2, <2>1, <2>2, TellsKept DEF planVars, workerVars
  <2>3. CASE job[s] = "waiting" /\ job'[s] = "gone" /\ step' = step
    BY <1>1, <2>1, <2>3 DEF Tells, planVars, workerVars
  <2> QED  BY <1>4, <2>2, <2>3
<1> QED  BY <1>3, <1>5

\* A worker's step touches no step but its own.
LEMMA WorkTouches ==
  ASSUME TypeOK, NEW w \in Worker, pc[w] # "idle",
         Work(w) \/ WorkerDies(w) \/ LockLapses(w)
  PROVE  /\ UNCHANGED planVars /\ mishap \subseteq mishap'
         /\ \A s \in Step \ {at[w]} :
              /\ step'[s] = step[s] /\ job'[s] = job[s] /\ mails'[s] = mails[s]
         /\ \A v \in Worker \ {w} : at'[v] = at[v] /\ pc'[v] = pc[v]
         /\ at'[w] \in {at[w], NoStep}
         /\ step[at[w]] = "unplanned" => step'[at[w]] = "unplanned"
<1>1. at[w] \in Step  BY AtStep
<1>2. UNCHANGED planVars /\ mishap \subseteq mishap'
  BY DEF Work, WorkerDies, LockLapses, Stall, Take, Read, Check, CancelStep, Prepare, Withhold,
         Deliver, Record, Failing, Breaks
<1>3. \A s \in Step \ {at[w]} : step'[s] = step[s] /\ mails'[s] = mails[s]
  BY <1>1 DEF Work, WorkerDies, LockLapses, Stall, Take, Read, Check, CancelStep, Prepare, Withhold,
         Deliver, Record, Failing, Breaks, Cancelled, Marked, queueVars, TypeOK
<1>4. \A s \in Step \ {at[w]} : job'[s] = job[s]
  BY <1>1 DEF Work, WorkerDies, LockLapses, Stall, Take, Read, Check, CancelStep, Prepare, Withhold,
         Deliver, Record, Failing, Breaks, Complete, Throw, Refused, Retry, Finish,
         queueVars, TypeOK
<1>5. /\ \A v \in Worker \ {w} : at'[v] = at[v] /\ pc'[v] = pc[v]
      /\ at'[w] \in {at[w], NoStep}
  BY DEF Work, WorkerDies, LockLapses, Stall, Take, Read, Check, CancelStep, Prepare, Withhold,
         Deliver, Record, Failing, Breaks, Complete, Throw, Leave, Goto, TypeOK
<1>6. step[at[w]] = "unplanned" => step'[at[w]] = "unplanned"
  BY <1>1 DEF Work, WorkerDies, LockLapses, Stall, Take, Read, Check, CancelStep, Prepare, Withhold,
         Deliver, Record, Failing, Breaks, Cancelled, Marked, queueVars, TypeOK
<1> QED  BY <1>2, <1>3, <1>4, <1>5, <1>6

\* The step a worker has in hand.
LEMMA OwnTells ==
  ASSUME TellInv, TypeOK', NEW w \in Worker, pc[w] # "idle",
         NEW s \in Step, s = at[w], Work(w) \/ WorkerDies(w) \/ LockLapses(w)
  PROVE  Tells(s)'
<1>t. TypeOK  BY DEF TellInv, LockInv
<1>1. s = at[w] /\ s \in Step  OBVIOUS
<1>3. /\ UNCHANGED planVars /\ mishap \subseteq mishap'
      /\ \A v \in Worker \ {w} : at'[v] = at[v] /\ pc'[v] = pc[v]
  BY <1>t, WorkTouches
<1> SUFFICES ASSUME s \notin mishap'  PROVE Tells(s)'
  BY DEF Tells
<1>2. /\ Tells(s) /\ job[s] = "active" /\ s \notin toPersist /\ w \notin lapsed
      /\ \A v \in Worker : at[v] = s => v = w
  <2>1. \A v \in Worker : at[v] = s => pc[v] # "idle" /\ v \notin lapsed
    BY <1>t, <1>3, NoStepIsNone DEF TellInv, LockInv, TypeOK
  <2>2. Holds(w) /\ \A v \in Worker : at[v] = s => Holds(v)
    BY <1>1, <2>1 DEF Holds
  <2>3. s \notin toPersist
    BY <1>1, <2>1 DEF TellInv, LockInv, PlanInv
  <2> QED  BY <1>1, <2>1, <2>2, <2>3 DEF TellInv, LockInv
<1>4. /\ step[s] \notin {"unplanned", "sent"} /\ s \notin mishap
      /\ mails[s] = IF pc[w] = "record" THEN 1 ELSE 0
  BY <1>1, <1>2, <1>3 DEF Tells
\* It goes on: a mail is sent only between "send" and "record".
<1>5. CASE /\ at'[w] = s /\ step'[s] = step[s] /\ job'[s] = "active"
           /\ mails'[s] = IF pc'[w] = "record" THEN 1 ELSE 0
  BY <1>1, <1>2, <1>3, <1>4, <1>5 DEF Tells
\* It lets go: the row is marked sent exactly when a mail was.
<1>6. CASE /\ at'[w] = NoStep /\ job'[s] \in {"waiting", "gone"}
           /\ mails'[s] = mails[s] /\ step'[s] # "unplanned"
           /\ IF pc[w] = "record" THEN job'[s] = "gone" /\ step'[s] = "sent"
              ELSE step'[s] # "sent"
  <2>1. \A v \in Worker : at'[v] # s
    BY <1>1, <1>2, <1>3, <1>6, NoStepIsNone
  <2> QED  BY <1>2, <1>4, <1>6, <2>1 DEF Tells
<1> USE <1>1, <1>2, <1>4, <1>t
<1>7. CASE Take(w)  BY <1>7 DEF Take
<1>8. ASSUME Breaks(w)  PROVE FALSE  BY <1>8 DEF Breaks
<1>9. ASSUME mishap' = mishap \cup {at[w]}  PROVE FALSE  BY <1>9
<1>10. CASE Read(w)
  <2>1. /\ at' = at /\ UNCHANGED <<step, job, mails>>
        /\ pc'[w] = "check" /\ pc[w] = "read"
    BY <1>8, <1>10 DEF Read, queueVars, TypeOK
  <2> QED  BY <1>5, <2>1
<1>11. CASE Check(w) \/ Prepare(w)
  <2>1. /\ at' = at /\ UNCHANGED <<step, job, mails>>
        /\ pc'[w] # "record" /\ pc[w] # "record"
    BY <1>8, <1>9, <1>11 DEF Check, Prepare, Goto, queueVars, TypeOK
  <2> QED  BY <1>5, <2>1
<1>12. CASE CancelStep(w) \/ Withhold(w)
  <2>1. /\ step' = Cancelled(s) /\ Complete(w) /\ mails' = mails
        /\ pc[w] # "record"
    BY <1>8, <1>9, <1>12 DEF CancelStep, Withhold
  <2>2. step'[s] \notin {"sent", "unplanned"}  BY <2>1 DEF Cancelled, TypeOK
  <2>3. job'[s] = "gone" /\ at'[w] = NoStep
    BY <2>1 DEF Complete, Refused, Finish, Leave, TypeOK
  <2> QED  BY <1>6, <2>1, <2>2, <2>3
<1>13. CASE Deliver(w)
  <2>1. /\ at' = at /\ UNCHANGED <<step, job>> /\ pc[w] = "send"
        /\ \/ mails'[s] = mails[s] + 1 /\ pc'[w] = "record"
           \/ mails'[s] = mails[s] /\ pc'[w] = "failing"
    BY <1>9, <1>13 DEF Deliver, Goto, queueVars, TypeOK
  <2> QED  BY <1>5, <2>1
<1>14. CASE Record(w)
  <2>1. /\ step' = Marked(s, "sent") /\ Complete(w) /\ mails' = mails
        /\ pc[w] = "record"
    BY <1>9, <1>14 DEF Record
  <2>2. step'[s] = "sent"  BY <2>1 DEF Marked, TypeOK
  <2>3. job'[s] = "gone" /\ at'[w] = NoStep
    BY <2>1 DEF Complete, Refused, Finish, Leave, TypeOK
  <2> QED  BY <1>6, <2>1, <2>2, <2>3
<1>15. CASE Failing(w)
  <2>1. /\ Throw(w) /\ mails' = mails /\ pc[w] = "failing"
        /\ step' = step \/ step' = Marked(s, "failed")
    BY <1>15 DEF Failing
  <2>2. step'[s] \notin {"sent", "unplanned"}  BY <2>1 DEF Marked, TypeOK
  <2>3. job'[s] \in {"waiting", "gone"} /\ at'[w] = NoStep
    BY <2>1 DEF Throw, Refused, Retry, Finish, Leave, TypeOK
  <2> QED  BY <1>6, <2>1, <2>2, <2>3
<1>16. CASE WorkerDies(w) \/ LockLapses(w)
  BY <1>9, <1>16 DEF WorkerDies, LockLapses, Stall, Refused
<1> QED
  BY <1>7, <1>10, <1>11, <1>12, <1>13, <1>14, <1>15, <1>16 DEF Work

LEMMA WorkTells ==
  ASSUME TellInv, TypeOK', NEW w \in Worker,
         Work(w) \/ WorkerDies(w) \/ LockLapses(w)
  PROVE  PlanInv' /\ \A s \in Step : Tells(s)'
<1>t. TypeOK  BY DEF TellInv, LockInv
<1>1. CASE pc[w] = "idle"
  <2>1. Take(w)
    BY <1>1 DEF Work, WorkerDies, LockLapses, Read, Check, CancelStep, Prepare, Withhold,
       Deliver, Record, Failing
  <2>2. PICK t \in Step : /\ job[t] = "waiting"
                          /\ job' = [job EXCEPT ![t] = "active"]
                          /\ at' = [at EXCEPT ![w] = t]
    BY <2>1 DEF Take
  <2>3. /\ UNCHANGED <<planVars, step, mails, mishap>>
        /\ pc' = [pc EXCEPT ![w] = "read"]
    BY <2>1 DEF Take
  <2>4. PlanInv'  BY <1>t, <2>3, PlanKept DEF TellInv
  <2>5. \A s \in Step \ {t} : Tells(s)'
    BY <1>1, <1>t, <2>2, <2>3, TellsKept DEF TellInv, TypeOK, planVars
  <2>6. ASSUME t \notin mishap  PROVE Tells(t)'
    <3>1. ASSUME NEW v \in Worker, at[v] = t  PROVE FALSE
      <4>1. pc[v] # "idle"  BY <1>t, <3>1, NoStepIsNone DEF TypeOK
      <4>2. v \notin lapsed  BY <2>6, <3>1 DEF TellInv, LockInv
      <4> QED  BY <2>2, <3>1, <4>1, <4>2 DEF TellInv, LockInv, Holds
    <3> QED  BY <1>t, <2>2, <2>3, <3>1 DEF TellInv, Tells, TypeOK, planVars
  <2>7. Tells(t)'  BY <2>3, <2>6 DEF Tells
  <2> QED  BY <2>4, <2>5, <2>7
<1>2. CASE pc[w] # "idle"
  <2>1. PICK t \in Step : t = at[w]  BY <1>t, <1>2, AtStep
  <2>2. PlanInv'
    BY <1>2, <1>t, <2>1, WorkTouches, PlanKept DEF TellInv
  <2>3. \A v \in Worker : at'[v] # at[v] => at'[v] = NoStep
    BY <1>2, <1>t, WorkTouches
  <2>4. ASSUME NEW s \in Step, s # t  PROVE Tells(s)'
    <3>1. \A v \in Worker : at'[v] = s => at[v] = s /\ pc'[v] = pc[v]
      BY <1>2, <1>t, <2>1, <2>3, <2>4, WorkTouches, NoStepIsNone
    <3> QED
      BY <1>2, <1>t, <2>1, <2>4, <3>1, WorkTouches, TellsKept
      DEF TellInv, planVars
  <2>5. Tells(t)'  BY <1>2, <2>1, OwnTells
  <2> QED  BY <2>2, <2>4, <2>5
<1> QED  BY <1>1, <1>2

LEMMA TellStep == TellInv /\ [Next]_vars => TellInv'
<1> SUFFICES ASSUME TellInv, [Next]_vars PROVE TellInv'  OBVIOUS
<1>r. LockInv'  BY LockStep DEF TellInv
<1>t. TypeOK /\ TypeOK'  BY <1>r DEF TellInv, LockInv
<1>1. CASE Plan \/ PlannerDies  BY <1>1, <1>r, PlanTells DEF TellInv
<1>2. ASSUME NEW m \in Mover, TearDown(m) \/ MoverDies(m)  PROVE TellInv'
  BY <1>2, <1>r, HandlerTells DEF TellInv
<1>3. ASSUME NEW w \in Worker, Work(w) \/ WorkerDies(w) \/ LockLapses(w)
      PROVE  TellInv'
  BY <1>3, <1>r, <1>t, WorkTells DEF TellInv
<1>4. ASSUME UNCHANGED <<queueVars, planVars, workerVars, mails, mishap>>
      PROVE  TellInv'
  BY <1>4, <1>r DEF TellInv, PlanInv, Tells, queueVars, planVars, workerVars
<1>5. ASSUME NEW m \in Mover,
             Transition(m) \/ MarkAsCalledIn(m) \/ RecordBankVerified(m)
      PROVE  TellInv'
  BY <1>4, <1>5, <1>t, MoverMoves DEF Move
<1>6. CASE EarlySave \/ EditEmail  BY <1>4, <1>6, <1>t, SaveTyped
<1>7. CASE Suppress \/ UNCHANGED vars  BY <1>4, <1>7 DEF Suppress, vars
<1> QED
  BY <1>1, <1>2, <1>3, <1>5, <1>6, <1>7 DEF Next

\* The row of a step that met no mishap says whether its mail went out, however
\* its teardown and its worker interleave.
THEOREM RowsTell == Spec => []RowTellsMail
<1>1. Init => TellInv
  <2> SUFFICES ASSUME Init PROVE TellInv  OBVIOUS
  <2>1. LockInv  BY LockInit
  <2> QED
    BY <2>1, NoStepIsNone DEF Init, TellInv, PlanInv, Tells
<1>2. TellInv => RowTellsMail  BY DEF TellInv, Tells, RowTellsMail
<1> QED  BY <1>1, <1>2, TellStep, PTL DEF Spec
=============================================================================
